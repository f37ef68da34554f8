-------------------------- MODULE CaseAnalysisProofs --------------------------
(***************************************************************************)
(* Proofs about CaseAnalysis.                                               *)
(***************************************************************************)
EXTENDS CaseAnalysis, TLAPS, FiniteSetTheorems, SequenceTheorems

-------------------------------------------------------------------------------
(* Request threads *)

(* A thread at work has a message; it has named no more speakers than it    *)
(* prepared messages, and it prepares each message once.                    *)
ThreadOK(c) ==
  LET p == prep[c] IN
  /\ p.remaining \subseteq DOMAIN Raw[c]
  /\ p.pc \in {"loading", "redact"} => p.current \in p.remaining
  /\ Len(p.speaker_map) <= Len(p.prepared)
  /\ Len(p.prepared) + Cardinality(p.remaining) = Len(Raw[c])

(* What is known of the types of the preprocessing.                         *)
PrepInv ==
  /\ conversations \in [Cases -> {None} \cup Conversation(LocalSpeakerIds)]
  /\ PrepTypeOK
  /\ \A c \in Cases : ThreadOK(c)

(* The assumptions on the submitted messages, one at a time.                *)
LEMMA RawTypes ==
  ASSUME NEW c \in Cases
  PROVE  /\ Raw[c] \in Seq(RawMessage)
         /\ DOMAIN Raw[c] = 1..Len(Raw[c])
         /\ DOMAIN Raw[c] \in SUBSET Nat
         /\ Len(Raw[c]) \in Nat \ {0}
         /\ IsFiniteSet(DOMAIN Raw[c])
         /\ Cardinality(DOMAIN Raw[c]) = Len(Raw[c])
<1>1. Raw[c] \in Seq(RawMessage) /\ Raw[c] # << >>
  BY PreparationAssumption
<1>2. DOMAIN Raw[c] = 1..Len(Raw[c]) /\ Len(Raw[c]) \in Nat \ {0}
  BY <1>1
<1>3. 1..Len(Raw[c]) \in SUBSET Nat
  OBVIOUS
<1>4. QED
  BY <1>1, <1>2, <1>3, FS_Interval

(* What redact_text finds are spans.                                        *)
LEMMA FoundAreSpans ==
  ASSUME NEW c \in Cases, NEW i \in DOMAIN Raw[c]
  PROVE  Raw[c][i].spans \in SUBSET Spans
<1>1. Raw[c][i] \in RawMessage
  BY RawTypes
<1>2. QED
  BY <1>1 DEF RawMessage

(* The threads' types hold initially.                                       *)
LEMMA PrepInvInit == Init => PrepInv
<1> SUFFICES ASSUME Init PROVE PrepInv
  OBVIOUS
<1>1. PrepTypeOK
  <2>1. \A c \in Cases : DOMAIN Raw[c] \in SUBSET Nat
    BY RawTypes
  <2>2. << >> \in Seq(Prepared) /\ << >> \in Seq(STRING)
    OBVIOUS
  <2>3. {} \in SUBSET Spans /\ -1 \in Int
    OBVIOUS
  <2>4. QED
    BY <2>1, <2>2, <2>3 DEF Init, PrepInit, PrepTypeOK, Threads
<1>2. ASSUME NEW c \in Cases PROVE ThreadOK(c)
  BY RawTypes DEF Init, PrepInit, ThreadOK
<1>3. QED
  BY <1>1, <1>2 DEF Init, PrepInv

(* A step of a thread that leaves its messages as they are and, while it    *)
(* works, has one of them.                                                  *)
LEMMA ThreadStep ==
  ASSUME PrepInv, NEW c \in Cases,
         prep' \in [Cases -> Threads],
         \A d \in Cases \ {c} : prep'[d] = prep[d],
         prep'[c].remaining = prep[c].remaining,
         prep'[c].prepared = prep[c].prepared,
         prep'[c].speaker_map = prep[c].speaker_map,
         prep'[c].pc \in {"loading", "redact"} => prep'[c].current \in prep[c].remaining
  PROVE  \A d \in Cases : ThreadOK(d)'
BY DEF PrepInv, PrepTypeOK, Threads, ThreadOK

LEMMA RedactKeepsInv ==
  ASSUME PrepInv, NEW c \in Cases, NEW i \in prep[c].remaining,
         NEW available \in BOOLEAN, Redact(c, i, available)
  PROVE  /\ prep' \in [Cases -> Threads]
         /\ \A d \in Cases : ThreadOK(d)'
<1>1. i \in DOMAIN Raw[c] /\ i \in Nat
  BY RawTypes DEF PrepInv, ThreadOK
<1> DEFINE found == {s \in Raw[c][i].spans : IsRegex(s) \/ available}
<1>2. found \in SUBSET Spans
  BY <1>1, FoundAreSpans
<1>3. {} \in SUBSET Spans /\ -1 \in Int
  OBVIOUS
<1> DEFINE t == [prep[c] EXCEPT !.pc = "redact", !.current = i, !.ner = available,
                   !.spans = found, !.selected = {}, !.last_end = -1]
<1>4. prep' = [prep EXCEPT ![c] = t]
  BY DEF Redact
<1> HIDE DEF found
<1>5. t \in Threads
  BY <1>1, <1>2, <1>3 DEF PrepInv, PrepTypeOK, Threads
<1>6. QED
  BY <1>1, <1>4, <1>5, ThreadStep DEF PrepInv, PrepTypeOK, Threads

LEMMA GetNerPipelineKeepsInv ==
  ASSUME PrepInv, NEW c \in Cases, GetNerPipeline(c)
  PROVE  PrepInv'
<1>1. PICK i \in prep[c].remaining :
        IF ner_pipeline \/ ner_load_failed
        THEN Redact(c, i, ner_pipeline)
        ELSE prep' = [prep EXCEPT ![c].pc = "loading", ![c].current = i]
  BY DEF GetNerPipeline
<1>2. ner_pipeline \in BOOLEAN /\ UNCHANGED <<ner_pipeline, ner_load_failed, conversations>>
  BY DEF GetNerPipeline, PrepInv, PrepTypeOK
<1>3. prep' \in [Cases -> Threads] /\ \A d \in Cases : ThreadOK(d)'
  <2>1. CASE Redact(c, i, ner_pipeline)
    BY <1>2, <2>1, RedactKeepsInv
  <2>2. CASE prep' = [prep EXCEPT ![c].pc = "loading", ![c].current = i]
    <3>1. i \in Nat
      BY DEF PrepInv, PrepTypeOK, Threads
    <3>2. prep' \in [Cases -> Threads]
      BY <2>2, <3>1, ZenonT(40) DEF PrepInv, PrepTypeOK, Threads
    <3>3. QED
      BY <2>2, <3>1, <3>2, ThreadStep DEF PrepInv, PrepTypeOK, Threads
  <2>3. QED
    BY <1>1, <2>1, <2>2
<1>4. QED
  BY <1>2, <1>3 DEF PrepInv, PrepTypeOK

LEMMA LoadKeepsInv ==
  ASSUME PrepInv, NEW c \in Cases, LoadSucceeds(c) \/ LoadFails(c)
  PROVE  PrepInv'
<1>1. PICK available \in BOOLEAN : Redact(c, prep[c].current, available)
  BY DEF LoadSucceeds, LoadFails, PrepInv, PrepTypeOK
<1>2. prep[c].current \in prep[c].remaining
  BY DEF LoadSucceeds, LoadFails, PrepInv, ThreadOK
<1>3. prep' \in [Cases -> Threads] /\ \A d \in Cases : ThreadOK(d)'
  BY <1>1, <1>2, RedactKeepsInv
<1>4. QED
  BY <1>3 DEF LoadSucceeds, LoadFails, PrepInv, PrepTypeOK

LEMMA TakeSpanKeepsInv ==
  ASSUME PrepInv, NEW c \in Cases, TakeSpan(c)
  PROVE  PrepInv'
<1>1. PICK s \in prep[c].spans : prep' = [prep EXCEPT ![c] = Select(prep[c], s)]
  BY DEF TakeSpan
<1>2. prep[c] \in Threads /\ prep[c].spans \in SUBSET Spans /\ prep[c].selected \in SUBSET Spans
  BY DEF PrepInv, PrepTypeOK, Threads
<1>3. s \in Spans /\ s.end \in Int
  BY <1>2 DEF Spans
<1> DEFINE t == Select(prep[c], s)
<1>4. /\ t \in Threads
      /\ t.remaining = prep[c].remaining
      /\ t.prepared = prep[c].prepared
      /\ t.speaker_map = prep[c].speaker_map
      /\ t.current = prep[c].current
  BY <1>2, <1>3 DEF Select, Threads
<1> HIDE DEF t
<1>5. prep' \in [Cases -> Threads] /\ prep'[c] = t
  BY <1>1, <1>4 DEF t, PrepInv, PrepTypeOK
<1>6. prep[c].current \in prep[c].remaining
  BY DEF TakeSpan, PrepInv, ThreadOK
<1>7. \A d \in Cases : ThreadOK(d)'
  BY <1>1, <1>4, <1>5, <1>6, ThreadStep DEF t, PrepInv, PrepTypeOK
<1>8. QED
  BY <1>5, <1>7 DEF TakeSpan, PrepInv, PrepTypeOK

(* Threads begin, commit and fail without touching their messages.          *)
LEMMA MoveKeepsThreads ==
  ASSUME PrepInv, NEW c \in Cases, NEW pc \in {"message", "committed", "refused"},
         prep' = [prep EXCEPT ![c].pc = pc]
  PROVE  prep' \in [Cases -> Threads] /\ \A d \in Cases : ThreadOK(d)'
<1>1. prep' \in [Cases -> Threads]
  BY ZenonT(40) DEF PrepInv, PrepTypeOK, Threads
<1>2. QED
  BY <1>1, ThreadStep DEF PrepInv, PrepTypeOK, Threads

(* What submit_case stores is a conversation.                               *)
LEMMA PreparedConversation ==
  ASSUME PrepTypeOK, NEW c \in Cases
  PROVE  [messages    |-> [i \in DOMAIN prep[c].prepared |-> prep[c].prepared[i].row],
          limitations |-> DataLimitations(c)] \in Conversation(LocalSpeakerIds)
<1> DEFINE rows == [i \in DOMAIN prep[c].prepared |-> prep[c].prepared[i].row]
<1>1. rows \in Seq(CaseMessage(LocalSpeakerIds))
  <2>1. prep[c].prepared \in Seq(Prepared)
    BY DEF PrepTypeOK, Threads
  <2>2. \A i \in DOMAIN prep[c].prepared :
          prep[c].prepared[i].row \in CaseMessage(LocalSpeakerIds)
    <3>1. \A i \in DOMAIN prep[c].prepared : prep[c].prepared[i] \in Prepared
      BY <2>1
    <3>2. QED
      BY <3>1 DEF Prepared
  <2>3. QED
    BY <2>1, <2>2
<1>2. DataLimitations(c) \in SUBSET PREPROCESSING_LIMITATIONS
  BY DEF DataLimitations, PREPROCESSING_LIMITATIONS
<1> HIDE DEF rows
<1>3. [messages |-> rows, limitations |-> DataLimitations(c)] \in Conversation(LocalSpeakerIds)
  BY <1>1, <1>2 DEF Conversation
<1>4. QED
  BY <1>3 DEF rows

LEMMA CommitKeepsInv ==
  ASSUME PrepInv, NEW c \in Cases, Commit(c)
  PROVE  PrepInv'
<1>1. prep' \in [Cases -> Threads] /\ \A d \in Cases : ThreadOK(d)'
  BY MoveKeepsThreads DEF Commit
<1>2. PICK conversation \in Conversation(LocalSpeakerIds) :
        conversations' = [conversations EXCEPT ![c] = conversation]
  BY PreparedConversation DEF Commit, PrepInv
<1>3. QED
  BY <1>1, <1>2 DEF Commit, PrepInv, PrepTypeOK

(* FinishMessage removes the current message from the remaining ones and    *)
(* appends it to the prepared ones; a pseudonym's index is at most the      *)
(* number of prepared messages.                                             *)
LEMMA FinishMessageKeepsInv ==
  ASSUME PrepInv, NEW c \in Cases, FinishMessage(c)
  PROVE  PrepInv'
<1> DEFINE p      == prep[c]
           m      == Raw[c][p.current]
           map    == IF Contains(p.speaker_map, m.speaker_external_id) THEN p.speaker_map
                     ELSE Append(p.speaker_map, m.speaker_external_id)
           index  == CHOOSE i \in DOMAIN map : map[i] = m.speaker_external_id
           row    == [speaker_local_id |-> LocalSpeakerId(index - 1),
                      redacted_content |-> RedactedContent(m, p.selected)]
           result == [index |-> p.current, selected |-> p.selected, ner |-> p.ner, row |-> row]
<1>1. /\ p \in Threads
      /\ p.current \in p.remaining
      /\ p.remaining \subseteq DOMAIN Raw[c]
      /\ Len(p.speaker_map) <= Len(p.prepared)
      /\ Len(p.prepared) + Cardinality(p.remaining) = Len(Raw[c])
  BY DEF FinishMessage, PrepInv, PrepTypeOK, ThreadOK
<1>2. m \in RawMessage /\ m.speaker_external_id \in STRING
  <2>1. m \in RawMessage
    BY <1>1, RawTypes
  <2>2. QED
    BY <2>1 DEF RawMessage
<1>3. /\ p.speaker_map \in Seq(STRING)
      /\ p.prepared \in Seq(Prepared)
      /\ p.current \in Nat
      /\ p.selected \in SUBSET Spans
      /\ p.ner \in BOOLEAN
      /\ p.remaining \in SUBSET Nat
  BY <1>1 DEF Threads
<1>4. /\ map \in Seq(STRING)
      /\ Len(map) <= Len(p.prepared) + 1
      /\ \E i \in 1..Len(map) : map[i] = m.speaker_external_id
  <2>1. CASE Contains(p.speaker_map, m.speaker_external_id)
    BY <1>1, <1>3, <2>1 DEF Contains
  <2>2. CASE ~Contains(p.speaker_map, m.speaker_external_id)
    <3>1. map = Append(p.speaker_map, m.speaker_external_id)
      BY <2>2
    <3>2. /\ map \in Seq(STRING)
          /\ Len(map) = Len(p.speaker_map) + 1
          /\ map[Len(p.speaker_map) + 1] = m.speaker_external_id
      <4> HIDE DEF map, m, p
      <4> QED BY <1>2, <1>3, <3>1, AppendProperties
    <3>3. Len(map) \in 1..Len(map) /\ map[Len(map)] = m.speaker_external_id
      <4> HIDE DEF map, m, p
      <4> QED BY <1>3, <3>2
    <3> HIDE DEF map, m
    <3>4. QED
      BY <1>1, <1>3, <3>2, <3>3
  <2> HIDE DEF map, m, p
  <2>3. QED
    BY <2>1, <2>2
<1>5. p.remaining \ {p.current} \in SUBSET Nat
      /\ Cardinality(p.remaining \ {p.current}) = Cardinality(p.remaining) - 1
      /\ Cardinality(p.remaining) \in Nat
  <2>1. IsFiniteSet(p.remaining)
    BY <1>1, RawTypes, FS_Subset
  <2>2. Cardinality(p.remaining) \in Nat
    BY <2>1, FS_CardinalityType
  <2>3. Cardinality(p.remaining \ {p.current}) = Cardinality(p.remaining) - 1
    BY <1>1, <2>1, FS_RemoveElement
  <2> HIDE DEF p
  <2>4. QED
    BY <1>3, <2>2, <2>3
<1>6. index - 1 \in 0..Len(Raw[c])
  <2>1. index \in 1..Len(map) /\ Len(map) \in Nat
    <3>1. DOMAIN map = 1..Len(map)
      BY <1>4
    <3> HIDE DEF map
    <3>2. QED
      BY <1>4, <3>1
  <2>2. Len(p.prepared) + 1 <= Len(Raw[c])
    <3>1. Cardinality(p.remaining \ {p.current}) \in Nat
      <4>1. IsFiniteSet(p.remaining \ {p.current})
        BY <1>1, RawTypes, FS_Subset
      <4>2. QED
        BY <4>1, FS_CardinalityType
    <3>2. QED
      BY <1>1, <1>3, <1>5, <3>1
  <2> HIDE DEF map, index, p
  <2>3. QED
    BY <1>3, <1>4, <2>1, <2>2, RawTypes
<1>7. row \in CaseMessage(LocalSpeakerIds)
  <2>1. row.speaker_local_id \in LocalSpeakerIds
    <3> HIDE DEF index
    <3> QED BY <1>6 DEF LocalSpeakerIds
  <2>2. RedactedContent(m, p.selected) \in
          {None} \cup [rules : SUBSET RULE_SIGNAL_NAMES, long : BOOLEAN]
    <3>1. m.triggers \in SUBSET [rule : RULE_SIGNAL_NAMES, start : Nat, end : Nat]
          /\ m.long \in BOOLEAN
      BY <1>2 DEF RawMessage
    <3>2. SurvivingRules(m, p.selected) \in SUBSET RULE_SIGNAL_NAMES
      BY <3>1 DEF SurvivingRules
    <3>3. QED
      BY <3>1, <3>2 DEF RedactedContent
  <2>3. QED
    <3> HIDE DEF index, m, p
    <3> QED BY <2>1, <2>2 DEF CaseMessage
<1>8. result \in Prepared
  <2> HIDE DEF row, p
  <2> QED BY <1>3, <1>7 DEF Prepared
<1> DEFINE t == Finished(p, map, result)
<1>9. prep' = [prep EXCEPT ![c] = t]
  BY DEF FinishMessage
<1> HIDE DEF map, result, m
<1>10. /\ t \in Threads
       /\ t.remaining = p.remaining \ {p.current}
       /\ t.pc = "message"
       /\ t.speaker_map = map
       /\ t.prepared = Append(p.prepared, result)
  <2>1. Append(p.prepared, result) \in Seq(Prepared) /\ {} \in SUBSET Spans
    BY <1>3, <1>8
  <2>2. QED
    BY <1>1, <1>4, <1>5, <2>1 DEF Threads, Finished
<1>11. Len(Append(p.prepared, result)) = Len(p.prepared) + 1
  BY <1>3, <1>8
<1> HIDE DEF t
<1>12. prep' \in [Cases -> Threads]
  BY <1>9, <1>10 DEF PrepInv, PrepTypeOK
<1>13. ASSUME NEW d \in Cases PROVE ThreadOK(d)'
  <2>1. CASE d = c
    <3>1. prep'[c] = t
      BY <1>9 DEF PrepInv, PrepTypeOK
    <3>2. Len(p.prepared) \in Nat /\ Len(map) \in Nat
      BY <1>3, <1>4
    <3> HIDE DEF p
    <3>3. /\ t.remaining \subseteq DOMAIN Raw[c]
          /\ Len(t.speaker_map) <= Len(t.prepared)
          /\ Len(t.prepared) + Cardinality(t.remaining) = Len(Raw[c])
      BY <1>1, <1>4, <1>5, <1>10, <1>11, <3>2
    <3>4. QED
      BY <1>10, <2>1, <3>1, <3>3 DEF ThreadOK
  <2>2. CASE d # c
    BY <1>9, <2>2 DEF PrepInv, PrepTypeOK, ThreadOK
  <2>3. QED
    BY <2>1, <2>2
<1>14. QED
  BY <1>12, <1>13 DEF FinishMessage, PrepInv, PrepTypeOK

(* Every step of the specification keeps the threads' types.                *)
LEMMA PrepInvStep == PrepInv /\ [Next]_vars => PrepInv'
<1> SUFFICES ASSUME PrepInv, [Next]_vars PROVE PrepInv'
  OBVIOUS
<1>1. ASSUME NEW c \in Cases, Prepare(c) \/ Refuse(c) PROVE PrepInv'
  <2>1. PICK pc \in {"message", "committed", "refused"} : prep' = [prep EXCEPT ![c].pc = pc]
    BY <1>1 DEF Prepare, Refuse
  <2>2. QED
    BY <1>1, <2>1, MoveKeepsThreads DEF Prepare, Refuse, PrepInv, PrepTypeOK
<1>2. ASSUME NEW c \in Cases, Submit(c) PROVE PrepInv'
  BY <1>2, CommitKeepsInv DEF Submit
<1>3. CASE PrepNext
  BY <1>1, <1>3, GetNerPipelineKeepsInv, LoadKeepsInv, TakeSpanKeepsInv,
     FinishMessageKeepsInv DEF PrepNext
<1>4. CASE UNCHANGED <<conversations, prepVars>>
  BY <1>4 DEF prepVars, PrepInv, PrepTypeOK, ThreadOK
<1>5. CASE AnalysisNext /\ UNCHANGED prepVars
  <2>1. UNCHANGED conversations
    BY <1>5 DEF AnalysisNext, StartAnalysis, ProcessWindow, Raise, Publish
  <2>2. QED
    BY <1>4, <1>5, <2>1
<1>6. QED
  BY <1>2, <1>3, <1>4, <1>5 DEF Next, vars

-------------------------------------------------------------------------------
(* The operators of the analysis *)

(* A weighted mean stays between its bounds, and so does its change.        *)
LEMMA WeightedMean ==
  ASSUME NEW M \in Nat, NEW x \in 0..M, NEW y \in 0..M
  PROVE  /\ (7 * x + 3 * y) \div 10 \in 0..M
         /\ (7 * x + 3 * y) \div 10 - x \in -M..M
OBVIOUS

LEMMA OneType == One \in Nat
BY DEF One

LEMMA PrecursorRiskBounds ==
  ASSUME NEW s_g \in 0..100, NEW s_cb \in 0..100
  PROVE  PrecursorRisk(s_g, s_cb) \in 0..One
<1>1. PrecursorRisk(s_g, s_cb) \in Nat /\ PrecursorRisk(s_g, s_cb) <= 1000 * 1000
  BY DEF PrecursorRisk
<1>2. PrecursorRisk(s_g, s_cb) <= One
  BY <1>1 DEF One
<1>3. One \in Nat
  BY OneType
<1>4. QED
  BY <1>1, <1>2, <1>3

(* HistoricalStateUpdater.update stays within the documented bounds.        *)
LEMMA UpdateBounds ==
  ASSUME NEW previous \in HistoricalRiskState, NEW scores \in ScorePairs
  PROVE  Update(previous, scores.s_g, scores.s_cb) \in HistoricalRiskState
<1> DEFINE r       == PrecursorRisk(scores.s_g, scores.s_cb)
           history == Remember(previous.history, r)
           e       == (7 * previous.accumulated_risk + 3 * r) \div 10
           highs   == {i \in 1..Len(history) : history[i] > HIGH_RISK_THRESHOLD}
<1>1. r \in 0..One
  <2>1. scores.s_g \in 0..100 /\ scores.s_cb \in 0..100
    BY AnalysisAssumption
  <2>2. QED
    BY <2>1, PrecursorRiskBounds
<1>2. /\ previous.accumulated_risk \in 0..One
      /\ previous.history \in Seq(0..One)
      /\ Len(previous.history) <= PersistenceWindow
  BY DEF HistoricalRiskState
<1> HIDE DEF r
<1>3. e \in 0..One /\ e - previous.accumulated_risk \in -One..One
  <2>1. One \in Nat
    BY OneType
  <2>2. QED
    BY <1>1, <1>2, <2>1, WeightedMean
<1>4. history \in Seq(0..One) /\ Len(history) <= PersistenceWindow
  <2>1. CASE Len(previous.history) < PersistenceWindow
    BY <1>1, <1>2, <2>1, AnalysisAssumption, AppendProperties DEF Remember
  <2>2. CASE ~(Len(previous.history) < PersistenceWindow)
    <3>1. previous.history # << >>
      BY <1>2, <2>2, AnalysisAssumption
    <3>2. /\ Tail(previous.history) \in Seq(0..One)
          /\ Len(Tail(previous.history)) = Len(previous.history) - 1
      BY <1>2, <3>1, HeadTailProperties
    <3>3. history = Append(Tail(previous.history), r)
      BY <2>2 DEF Remember
    <3> HIDE DEF history
    <3>4. QED
      BY <1>1, <1>2, <3>2, <3>3, AnalysisAssumption, AppendProperties
  <2> HIDE DEF history
  <2>3. QED
    BY <2>1, <2>2
<1>5. Cardinality(highs) \in Nat /\ Cardinality(highs) <= Len(history)
  <2>1. Len(history) \in Nat
    BY <1>4
  <2> HIDE DEF history
  <2>2. IsFiniteSet(1..Len(history)) /\ Cardinality(1..Len(history)) = Len(history)
    BY <2>1, FS_Interval, SMTT(30)
  <2>3. highs \in SUBSET (1..Len(history))
    OBVIOUS
  <2> HIDE DEF highs
  <2>4. QED
    BY <2>2, <2>3, FS_Subset, FS_CardinalityType
<1>6. Update(previous, scores.s_g, scores.s_cb) =
        [accumulated_risk |-> e, risk_trend |-> e - previous.accumulated_risk,
         high |-> Cardinality(highs), history |-> history]
  BY DEF Update, r
<1> HIDE DEF e, history, highs
<1>7. QED
  BY <1>3, <1>4, <1>5, <1>6 DEF HistoricalRiskState

(* A window is a stretch of the messages, and the next one begins where it  *)
(* ends.                                                                    *)
LEMMA WindowProperties ==
  ASSUME NEW S, NEW messages \in Seq(S), NEW start \in Nat, start < Len(messages)
  PROVE  LET window == Window(messages, start) IN
         /\ window \in Seq(S)
         /\ Len(window) \in Nat \ {0}
         /\ start + Len(window) <= Len(messages)
         /\ NextStart(start, Len(messages)) = start + Len(window)
         /\ \A i \in 1..Len(window) : window[i] = messages[start + i]
<1> DEFINE last   == Least(start + WindowSize, Len(messages))
           window == Window(messages, start)
<1>1. last \in Nat /\ start < last /\ last <= Len(messages)
  BY AnalysisAssumption DEF Least
<1>2. \A i \in (start + 1)..last : messages[i] \in S
  BY <1>1
<1>3. /\ window \in Seq(S)
      /\ Len(window) = last - start
      /\ \A i \in 1..(last - start) : window[i] = messages[start + i]
  <2>1. window = SubSeq(messages, start + 1, last)
    BY DEF Window
  <2> HIDE DEF window, last
  <2>2. QED
    BY <1>1, <1>2, <2>1, SubSeqProperties
<1>4. NextStart(start, Len(messages)) = last
  BY AnalysisAssumption DEF NextStart, Least
<1> HIDE DEF window, last
<1>5. QED
  BY <1>1, <1>3, <1>4 DEF window

-------------------------------------------------------------------------------
(* The analysis invariant *)

(* What an outcome keeps of its window.                                     *)
Analysed(c, o) ==
  LET window == Window(Messages(c), o.first) IN
  /\ o.length = Len(window)
  /\ o.length > 0
  /\ o.first + o.length <= Len(Messages(c))
  /\ o.rule_evidence = ExtractRuleEvidence(window)
  /\ o.top \subseteq 0..(o.length - 1)
  /\ o.review <=> \/ CurrentlyOperableReview(RuleSignals(o.rule_evidence), o.llm)
                  \/ o.early_warning

(* The windows so far follow each other up to start.                        *)
Consecutive(windows, start) ==
  LET End(i) == IF i = 0 THEN 0 ELSE windows[i].first + windows[i].length IN
  /\ \A i \in DOMAIN windows : windows[i].first = End(i - 1)
  /\ End(Len(windows)) = start

Covered(windows, start) ==
  \A n \in 0..(start - 1) : \E i \in DOMAIN windows :
    windows[i].first <= n /\ n < windows[i].first + windows[i].length

(* The warning, once triggered, stays.                                      *)
Latched(windows, latched) ==
  /\ \A i \in DOMAIN windows :
       windows[i].early_warning <=> \E j \in 1..i : ComputeWarning(windows[j].state)
  /\ latched <=> \E j \in DOMAIN windows : ComputeWarning(windows[j].state)

Stored(c) ==
  /\ conversations[c] \in Conversation(LocalSpeakerIds)
  /\ prep[c].pc = "committed"

WorkerInv ==
  LET c == worker.case IN
  c # None =>
    /\ Stored(c)
    /\ worker.start <= Len(Messages(c))
    /\ \A i \in DOMAIN worker.outcomes : Analysed(c, worker.outcomes[i])
    /\ Consecutive(worker.outcomes, worker.start)
    /\ Covered(worker.outcomes, worker.start)
    /\ Latched(worker.outcomes, worker.latched)

PublishedOK(c) ==
  LET n == Len(Messages(c)) IN
  /\ Stored(c)
  /\ results[c].rule_evidence =
       {pair \in RULE_SIGNAL_NAMES \X (0..(n - 1)) :
          pair[1] \in RulesIn(Messages(c)[pair[2] + 1])}
  /\ results[c].high_risk_sequences \subseteq 0..(n - 1)
  /\ NerLimitation \in results[c].data_limitations
       <=> NerLimitation \in conversations[c].limitations

AnalysisInv ==
  /\ AnalysisTypeOK
  /\ \A c \in Cases : job[c] # "none" => Stored(c)
  /\ WorkerInv
  /\ \A c \in Cases : results[c] # None => PublishedOK(c)

(* A stored conversation has messages of the rows' type.                    *)
LEMMA StoredTypes ==
  ASSUME NEW c, Stored(c)
  PROVE  /\ Messages(c) \in Seq(CaseMessage(LocalSpeakerIds))
         /\ Len(Messages(c)) \in Nat
         /\ conversations[c].limitations \in SUBSET PREPROCESSING_LIMITATIONS
<1>1. Messages(c) \in Seq(CaseMessage(LocalSpeakerIds))
  BY DEF Stored, Conversation, Messages
<1>2. QED
  BY <1>1 DEF Stored, Conversation

(* The worker's state between jobs.                                         *)
LEMMA IdleType ==
  Idle \in [case : Cases \cup {None}, start : Nat, state : HistoricalRiskState,
            latched : BOOLEAN, outcomes : Seq(WindowOutcome), llm_signals : Nat]
<1>1. ZeroState \in HistoricalRiskState
  <2>1. 0 \in 0..One /\ 0 \in -One..One
    BY OneType
  <2>2. << >> \in Seq(0..One) /\ Len(<< >>) = 0
    OBVIOUS
  <2>3. QED
    BY <2>1, <2>2, AnalysisAssumption DEF ZeroState, HistoricalRiskState
<1>2. << >> \in Seq(WindowOutcome)
  OBVIOUS
<1>3. QED
  BY <1>1, <1>2 DEF Idle

LEMMA AnalysisInvInit == Init => AnalysisInv
<1> SUFFICES ASSUME Init PROVE AnalysisInv
  OBVIOUS
<1>1. AnalysisTypeOK
  BY IdleType DEF Init, AnalysisInit, AnalysisTypeOK
<1>2. QED
  BY <1>1 DEF Init, AnalysisInit, AnalysisInv, WorkerInv, Idle

(* Steps that keep the stored conversations and the analysis.               *)
LEMMA StoredKeepsAnalysis ==
  ASSUME AnalysisInv, UNCHANGED analysisVars,
         \A c \in Cases : Stored(c) => Stored(c)' /\ conversations'[c] = conversations[c]
  PROVE  AnalysisInv'
<1>1. AnalysisTypeOK'
  BY DEF AnalysisInv, AnalysisTypeOK, analysisVars
<1>2. \A c \in Cases : (job[c] # "none")' => Stored(c)'
  BY DEF AnalysisInv, analysisVars
<1>3. WorkerInv'
  <2>1. SUFFICES ASSUME worker.case # None PROVE WorkerInv'
    BY DEF WorkerInv, analysisVars
  <2>2. worker.case \in Cases
    BY <2>1 DEF AnalysisInv, AnalysisTypeOK
  <2>3. worker' = worker
    BY DEF analysisVars
  <2>4. Stored(worker.case)' /\ Messages(worker.case)' = Messages(worker.case)
    <3>1. Stored(worker.case)
      BY <2>1 DEF AnalysisInv, WorkerInv
    <3>2. QED
      BY <2>2, <2>3, <3>1 DEF Stored, Messages
  <2>5. \A i \in DOMAIN worker.outcomes : Analysed(worker.case, worker.outcomes[i])'
    BY <2>1, <2>3, <2>4 DEF AnalysisInv, WorkerInv, Analysed
  <2>6. QED
    BY <2>1, <2>3, <2>4, <2>5 DEF AnalysisInv, WorkerInv
<1>4. ASSUME NEW c \in Cases, results'[c] # None PROVE PublishedOK(c)'
  BY <1>4 DEF AnalysisInv, PublishedOK, Messages, analysisVars
<1>5. QED
  BY <1>1, <1>2, <1>3, <1>4 DEF AnalysisInv

(* A committed thread takes no further step, and only Submit touches a      *)
(* conversation.                                                            *)
LEMMA PrepNextKeepsCommitted ==
  ASSUME PrepInv, PrepNext
  PROVE  /\ UNCHANGED conversations
         /\ \A c \in Cases : prep[c].pc = "committed" => prep'[c] = prep[c]
<1> USE DEF PrepInv, PrepTypeOK
<1>1. PICK c \in Cases : \/ Prepare(c) \/ GetNerPipeline(c) \/ LoadSucceeds(c) \/ LoadFails(c)
                         \/ TakeSpan(c) \/ FinishMessage(c) \/ Refuse(c)
  BY DEF PrepNext
<1>2. /\ UNCHANGED conversations
      /\ prep[c].pc # "committed"
      /\ \E t : prep' = [prep EXCEPT ![c] = t]
  <2>1. CASE Prepare(c) \/ Refuse(c)
    BY <2>1 DEF Prepare, Refuse
  <2>2. CASE GetNerPipeline(c)
    BY <2>2 DEF GetNerPipeline, Redact
  <2>3. CASE LoadSucceeds(c) \/ LoadFails(c)
    BY <2>3 DEF LoadSucceeds, LoadFails, Redact
  <2>4. CASE TakeSpan(c)
    BY <2>4 DEF TakeSpan
  <2>5. CASE FinishMessage(c)
    BY <2>5 DEF FinishMessage
  <2>6. QED
    BY <1>1, <2>1, <2>2, <2>3, <2>4, <2>5
<1>3. QED
  BY <1>2

LEMMA PrepKeepsAnalysis ==
  ASSUME PrepInv, AnalysisInv, PrepNext, UNCHANGED analysisVars
  PROVE  AnalysisInv'
BY PrepNextKeepsCommitted, StoredKeepsAnalysis DEF Stored

LEMMA SubmitKeepsAnalysis ==
  ASSUME PrepInv, AnalysisInv, NEW c \in Cases, Submit(c)
  PROVE  AnalysisInv'
<1> USE DEF PrepInv, PrepTypeOK
<1>1. /\ prep[c].pc = "message"
      /\ prep' = [prep EXCEPT ![c].pc = "committed"]
      /\ \A d \in Cases \ {c} : conversations'[d] = conversations[d] /\ prep'[d] = prep[d]
      /\ job' = [job EXCEPT ![c] = "queued"]
      /\ UNCHANGED <<worker, results>>
  BY DEF Submit, Commit, Enqueue
<1>2. conversations'[c] \in Conversation(LocalSpeakerIds)
  <2>1. conversations'[c] = [messages |-> [i \in DOMAIN prep[c].prepared |-> prep[c].prepared[i].row],
                             limitations |-> DataLimitations(c)]
    BY DEF Submit, Commit
  <2>2. QED
    BY <2>1, PreparedConversation DEF Submit
<1>3. \A d \in Cases : Stored(d) => d # c
  BY <1>1 DEF Stored
<1>4. \A d \in Cases \ {c} : Stored(d) => /\ Stored(d)'
                                          /\ Messages(d)' = Messages(d)
                                          /\ conversations'[d] = conversations[d]
  BY <1>1 DEF Stored, Messages
<1>5. Stored(c)'
  <2>1. prep'[c].pc = "committed"
    BY <1>1 DEF Threads
  <2>2. QED
    BY <1>2, <2>1 DEF Stored
<1>6. AnalysisTypeOK'
  BY <1>1 DEF AnalysisInv, AnalysisTypeOK
<1>7. \A d \in Cases : (job[d] # "none")' => Stored(d)'
  BY <1>1, <1>4, <1>5 DEF AnalysisInv, AnalysisTypeOK
<1>8. WorkerInv'
  <2>1. SUFFICES ASSUME worker.case # None PROVE WorkerInv'
    BY <1>1 DEF WorkerInv
  <2>2. worker.case \in Cases /\ Stored(worker.case)
    BY <2>1 DEF AnalysisInv, AnalysisTypeOK, WorkerInv
  <2>3. conversations'[worker.case] = conversations[worker.case]
    BY <1>3, <1>4, <2>2
  <2>4. Stored(worker.case)' /\ Messages(worker.case)' = Messages(worker.case)
    BY <1>1, <1>3, <2>2, <2>3 DEF Stored, Messages
  <2>5. \A i \in DOMAIN worker.outcomes : Analysed(worker.case, worker.outcomes[i])'
    BY <1>1, <2>1, <2>4 DEF AnalysisInv, WorkerInv, Analysed
  <2>6. QED
    BY <1>1, <2>1, <2>4, <2>5 DEF AnalysisInv, WorkerInv
<1>9. ASSUME NEW d \in Cases, results'[d] # None PROVE PublishedOK(d)'
  <2>1. PublishedOK(d)
    BY <1>1, <1>9 DEF AnalysisInv
  <2>2. d # c
    BY <1>3, <2>1 DEF PublishedOK
  <2>3. QED
    BY <1>1, <1>4, <2>1, <2>2 DEF PublishedOK
<1>10. QED
  BY <1>6, <1>7, <1>8, <1>9 DEF AnalysisInv

LEMMA StartKeepsAnalysis ==
  ASSUME AnalysisInv, NEW c \in Cases, StartAnalysis(c), UNCHANGED prepVars
  PROVE  AnalysisInv'
<1>1. /\ job[c] = "queued"
      /\ job' = [job EXCEPT ![c] = "running"]
      /\ worker' = [Idle EXCEPT !.case = c]
      /\ UNCHANGED <<results, conversations, prep>>
  BY DEF StartAnalysis, prepVars
<1>2. Stored(c)
  BY <1>1 DEF AnalysisInv
<1>3. AnalysisTypeOK'
  BY <1>1, IdleType DEF AnalysisInv, AnalysisTypeOK
<1>4. \A d \in Cases : (job[d] # "none")' => Stored(d)'
  BY <1>1, <1>2 DEF AnalysisInv, AnalysisTypeOK, Stored
<1>5. WorkerInv'
  <2>1. /\ worker'.case = c
        /\ worker'.start = 0
        /\ worker'.outcomes = << >>
        /\ worker'.latched = FALSE
    BY <1>1 DEF Idle
  <2>2. Stored(c)' /\ Len(Messages(c))' \in Nat
    BY <1>1, <1>2, StoredTypes DEF Stored, Messages
  <2>3. QED
    BY <2>1, <2>2 DEF WorkerInv, Consecutive, Covered, Latched
<1>6. \A d \in Cases : (results[d] # None)' => PublishedOK(d)'
  BY <1>1 DEF AnalysisInv, PublishedOK, Stored, Messages
<1>7. QED
  BY <1>3, <1>4, <1>5, <1>6 DEF AnalysisInv

LEMMA RaiseKeepsAnalysis ==
  ASSUME AnalysisInv, Raise, UNCHANGED prepVars
  PROVE  AnalysisInv'
<1>1. PICK status \in {"queued", "failed"} : job' = [job EXCEPT ![worker.case] = status]
  BY DEF Raise
<1>2. /\ worker.case \in Cases
      /\ Stored(worker.case)
      /\ worker' = Idle
      /\ UNCHANGED <<results, conversations, prep>>
  BY DEF Raise, prepVars, AnalysisInv, AnalysisTypeOK, WorkerInv
<1>3. AnalysisTypeOK'
  BY <1>1, <1>2, IdleType DEF AnalysisInv, AnalysisTypeOK
<1>4. \A d \in Cases : (job[d] # "none")' => Stored(d)'
  BY <1>1, <1>2 DEF AnalysisInv, AnalysisTypeOK, Stored
<1>5. WorkerInv'
  BY <1>2 DEF WorkerInv, Idle
<1>6. \A d \in Cases : (results[d] # None)' => PublishedOK(d)'
  BY <1>2 DEF AnalysisInv, PublishedOK, Stored, Messages
<1>7. QED
  BY <1>3, <1>4, <1>5, <1>6 DEF AnalysisInv

(* The outcome of a window is one, and says what it must of its window.     *)
LEMMA OutcomeOf ==
  ASSUME AnalysisInv, NEW c \in Cases, worker.case = c, c # None,
         worker.start < Len(Messages(c)),
         NEW scores \in ScorePairs, NEW overall \in OverallScores,
         NEW llm \in Answers, NEW top \in TopK(Len(Window(Messages(c), worker.start))),
         NEW latched \in BOOLEAN
  PROVE  LET o == Outcome(worker.start, Window(Messages(c), worker.start), scores, overall,
                          Update(worker.state, scores.s_g, scores.s_cb), latched, llm, top)
         IN o \in WindowOutcome /\ Analysed(c, o)
<1> DEFINE window   == Window(Messages(c), worker.start)
           evidence == ExtractRuleEvidence(window)
           state    == Update(worker.state, scores.s_g, scores.s_cb)
           review   == CurrentlyOperableReview(RuleSignals(evidence), llm) \/ latched
<1>1. /\ worker.start \in Nat
      /\ worker.state \in HistoricalRiskState
      /\ Stored(c)
  BY DEF AnalysisInv, AnalysisTypeOK, WorkerInv
<1>2. /\ Len(window) \in Nat \ {0}
      /\ worker.start + Len(window) <= Len(Messages(c))
  BY <1>1, StoredTypes, WindowProperties
<1>3. state \in HistoricalRiskState
  BY <1>1, UpdateBounds
<1>4. llm \in LLMSignals
  BY AnalysisAssumption DEF Answers
<1> HIDE DEF state, window
<1>5. evidence \in SUBSET (RULE_SIGNAL_NAMES \X Nat)
  BY <1>2 DEF ExtractRuleEvidence
<1>6. top \subseteq 0..(Len(window) - 1) /\ top \in SUBSET Nat
  BY <1>2 DEF TopK, window
<1>7. TokenOverflow(window) \in BOOLEAN /\ review \in BOOLEAN
  BY DEF TokenOverflow, CurrentlyOperableReview
<1> HIDE DEF evidence, review
<1> DEFINE o == [first         |-> worker.start,
                 length        |-> Len(window),
                 scores        |-> scores,
                 overall       |-> overall,
                 state         |-> state,
                 early_warning |-> latched,
                 llm           |-> llm,
                 review        |-> review,
                 top           |-> top,
                 rule_evidence |-> evidence,
                 overflow      |-> TokenOverflow(window)]
<1>8. o \in WindowOutcome
  BY <1>1, <1>2, <1>3, <1>4, <1>5, <1>6, <1>7 DEF WindowOutcome
<1>9. Analysed(c, o)
  <2>1. /\ o.first = worker.start /\ o.length = Len(window) /\ o.rule_evidence = evidence
        /\ o.top = top /\ o.llm = llm /\ o.early_warning = latched
        /\ o.review = review
    OBVIOUS
  <2>2. o.review <=> \/ CurrentlyOperableReview(RuleSignals(o.rule_evidence), o.llm)
                     \/ o.early_warning
    <3> HIDE DEF o
    <3> QED BY <2>1 DEF review, evidence
  <2> HIDE DEF o
  <2>3. QED
    BY <1>2, <1>6, <2>1, <2>2 DEF Analysed, window, evidence
<1>10. QED
  BY <1>8, <1>9 DEF Outcome, window, evidence, state, review

LEMMA ProcessKeepsAnalysis ==
  ASSUME AnalysisInv, NEW c \in Cases, worker.case = c, c # None,
         ProcessWindow, UNCHANGED prepVars
  PROVE  AnalysisInv'
<1> DEFINE window == Window(Messages(c), worker.start)
<1>1. /\ Stored(c)
      /\ worker.start \in Nat
      /\ worker.start < Len(Messages(c))
      /\ UNCHANGED <<job, results, conversations, prep>>
  BY DEF ProcessWindow, prepVars, AnalysisInv, AnalysisTypeOK, WorkerInv
<1>p. PICK scores \in ScorePairs, overall \in OverallScores, llm \in Answers,
           llm_again \in Answers, top \in TopK(Len(window)), latched \in BOOLEAN :
        \E o :
          /\ latched <=> (worker.latched \/ ComputeWarning(Update(worker.state, scores.s_g, scores.s_cb)))
          /\ o = Outcome(worker.start, window, scores, overall,
                         Update(worker.state, scores.s_g, scores.s_cb), latched, llm, top)
          /\ worker' = [worker EXCEPT !.state = Update(worker.state, scores.s_g, scores.s_cb),
                          !.latched = latched,
                          !.start = NextStart(@, Len(Messages(c))),
                          !.outcomes = Append(@, o),
                          !.llm_signals = MergeSafetyFeatures(@, llm_again)]
  <2>1. PICK scores \in ScorePairs, overall \in OverallScores, llm \in Answers,
             llm_again \in Answers, top \in TopK(Len(window)) :
          LET state   == Update(worker.state, scores.s_g, scores.s_cb)
              latched == worker.latched \/ ComputeWarning(state)
              outcome == Outcome(worker.start, window, scores, overall, state, latched, llm, top)
          IN worker' = [worker EXCEPT !.state = state, !.latched = latched,
                          !.start = NextStart(@, Len(Messages(c))),
                          !.outcomes = Append(@, outcome),
                          !.llm_signals = MergeSafetyFeatures(@, llm_again)]
    <3>1. PICK scores \in ScorePairs, overall \in OverallScores, llm \in Answers,
               llm_again \in Answers,
               top \in TopK(Len(Window(Messages(worker.case), worker.start))) :
            LET state   == Update(worker.state, scores.s_g, scores.s_cb)
                latched == worker.latched \/ ComputeWarning(state)
                outcome == Outcome(worker.start, Window(Messages(worker.case), worker.start),
                                   scores, overall, state, latched, llm, top)
            IN worker' = [worker EXCEPT !.state = state, !.latched = latched,
                            !.start = NextStart(@, Len(Messages(worker.case))),
                            !.outcomes = Append(@, outcome),
                            !.llm_signals = MergeSafetyFeatures(@, llm_again)]
      BY DEF ProcessWindow
    <3>2. QED
      BY <3>1
  <2> DEFINE latched == worker.latched \/ ComputeWarning(Update(worker.state, scores.s_g, scores.s_cb))
  <2>2. latched \in BOOLEAN
    BY DEF ComputeWarning
  <2> HIDE DEF window
  <2>3. QED
    BY <2>1, <2>2, Zenon
<1>2. PICK o :
        /\ latched <=> (worker.latched \/ ComputeWarning(Update(worker.state, scores.s_g, scores.s_cb)))
        /\ o = Outcome(worker.start, window, scores, overall,
                       Update(worker.state, scores.s_g, scores.s_cb), latched, llm, top)
        /\ worker' = [worker EXCEPT !.state = Update(worker.state, scores.s_g, scores.s_cb),
                        !.latched = latched,
                        !.start = NextStart(@, Len(Messages(c))),
                        !.outcomes = Append(@, o),
                        !.llm_signals = MergeSafetyFeatures(@, llm_again)]
  BY <1>p
<1>3. o \in WindowOutcome /\ Analysed(c, o)
  BY <1>1, <1>2, OutcomeOf
<1>4. /\ o.first = worker.start
      /\ o.length = Len(window)
      /\ o.early_warning = latched
      /\ o.state = Update(worker.state, scores.s_g, scores.s_cb)
  BY <1>2 DEF Outcome
<1>5. /\ Len(window) \in Nat \ {0}
      /\ worker.start + Len(window) <= Len(Messages(c))
      /\ NextStart(worker.start, Len(Messages(c))) = worker.start + Len(window)
  BY <1>1, StoredTypes, WindowProperties, SMTT(30)
<1> DEFINE before == worker.outcomes
           after  == Append(worker.outcomes, o)
           next   == worker.start + Len(window)
<1>6. worker \in [case : Cases \cup {None}, start : Nat, state : HistoricalRiskState,
                  latched : BOOLEAN, outcomes : Seq(WindowOutcome), llm_signals : Nat]
  BY DEF AnalysisInv, AnalysisTypeOK
<1> HIDE DEF window
<1>7. /\ worker'.case = c
      /\ worker'.start = next
      /\ worker'.outcomes = after
      /\ worker'.latched = latched
  BY <1>2, <1>5, <1>6
<1>8. /\ before \in Seq(WindowOutcome)
      /\ after \in Seq(WindowOutcome)
      /\ Len(before) \in Nat
      /\ DOMAIN before = 1..Len(before)
      /\ DOMAIN after = 1..(Len(before) + 1)
      /\ Len(after) = Len(before) + 1
      /\ \A i \in 1..Len(before) : after[i] = before[i]
      /\ after[Len(before) + 1] = o
  <2>1. before \in Seq(WindowOutcome)
    BY <1>6
  <2> HIDE DEF before
  <2>2. QED
    BY <1>3, <2>1, AppendProperties DEF before
<1>9. /\ \A i \in DOMAIN before : Analysed(c, before[i])
      /\ Consecutive(before, worker.start)
      /\ Covered(before, worker.start)
      /\ Latched(before, worker.latched)
  BY <1>1 DEF AnalysisInv, WorkerInv, ProcessWindow
<1> HIDE DEF before, after, next
<1>10. AnalysisTypeOK'
  <2>1. MergeSafetyFeatures(worker.llm_signals, llm_again) \in Nat
    BY <1>2, <1>6, AnalysisAssumption DEF MergeSafetyFeatures, Greatest, Answers
  <2>2. Update(worker.state, scores.s_g, scores.s_cb) \in HistoricalRiskState
    BY <1>2, <1>6, UpdateBounds
  <2>3. next \in Nat
    BY <1>1, <1>5 DEF next
  <2>4. worker' \in [case : Cases \cup {None}, start : Nat, state : HistoricalRiskState,
                     latched : BOOLEAN, outcomes : Seq(WindowOutcome), llm_signals : Nat]
    BY <1>2, <1>5, <1>6, <1>8, <2>1, <2>2, <2>3 DEF after, next
  <2>5. QED
    BY <1>1, <2>4 DEF AnalysisInv, AnalysisTypeOK
<1>11. Consecutive(after, next)
  BY <1>1, <1>4, <1>5, <1>8, <1>9 DEF Consecutive, next
<1>12. Covered(after, next)
  <2>1. SUFFICES ASSUME NEW n \in 0..(next - 1)
                 PROVE  \E i \in DOMAIN after : after[i].first <= n
                                                /\ n < after[i].first + after[i].length
    BY DEF Covered
  <2>2. CASE n < worker.start
    <3>1. n \in 0..(worker.start - 1)
      BY <1>1, <1>5, <2>1, <2>2 DEF next
    <3>2. PICK i \in DOMAIN before : before[i].first <= n /\ n < before[i].first + before[i].length
      BY <1>9, <3>1 DEF Covered
    <3>3. QED
      BY <1>8, <3>2
  <2>3. CASE ~(n < worker.start)
    <3>1. Len(before) + 1 \in DOMAIN after
      BY <1>8
    <3>2. o.first <= n /\ n < o.first + o.length
      BY <1>1, <1>4, <1>5, <2>1, <2>3 DEF next
    <3>3. QED
      BY <1>8, <3>1, <3>2
  <2>4. QED
    BY <2>2, <2>3
<1>13. Latched(after, latched)
  <2>1. latched <=> worker.latched \/ ComputeWarning(o.state)
    BY <1>2, <1>4
  <2>2. \A i \in 1..Len(before) : ComputeWarning(after[i].state) <=> ComputeWarning(before[i].state)
    BY <1>8
  <2>3. latched <=> \E j \in DOMAIN after : ComputeWarning(after[j].state)
    BY <1>8, <1>9, <2>1, <2>2 DEF Latched
  <2>4. ASSUME NEW i \in DOMAIN after
        PROVE  after[i].early_warning <=> \E j \in 1..i : ComputeWarning(after[j].state)
    <3>1. CASE i = Len(before) + 1
      BY <1>4, <1>8, <2>3, <3>1
    <3>2. CASE i \in 1..Len(before)
      <4>1. 1..i \subseteq 1..Len(before)
        BY <1>8, <3>2
      <4>2. QED
        BY <1>8, <1>9, <2>2, <3>2, <4>1 DEF Latched
    <3>3. QED
      BY <1>8, <2>4, <3>1, <3>2
  <2>5. QED
    BY <2>3, <2>4 DEF Latched
<1>14. WorkerInv'
  <2>1. Messages(c)' = Messages(worker.case) /\ Stored(c)'
    BY <1>1, <1>7 DEF Messages, Stored
  <2>2. \A i \in DOMAIN after : Analysed(c, after[i])
    BY <1>3, <1>8, <1>9
  <2>3. \A i \in DOMAIN worker'.outcomes : Analysed(c, worker.outcomes[i])'
    BY <1>7, <2>1, <2>2 DEF Analysed
  <2>4. QED
    BY <1>1, <1>5, <1>7, <1>11, <1>12, <1>13, <2>1, <2>3 DEF WorkerInv, next
<1>15. \A d \in Cases : (job[d] # "none")' => Stored(d)'
  BY <1>1 DEF AnalysisInv, Stored
<1>16. \A d \in Cases : (results[d] # None)' => PublishedOK(d)'
  BY <1>1 DEF AnalysisInv, PublishedOK, Stored, Messages
<1>17. QED
  BY <1>10, <1>14, <1>15, <1>16 DEF AnalysisInv

(* Window evidence, moved to message sequences, is the conversation's.      *)
LEMMA MergedEvidence ==
  ASSUME NEW c, Stored(c), NEW windows \in Seq(WindowOutcome),
         \A i \in DOMAIN windows : Analysed(c, windows[i]),
         Covered(windows, Len(Messages(c)))
  PROVE  MergeRuleEvidence(windows) =
           {pair \in RULE_SIGNAL_NAMES \X (0..(Len(Messages(c)) - 1)) :
              pair[1] \in RulesIn(Messages(c)[pair[2] + 1])}
<1> DEFINE n     == Len(Messages(c))
           whole == {pair \in RULE_SIGNAL_NAMES \X (0..(n - 1)) :
                       pair[1] \in RulesIn(Messages(c)[pair[2] + 1])}
<1>1. n \in Nat
  BY StoredTypes
<1>2. ASSUME NEW i \in DOMAIN windows
      PROVE  /\ windows[i].first \in Nat
             /\ windows[i].length \in Nat \ {0}
             /\ windows[i].first + windows[i].length <= n
             /\ \A pair : pair \in windows[i].rule_evidence <=>
                  /\ pair \in RULE_SIGNAL_NAMES \X (0..(windows[i].length - 1))
                  /\ pair[1] \in RulesIn(Messages(c)[windows[i].first + pair[2] + 1])
  <2> DEFINE window == Window(Messages(c), windows[i].first)
  <2>1. windows[i] \in WindowOutcome /\ Analysed(c, windows[i])
    BY <1>2
  <2>2. /\ windows[i].first \in Nat
        /\ windows[i].length \in Nat
        /\ windows[i].length > 0
        /\ windows[i].first + windows[i].length <= n
        /\ windows[i].length = Len(window)
        /\ windows[i].rule_evidence = ExtractRuleEvidence(window)
    BY <2>1 DEF WindowOutcome, Analysed
  <2>3. \A k \in 1..Len(window) : window[k] = Messages(c)[windows[i].first + k]
    BY <1>1, <2>2, StoredTypes, WindowProperties, SMTT(30)
  <2> HIDE DEF window, n
  <2>4. ASSUME NEW pair \in RULE_SIGNAL_NAMES \X (0..(windows[i].length - 1))
        PROVE  window[pair[2] + 1] = Messages(c)[windows[i].first + pair[2] + 1]
    <3>1. pair[2] \in 0..(windows[i].length - 1)
      OBVIOUS
    <3>2. /\ pair[2] + 1 \in 1..Len(window)
          /\ windows[i].first + (pair[2] + 1) = windows[i].first + pair[2] + 1
      BY <2>2, <3>1
    <3>3. QED
      BY <2>3, <3>2
  <2>5. QED
    BY <2>2, <2>4 DEF ExtractRuleEvidence
<1> HIDE DEF n
<1>3. ASSUME NEW pair \in MergeRuleEvidence(windows) PROVE pair \in whole
  <2>1. PICK i \in DOMAIN windows : \E q \in windows[i].rule_evidence :
          pair = <<q[1], windows[i].first + q[2]>>
    BY DEF MergeRuleEvidence
  <2> PICK q \in windows[i].rule_evidence : pair = <<q[1], windows[i].first + q[2]>>
    BY <2>1
  <2>2. /\ q[1] \in RULE_SIGNAL_NAMES
        /\ q[2] \in 0..(windows[i].length - 1)
        /\ q[1] \in RulesIn(Messages(c)[windows[i].first + q[2] + 1])
    BY <1>2, <2>1
  <2>3. windows[i].first + q[2] \in 0..(n - 1)
    BY <1>1, <1>2, <2>2
  <2>4. QED
    BY <2>1, <2>2, <2>3
<1>4. ASSUME NEW pair \in whole PROVE pair \in MergeRuleEvidence(windows)
  <2>1. pair[2] \in 0..(n - 1) /\ pair[1] \in RULE_SIGNAL_NAMES
        /\ pair = <<pair[1], pair[2]>> /\ pair[1] \in RulesIn(Messages(c)[pair[2] + 1])
    OBVIOUS
  <2>2. PICK i \in DOMAIN windows :
          windows[i].first <= pair[2] /\ pair[2] < windows[i].first + windows[i].length
    BY <2>1 DEF Covered, n
  <2> DEFINE q == <<pair[1], pair[2] - windows[i].first>>
  <2>3. /\ pair[2] - windows[i].first \in 0..(windows[i].length - 1)
        /\ windows[i].first + (pair[2] - windows[i].first) = pair[2]
    BY <1>1, <1>2, <2>1, <2>2, SMTT(30)
  <2>4. q \in windows[i].rule_evidence
    BY <1>2, <2>1, <2>3
  <2>5. pair = <<q[1], windows[i].first + q[2]>>
    BY <2>1, <2>3
  <2> HIDE DEF q
  <2>6. QED
    BY <2>4, <2>5 DEF MergeRuleEvidence
<1>5. QED
  BY <1>3, <1>4 DEF n

LEMMA PublishKeepsAnalysis ==
  ASSUME AnalysisInv, NEW c \in Cases, worker.case = c, c # None,
         Publish, UNCHANGED prepVars
  PROVE  AnalysisInv'
<1> DEFINE windows == worker.outcomes
<1>1. PICK k \in DOMAIN windows :
        results' = [results EXCEPT ![c] = ResultOf(c, windows, k, worker.llm_signals)]
  BY DEF Publish
<1>2. /\ Stored(c)
      /\ worker.start = Len(Messages(c))
      /\ job' = [job EXCEPT ![c] = "succeeded"]
      /\ worker' = Idle
      /\ UNCHANGED <<conversations, prep>>
      /\ windows \in Seq(WindowOutcome)
      /\ \A i \in DOMAIN windows : Analysed(c, windows[i])
      /\ Covered(windows, Len(Messages(c)))
  BY DEF Publish, prepVars, AnalysisInv, AnalysisTypeOK, WorkerInv
<1> HIDE DEF windows
<1> DEFINE n == Len(Messages(c))
           o == windows[k]
           r == ResultOf(c, windows, k, worker.llm_signals)
<1>3. o \in WindowOutcome /\ Analysed(c, o)
  BY <1>2
<1>4. o.first \in Nat /\ o.top \subseteq 0..(o.length - 1)
      /\ o.length \in Nat /\ o.first + o.length <= n /\ n \in Nat
  BY <1>2, <1>3, StoredTypes DEF WindowOutcome, Analysed
<1> DEFINE evidence  == MergeRuleEvidence(windows)
           sequences == {o.first + position : position \in o.top}
           limits    == ResultLimitations(c, windows)
<1>5. sequences \subseteq 0..(n - 1)
  <2> HIDE DEF n, o
  <2> QED BY <1>4
<1>6. evidence = {pair \in RULE_SIGNAL_NAMES \X (0..(n - 1)) :
                    pair[1] \in RulesIn(Messages(c)[pair[2] + 1])}
  BY <1>2, MergedEvidence
<1>7. /\ limits \in SUBSET (PREPROCESSING_LIMITATIONS
                            \cup {"multi_window", "token_limit", "no_llm_call"})
      /\ NerLimitation \in limits <=> NerLimitation \in conversations[c].limitations
  BY <1>2, StoredTypes DEF ResultLimitations, NerLimitation
<1>8. /\ RiskLevel(o.overall) \in RISK_LEVELS
      /\ RiskLevel(OperableRiskScore(o, worker.llm_signals)) \in RISK_LEVELS
  BY DEF RiskLevel, RISK_LEVELS
<1>9. HumanReviewRequired(windows, k) \in BOOLEAN
  BY <1>3 DEF HumanReviewRequired, WindowOutcome
<1>10. r = [risk_level            |-> RiskLevel(o.overall),
            human_review_required |-> HumanReviewRequired(windows, k),
            rule_evidence         |-> evidence,
            high_risk_sequences   |-> sequences,
            operable_risk_level   |-> RiskLevel(OperableRiskScore(o, worker.llm_signals)),
            data_limitations      |-> limits]
  BY DEF ResultOf
<1> HIDE DEF evidence, sequences, limits, o, r
<1>11. /\ r.rule_evidence = evidence
       /\ r.high_risk_sequences = sequences
       /\ r.data_limitations = limits
  BY <1>10
<1>12. r \in Result
  <2>1. evidence \in SUBSET (RULE_SIGNAL_NAMES \X Nat) /\ sequences \in SUBSET Nat
    <3> HIDE DEF n
    <3> QED BY <1>4, <1>5, <1>6
  <2>2. QED
    BY <1>7, <1>8, <1>9, <1>10, <2>1 DEF Result
<1>13. results' = [results EXCEPT ![c] = r]
  BY <1>1 DEF r
<1>14. AnalysisTypeOK'
  BY <1>2, <1>12, <1>13, IdleType DEF AnalysisInv, AnalysisTypeOK
<1>15. \A d \in Cases : (job[d] # "none")' => Stored(d)'
  BY <1>2 DEF AnalysisInv, AnalysisTypeOK, Stored
<1>16. WorkerInv'
  BY <1>2 DEF WorkerInv, Idle
<1>17. ASSUME NEW d \in Cases, (results[d] # None)' PROVE PublishedOK(d)'
  <2>1. CASE d = c
    <3>1. results'[c] = r
      BY <1>13 DEF AnalysisInv, AnalysisTypeOK
    <3>2. Stored(c)' /\ Messages(c)' = Messages(c) /\ conversations'[c] = conversations[c]
      BY <1>2 DEF Stored, Messages
    <3>3. QED
      BY <1>5, <1>6, <1>7, <1>11, <2>1, <3>1, <3>2 DEF PublishedOK
  <2>2. CASE d # c
    BY <1>2, <1>13, <1>17, <2>2 DEF AnalysisInv, AnalysisTypeOK, PublishedOK, Stored, Messages
  <2>3. QED
    BY <2>1, <2>2
<1>18. QED
  BY <1>14, <1>15, <1>16, <1>17 DEF AnalysisInv

LEMMA AnalysisInvStep == PrepInv /\ AnalysisInv /\ [Next]_vars => AnalysisInv'
<1> SUFFICES ASSUME PrepInv, AnalysisInv, [Next]_vars PROVE AnalysisInv'
  OBVIOUS
<1>1. CASE PrepNext /\ UNCHANGED analysisVars
  BY <1>1, PrepKeepsAnalysis
<1>2. CASE \E c \in Cases : Submit(c)
  BY <1>2, SubmitKeepsAnalysis
<1>3. CASE AnalysisNext /\ UNCHANGED prepVars
  <2>1. CASE \E c \in Cases : StartAnalysis(c)
    BY <1>3, <2>1, StartKeepsAnalysis
  <2>2. CASE ProcessWindow
    <3>1. worker.case # None /\ worker.case \in Cases
      BY <2>2 DEF ProcessWindow, AnalysisInv, AnalysisTypeOK
    <3>2. QED
      BY <1>3, <2>2, <3>1, ProcessKeepsAnalysis
  <2>3. CASE Raise
    BY <1>3, <2>3, RaiseKeepsAnalysis
  <2>4. CASE Publish
    <3>1. worker.case # None /\ worker.case \in Cases
      BY <2>4 DEF Publish, AnalysisInv, AnalysisTypeOK
    <3>2. QED
      BY <1>3, <2>4, <3>1, PublishKeepsAnalysis
  <2>5. QED
    BY <1>3, <2>1, <2>2, <2>3, <2>4 DEF AnalysisNext
<1>4. CASE UNCHANGED vars
  <2>1. UNCHANGED <<conversations, prep>> /\ UNCHANGED analysisVars
    BY <1>4 DEF vars, prepVars
  <2>2. QED
    BY <2>1, StoredKeepsAnalysis DEF Stored
<1>5. QED
  BY <1>1, <1>2, <1>3, <1>4 DEF Next

-------------------------------------------------------------------------------
(* Theorems about the analysis *)

(* The two invariants hold of every behaviour.                              *)
THEOREM CaseInvariant == Spec => [](PrepInv /\ AnalysisInv)
<1>1. Init => PrepInv /\ AnalysisInv
  BY PrepInvInit, AnalysisInvInit
<1>2. PrepInv /\ AnalysisInv /\ [Next]_vars => (PrepInv /\ AnalysisInv)'
  BY PrepInvStep, AnalysisInvStep
<1>3. QED
  BY <1>1, <1>2, PTL DEF Spec

(* Type correctness, with the bounds the state's docstring gives.           *)
THEOREM TypeCorrect == Spec => []TypeOK
<1>1. PrepInv /\ AnalysisInv => TypeOK
  BY DEF PrepInv, AnalysisInv, TypeOK
<1>2. QED
  BY <1>1, CaseInvariant, PTL

(* Windows partition the messages before start.                             *)
THEOREM MessagesAnalysedOnce == Spec => []EveryMessageOnce
<1>1. AnalysisInv => EveryMessageOnce
  BY DEF AnalysisInv, WorkerInv, Consecutive, EveryMessageOnce
<1>2. QED
  BY <1>1, CaseInvariant, PTL

(* The published evidence is that of the stored messages.                   *)
THEOREM EvidenceTraceable == Spec => []EvidenceIsTraceable
<1>1. AnalysisInv => EvidenceIsTraceable
  BY DEF AnalysisInv, PublishedOK, EvidenceIsTraceable
<1>2. QED
  BY <1>1, CaseInvariant, PTL

(* A published flag is that of some window's operable condition or warning. *)
THEOREM FlagsKept == Spec => NoFlagIsLost
<1>1. ASSUME PrepInv /\ AnalysisInv, [Next]_vars,
             NEW c \in Cases, results'[c] # results[c]
      PROVE  results'[c].human_review_required <=>
               \E i \in DOMAIN worker.outcomes :
                 LET o == worker.outcomes[i] IN
                 \/ CurrentlyOperableReview(RuleSignals(o.rule_evidence), o.llm)
                 \/ ComputeWarning(o.state)
  <2> DEFINE windows == worker.outcomes
  <2>1. Publish
    <3>1. ~UNCHANGED analysisVars /\ ~\E d \in Cases : Submit(d)
      BY <1>1 DEF analysisVars, Submit, Enqueue
    <3>2. AnalysisNext
      BY <1>1, <3>1 DEF Next, vars
    <3>3. QED
      BY <1>1, <3>2 DEF AnalysisNext, StartAnalysis, ProcessWindow, Raise
  <2>2. PICK k \in DOMAIN windows :
          results' = [results EXCEPT ![worker.case] =
                        ResultOf(worker.case, windows, k, worker.llm_signals)]
    BY <2>1 DEF Publish
  <2>3. worker.case = c /\ c # None
    BY <1>1, <2>1, <2>2 DEF Publish, AnalysisInv, AnalysisTypeOK
  <2>4. results'[c] = ResultOf(c, windows, k, worker.llm_signals)
    BY <1>1, <2>2, <2>3 DEF AnalysisInv, AnalysisTypeOK
  <2>5. /\ windows \in Seq(WindowOutcome)
        /\ \A i \in DOMAIN windows : Analysed(c, windows[i])
        /\ Latched(windows, worker.latched)
    BY <1>1, <2>3 DEF AnalysisInv, AnalysisTypeOK, WorkerInv
  <2> HIDE DEF windows
  <2>6. results'[c].human_review_required <=> \E i \in DOMAIN windows : windows[i].review
    BY <2>4 DEF ResultOf, HumanReviewRequired
  <2>7. ASSUME NEW i \in DOMAIN windows
        PROVE  windows[i].review <=>
                 \/ CurrentlyOperableReview(RuleSignals(windows[i].rule_evidence), windows[i].llm)
                 \/ \E j \in 1..i : ComputeWarning(windows[j].state)
    BY <2>5 DEF Analysed, Latched
  <2>8. DOMAIN windows = 1..Len(windows) /\ Len(windows) \in Nat
    BY <2>5
  <2>9. \A i \in DOMAIN windows : i \in 1..i /\ 1..i \subseteq DOMAIN windows
    BY <2>8
  <2>10. QED
    BY <2>6, <2>7, <2>9 DEF windows
<1>2. PrepInv /\ AnalysisInv /\ [Next]_vars =>
        [\A c \in Cases : results'[c] # results[c] =>
           (results'[c].human_review_required <=>
              \E i \in DOMAIN worker.outcomes :
                LET o == worker.outcomes[i] IN
                \/ CurrentlyOperableReview(RuleSignals(o.rule_evidence), o.llm)
                \/ ComputeWarning(o.state))]_analysisVars
  BY <1>1
<1>3. QED
  BY <1>2, CaseInvariant, PTL DEF Spec, NoFlagIsLost

-------------------------------------------------------------------------------
(* Redaction *)

Found(c, i, ner) == {s \in Raw[c][i].spans : IsRegex(s) \/ ner}

(* The selection loop: spans still to come lie after those gone through,    *)
(* which are selected or overlap a selected one; the last selected ends     *)
(* at last_end, and no two selected overlap.                                *)
Selecting(p, found) ==
  /\ p.spans \subseteq found
  /\ p.selected \subseteq found \ p.spans
  /\ \A s \in found \ p.spans, t \in p.spans : Before(s, t)
  /\ \A s \in found \ p.spans : \E t \in p.selected : Overlap(s, t)
  /\ \A t \in p.selected : t.end <= p.last_end
  /\ p.last_end = -1 \/ \E t \in p.selected : t.end = p.last_end
  /\ \A s, t \in p.selected : s # t => ~Overlap(s, t)

Redacted(c, m) ==
  LET found == Found(c, m.index, m.ner) IN
  /\ m.selected \subseteq found
  /\ \A s \in found : \E t \in m.selected : Overlap(s, t)
  /\ \A s, t \in m.selected : s # t => ~Overlap(s, t)

(* Of a thread; available and failed are the two globals.                   *)
Sound(c, p, available, failed) ==
  /\ p.pc = "redact" => /\ Selecting(p, Found(c, p.current, p.ner))
                        /\ IF p.ner THEN available ELSE failed
  /\ \A i \in DOMAIN p.prepared : /\ Redacted(c, p.prepared[i])
                                  /\ IF p.prepared[i].ner THEN available ELSE failed

(* A committed conversation says whether the model was there at its end.    *)
NerStored(c) ==
  prep[c].pc = "committed" =>
    IF NerLimitation \in conversations[c].limitations
    THEN \A m \in PreparedMessages(c) : ~m.ner
    ELSE ner_pipeline

RedactionInv ==
  \A c \in Cases : Sound(c, prep[c], ner_pipeline, ner_load_failed) /\ NerStored(c)

(* One round of the selection loop.                                         *)
LEMMA SelectKeepsSelecting ==
  ASSUME NEW found \in SUBSET Spans, NEW p \in Threads, Selecting(p, found),
         NEW s \in p.spans, \A t \in p.spans \ {s} : Before(s, t)
  PROVE  Selecting(Select(p, s), found)
<1> DEFINE q == Select(p, s)
<1>1. /\ p.spans \in SUBSET Spans
      /\ p.selected \in SUBSET Spans
      /\ p.last_end \in Int
      /\ s \in Spans
  BY DEF Threads
<1>2. \A t \in Spans : t.start \in Nat /\ t.end \in Nat /\ t.start < t.end
  BY DEF Spans
<1>3. q.spans = p.spans \ {s}
  BY <1>1 DEF Select, Threads
<1>4. \A t \in found \ q.spans, u \in q.spans : Before(t, u)
  BY <1>3 DEF Selecting
<1>5. CASE s.start < p.last_end
  <2>1. q.selected = p.selected /\ q.last_end = p.last_end
    BY <1>5 DEF Select, Threads
  <2>2. \E t \in p.selected : Overlap(s, t)
    <3>1. PICK t \in p.selected : t.end = p.last_end
      BY <1>1, <1>2, <1>5 DEF Selecting
    <3>2. t \in Spans /\ Before(t, s)
      BY <1>1, <3>1 DEF Selecting
    <3>3. t.start <= s.start
      BY <1>1, <1>2, <3>2 DEF Before
    <3>4. QED
      BY <1>1, <1>2, <1>5, <3>1, <3>2, <3>3 DEF Overlap
  <2> HIDE DEF q
  <2>3. QED
    BY <1>3, <1>4, <2>1, <2>2 DEF q, Selecting
<1>6. CASE ~(s.start < p.last_end)
  <2>1. q.selected = p.selected \cup {s} /\ q.last_end = s.end
    BY <1>6 DEF Select, Threads
  <2>2. Overlap(s, s)
    BY <1>1, <1>2 DEF Overlap
  <2>3. ASSUME NEW t \in p.selected PROVE ~Overlap(s, t) /\ ~Overlap(t, s) /\ t.end <= s.end
    <3>1. t.end <= p.last_end /\ t \in Spans
      BY <1>1 DEF Selecting
    <3>2. QED
      BY <1>1, <1>2, <1>6, <3>1 DEF Overlap
  <2> HIDE DEF q
  <2>4. \A t, u \in q.selected : t # u => ~Overlap(t, u)
    BY <2>1, <2>3 DEF Selecting
  <2>5. \A t \in q.selected : t.end <= q.last_end
    BY <1>1, <1>2, <2>1, <2>3
  <2>6. /\ q.spans \subseteq found
        /\ q.selected \subseteq found \ q.spans
        /\ \A t \in found \ q.spans : \E u \in q.selected : Overlap(t, u)
        /\ \E t \in q.selected : t.end = q.last_end
    BY <1>3, <2>1, <2>2 DEF Selecting
  <2>7. QED
    BY <1>4, <2>4, <2>5, <2>6 DEF q, Selecting
<1>7. QED
  BY <1>5, <1>6

LEMMA RedactionInvInit == Init => RedactionInv
<1> SUFFICES ASSUME Init, NEW c \in Cases
             PROVE  Sound(c, prep[c], ner_pipeline, ner_load_failed) /\ NerStored(c)
  BY DEF RedactionInv
<1>1. prep[c].pc = "idle" /\ prep[c].prepared = << >>
  BY DEF Init, PrepInit
<1>2. QED
  BY <1>1 DEF Sound, NerStored

(* A thread's step, with the globals it may set.                            *)
LEMMA ThreadKeepsRedaction ==
  ASSUME PrepInv, RedactionInv, NEW c \in Cases, NEW t,
         prep[c].pc # "committed", t.pc # "committed",
         prep' = [prep EXCEPT ![c] = t],
         ner_pipeline => ner_pipeline', ner_load_failed => ner_load_failed',
         Sound(c, t, ner_pipeline', ner_load_failed'),
         UNCHANGED conversations
  PROVE  RedactionInv'
<1> SUFFICES ASSUME NEW d \in Cases
             PROVE  Sound(d, prep'[d], ner_pipeline', ner_load_failed') /\ NerStored(d)'
  BY DEF RedactionInv
<1>1. prep' \in [Cases -> {prep[x] : x \in Cases} \cup {t}] /\ prep'[c] = t
  BY DEF PrepInv, PrepTypeOK
<1>2. CASE d = c
  BY <1>1, <1>2 DEF NerStored
<1>3. CASE d # c
  <2>1. prep'[d] = prep[d]
    BY <1>3 DEF PrepInv, PrepTypeOK
  <2>2. Sound(d, prep[d], ner_pipeline, ner_load_failed) /\ NerStored(d)
    BY DEF RedactionInv
  <2>3. Sound(d, prep'[d], ner_pipeline', ner_load_failed')
    BY <2>1, <2>2 DEF Sound
  <2>4. NerStored(d)'
    BY <2>1, <2>2 DEF NerStored, PreparedMessages
  <2>5. QED
    BY <2>3, <2>4
<1>4. QED
  BY <1>2, <1>3

(* redact_text begins on a message.                                         *)
LEMMA RedactKeepsRedaction ==
  ASSUME PrepInv, RedactionInv, NEW c \in Cases, NEW i, NEW available \in BOOLEAN,
         prep[c].pc # "committed",
         Redact(c, i, available),
         ner_pipeline => ner_pipeline', ner_load_failed => ner_load_failed',
         IF available THEN ner_pipeline' ELSE ner_load_failed',
         UNCHANGED conversations
  PROVE  RedactionInv'
<1> DEFINE found == {s \in Raw[c][i].spans : IsRegex(s) \/ available}
           t     == [prep[c] EXCEPT !.pc = "redact", !.current = i, !.ner = available,
                       !.spans = found, !.selected = {}, !.last_end = -1]
<1>1. prep' = [prep EXCEPT ![c] = t]
  BY DEF Redact
<1>2. prep[c] \in Threads /\ Sound(c, prep[c], ner_pipeline, ner_load_failed)
  BY DEF PrepInv, PrepTypeOK, RedactionInv
<1> HIDE DEF found
<1>3. /\ t.pc = "redact" /\ t.current = i /\ t.ner = available
      /\ t.spans = found /\ t.selected = {} /\ t.last_end = -1
      /\ t.prepared = prep[c].prepared
  BY <1>2 DEF Threads
<1> HIDE DEF t
<1>4. Found(c, i, available) = found
  BY DEF Found, found
<1>5. Sound(c, t, ner_pipeline', ner_load_failed')
  BY <1>2, <1>3, <1>4 DEF Sound, Selecting
<1>6. QED
  BY <1>1, <1>3, <1>5, ThreadKeepsRedaction

LEMMA FinishKeepsRedaction ==
  ASSUME PrepInv, RedactionInv, NEW c \in Cases, FinishMessage(c)
  PROVE  RedactionInv'
<1> DEFINE p == prep[c]
<1>1. PICK map, row :
        prep' = [prep EXCEPT ![c] =
          Finished(p, map, [index |-> p.current, selected |-> p.selected,
                            ner |-> p.ner, row |-> row])]
  BY DEF FinishMessage
<1> DEFINE m == [index |-> p.current, selected |-> p.selected, ner |-> p.ner, row |-> row]
           t == Finished(p, map, m)
<1>2. /\ p \in Threads
      /\ p.pc = "redact"
      /\ p.spans = {}
      /\ Sound(c, p, ner_pipeline, ner_load_failed)
      /\ UNCHANGED <<ner_pipeline, ner_load_failed, conversations>>
  BY DEF FinishMessage, PrepInv, PrepTypeOK, RedactionInv
<1>3. Redacted(c, m) /\ IF m.ner THEN ner_pipeline ELSE ner_load_failed
  BY <1>2 DEF Sound, Selecting, Redacted
<1> HIDE DEF m
<1>4. t.pc = "message" /\ t.prepared = Append(p.prepared, m)
  BY <1>2 DEF Threads, Finished
<1> HIDE DEF t
<1>5. p.prepared \in Seq(Prepared)
  BY <1>2 DEF Threads
<1>6. \A i \in DOMAIN t.prepared :
        \/ t.prepared[i] = m
        \/ i \in DOMAIN p.prepared /\ t.prepared[i] = p.prepared[i]
  <2> HIDE DEF p
  <2> QED BY <1>4, <1>5
<1>7. Sound(c, t, ner_pipeline', ner_load_failed')
  BY <1>2, <1>3, <1>4, <1>6 DEF Sound
<1>8. QED
  BY <1>1, <1>2, <1>4, <1>7, ThreadKeepsRedaction DEF t, m

LEMMA PrepKeepsRedaction ==
  ASSUME PrepInv, RedactionInv, NEW c \in Cases,
         \/ Prepare(c) \/ GetNerPipeline(c) \/ LoadSucceeds(c) \/ LoadFails(c)
         \/ TakeSpan(c) \/ FinishMessage(c) \/ Refuse(c)
  PROVE  RedactionInv'
<1>1. /\ prep[c] \in Threads
      /\ Sound(c, prep[c], ner_pipeline, ner_load_failed)
      /\ ner_pipeline \in BOOLEAN
  BY DEF PrepInv, PrepTypeOK, RedactionInv
<1>2. ASSUME NEW pc \in {"message", "loading", "refused"}, NEW i,
             prep' = [prep EXCEPT ![c] = [prep[c] EXCEPT !.pc = pc, !.current = i]],
             prep[c].pc # "committed",
             UNCHANGED <<ner_pipeline, ner_load_failed, conversations>>
      PROVE  RedactionInv'
  <2> DEFINE t == [prep[c] EXCEPT !.pc = pc, !.current = i]
  <2>1. t.pc = pc /\ t.prepared = prep[c].prepared
    BY <1>1 DEF Threads
  <2>2. prep' = [prep EXCEPT ![c] = t]
    BY <1>2
  <2> HIDE DEF t
  <2>3. Sound(c, t, ner_pipeline', ner_load_failed')
    BY <1>1, <1>2, <2>1 DEF Sound
  <2>4. QED
    BY <1>2, <2>1, <2>2, <2>3, ThreadKeepsRedaction
<1>3. ASSUME Prepare(c) \/ Refuse(c) PROVE RedactionInv'
  <2>1. PICK pc \in {"message", "loading", "refused"} : prep' = [prep EXCEPT ![c].pc = pc]
    BY <1>3 DEF Prepare, Refuse
  <2>2. [prep[c] EXCEPT !.pc = pc] = [prep[c] EXCEPT !.pc = pc, !.current = prep[c].current]
    BY <1>1 DEF Threads
  <2>3. prep' = [prep EXCEPT ![c] = [prep[c] EXCEPT !.pc = pc, !.current = prep[c].current]]
    BY <2>1, <2>2
  <2>4. QED
    BY <1>2, <1>3, <2>3 DEF Prepare, Refuse
<1>4. CASE GetNerPipeline(c)
  <2>1. PICK i \in prep[c].remaining :
          IF ner_pipeline \/ ner_load_failed
          THEN Redact(c, i, ner_pipeline)
          ELSE prep' = [prep EXCEPT ![c].pc = "loading", ![c].current = i]
    BY <1>4 DEF GetNerPipeline
  <2>2. prep[c].pc # "committed" /\ UNCHANGED <<ner_pipeline, ner_load_failed, conversations>>
    BY <1>4 DEF GetNerPipeline
  <2>3. CASE ner_pipeline \/ ner_load_failed
    BY <1>1, <2>1, <2>2, <2>3, RedactKeepsRedaction
  <2>4. CASE ~(ner_pipeline \/ ner_load_failed)
    <3>1. prep' = [prep EXCEPT ![c] = [prep[c] EXCEPT !.pc = "loading", !.current = i]]
      BY <2>1, <2>4 DEF PrepInv, PrepTypeOK
    <3>2. QED
      BY <1>2, <2>2, <3>1
  <2>5. QED
    BY <2>3, <2>4
<1>5. CASE LoadSucceeds(c)
  BY <1>5, RedactKeepsRedaction DEF LoadSucceeds
<1>6. CASE LoadFails(c)
  BY <1>1, <1>6, RedactKeepsRedaction DEF LoadFails
<1>7. CASE TakeSpan(c)
  <2>1. PICK s \in prep[c].spans :
          /\ \A t \in prep[c].spans \ {s} : Before(s, t)
          /\ prep' = [prep EXCEPT ![c] = Select(prep[c], s)]
    BY <1>7 DEF TakeSpan
  <2> DEFINE found == Found(c, prep[c].current, prep[c].ner)
             t     == Select(prep[c], s)
  <2>2. prep[c].pc = "redact" /\ UNCHANGED <<ner_pipeline, ner_load_failed, conversations>>
    BY <1>7 DEF TakeSpan
  <2>3. found \in SUBSET Spans
    <3>1. prep[c].current \in DOMAIN Raw[c]
      BY <2>2 DEF PrepInv, ThreadOK
    <3>2. QED
      BY <3>1, FoundAreSpans DEF Found
  <2>4. Selecting(t, found)
    <3>1. Selecting(prep[c], found)
      BY <1>1, <2>2 DEF Sound
    <3> HIDE DEF found
    <3>2. QED
      BY <1>1, <2>1, <2>3, <3>1, SelectKeepsSelecting
  <2>5. /\ t.pc = "redact" /\ t.current = prep[c].current /\ t.ner = prep[c].ner
        /\ t.prepared = prep[c].prepared
    BY <1>1, <2>2 DEF Select, Threads
  <2> HIDE DEF t
  <2>6. Sound(c, t, ner_pipeline', ner_load_failed')
    BY <1>1, <2>2, <2>4, <2>5 DEF Sound
  <2>7. QED
    BY <2>1, <2>2, <2>5, <2>6, ThreadKeepsRedaction DEF t
<1>8. CASE FinishMessage(c)
  BY <1>8, FinishKeepsRedaction
<1>9. QED
  BY <1>3, <1>4, <1>5, <1>6, <1>7, <1>8

LEMMA SubmitKeepsRedaction ==
  ASSUME PrepInv, RedactionInv, NEW c \in Cases, Submit(c)
  PROVE  RedactionInv'
<1> USE DEF PrepInv, PrepTypeOK
<1>1. /\ prep[c].pc = "message"
      /\ prep' = [prep EXCEPT ![c].pc = "committed"]
      /\ UNCHANGED <<ner_pipeline, ner_load_failed>>
      /\ \A d \in Cases \ {c} : conversations'[d] = conversations[d]
      /\ conversations'[c].limitations = DataLimitations(c)
  BY DEF Submit, Commit
<1>2. /\ prep[c] \in Threads
      /\ Sound(c, prep[c], ner_pipeline, ner_load_failed)
  BY DEF RedactionInv
<1>3. prep'[c].pc = "committed" /\ prep'[c].prepared = prep[c].prepared
  BY <1>1, <1>2 DEF Threads
<1>4. Sound(c, prep'[c], ner_pipeline', ner_load_failed') /\ NerStored(c)'
  <2>1. Sound(c, prep'[c], ner_pipeline', ner_load_failed')
    BY <1>1, <1>2, <1>3 DEF Sound
  <2>2. NerLimitation \in conversations'[c].limitations <=> ~ner_pipeline
    BY <1>1 DEF DataLimitations, NerLimitation
  <2>3. ~ner_pipeline => \A i \in DOMAIN prep[c].prepared : ~prep[c].prepared[i].ner
    BY <1>2 DEF Sound
  <2>4. QED
    BY <1>1, <1>3, <2>1, <2>2, <2>3 DEF NerStored, PreparedMessages
<1>5. ASSUME NEW d \in Cases, d # c
      PROVE  Sound(d, prep'[d], ner_pipeline', ner_load_failed') /\ NerStored(d)'
  <2>1. prep'[d] = prep[d] /\ conversations'[d] = conversations[d]
    BY <1>1, <1>5
  <2>2. QED
    BY <1>1, <2>1 DEF RedactionInv, NerStored, PreparedMessages
<1>6. QED
  BY <1>4, <1>5 DEF RedactionInv

LEMMA RedactionInvStep == PrepInv /\ RedactionInv /\ [Next]_vars => RedactionInv'
<1> SUFFICES ASSUME PrepInv, RedactionInv, [Next]_vars PROVE RedactionInv'
  OBVIOUS
<1>1. CASE PrepNext
  BY <1>1, PrepKeepsRedaction DEF PrepNext
<1>2. CASE \E c \in Cases : Submit(c)
  BY <1>2, SubmitKeepsRedaction
<1>3. CASE UNCHANGED <<conversations, prepVars>>
  BY <1>3 DEF prepVars, RedactionInv, NerStored, PreparedMessages
<1>4. CASE AnalysisNext /\ UNCHANGED prepVars
  <2>1. UNCHANGED conversations
    BY <1>4 DEF AnalysisNext, StartAnalysis, ProcessWindow, Raise, Publish
  <2>2. QED
    BY <1>3, <1>4, <2>1
<1>5. QED
  BY <1>1, <1>2, <1>3, <1>4 DEF Next, vars

(* Threads redact soundly and conversations say whether the model was there.*)
THEOREM RedactionInvariant == Spec => []RedactionInv
<1>1. PrepInv /\ RedactionInv /\ [Next]_vars => RedactionInv'
  BY RedactionInvStep
<1>2. QED
  BY <1>1, RedactionInvInit, CaseInvariant, PTL DEF Spec

(* No span found survives whole, and what is replaced is disjoint.          *)
THEOREM RedactionSound == Spec => []RedactionIsSound
<1>1. RedactionInv => RedactionIsSound
  <2>1. ASSUME RedactionInv, NEW c \in Cases, NEW m \in PreparedMessages(c)
        PROVE  Redacted(c, m)
    <3>1. PICK i \in DOMAIN prep[c].prepared : m = prep[c].prepared[i]
      BY DEF PreparedMessages
    <3>2. Redacted(c, prep[c].prepared[i])
      BY <2>1, <3>1 DEF RedactionInv, Sound
    <3>3. QED
      BY <3>1, <3>2
  <2>2. QED
    BY <2>1, Zenon DEF RedactionIsSound, Redacted, Found
<1>2. QED
  BY <1>1, RedactionInvariant, PTL

(* The limitation of a result tells whether the model redacted.             *)
THEOREM FallbackVisible == Spec => []FallbackIsVisible
<1>1. ASSUME AnalysisInv, RedactionInv PROVE FallbackIsVisible
  <2>1. SUFFICES ASSUME NEW c \in Cases, results[c] # None
                 PROVE  IF NerLimitation \in results[c].data_limitations
                        THEN \A m \in PreparedMessages(c) : ~m.ner
                        ELSE (\E m \in PreparedMessages(c) : ~m.ner) =>
                               ner_pipeline /\ ner_load_failed
    BY DEF FallbackIsVisible
  <2>2. PublishedOK(c) /\ NerStored(c) /\ Sound(c, prep[c], ner_pipeline, ner_load_failed)
    BY <1>1, <2>1 DEF AnalysisInv, RedactionInv
  <2>3. \A m \in PreparedMessages(c) : IF m.ner THEN ner_pipeline ELSE ner_load_failed
    BY <2>2 DEF Sound, PreparedMessages
  <2>4. QED
    BY <2>2, <2>3 DEF PublishedOK, Stored, NerStored
<1>2. QED
  BY <1>1, CaseInvariant, RedactionInvariant, PTL
===============================================================================
