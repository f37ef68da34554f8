----------------------------- MODULE Preparation -----------------------------
(***************************************************************************)
(* The preprocessing of a submitted conversation                            *)
(* (backend/preprocessing/anonymize.py and pii_redaction.py), run by the    *)
(* request handler before the case is committed (api/routers/cases.py).     *)
(* Handlers run in threads of their own and share two globals, the          *)
(* name-recognition model and the mark that its load failed, which they     *)
(* read and write without a lock.                                           *)
(*                                                                          *)
(* A text is described by what the code finds in it: the spans of the five  *)
(* patterns and of the model, the places where a rule's pattern matches,    *)
(* and whether it is blank or longer than the encoders read.                *)
(***************************************************************************)
EXTENDS CaseData, FiniteSets, SequencesExt

CONSTANTS
  Raw,      \* [Cases -> Seq(RawMessage)], the submitted messages
  Letters   \* letters of a pseudonym: 26 in the code

VARIABLES
  ner_pipeline,     \* _ner_pipeline holds a model
  ner_load_failed,  \* _ner_load_failed
  prep              \* [Cases -> the state of the case's request thread]

prepVars == <<ner_pipeline, ner_load_failed, prep>>

(* The order of _PATTERNS; entities of the model come after them.           *)
Rank == [URL |-> 1, EMAIL |-> 2, PHONE |-> 3, HANDLE |-> 4, ADDRESS |-> 5,
         PERSON |-> 6, LOCATION |-> 6]

Spans == {s \in [start : Nat, end : Nat, label : DOMAIN Rank] : s.start < s.end}

IsRegex(s) == Rank[s.label] < 6

Overlap(s, t) == s.start < t.end /\ t.start < s.end

(* time is None or the instant and whether it names a time zone; triggers   *)
(* are the places where a rule's pattern matches.                           *)
RawMessage ==
  [speaker_external_id : STRING,
   time     : {None} \cup [at : Nat, aware : BOOLEAN],
   spans    : SUBSET Spans,
   triggers : SUBSET [rule : RULE_SIGNAL_NAMES, start : Nat, end : Nat],
   blank    : BOOLEAN,
   long     : BOOLEAN]

(* A conversation has at least one message (api/schemas.py), and the spans  *)
(* of one pattern do not overlap.                                           *)
ASSUME PreparationAssumption ==
  /\ Letters \in Nat \ {0}
  /\ DOMAIN Raw = Cases
  /\ \A c \in Cases :
       /\ Raw[c] \in Seq(RawMessage) \ {<< >>}
       /\ \A i \in DOMAIN Raw[c] : \A s, t \in Raw[c][i].spans :
            s # t /\ Rank[s.label] = Rank[t.label] => ~Overlap(s, t)

-------------------------------------------------------------------------------
(* Order and pseudonyms *)

HasTimestamps(c) == \A i \in DOMAIN Raw[c] : Raw[c][i].time # None

(* Python refuses to compare a datetime that names its zone with one that   *)
(* does not: sorted raises.                                                 *)
Incomparable(c) ==
  /\ HasTimestamps(c)
  /\ \E i, j \in DOMAIN Raw[c] : Raw[c][i].time.aware # Raw[c][j].time.aware

(* The order in which messages are prepared: a stable sort by time when     *)
(* every message has one.                                                   *)
Precedes(c, i, j) ==
  IF HasTimestamps(c) /\ Raw[c][i].time.at # Raw[c][j].time.at
  THEN Raw[c][i].time.at < Raw[c][j].time.at
  ELSE i < j

(* Mutant: one letter only, as if a conversation had at most 26 speakers.   *)
OneLetter(index) == <<index % Letters>>

(* SPEAKER_A is <<0>>, SPEAKER_Z <<25>>, SPEAKER_AA <<0, 0>>, ...           *)
LocalSpeakerId(index) ==
  LET id[n \in Nat] ==
        IF n \div Letters = 0
        THEN <<n % Letters>>
        ELSE Append(id[n \div Letters - 1], n % Letters)
  IN id[index]

LocalSpeakerIds == UNION {{LocalSpeakerId(n) : n \in 0..Len(Raw[c])} : c \in Cases}

-------------------------------------------------------------------------------
(* Redaction *)

(* The stable sort by start: patterns in their order, the model last.       *)
Before(s, t) ==
  \/ s.start < t.start
  \/ s.start = t.start /\ Rank[s.label] < Rank[t.label]

(* What a rule's pattern still matches once the selected spans are replaced *)
(* by their markers.                                                        *)
SurvivingRules(m, selected) ==
  {t.rule : t \in {u \in m.triggers : \A s \in selected : ~Overlap(u, s)}}

RedactedContent(m, selected) ==
  IF m.blank THEN None
  ELSE [rules |-> SurvivingRules(m, selected), long |-> m.long]

-------------------------------------------------------------------------------
(* A request thread.  pc: "message" before a message, "loading" while it    *)
(* loads the model, "redact" while it goes through the spans it found;      *)
(* current is the index of its message, remaining the indices still to      *)
(* prepare.  Of a prepared message the specification also remembers which   *)
(* it is, its selected spans and whether the model took part.               *)

PrepInit ==
  /\ ner_pipeline = FALSE
  /\ ner_load_failed = FALSE
  /\ prep = [c \in Cases |->
               [pc |-> "idle", remaining |-> DOMAIN Raw[c], current |-> 1,
                prepared |-> << >>, speaker_map |-> << >>,
                spans |-> {}, selected |-> {}, last_end |-> -1, ner |-> FALSE]]

(* A prepared message, with what the model remembers of it.                 *)
Prepared == [index : Nat, selected : SUBSET Spans, ner : BOOLEAN,
             row : CaseMessage(LocalSpeakerIds)]

Threads ==
  [pc          : {"idle", "message", "loading", "redact", "committed", "refused"},
   remaining   : SUBSET Nat,
   current     : Nat,
   prepared    : Seq(Prepared),
   speaker_map : Seq(STRING),
   spans       : SUBSET Spans,
   selected    : SUBSET Spans,
   last_end    : Int,
   ner         : BOOLEAN]

PrepTypeOK ==
  /\ ner_pipeline \in BOOLEAN
  /\ ner_load_failed \in BOOLEAN
  /\ prep \in [Cases -> Threads]

(* prepare_conversation is called; the handler fails if it cannot order.    *)
Prepare(c) ==
  /\ prep[c].pc = "idle"
  /\ prep' = [prep EXCEPT ![c].pc = IF Incomparable(c) THEN "refused" ELSE "message"]
  /\ UNCHANGED <<ner_pipeline, ner_load_failed, conversations>>

(* redact_text has the spans of the patterns and goes on with those of the  *)
(* model, if _get_ner_pipeline returned one.                                *)
Redact(c, i, available) ==
  prep' = [prep EXCEPT ![c] =
             [@ EXCEPT !.pc = "redact", !.current = i, !.ner = available,
                       !.spans = {s \in Raw[c][i].spans : IsRegex(s) \/ available},
                       !.selected = {}, !.last_end = -1]]

(* The next message; _get_ner_pipeline finds the globals set or begins to   *)
(* load.                                                                    *)
GetNerPipeline(c) ==
  /\ prep[c].pc = "message"
  /\ \E i \in prep[c].remaining :
       /\ \A j \in prep[c].remaining \ {i} : Precedes(c, i, j)
       /\ IF ner_pipeline \/ ner_load_failed
          THEN Redact(c, i, ner_pipeline)
          ELSE prep' = [prep EXCEPT ![c].pc = "loading", ![c].current = i]
  /\ UNCHANGED <<ner_pipeline, ner_load_failed, conversations>>

LoadSucceeds(c) ==
  /\ prep[c].pc = "loading"
  /\ ner_pipeline' = TRUE
  /\ Redact(c, prep[c].current, TRUE)
  /\ UNCHANGED <<ner_load_failed, conversations>>

(* The return after the except reads the global again.                      *)
LoadFails(c) ==
  /\ prep[c].pc = "loading"
  /\ ner_load_failed' = TRUE
  /\ Redact(c, prep[c].current, ner_pipeline)
  /\ UNCHANGED <<ner_pipeline, conversations>>

(* Mutant: a span that begins where the last one ended counts as an overlap.*)
SelectNotAdjacent(p, s) ==
  IF s.start <= p.last_end
  THEN [p EXCEPT !.spans = @ \ {s}]
  ELSE [p EXCEPT !.spans = @ \ {s}, !.selected = @ \cup {s}, !.last_end = s.end]

(* A span that begins before the end of the last selected one is dropped.   *)
Select(p, s) ==
  IF s.start < p.last_end
  THEN [p EXCEPT !.spans = @ \ {s}]
  ELSE [p EXCEPT !.spans = @ \ {s}, !.selected = @ \cup {s}, !.last_end = s.end]

(* One round of the selection loop, over the spans in sorted order.         *)
TakeSpan(c) ==
  /\ prep[c].pc = "redact"
  /\ \E s \in prep[c].spans :
       /\ \A t \in prep[c].spans \ {s} : Before(s, t)
       /\ prep' = [prep EXCEPT ![c] = Select(prep[c], s)]
  /\ UNCHANGED <<ner_pipeline, ner_load_failed, conversations>>

Finished(p, map, result) ==
  [p EXCEPT !.pc = "message", !.remaining = @ \ {p.current}, !.speaker_map = map,
            !.prepared = Append(@, result), !.selected = {}]

(* speaker_map.setdefault and the append to prepared.                       *)
FinishMessage(c) ==
  /\ prep[c].pc = "redact"
  /\ prep[c].spans = {}
  /\ LET m      == Raw[c][prep[c].current]
         known  == prep[c].speaker_map
         map    == IF Contains(known, m.speaker_external_id) THEN known
                   ELSE Append(known, m.speaker_external_id)
         index  == CHOOSE i \in DOMAIN map : map[i] = m.speaker_external_id
         result == [index    |-> prep[c].current,
                    selected |-> prep[c].selected,
                    ner      |-> prep[c].ner,
                    row      |-> [speaker_local_id |-> LocalSpeakerId(index - 1),
                                  redacted_content |-> RedactedContent(m, prep[c].selected)]]
     IN prep' = [prep EXCEPT ![c] = Finished(prep[c], map, result)]
  /\ UNCHANGED <<ner_pipeline, ner_load_failed, conversations>>

(* Mutant: a load that failed counts as unavailable for good.               *)
LimitationsByFailure(c) ==
  {"redaction_scope"}
  \cup (IF HasTimestamps(c) THEN {} ELSE {"missing_timestamps_used_submission_order"})
  \cup (IF Len(prep[c].speaker_map) < 2 THEN {"single_speaker_conversation"} ELSE {})
  \cup (IF ner_load_failed
        THEN {"name_and_place_redaction_unavailable_this_run_regex_only_was_applied"}
        ELSE {})

(* data_limitations, with ner_is_available asked at the end.                *)
DataLimitations(c) ==
  {"redaction_scope"}
  \cup (IF HasTimestamps(c) THEN {} ELSE {"missing_timestamps_used_submission_order"})
  \cup (IF Len(prep[c].speaker_map) < 2 THEN {"single_speaker_conversation"} ELSE {})
  \cup (IF ner_pipeline THEN {}
        ELSE {"name_and_place_redaction_unavailable_this_run_regex_only_was_applied"})

(* prepare_conversation returns and submit_case commits the conversation,   *)
(* its messages and the job.                                                *)
Commit(c) ==
  /\ prep[c].pc = "message"
  /\ prep[c].remaining = {}
  /\ conversations' = [conversations EXCEPT ![c] =
       [messages    |-> [i \in DOMAIN prep[c].prepared |-> prep[c].prepared[i].row],
        limitations |-> DataLimitations(c)]]
  /\ prep' = [prep EXCEPT ![c].pc = "committed"]
  /\ UNCHANGED <<ner_pipeline, ner_load_failed>>

(* The model raises on a text, or the database refuses: the transaction is  *)
(* rolled back and the submitter sees an error.                             *)
Refuse(c) ==
  /\ prep[c].pc \in {"message", "redact"}
  /\ prep' = [prep EXCEPT ![c].pc = "refused"]
  /\ UNCHANGED <<ner_pipeline, ner_load_failed, conversations>>

PrepNext ==
  \E c \in Cases :
    \/ Prepare(c)
    \/ GetNerPipeline(c)
    \/ LoadSucceeds(c)
    \/ LoadFails(c)
    \/ TakeSpan(c)
    \/ FinishMessage(c)
    \/ Refuse(c)

-------------------------------------------------------------------------------
(* Properties *)

PreparedMessages(c) == {prep[c].prepared[i] : i \in DOMAIN prep[c].prepared}

(***************************************************************************)
(* No personal span that redact_text found survives whole: of every span of *)
(* the patterns, and of the model when it took part, some characters are    *)
(* replaced; replaced spans are disjoint, so the pieces fit together; and   *)
(* nothing else is replaced.                                                *)
(***************************************************************************)
RedactionIsSound ==
  \A c \in Cases : \A m \in PreparedMessages(c) :
    LET found == {s \in Raw[c][m.index].spans : IsRegex(s) \/ m.ner} IN
    /\ m.selected \subseteq found
    /\ \A s \in found : \E t \in m.selected : Overlap(s, t)
    /\ \A s, t \in m.selected : s # t => ~Overlap(s, t)

(***************************************************************************)
(* Within a conversation two messages have one pseudonym exactly if they    *)
(* have one speaker, however many speakers there are.                       *)
(***************************************************************************)
PseudonymsFaithful ==
  \A c \in Cases : \A m, n \in PreparedMessages(c) :
    Raw[c][m.index].speaker_external_id = Raw[c][n.index].speaker_external_id
      <=> m.row.speaker_local_id = n.row.speaker_local_id
===============================================================================
