----------------------------- MODULE RiskAnalysis -----------------------------
(***************************************************************************)
(* The analysis of a case: run_analysis (backend/model_runtime/             *)
(* job_runner.py) cuts the case's messages into windows and sends each      *)
(* through one IntegratedInferencePipeline (model/inference/                *)
(* integrated_pipeline.py), whose historical state and early warning carry  *)
(* over from window to window; the outcome is aggregated and becomes the    *)
(* published result (explainability/service.py, jobs/queue.py).             *)
(*                                                                          *)
(* What the networks and the language model answer is a choice.  Scores and *)
(* signals are in hundredths, the historical state in millionths; the six   *)
(* dimensions of L_t are represented by the largest.                        *)
(***************************************************************************)
EXTENDS CaseData, FiniteSets, SequencesExt

CONSTANTS
  WindowSize,        \* default_window_size: 12
  PersistenceWindow, \* DEFAULT_PERSISTENCE_WINDOW: 10
  ScorePairs,        \* the [s_g, s_cb] the heads may answer
  OverallScores,     \* the R_t the untrained fusion may answer
  LLMSignals,        \* the max(L_t) the extractor may answer; not clamped
  LLMInUse           \* FALSE: stub and local mode, whose extractors answer 0

VARIABLES
  job,    \* [Cases -> the status of the case's job]
  worker, \* what the worker's current call of run_analysis knows
  results \* [Cases -> None or the published result]

analysisVars == <<job, worker, results>>

ASSUME AnalysisAssumption ==
  /\ WindowSize \in Nat \ {0}
  /\ PersistenceWindow \in Nat \ {0}
  /\ ScorePairs \subseteq [s_g : 0..100, s_cb : 0..100]
  /\ OverallScores \subseteq 0..100
  /\ LLMSignals \subseteq Nat
  /\ 0 \in LLMSignals
  /\ LLMInUse \in BOOLEAN

Least(a, b)   == IF a < b THEN a ELSE b
Greatest(a, b) == IF a > b THEN a ELSE b

-------------------------------------------------------------------------------
(* Historical state and early warning *)

(* Mutant: the grooming score enters unweighted.                            *)
PrecursorRiskUnweighted(s_g, s_cb) == (10 * s_g + 3 * s_cb) * 1000

(* 0.7 and 0.3 of hundredths, in millionths.                                *)
PrecursorRisk(s_g, s_cb) == (7 * s_g + 3 * s_cb) * 1000

One == 1000 * 1000

HIGH_RISK_THRESHOLD == One \div 2

(* persistence is kept as the number of high risks among the number of      *)
(* remembered ones.                                                         *)
ZeroState == [accumulated_risk |-> 0, risk_trend |-> 0, high |-> 0, history |-> << >>]

(* Mutant: a list instead of the bounded deque.                             *)
RememberAll(history, r) == Append(history, r)

(* The deque of the last PersistenceWindow risks.                           *)
Remember(history, r) ==
  IF Len(history) < PersistenceWindow THEN Append(history, r)
  ELSE Append(Tail(history), r)

(* HistoricalStateUpdater.update.  The behaviour vectors stay zero: the     *)
(* pipeline passes torch.zeros(6).                                          *)
Update(previous, s_g, s_cb) ==
  LET r       == PrecursorRisk(s_g, s_cb)
      history == Remember(previous.history, r)
      e       == (7 * previous.accumulated_risk + 3 * r) \div 10
  IN [accumulated_risk |-> e,
      risk_trend       |-> e - previous.accumulated_risk,
      high             |-> Cardinality({i \in 1..Len(history) :
                                          history[i] > HIGH_RISK_THRESHOLD}),
      history          |-> history]

(* tau_e, tau_p; tau_t, tau_e_prime.                                        *)
ComputeWarning(state) ==
  \/ /\ state.accumulated_risk > 650 * 1000
     /\ 2 * state.high > Len(state.history)
  \/ /\ state.risk_trend > 50 * 1000
     /\ state.accumulated_risk > 500 * 1000

-------------------------------------------------------------------------------
(* Windows, rules and the review condition *)

(* The messages of the window that starts after the first start messages.   *)
Window(messages, start) ==
  SubSeq(messages, start + 1, Least(start + WindowSize, Len(messages)))

(* A blank message is read as "", in which no rule matches.                 *)
RulesIn(message) ==
  IF message.redacted_content = None THEN {} ELSE message.redacted_content.rules

(* RuleSignalExtractor: the rules and the window positions they match at.   *)
ExtractRuleEvidence(window) ==
  {pair \in RULE_SIGNAL_NAMES \X (0..(Len(window) - 1)) :
     pair[1] \in RulesIn(window[pair[2] + 1])}

RuleSignals(evidence) == {pair[1] : pair \in evidence}

(* Uniform weights: a fifth for each rule.                                  *)
RuleSafetyScore(signals) == 20 * Cardinality(signals)

Clamp01(value) == Least(100, value)

CurrentlyOperableReview(signals, llm_signal) ==
  \/ RuleSafetyScore(signals) >= 80
  \/ "threat_phrase" \in signals
  \/ Clamp01(llm_signal) >= 80

(* _message_exceeds_encoder_budget.                                         *)
TokenOverflow(window) ==
  \E i \in DOMAIN window :
    window[i].redacted_content # None /\ window[i].redacted_content.long

(* TopKIndices with k = 3: any positions may rank highest.                  *)
TopK(length) ==
  {top \in SUBSET (0..(length - 1)) : Cardinality(top) = Least(3, length)}

-------------------------------------------------------------------------------
(* The worker *)

Idle == [case |-> None, start |-> 0, state |-> ZeroState, latched |-> FALSE,
         outcomes |-> << >>, llm_signals |-> 0]

AnalysisInit ==
  /\ job = [c \in Cases |-> "none"]
  /\ worker = Idle
  /\ results = [c \in Cases |-> None]

(* submit_case commits the job together with the conversation.              *)
Enqueue(c) ==
  /\ job' = [job EXCEPT ![c] = "queued"]
  /\ UNCHANGED <<worker, results>>

(* The bounds HistoricalRiskState documents: E_t in [0, 1], T_t in [-1, 1], *)
(* and a persistence in [0, 1] over at most PersistenceWindow risks.        *)
HistoricalRiskState ==
  {s \in [accumulated_risk : 0..One, risk_trend : -One..One,
          high : Nat, history : Seq(0..One)] :
     /\ s.high <= Len(s.history)
     /\ Len(s.history) <= PersistenceWindow}

WindowOutcome ==
  [first : Nat, length : Nat, scores : ScorePairs, overall : OverallScores,
   state : HistoricalRiskState, early_warning : BOOLEAN, llm : LLMSignals,
   review : BOOLEAN, top : SUBSET Nat,
   rule_evidence : SUBSET (RULE_SIGNAL_NAMES \X Nat),
   overflow : BOOLEAN]

RISK_LEVELS == {"low", "medium", "high", "critical"}

Result ==
  [risk_level : RISK_LEVELS,
   human_review_required : BOOLEAN,
   rule_evidence : SUBSET (RULE_SIGNAL_NAMES \X Nat),
   high_risk_sequences : SUBSET Nat, operable_risk_level : RISK_LEVELS,
   data_limitations : SUBSET (PREPROCESSING_LIMITATIONS
                              \cup {"multi_window", "token_limit", "no_llm_call"})]

AnalysisTypeOK ==
  /\ job \in [Cases -> {"none", "queued", "running", "failed", "succeeded"}]
  /\ worker \in [case : Cases \cup {None}, start : Nat, state : HistoricalRiskState,
                 latched : BOOLEAN, outcomes : Seq(WindowOutcome),
                 llm_signals : Nat]
  /\ results \in [Cases -> {None} \cup Result]

Messages(c) == conversations[c].messages

(* process_job_once takes the job and run_analysis builds its pipeline, with*)
(* an updater and a tracker of its own.                                     *)
StartAnalysis(c) ==
  /\ worker.case = None
  /\ job[c] = "queued"
  /\ job' = [job EXCEPT ![c] = "running"]
  /\ worker' = [Idle EXCEPT !.case = c]
  /\ UNCHANGED <<results, conversations>>

(* Answers of the language model, which process asks once for the pipeline  *)
(* and run_analysis again for the merged signals: a refusal counts as 0.    *)
Answers == IF LLMInUse THEN LLMSignals ELSE {0}

(* Mutant: the next window repeats the last message of this one.            *)
NextStartOverlapping(start, n) == IF start + WindowSize >= n THEN n ELSE start + WindowSize - 1

(* build_windows: stride = window_size, until the end is covered.           *)
NextStart(start, n) == IF start + WindowSize >= n THEN n ELSE start + WindowSize

(* What process returns of a window and run_analysis keeps of it.           *)
Outcome(first, window, scores, overall, state, latched, llm, top) ==
  LET evidence == ExtractRuleEvidence(window) IN
  [first         |-> first,
   length        |-> Len(window),
   scores        |-> scores,
   overall       |-> overall,
   state         |-> state,
   early_warning |-> latched,
   llm           |-> llm,
   review        |-> CurrentlyOperableReview(RuleSignals(evidence), llm) \/ latched,
   top           |-> top,
   rule_evidence |-> evidence,
   overflow      |-> TokenOverflow(window)]

(* _merge_safety_features, window by window: the largest signals so far.    *)
MergeSafetyFeatures(largest, llm) == Greatest(largest, llm)

(* One round of run_analysis' loop: pipeline.process on the window, then    *)
(* its rule evidence, safety features and length.  Of the safety features   *)
(* asked for a second time, whose language model answers _merge_safety_     *)
(* features aggregates, the worker keeps the largest so far.                *)
ProcessWindow ==
  LET c      == worker.case
      window == Window(Messages(c), worker.start)
  IN
  /\ c # None
  /\ worker.start < Len(Messages(c))
  /\ \E scores \in ScorePairs, overall \in OverallScores,
        llm, llm_again \in Answers, top \in TopK(Len(window)) :
       LET state   == Update(worker.state, scores.s_g, scores.s_cb)
           latched == worker.latched \/ ComputeWarning(state)
           outcome == Outcome(worker.start, window, scores, overall, state, latched, llm, top)
       IN worker' = [worker EXCEPT !.state = state, !.latched = latched,
                       !.start = NextStart(@, Len(Messages(c))),
                       !.outcomes = Append(@, outcome),
                       !.llm_signals = MergeSafetyFeatures(@, llm_again)]
  /\ UNCHANGED <<job, results, conversations>>

(* The attempt raises: the language model or a model fails, or an answer    *)
(* cannot be parsed.  Whether the job is retried is JobQueue's subject.     *)
Raise ==
  LET c == worker.case IN
  /\ c # None
  /\ \E status \in {"queued", "failed"} : job' = [job EXCEPT ![c] = status]
  /\ worker' = Idle
  /\ UNCHANGED <<results, conversations>>

-------------------------------------------------------------------------------
(* The outcome and the published result *)

RiskLevel(score) == CASE score >= 75 -> "critical"
                      [] score >= 50 -> "high"
                      [] score >= 25 -> "medium"
                      [] OTHER       -> "low"

(* _select_representative_window: the first of the highest overall scores.  *)
IsRepresentative(outcomes, i) ==
  /\ \A j \in DOMAIN outcomes : outcomes[j].overall <= outcomes[i].overall
  /\ \A j \in 1..(i - 1) : outcomes[j].overall < outcomes[i].overall

(* Mutant: positions are merged as they are, not as message sequences.      *)
MergeRawPositions(outcomes) == UNION {outcomes[i].rule_evidence : i \in DOMAIN outcomes}

(* _merge_rule_evidence_across_windows: window positions become message     *)
(* sequences.                                                               *)
MergeRuleEvidence(outcomes) ==
  UNION {{<<pair[1], outcomes[i].first + pair[2]>> : pair \in outcomes[i].rule_evidence} :
         i \in DOMAIN outcomes}

(* Mutant: the representative window's own flag is trusted.                 *)
ReviewOfRepresentative(outcomes, representative) == outcomes[representative].review

HumanReviewRequired(outcomes, representative) ==
  \/ outcomes[representative].review
  \/ \E i \in DOMAIN outcomes : outcomes[i].review

(* _operable_risk_score: component scores of the representative window, the *)
(* largest signals of all.                                                  *)
OperableRiskScore(outcome, llm_signals) ==
  Greatest(Greatest(outcome.scores.s_cb, outcome.scores.s_g),
           Greatest(RuleSafetyScore(RuleSignals(outcome.rule_evidence)), llm_signals))

(* data_limitations: those of the multi-window analysis and of the          *)
(* preprocessing.                                                           *)
ResultLimitations(c, outcomes) ==
  (IF Len(outcomes) > 1 THEN {"multi_window"} ELSE {})
  \cup (IF \E i \in DOMAIN outcomes : outcomes[i].overflow THEN {"token_limit"} ELSE {})
  \cup (IF LLMInUse THEN {} ELSE {"no_llm_call"})
  \cup conversations[c].limitations

(* build_explainability and the Result row.                                 *)
ResultOf(c, outcomes, representative, llm_signals) ==
  LET o == outcomes[representative] IN
  [risk_level            |-> RiskLevel(o.overall),
   human_review_required |-> HumanReviewRequired(outcomes, representative),
   rule_evidence         |-> MergeRuleEvidence(outcomes),
   high_risk_sequences   |-> {o.first + position : position \in o.top},
   operable_risk_level   |-> RiskLevel(OperableRiskScore(o, llm_signals)),
   data_limitations      |-> ResultLimitations(c, outcomes)]

Publish ==
  LET c == worker.case IN
  /\ c # None
  /\ worker.start = Len(Messages(c))
  /\ \E i \in DOMAIN worker.outcomes :
       /\ IsRepresentative(worker.outcomes, i)
       /\ results' = [results EXCEPT ![c] =
                        ResultOf(c, worker.outcomes, i, worker.llm_signals)]
  /\ job' = [job EXCEPT ![c] = "succeeded"]
  /\ worker' = Idle
  /\ UNCHANGED conversations

AnalysisNext ==
  \/ \E c \in Cases : StartAnalysis(c)
  \/ ProcessWindow
  \/ Raise
  \/ Publish

-------------------------------------------------------------------------------
(* Properties *)

Risk(windows, i) == PrecursorRisk(windows[i].scores.s_g, windows[i].scores.s_cb)

Power(b, n) ==
  LET power[m \in Nat] == IF m = 0 THEN 1 ELSE b * power[m - 1] IN power[n]

(* 0.3 * 0.7^(i-k) * r_k, multiplied by 10^i.                               *)
Weighed(windows, i, k) == 3 * Power(7, i - k) * Power(10, k - 1) * Risk(windows, k)

Weight(windows, i) ==
  LET sum[k \in 0..i] == IF k = 0 THEN 0 ELSE sum[k - 1] + Weighed(windows, i, k)
  IN sum[i]

(* kept is exact, multiplied by 10^i, but for the millionths cut off by the *)
(* windows' divisions, of which the first three leave no remainder.         *)
Rounded(i, exact, kept) ==
  LET error == exact - Power(10, i) * kept IN
  /\ error \in -(3 * Power(10, i))..(3 * Power(10, i))
  /\ i <= 3 => error = 0

(***************************************************************************)
(* The recurrences of HistoricalStateUpdater compute what Section 8 means,  *)
(* of this attempt's windows alone: the accumulated risk is the             *)
(* exponentially weighted sum 0.3 * 0.7^(i-k) * r_k, the trend its change,  *)
(* and the persistence counts the last PersistenceWindow windows.  What the *)
(* divisions cut off never adds up to more than three millionths.           *)
(***************************************************************************)
StateMatchesDefinition ==
  LET windows == worker.outcomes IN
  \A i \in DOMAIN windows :
    LET state  == windows[i].state
        recent == {k \in 1..i : k > i - PersistenceWindow}
    IN /\ Rounded(i, Weight(windows, i), state.accumulated_risk)
       /\ Rounded(i, Weight(windows, i) - 10 * Weight(windows, i - 1), state.risk_trend)
       /\ Len(state.history) = Cardinality(recent)
       /\ state.high = Cardinality({k \in recent : Risk(windows, k) > HIGH_RISK_THRESHOLD})

(***************************************************************************)
(* Every stored message is analysed in exactly one window, in the order of  *)
(* the case (the module's docstring: an overlap would count it twice in the *)
(* accumulated risk), and a result is published when all have been.         *)
(***************************************************************************)
EveryMessageOnce ==
  LET windows == worker.outcomes
      End(i)  == IF i = 0 THEN 0 ELSE windows[i].first + windows[i].length
  IN worker.case # None =>
       /\ \A i \in DOMAIN windows : windows[i].first = End(i - 1)
       /\ End(Len(windows)) = worker.start

(***************************************************************************)
(* A case asks for human review exactly if some window met the operable     *)
(* condition, or the early warning condition held after some window: a spike*)
(* in an early window is not lost to the decay of the accumulated risk, to  *)
(* calmer windows after it, or to the choice of the representative window.  *)
(***************************************************************************)
NoFlagIsLost ==
  [][\A c \in Cases : results'[c] # results[c] =>
       (results'[c].human_review_required <=>
          \E i \in DOMAIN worker.outcomes :
            LET o == worker.outcomes[i] IN
            \/ CurrentlyOperableReview(RuleSignals(o.rule_evidence), o.llm)
            \/ ComputeWarning(o.state))]_analysisVars

(***************************************************************************)
(* The published rule evidence names exactly the stored messages whose text *)
(* a rule matches, by their sequence in the case, and the high-risk         *)
(* messages are messages of the case.                                       *)
(***************************************************************************)
EvidenceIsTraceable ==
  \A c \in Cases : results[c] # None =>
    LET n == Len(Messages(c)) IN
    /\ results[c].rule_evidence =
         {pair \in RULE_SIGNAL_NAMES \X (0..(n - 1)) :
            pair[1] \in RulesIn(Messages(c)[pair[2] + 1])}
    /\ results[c].high_risk_sequences \subseteq 0..(n - 1)
===============================================================================
