----------------------------- MODULE CaseAnalysis -----------------------------
(***************************************************************************)
(* A conversation from its submission to its published result: request      *)
(* threads prepare and commit conversations (Preparation) while the one     *)
(* worker analyses the committed ones (RiskAnalysis).                       *)
(***************************************************************************)
EXTENDS Preparation, RiskAnalysis

vars == <<conversations, prepVars, analysisVars>>

Init ==
  /\ conversations = [c \in Cases |-> None]
  /\ PrepInit
  /\ AnalysisInit

(* submit_case from the commit to the enqueue.                              *)
Submit(c) == Commit(c) /\ Enqueue(c)

Next ==
  \/ PrepNext /\ UNCHANGED analysisVars
  \/ \E c \in Cases : Submit(c)
  \/ AnalysisNext /\ UNCHANGED prepVars

Spec == Init /\ [][Next]_vars

-------------------------------------------------------------------------------
(* Properties *)

(* Type invariant.                                                          *)
TypeOK ==
  /\ conversations \in [Cases -> {None} \cup Conversation(LocalSpeakerIds)]
  /\ PrepTypeOK
  /\ AnalysisTypeOK

NerLimitation == "name_and_place_redaction_unavailable_this_run_regex_only_was_applied"

(***************************************************************************)
(* A result whose names and places got regex-only coverage tells the        *)
(* analyst (anonymize.py:94-97), from the request's thread through the      *)
(* conversation's row to data_limitations - unless one request's load of    *)
(* the model failed while another's, begun before that, succeeded; and a    *)
(* result that says so had no message redacted by the model.                *)
(***************************************************************************)
FallbackIsVisible ==
  \A c \in Cases : results[c] # None =>
    IF NerLimitation \in results[c].data_limitations
    THEN \A m \in PreparedMessages(c) : ~m.ner
    ELSE (\E m \in PreparedMessages(c) : ~m.ner) => ner_pipeline /\ ner_load_failed
===============================================================================
