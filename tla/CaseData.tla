------------------------------- MODULE CaseData -------------------------------
(***************************************************************************)
(* The rows of a submitted conversation (backend/db/models.py): what the    *)
(* preprocessing writes and the analysis reads.                             *)
(***************************************************************************)
EXTENDS Integers, Sequences

CONSTANTS
  Cases,
  None

VARIABLES
  conversations  \* [Cases -> None or the conversation, once committed]

(* RULE_SIGNAL_NAMES.                                                       *)
RULE_SIGNAL_NAMES == {"secret_request", "contact_migration", "age_reference",
                      "image_request", "threat_phrase"}

(* A case_messages row: the local pseudonym (one of ids) and what           *)
(* the analysis can tell of redacted_content, None for a blank message: the *)
(* rules whose pattern it matches and whether it is longer than the         *)
(* encoders read.  message_sequence is the position, counted from 0.        *)
CaseMessage(ids) ==
  [speaker_local_id : ids,
   redacted_content : {None} \cup [rules : SUBSET RULE_SIGNAL_NAMES,
                                   long  : BOOLEAN]]

PREPROCESSING_LIMITATIONS ==
  {"redaction_scope", "missing_timestamps_used_submission_order",
   "single_speaker_conversation",
   "name_and_place_redaction_unavailable_this_run_regex_only_was_applied"}

Conversation(ids) ==
  [messages    : Seq(CaseMessage(ids)),
   limitations : SUBSET PREPROCESSING_LIMITATIONS]
===============================================================================
