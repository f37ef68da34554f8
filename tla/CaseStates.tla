------------------------------ MODULE CaseStates ------------------------------
(***************************************************************************)
(* The status graph of a case (backend/db/state_machine.py).  Every handler *)
(* and the worker change Case.status through transition(), which refuses an *)
(* edge that is not in TRANSITIONS and leaves the case as it was.           *)
(***************************************************************************)
EXTENDS Naturals, Sequences

SUBMITTED          == "submitted"
VALIDATING         == "validating"
PRIVACY_PROCESSING == "privacy_processing"
QUEUED             == "queued"
ANALYZING          == "analyzing"
READY_FOR_REVIEW   == "ready_for_review"
UNDER_REVIEW       == "under_review"
REFERRED           == "referred"
CLOSED             == "closed"
MORE_INFO_REQUIRED == "more_information_required"
VALIDATION_FAILED  == "validation_failed"
PROCESSING_FAILED  == "processing_failed"
DLQ_INVESTIGATION  == "dlq_investigation"

TRANSITIONS ==
  [submitted                 |-> {VALIDATING},
   validating                |-> {PRIVACY_PROCESSING, VALIDATION_FAILED},
   privacy_processing        |-> {QUEUED, PROCESSING_FAILED},
   queued                    |-> {ANALYZING, PROCESSING_FAILED},
   analyzing                 |-> {READY_FOR_REVIEW, PROCESSING_FAILED},
   ready_for_review          |-> {UNDER_REVIEW},
   under_review              |-> {REFERRED, CLOSED, MORE_INFO_REQUIRED},
   more_information_required |-> {VALIDATING},
   validation_failed         |-> {VALIDATING, CLOSED},
   processing_failed         |-> {QUEUED, DLQ_INVESTIGATION},
   dlq_investigation         |-> {QUEUED, CLOSED},
   referred                  |-> {},
   closed                    |-> {}]

ALL_STATUSES == DOMAIN TRANSITIONS

IsValidTransition(current, new) == new \in TRANSITIONS[current]

(* transition(case, to) succeeds along every edge of a path of statuses.    *)
IsValidPath(path) ==
  \A i \in 1..(Len(path) - 1) : IsValidTransition(path[i], path[i + 1])

(* The decisions of an analyst and the statuses they lead to                *)
(* (submit_decision, api/routers/review.py).                                *)
DECISION_TYPES == {"refer", "close", "more_info", "monitor"}

STATUS_BY_DECISION ==
  [refer |-> REFERRED, close |-> CLOSED, more_info |-> MORE_INFO_REQUIRED]

(* The statuses the case goes through: a case ready for review comes under  *)
(* review first, and monitor changes nothing more.                          *)
StatusPath(status, decision_type) ==
  LET reviewed == IF status = READY_FOR_REVIEW THEN << status, UNDER_REVIEW >>
                                               ELSE << status >>
  IN  IF decision_type = "monitor" THEN reviewed
      ELSE Append(reviewed, STATUS_BY_DECISION[decision_type])
===============================================================================
