------------------------------ MODULE MCAuditLog ------------------------------
(* AuditLog on small instances for TLC. *)
EXTENDS AuditLog, TLC

CONSTANTS login, submission, decision, completion, sweep, seed

MCKind ==
  [c \in Calls |-> CASE c = login      -> "login"
                     [] c = submission -> "submission"
                     [] c = decision   -> "decision"
                     [] c = completion -> "completion"
                     [] c = sweep      -> "sweep"
                     [] c = seed       -> "seed"]

MCProcessOf == [c \in Calls |-> IF c = seed THEN "script" ELSE "server"]

(* One case concerns every call that concerns a case.                       *)
MCCaseOf == [c \in Calls |-> CHOOSE k \in Cases : TRUE]
===============================================================================
