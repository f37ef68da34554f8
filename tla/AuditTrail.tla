------------------------------ MODULE AuditTrail ------------------------------
(***************************************************************************)
(* What record_audit_event promises, without locks, sequence numbers,       *)
(* processes or a database: the trail is a list of events that grows by one *)
(* at its end and never changes otherwise.  A call records its events one   *)
(* by one, has ended well exactly when all of them are in the trail, and    *)
(* adds none after it failed.                                               *)
(***************************************************************************)
EXTENDS Naturals, Sequences

CONSTANTS
  Calls,
  Size   \* [Calls -> the number of events the call records]

VARIABLES
  trail, \* the recorded events
  left,  \* [Calls -> the events the call has still to record]
  status \* [Calls -> {"open", "done", "failed"}]

vars == <<trail, left, status>>

Init ==
  /\ trail = << >>
  /\ left = Size
  /\ status = [c \in Calls |-> "open"]

Record(c) ==
  /\ status[c] = "open"
  /\ trail' = Append(trail, [call |-> c, left |-> left[c]])
  /\ left' = [left EXCEPT ![c] = @ - 1]
  /\ status' = [status EXCEPT ![c] = IF left[c] = 1 THEN "done" ELSE "open"]

(* A refusal, a timeout, a lost race; with a process all of its calls fail. *)
Fail(calls) ==
  /\ \A c \in calls : status[c] = "open"
  /\ status' = [c \in Calls |-> IF c \in calls THEN "failed" ELSE status[c]]
  /\ UNCHANGED <<trail, left>>

Next ==
  \/ \E c \in Calls : Record(c)
  \/ \E calls \in SUBSET Calls : Fail(calls)

Spec == Init /\ [][Next]_vars
===============================================================================
