---------------------------- MODULE AnalysisService ----------------------------
(***************************************************************************)
(* What the platform promises about the analysis of a case, without queue,  *)
(* worker, retries or restarts: an accepted case is pending until either    *)
(* its one result is published or it is put under investigation; an         *)
(* investigated case is sent back or rejected; a case whose result is       *)
(* published is decided on once; a rejected or decided case stays so.       *)
(* (Sections 8.2 and 15.1 as the code applies them: the statuses an analyst *)
(* and an administrator can observe through the API.)                       *)
(***************************************************************************)
CONSTANT Cases

VARIABLES
  phase,     \* [Cases -> phase], where the case stands
  published  \* [Cases -> BOOLEAN], whether its result exists

vars == <<phase, published>>

Phases ==
  {"none", "pending", "ready", "investigation", "rejected", "decided"}

TypeOK ==
  /\ phase \in [Cases -> Phases]
  /\ published \in [Cases -> BOOLEAN]

Init ==
  /\ phase = [c \in Cases |-> "none"]
  /\ published = [c \in Cases |-> FALSE]

Move(c, from, to) ==
  /\ phase[c] = from
  /\ phase' = [phase EXCEPT ![c] = to]

Accept(c)      == Move(c, "none", "pending") /\ UNCHANGED published
Investigate(c) == Move(c, "pending", "investigation") /\ UNCHANGED published
Redrive(c)     == Move(c, "investigation", "pending") /\ UNCHANGED published
Reject(c)      == Move(c, "investigation", "rejected") /\ UNCHANGED published
Decide(c)      == Move(c, "ready", "decided") /\ UNCHANGED published

(* The result appears with the phase that shows it, once.                   *)
Publish(c) ==
  /\ Move(c, "pending", "ready")
  /\ ~published[c]
  /\ published' = [published EXCEPT ![c] = TRUE]

Next ==
  \E c \in Cases : \/ Accept(c) \/ Publish(c) \/ Investigate(c)
                   \/ Redrive(c) \/ Reject(c) \/ Decide(c)

Spec == Init /\ [][Next]_vars
===============================================================================
