------------------------------ MODULE MCJobQueue ------------------------------
(* JobQueue on small instances for TLC. *)
EXTENDS JobQueue, TLC

CONSTANTS c1, c2, an

MCSubmittedBy == [c \in Cases |-> an]
===============================================================================
