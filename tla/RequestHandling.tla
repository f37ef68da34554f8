--------------------------- MODULE RequestHandling ---------------------------
(***************************************************************************)
(* The web service's request threads, the worker and the sweep over one     *)
(* database (CaseReview), with the sliding windows in front of them         *)
(* (RateLimiter).  The two share threads but no variable.                   *)
(***************************************************************************)
EXTENDS RateLimiter, CaseReview

vars == <<limiterVars, reviewVars>>

Init == LimiterInit /\ ReviewInit

Next ==
  \/ LimiterNext /\ UNCHANGED reviewVars
  \/ ReviewNext /\ UNCHANGED limiterVars

Spec == Init /\ [][Next]_vars

(* Type invariant.                                                          *)
TypeOK == LimiterTypeOK /\ ReviewTypeOK
===============================================================================
