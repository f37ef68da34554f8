-------------------------- MODULE MCRequestHandling --------------------------
(* RequestHandling on a small instance for TLC. *)
EXTENDS RequestHandling, TLC

CONSTANTS c1, ann, sam, sue, pat

MCLimit    == [k \in Keys |-> IF k = "org" THEN 1 ELSE 2]
MCRequests == {<<"analyst">>, <<"analyst", "org">>}

MCRole ==
  ann :> "analyst" @@ sam :> "senior_reviewer" @@ sue :> "safeguarding_specialist"
  @@ pat :> "auditor"

MCSubmittedBy == [c \in Cases |-> ann]
MCAssignedTo  == [c \in Cases |-> None]

MCSymmetry == Permutations(Threads) \cup Permutations(Reviewers)
              \cup Permutations(Readers)

(* The two parts share no variable, so no invariant about one of them can   *)
(* tell where the other is: each part runs while the other rests.           *)
MCNext ==
  \/ ReviewInit /\ LimiterNext /\ UNCHANGED reviewVars
  \/ LimiterInit /\ ReviewNext /\ UNCHANGED limiterVars

MCSpec == Init /\ [][MCNext]_vars
===============================================================================
