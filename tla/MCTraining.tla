------------------------------ MODULE MCTraining ------------------------------
(* Training on a small instance for TLC.                                    *)
EXTENDS Training, TLC

Chat(id, content) == [id |-> id, content |-> content]

(* pre speaks in both splits; d has lost every line.                        *)
MCDatapacks ==
  "PAN12-train" :> <<Chat("a", <<"ann", "pre">>), Chat("b", <<"bob", Gap>>),
                     Chat("c", <<"cyd">>), Chat("d", <<Gap>>)>>
  @@ "PAN12-test" :> <<Chat("e", <<"pre", "eve">>)>>
  @@ "VTPAN-test" :> <<Chat("e", <<"pre", "eve">>)>>

MCPredatorLists == "train" :> {"pre", "bob"} @@ "test" :> {"pre"}

Row(text, label) == [text |-> text, label |-> label]

MCKaggle == <<Row("plain", "age"), Row("", "age"), Row("rule", "not_cyberbullying")>>

MCGoEmotions ==
  <<[text |-> "rule", neutral |-> TRUE, negative |-> FALSE],
    [text |-> "plain", neutral |-> TRUE, negative |-> TRUE],
    [text |-> "plain", neutral |-> TRUE, negative |-> FALSE]>>

MCRank == "age" :> 1 @@ "not_cyberbullying" :> 2

(* All variants without validation, one with it, a smoke test, ...           *)
MCScripts ==
  {[command |-> "grooming", jobs |-> <<"A", "B", "C">>, disjoint |-> FALSE, cap |-> 3,
    percent |-> 0, vtpan |-> TRUE],
   [command |-> "grooming", jobs |-> <<"C">>, disjoint |-> TRUE, cap |-> 9,
    percent |-> 50, vtpan |-> FALSE],
   [command |-> "grooming", jobs |-> <<"B">>, disjoint |-> FALSE, cap |-> 1,
    percent |-> 50, vtpan |-> FALSE],
   [command |-> "evaluate", jobs |-> <<"C">>, cap |-> 9, vtpan |-> FALSE],
   [command |-> "cyberbullying", jobs |-> <<"cyberbullying">>, cap |-> 2,
    percent |-> 50, negatives |-> 2]}

(* A read of the server depends on the renames of the cyberbullying script  *)
(* and of variant B alone, and these on no read: it is enough to let the    *)
(* server read between two runs and before, between and after the renames   *)
(* of such a save, to let the other jobs run while it has loaded nothing,   *)
(* and to restart it as soon as it has loaded everything.  The first run    *)
(* starts in minute 0.                                                      *)
MCNext ==
  /\ Next
  /\ timestamp' <= run
  /\ IF Len(loaded) = Len(LoadOrder) THEN loaded' = <<>>
     ELSE \/ script = Absent
          \/ Job \in {"cyberbullying", "B"} /\ (UNCHANGED loaded \/ (phase = "save" /\ tmp = Absent))
          \/ loaded = <<>> /\ UNCHANGED loaded

MCSpec == Init /\ [][MCNext]_vars
===============================================================================
