------------------------------- MODULE Training -------------------------------
(***************************************************************************)
(* The training scripts and what they leave on disk: train_cyberbullying.py,*)
(* train_grooming.py and eval_grooming_checkpoint.py run one after another,  *)
(* each may die at any step; a server loads the checkpoints meanwhile        *)
(* (_load_real of model_runtime/loader.py).                                 *)
(*                                                                         *)
(* A job is what one checkpoint comes from: the cyberbullying head or a      *)
(* grooming variant.  Files are written to a temporary sibling and renamed. *)
(***************************************************************************)
EXTENDS TrainingData

CONSTANTS
  Absent, Partial,    \* a file that does not exist; one that is half written
  NaN, Inf,           \* the loss of an empty or diverged validation; no loss yet
  Scripts,            \* the invocations: [command, jobs, disjoint, cap, percent]
  Losses,             \* the finite validation losses
  Epochs,             \* --epochs
  FlushEvery,         \* flush_every of CachedLLMSafetyExtractor
  MaxRuns, MaxDeaths, MaxMinute   \* bounds of the instance

ASSUME TrainingAssumption ==
  /\ Epochs \in Nat \ {0} /\ FlushEvery \in Nat \ {0}
  /\ Losses \subseteq Nat /\ NaN \notin Nat /\ Inf \notin Nat /\ NaN # Inf
  /\ Absent # Partial
  /\ MaxRuns \in Nat /\ MaxDeaths \in Nat /\ MaxMinute \in Nat

VARIABLES
  run,         \* runs started so far: the identity of the current one
  timestamp,   \* run_timestamp of the current or last run, a minute
  script,      \* the current invocation, Absent between two runs
  todo,        \* the jobs it has not ended; the first is under way
  phase,       \* of that job: "train", "validate", "save", "reload", "test",
               \* "vtpan" or "end"
  data,        \* the samples by use
  left,        \* those the current pass over them has not reached
  epoch,       \* the current one, from 1
  weights,     \* the job's three artifacts in memory
  losses,      \* the validation losses of the job, by epoch
  best,        \* best_val_loss
  saved,       \* checkpoint_saved
  writes,      \* files to be written before the script goes on
  tmp,         \* the temporary file of the first of them
  files,       \* the checkpoint files
  disk,        \* the keys of the cache file
  cache,       \* the keys of the cache in memory
  unflushed,   \* misses since it was last saved
  paid,        \* LLM calls paid for
  deaths,      \* runs that died
  cut,         \* those that died between the first and the last file of a save
  loaded,      \* what the server has read, in the order it reads
  raced        \* the jobs that saved a checkpoint during the load

runVars    == <<run, timestamp, script, todo, data>>
jobVars    == <<phase, left, epoch, weights, losses, best, saved>>
fileVars   == <<tmp, files>>
cacheVars  == <<cache, unflushed, paid>>
faultVars  == <<deaths, cut>>
serverVars == <<loaded, raced>>
vars == <<runVars, jobVars, writes, fileVars, disk, cacheVars, faultVars, serverVars>>

-----------------------------------------------------------------------------
(* Files *)

Variants == {"A", "B", "C"}
Jobs     == Variants \cup {"cyberbullying"}

(* The artifacts of a job in the order they are saved: the message encoder; *)
(* the conversation encoder (the cyberbullying head); the grooming head     *)
(* (the label mapping).                                                     *)
Parts == 1..3

Latest(job, i)      == <<job, i, "latest">>
History(job, i, ts) == <<job, i, "history", ts>>
Cache               == <<"llm_cache", 1, "latest">>

(* The negatives drawn from GoEmotions are kept beside the checkpoints.      *)
Saved == (Jobs \X Parts) \cup {<<"goemotions_negatives", 1>>}

Paths == {Latest(a[1], a[2]) : a \in Saved}
         \cup {History(a[1], a[2], ts) : a \in Saved, ts \in 0..MaxMinute}

(* What a state dict or a label mapping is told apart by.                   *)
Artifact(r, e, classes) == [run |-> r, epoch |-> e, classes |-> classes]

(* save_artifact: the latest copy, then the run's own.                      *)
SaveArtifact(job, i, content, ts) ==
  <<[path |-> Latest(job, i), content |-> content],
    [path |-> History(job, i, ts), content |-> content]>>

(* The three artifacts one after another: writes 1, 3, 5 are of the latest  *)
(* copies, 2, 4, 6 of the run's own.                                        *)
SaveCheckpoint(job, w, ts) ==
  [k \in 1..6 |-> LET i == (k + 1) \div 2
                  IN SaveArtifact(job, i, w[i], ts)[IF k % 2 = 1 THEN 1 ELSE 2]]

(* CachedLLMSafetyExtractor.save writes every key it has, if it is dirty:   *)
(* after a miss that was not flushed.                                       *)
SaveCache == IF unflushed = 0 THEN <<>> ELSE <<[path |-> Cache, content |-> cache]>>

(* A mutant: the file itself is opened and truncated.                       *)
OpenInPlace ==
  /\ writes # <<>> /\ tmp = Absent
  /\ tmp'   = Partial
  /\ files' = IF Head(writes).path = Cache THEN files
              ELSE [files EXCEPT ![Head(writes).path] = Partial]
  /\ UNCHANGED <<runVars, jobVars, writes, disk, cacheVars, faultVars, serverVars>>

(* One file: open the temporary sibling, dump into it, rename it.           *)
OpenTmp ==
  /\ writes # <<>> /\ tmp = Absent
  /\ tmp' = Partial
  /\ UNCHANGED <<runVars, jobVars, writes, files, disk, cacheVars, faultVars, serverVars>>

DumpTmp ==
  /\ tmp = Partial
  /\ tmp' = Head(writes).content
  /\ UNCHANGED <<runVars, jobVars, writes, files, disk, cacheVars, faultVars, serverVars>>

(* The server reads in this order, no lock taken against the scripts.       *)
LoadOrder ==
  <<Latest("cyberbullying", 3), Latest("cyberbullying", 1), Latest("cyberbullying", 2),
    Latest("B", 1), Latest("B", 2), Latest("B", 3)>>

Loading == Len(loaded) \in 1..(Len(LoadOrder) - 1)

(* A checkpoint is being saved: some of its files may be renamed already.   *)
Saving    == phase = "save" /\ writes # <<>>
SavingJob == IF Saving THEN {Head(todo)} \cap {"cyberbullying", "B"} ELSE {}

ReplaceCheckpointFile ==
  /\ tmp \notin {Absent, Partial}
  /\ Head(writes).path # Cache
  /\ files'  = [files EXCEPT ![Head(writes).path] = tmp]
  /\ tmp'    = Absent
  /\ writes' = Tail(writes)
  /\ raced'  = IF Loading THEN raced \cup SavingJob ELSE raced
  /\ UNCHANGED <<runVars, jobVars, disk, cacheVars, faultVars, loaded>>

ReplaceCacheFile ==
  /\ tmp \notin {Absent, Partial}
  /\ Head(writes).path = Cache
  /\ disk'      = tmp
  /\ tmp'       = Absent
  /\ writes'    = Tail(writes)
  /\ unflushed' = 0
  /\ UNCHANGED <<runVars, jobVars, files, cache, paid, faultVars, serverVars>>

-----------------------------------------------------------------------------
(* A run: the jobs of one invocation on the same data *)

ASSUME ScriptsAssumption ==
  /\ Absent \notin Scripts
  /\ \A s \in Scripts : s.jobs \in Seq(Jobs) /\ s.jobs # <<>>

NoData == [train |-> {}, val |-> {}, test |-> {}, vtpan |-> {}]

(* A job begins with fresh weights, and variant C with the cache file.      *)
BeginJob(job, command, r, d, classes) ==
  /\ phase'   = IF command = "evaluate" THEN "reload" ELSE "train"
  /\ left'    = IF command = "evaluate" THEN {} ELSE d.train
  /\ epoch'   = 1
  /\ weights' = [i \in Parts |-> Artifact(r, 0, classes)]
  /\ losses'  = <<>>
  /\ best'    = Inf
  /\ saved'   = FALSE
  /\ cache'   = IF job = "C" THEN disk ELSE {}
  /\ unflushed' = 0

(* run_timestamp has no seconds: two runs may share it.                     *)
StartRun(s, d, classes) ==
  /\ script = Absent /\ run < MaxRuns
  /\ run'       = run + 1
  /\ timestamp' \in {timestamp, timestamp + 1} \cap 0..MaxMinute
  /\ script'    = s
  /\ todo'      = s.jobs
  /\ data'      = d
  /\ BeginJob(Head(s.jobs), s.command, run + 1, d, classes)
  /\ writes'    = IF s.command # "cyberbullying" \/ s.negatives = 0 THEN <<>>
                  ELSE SaveArtifact("goemotions_negatives", 1, Artifact(run', 0, <<>>), timestamp')
  /\ UNCHANGED <<fileVars, disk, paid, faultVars, serverVars>>

(* train_grooming.py: the test corpus is loaded whole, whatever is excluded *)
(* from training.                                                           *)
TestData(s) ==
  [test  |-> LoadSamples("PAN12-test", {}, s.cap),
   vtpan |-> IF s.vtpan THEN LoadSamples("VTPAN-test", {}, s.cap) ELSE {}]

StartGrooming(s) ==
  /\ s.command = "grooming"
  /\ LET excluded == IF s.disjoint THEN DefaultOverlappingPredatorIds ELSE {}
         all      == LoadSamples("PAN12-train", excluded, s.cap)
         test     == TestData(s)
     IN \E train \in Splits(all, s.percent) :
          StartRun(s, [train |-> train, val |-> all \ train,
                       test |-> test.test, vtpan |-> test.vtpan], <<>>)

(* eval_grooming_checkpoint.py                                              *)
StartEvaluation(s) ==
  /\ s.command = "evaluate"
  /\ LET test == TestData(s)
     IN StartRun(s, [train |-> {}, val |-> {}, test |-> test.test, vtpan |-> test.vtpan], <<>>)

(* train_cyberbullying.py: shuffled, capped and split, the rows are any     *)
(* positions; the label mapping is that of the rows kept.                   *)
StartCyberbullying(s) ==
  /\ s.command = "cyberbullying"
  /\ LET negatives == IF s.negatives = 0 THEN <<>>
                      ELSE FilterOutRuleMatches(LoadGoemotionsNegatives(s.negatives))
         rows      == LoadKaggleCsv \o negatives
     IN \E kept \in SUBSET (DOMAIN rows) :
          /\ Cardinality(kept) = IF Len(rows) < s.cap THEN Len(rows) ELSE s.cap
          /\ \E train \in Splits(kept, s.percent) :
               StartRun(s, [train |-> train, val |-> kept \ train, test |-> {}, vtpan |-> {}],
                        BuildLabelMapping([i \in kept |-> rows[i]]))

-----------------------------------------------------------------------------
(* A job *)

Job == Head(todo)

(* The script is at work on this phase and has nothing to write first.      *)
At(p) == script # Absent /\ phase = p /\ writes = <<>>

(* A mutant: only the end of an epoch saves.                                *)
FlushAtEpochEnd(misses) == FALSE

FlushIsDue(misses) == misses >= FlushEvery

(* build_safety_features on the next sample of a pass, in any order.  Only  *)
(* variant C asks the LLM; a refusal is cached like an answer.  Every       *)
(* flush_every misses the cache is saved.                                   *)
GetSignals ==
  /\ \E p \in {"train", "validate", "test", "vtpan"} : At(p)
  /\ Job = "C"
  /\ \E sample \in left :
       /\ left' = left \ {sample}
       /\ IF CacheKey(sample) \in cache
          THEN UNCHANGED <<cache, unflushed, paid, writes>>
          ELSE /\ cache'     = cache \cup {CacheKey(sample)}
               /\ unflushed' = unflushed + 1
               /\ paid'      = paid + 1
               /\ writes'    = IF FlushIsDue(unflushed + 1)
                               THEN <<[path |-> Cache, content |-> cache']>> ELSE <<>>
  /\ UNCHANGED <<runVars, phase, epoch, weights, losses, best, saved, fileVars,
                 disk, faultVars, serverVars>>

(* The other jobs' passes touch nothing but the weights.                    *)
PassEnds == left = {} \/ Job # "C"

EndTraining ==
  /\ At("train") /\ PassEnds
  /\ weights' = [i \in Parts |-> Artifact(run, epoch, weights[i].classes)]
  /\ phase'   = "validate"
  /\ left'    = data.val
  /\ UNCHANGED <<runVars, epoch, losses, best, saved, writes, fileVars, disk,
                 cacheVars, faultVars, serverVars>>

(* val_loss < best_val_loss: never of a NaN.                                *)
Improves(loss, than) == loss # NaN /\ (than = Inf \/ loss < than)

(* evaluate, then save what is better than every epoch before.  Without a   *)
(* row to learn or validate on, the cyberbullying script divides by zero.   *)
EndValidation ==
  /\ At("validate") /\ PassEnds
  /\ Job = "cyberbullying" => data.train # {} /\ data.val # {}
  /\ \E loss \in IF data.val = {} THEN {NaN} ELSE Losses \cup {NaN} :
       /\ losses' = Append(losses, loss)
       /\ IF Improves(loss, best)
          THEN /\ best' = loss /\ saved' = TRUE
               /\ writes' = SaveCheckpoint(Job, weights, timestamp)
          ELSE UNCHANGED <<best, saved, writes>>
  /\ phase' = "save"
  /\ left'  = {}
  /\ UNCHANGED <<runVars, epoch, weights, fileVars, disk, cacheVars, faultVars, serverVars>>

(* A mutant: what is in memory is tested.                                   *)
TestInMemory == IF Job = "cyberbullying" THEN "end" ELSE "test"

(* After the last epoch: the best checkpoint is reloaded, or the last       *)
(* weights are tested if none was saved.                                    *)
AfterEpochs ==
  IF Job = "cyberbullying" THEN "end" ELSE IF saved THEN "reload" ELSE "test"

(* The epoch is over: the cache is saved.                                   *)
EndEpoch ==
  /\ At("save")
  /\ writes' = SaveCache
  /\ IF epoch < Epochs
     THEN epoch' = epoch + 1 /\ phase' = "train" /\ left' = data.train
     ELSE /\ epoch' = epoch
          /\ phase' = AfterEpochs
          /\ left'  = IF phase' = "test" THEN data.test ELSE {}
  /\ UNCHANGED <<runVars, weights, losses, best, saved, fileVars, disk, cacheVars,
                 faultVars, serverVars>>

(* No other process writes these files: three reads are one step.           *)
Reload ==
  /\ At("reload")
  /\ \A i \in Parts : files[Latest(Job, i)] # Absent
  /\ weights' = [i \in Parts |-> files[Latest(Job, i)]]
  /\ phase'   = "test"
  /\ left'    = data.test
  /\ UNCHANGED <<runVars, epoch, losses, best, saved, writes, fileVars, disk,
                 cacheVars, faultVars, serverVars>>

EndTest ==
  /\ At("test") /\ PassEnds
  /\ phase' = "vtpan"
  /\ left'  = data.vtpan
  /\ UNCHANGED <<runVars, epoch, weights, losses, best, saved, writes, fileVars,
                 disk, cacheVars, faultVars, serverVars>>

EndVtpan ==
  /\ At("vtpan") /\ PassEnds
  /\ phase'  = "end"
  /\ left'   = {}
  /\ writes' = SaveCache
  /\ UNCHANGED <<runVars, epoch, weights, losses, best, saved, fileVars, disk,
                 cacheVars, faultVars, serverVars>>

(* The process is gone, with what it held in memory.                        *)
Exit ==
  /\ script' = Absent /\ todo' = <<>> /\ data' = NoData
  /\ phase' = "end" /\ left' = {} /\ epoch' = 1 /\ losses' = <<>>
  /\ weights' = [i \in Parts |-> Artifact(0, 0, <<>>)]
  /\ best' = Inf /\ saved' = FALSE
  /\ cache' = {} /\ unflushed' = 0

EndJob ==
  /\ At("end")
  /\ IF Len(todo) = 1
     THEN Exit
     ELSE /\ todo' = Tail(todo)
          /\ BeginJob(todo[2], script.command, run, data, <<>>)
          /\ UNCHANGED <<script, data>>
  /\ UNCHANGED <<run, timestamp, writes, fileVars, disk, paid, faultVars, serverVars>>

(* An exception nobody catches: no row to divide by, no file to reload.     *)
Abort ==
  /\ \/ At("validate") /\ Job = "cyberbullying" /\ (data.train = {} \/ data.val = {})
     \/ At("reload") /\ \E i \in Parts : files[Latest(Job, i)] = Absent
  /\ Exit
  /\ UNCHANGED <<run, timestamp, writes, fileVars, disk, paid, faultVars, serverVars>>

(* The sample whose signals are being asked for, when the script dies.      *)
CallUnderWay ==
  /\ \E p \in {"train", "validate", "test", "vtpan"} : At(p)
  /\ Job = "C"
  /\ \E sample \in left : CacheKey(sample) \notin cache

(* Killed, out of memory or of disk, or the API fails: a call under way may *)
(* have been paid for.                                                      *)
Die ==
  /\ script # Absent /\ deaths < MaxDeaths
  /\ paid' = paid \/ (CallUnderWay /\ paid' = paid + 1)
  /\ Exit
  /\ deaths' = deaths + 1
  /\ cut'    = IF Saving THEN cut \cup {run} ELSE cut
  /\ writes' = <<>> /\ tmp' = Absent
  /\ UNCHANGED <<run, timestamp, files, disk, serverVars>>

-----------------------------------------------------------------------------
(* The server: _load_real under the lock of get_model_components *)

(* load_state_dict refuses a head of another number of classes.             *)
Fits(k, file) ==
  k = 3 => Cardinality(DOMAIN file.classes) = Cardinality(DOMAIN loaded[1].classes)

LoadNext ==
  LET k == Len(loaded) + 1 IN
  /\ k \in DOMAIN LoadOrder
  /\ LET file == files[LoadOrder[k]] IN
       /\ file # Absent
       /\ Fits(k, file)
       /\ loaded' = Append(loaded, file)
  /\ raced' = (IF k > 1 THEN raced ELSE {}) \cup SavingJob
  /\ UNCHANGED <<runVars, jobVars, writes, fileVars, disk, cacheVars, faultVars>>

(* The load raises, and the next job starts it again; or the server, which  *)
(* keeps what it has loaded, is restarted.                                  *)
Unload ==
  /\ loaded # <<>>
  /\ \/ Len(loaded) = Len(LoadOrder)
     \/ /\ Len(loaded) < Len(LoadOrder)
        /\ LET file == files[LoadOrder[Len(loaded) + 1]]
           IN file = Absent \/ ~Fits(Len(loaded) + 1, file)
  /\ loaded' = <<>> /\ raced' = {}
  /\ UNCHANGED <<runVars, jobVars, writes, fileVars, disk, cacheVars, faultVars>>

-----------------------------------------------------------------------------
Init ==
  /\ run = 0 /\ timestamp = 0
  /\ script = Absent /\ todo = <<>> /\ data = NoData
  /\ phase = "end" /\ left = {} /\ epoch = 1 /\ losses = <<>>
  /\ weights = [i \in Parts |-> Artifact(0, 0, <<>>)]
  /\ best = Inf /\ saved = FALSE
  /\ writes = <<>> /\ tmp = Absent
  /\ files = [p \in Paths |-> Absent]
  /\ disk = {} /\ cache = {} /\ unflushed = 0 /\ paid = 0
  /\ deaths = 0 /\ cut = {}
  /\ loaded = <<>> /\ raced = {}

Next ==
  \/ \E s \in Scripts : StartGrooming(s) \/ StartEvaluation(s) \/ StartCyberbullying(s)
  \/ OpenTmp \/ DumpTmp \/ ReplaceCheckpointFile \/ ReplaceCacheFile
  \/ GetSignals \/ EndTraining \/ EndValidation \/ EndEpoch \/ Reload
  \/ EndTest \/ EndVtpan \/ EndJob \/ Abort
  \/ Die
  \/ LoadNext \/ Unload

Spec == Init /\ [][Next]_vars

-----------------------------------------------------------------------------
(* Properties *)

Finite(ls) == {e \in DOMAIN ls : ls[e] # NaN}

(* The first epoch of least loss, the last epoch if every loss is a NaN.    *)
BestEpoch(ls) ==
  IF Finite(ls) = {} THEN Len(ls)
  ELSE CHOOSE e \in Finite(ls) :
         \A f \in Finite(ls) : ls[e] < ls[f] \/ (ls[e] = ls[f] /\ e <= f)

InJob == script # Absent /\ phase # "end"

(* What a script reports of the test corpus is of the first best epoch of   *)
(* its own run, though weights go through the disk between epochs and test, *)
(* or of the last epoch if no epoch gave a loss; what it validates on was   *)
(* not trained on, and with --identity-disjoint no predator of both         *)
(* official lists speaks in either (the reload before test, and the split   *)
(* of main, in train_grooming.py).                                          *)
EvaluationIsSound ==
  /\ InJob /\ phase \in {"test", "vtpan"} /\ script.command = "grooming" =>
       \A i \in Parts : weights[i].run = run /\ weights[i].epoch = BestEpoch(losses)
  /\ script # Absent => data.train \cap data.val = {}
  /\ script # Absent /\ script.command = "grooming" /\ script.disjoint =>
       \A sample \in data.train \cup data.val :
         sample.authors \cap DefaultOverlappingPredatorIds = {}

RunOf(file) == IF file = Absent THEN 0 ELSE file.run

(* Three files are of one save, or the newest run among them died saving.   *)
Whole(part) ==
  \/ \A i, j \in Parts : part[i] = part[j]
  \/ \E i \in Parts : RunOf(part[i]) \in cut /\ \A j \in Parts : RunOf(part[j]) <= RunOf(part[i])

(* No file is ever half written; between two saves the latest copies of a   *)
(* checkpoint are of one save, those of the run under way are its best      *)
(* epoch so far and so are the copies under its timestamp; what a server    *)
(* has loaded is of one save unless the job saved meanwhile.  A run         *)
(* that died while saving is the only one to leave a mixture (save_artifact *)
(* and the loader's "matching checkpoint trio").                            *)
CheckpointsAreWhole ==
  /\ \A p \in Paths : files[p] # Partial
  /\ \A job \in Jobs : ~(Saving /\ Job = job) => Whole([i \in Parts |-> files[Latest(job, i)]])
  /\ InJob /\ saved /\ ~Saving =>
       \A i \in Parts :
         /\ files[Latest(Job, i)] = Artifact(run, BestEpoch(losses), weights[i].classes)
         /\ files[History(Job, i, timestamp)] = files[Latest(Job, i)]
  /\ Len(loaded) >= 3 /\ "cyberbullying" \notin raced =>
       Whole(<<loaded[2], loaded[3], loaded[1]>>)
  /\ Len(loaded) = 6 /\ "B" \notin raced => Whole(<<loaded[4], loaded[5], loaded[6]>>)

(* A key is paid for once: beyond the keys on disk or in memory, each death *)
(* of a script costs at most flush_every calls ("a crash mid-epoch doesn't  *)
(* throw away calls already paid for", CachedLLMSafetyExtractor.get).       *)
PaidCallsAreKept ==
  paid <= Cardinality(disk \cup cache) + deaths * FlushEvery
===============================================================================
