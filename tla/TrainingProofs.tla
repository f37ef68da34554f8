---------------------------- MODULE TrainingProofs ----------------------------
(***************************************************************************)
(* Proofs about Training.                                                   *)
(***************************************************************************)
EXTENDS Training, TLAPS, FiniteSetTheorems, SequenceTheorems

-----------------------------------------------------------------------------
(* The inductive invariant, part one: types and pending writes *)

IsSeq(s) == Len(s) \in Nat /\ s = [k \in 1..Len(s) |-> s[k]]

Types ==
  /\ run \in Nat /\ deaths \in Nat /\ paid \in Nat /\ unflushed \in Nat
  /\ timestamp \in 0..MaxMinute
  /\ todo \in Seq(Jobs) /\ (script # Absent => todo # <<>>)
  /\ phase \in {"train", "validate", "save", "reload", "test", "vtpan", "end"}
  /\ epoch \in 1..Epochs
  /\ losses \in Seq(Losses \cup {NaN}) /\ best \in Losses \cup {Inf} /\ saved \in BOOLEAN
  /\ files = [p \in Paths |-> files[p]]
  /\ script = Absent => phase = "end" /\ writes = <<>> /\ cache = {} /\ unflushed = 0
  /\ tmp # Absent => writes # <<>>

(* n of the six files of the checkpoint are renamed, the others are left.   *)
Write(k) == SaveCheckpoint(Job, weights, timestamp)[k]

Rest(n) ==
  /\ IsSeq(writes) /\ Len(writes) = 6 - n
  /\ \A k \in 1..(6 - n) : writes[k] = Write(n + k)

Renamed(n) ==
  \A k \in 1..n : /\ files[Write(k).path] = Write(k).content
                  /\ Write(k).content \notin {Absent, Partial}

NegativesPaths ==
  {Latest("goemotions_negatives", 1), History("goemotions_negatives", 1, timestamp)}

Negative(w) == w.path \in NegativesPaths /\ w.content = Artifact(run, 0, <<>>)

(* What a script waits for is the rest of a checkpoint while it saves one,  *)
(* else the cache as it is in memory or the negatives.                      *)
Pending ==
  /\ Saving => \E n \in 0..5 : Rest(n) /\ Renamed(n)
  /\ phase # "save" /\ writes # <<>> =>
       \/ Job = "C" /\ writes = <<[path |-> Cache, content |-> cache]>>
       \/ IsSeq(writes) /\ \A k \in 1..Len(writes) : Negative(writes[k])
  /\ tmp \notin {Absent, Partial} => tmp = Head(writes).content

(* Calls that are paid for and not on disk are few, and none once the       *)
(* passes of a job are over.                                                *)
PaidInv ==
  /\ IsFiniteSet(disk) /\ IsFiniteSet(cache)
  /\ script = Absent \/ Job # "C" => cache = {} /\ unflushed = 0
  /\ script # Absent /\ Job = "C" =>
       disk \subseteq cache /\ Cardinality(cache \ disk) <= unflushed
  /\ unflushed <= FlushEvery
  /\ writes = <<>> => unflushed < FlushEvery
  /\ phase = "save" => unflushed < FlushEvery
  /\ phase # "save" /\ writes # <<>> /\ Head(writes).path # Cache => unflushed = 0
  /\ phase \in {"reload", "end"} /\ writes = <<>> => unflushed = 0
  /\ PaidCallsAreKept

(* A job that trains: its three artifacts are of one epoch of this run, the *)
(* one being validated or saved, and the best one when the test begins.     *)
Trains == InJob /\ script.command # "evaluate"

IsBest(e, ls) ==
  /\ e \in Finite(ls)
  /\ \A f \in Finite(ls) : ls[e] < ls[f] \/ (ls[e] = ls[f] /\ e <= f)

BestKnown ==
  /\ saved => IsBest(BestEpoch(losses), losses) /\ best = losses[BestEpoch(losses)]
  /\ ~saved => Finite(losses) = {} /\ best = Inf

JobInv ==
  /\ script # Absent /\ script.command = "evaluate" =>
       phase \notin {"train", "validate", "save"} /\ ~saved
  /\ Trains =>
       /\ \A i \in Parts : weights[i] = Artifact(run, weights[1].epoch, weights[1].classes)
       /\ phase \in {"train", "validate"} => Len(losses) = epoch - 1
       /\ phase \in {"save", "reload", "test", "vtpan"} => Len(losses) = epoch
       /\ BestKnown
       /\ phase \in {"validate", "save"} => weights[1].epoch = epoch
       /\ phase = "reload" => saved
       /\ phase \in {"test", "vtpan"} => weights[1].epoch = BestEpoch(losses)
       /\ Saving => saved /\ BestEpoch(losses) = epoch

(* Once it is saved, the best epoch is on disk under both names.            *)
BestOnDisk ==
  InJob /\ saved /\ ~Saving =>
    \A i \in Parts :
      /\ files[Latest(Job, i)] = Artifact(run, BestEpoch(losses), weights[1].classes)
      /\ files[History(Job, i, timestamp)] = files[Latest(Job, i)]

(* The latest copies of a checkpoint, and what the server reads of which.   *)
LatestOf(job) == [i \in Parts |-> files[Latest(job, i)]]

FilesInv ==
  /\ \A p \in Paths : files[p] # Partial /\ RunOf(files[p]) \in 0..run
  /\ \A job \in Jobs : ~(Saving /\ Job = job) => Whole(LatestOf(job))
  /\ Saving /\ Len(writes) = 6 => Whole(LatestOf(Job))

JobRead(k) == IF k <= 3 THEN "cyberbullying" ELSE "B"

LoadInv ==
  /\ IsSeq(loaded) /\ Len(loaded) <= 6
  /\ Loading =>
       \A k \in 1..Len(loaded) : JobRead(k) \notin raced => loaded[k] = files[LoadOrder[k]]
  /\ Len(loaded) >= 3 /\ "cyberbullying" \notin raced =>
       Whole(<<loaded[2], loaded[3], loaded[1]>>)
  /\ Len(loaded) = 6 /\ "B" \notin raced => Whole(<<loaded[4], loaded[5], loaded[6]>>)

(* What the scripts learn from.                                             *)
DataInv ==
  script # Absent =>
    /\ data.train \cap data.val = {}
    /\ script.command = "grooming" /\ script.disjoint =>
         \A sample \in data.train \cup data.val :
           sample.authors \cap DefaultOverlappingPredatorIds = {}

-----------------------------------------------------------------------------
(* Sequences *)

LEMMA SeqFacts ==
  ASSUME NEW s, IsSeq(s), s # <<>>
  PROVE  /\ Len(s) > 0 /\ Head(s) = s[1]
         /\ IsSeq(Tail(s)) /\ Len(Tail(s)) = Len(s) - 1
         /\ \A k \in 1..(Len(s) - 1) : Tail(s)[k] = s[k + 1]
<1> DEFINE S == {s[k] : k \in 1..Len(s)}
<1>1. s \in Seq(S)
  <2>1. s \in [1..Len(s) -> S] /\ Len(s) \in Nat
    BY DEF IsSeq
  <2>2. QED
    BY <2>1, SeqDef
<1>2. /\ Head(s) = s[1] /\ Tail(s) \in Seq(S) /\ Len(Tail(s)) = Len(s) - 1
      /\ \A k \in 1..Len(Tail(s)) : Tail(s)[k] = s[k + 1]
  BY <1>1, HeadTailProperties
<1>3. Len(s) > 0
  BY <1>1, EmptySeq, LenProperties DEF IsSeq
<1>4. IsSeq(Tail(s))
  <2>1. Tail(s) \in [1..Len(Tail(s)) -> S] /\ Len(Tail(s)) \in Nat
    BY <1>2, LenProperties
  <2>2. QED
    BY <2>1 DEF IsSeq
<1>5. QED
  BY <1>2, <1>3, <1>4

LEMMA NothingLeft == ASSUME NEW s, IsSeq(s), Len(s) = 0 PROVE s = <<>>
  BY DEF IsSeq

(* A sequence of one.                                                       *)
LEMMA SingleFacts ==
  ASSUME NEW e
  PROVE  /\ IsSeq(<<e>>) /\ <<e>> # <<>> /\ Head(<<e>>) = e /\ Tail(<<e>>) = <<>>
         /\ Len(<<e>>) = 1 /\ <<e>>[1] = e
  BY DEF IsSeq

-----------------------------------------------------------------------------
(* Types *)

(* Every start of a run is a StartRun.                                      *)
LEMMA Starts ==
  ASSUME NEW s \in Scripts, StartGrooming(s) \/ StartEvaluation(s) \/ StartCyberbullying(s)
  PROVE  \E d, classes : StartRun(s, d, classes)
  BY Zenon DEF StartGrooming, StartEvaluation, StartCyberbullying

(* Exit and BeginJob leave nothing pending, and a job well-typed.           *)
LEMMA TypesInit == Init => Types
<1> SUFFICES ASSUME Init PROVE Types
  OBVIOUS
<1>1. <<>> \in Seq(Jobs) /\ <<>> \in Seq(Losses \cup {NaN})
  OBVIOUS
<1>2. 1 \in 1..Epochs /\ 0 \in 0..MaxMinute
  BY TrainingAssumption
<1>3. files = [p \in Paths |-> files[p]]
  BY Zenon DEF Init
<1>4. QED
  BY <1>1, <1>2, <1>3 DEF Init, Types

LEMMA TypesNext == Types /\ [Next]_vars => Types'
<1> SUFFICES ASSUME Types, [Next]_vars PROVE Types'
  OBVIOUS
<1> USE DEF runVars, jobVars, fileVars, cacheVars, faultVars, serverVars
<1>e. <<>> \in Seq(Jobs) /\ <<>> \in Seq(Losses \cup {NaN}) /\ 1 \in 1..Epochs /\ 0 \in Nat
  BY TrainingAssumption
<1>1. ASSUME NEW s \in Scripts, NEW d, NEW classes, StartRun(s, d, classes) PROVE Types'
  <2>1. s.jobs \in Seq(Jobs) /\ s.jobs # <<>> /\ s # Absent
    BY ScriptsAssumption
  <2>2. run' \in Nat /\ timestamp' \in 0..MaxMinute
    BY <1>1 DEF StartRun, Types
  <2>3. QED
    BY <1>1, <1>e, <2>1, <2>2 DEF StartRun, BeginJob, Types
<1>2. ASSUME Exit, run' = run, timestamp' = timestamp, files' = files, writes' = <<>>,
             tmp' = Absent, paid' \in Nat, deaths' \in Nat
      PROVE  Types'
  BY <1>2, <1>e DEF Exit, Types
<1>3. CASE OpenTmp \/ DumpTmp
  BY <1>3, TrainingAssumption DEF OpenTmp, DumpTmp, Types
<1>4. CASE ReplaceCheckpointFile
  <2>1. files' = [p \in Paths |-> files'[p]]
    BY <1>4 DEF ReplaceCheckpointFile, Types
  <2>2. QED
    BY <1>4, <2>1 DEF ReplaceCheckpointFile, Types
<1>5. CASE ReplaceCacheFile
  BY <1>5 DEF ReplaceCacheFile, Types
<1>6. CASE GetSignals
  <2>1. paid' \in Nat /\ unflushed' \in Nat
    BY <1>6 DEF GetSignals, Types
  <2>2. QED
    BY <1>6, <2>1 DEF GetSignals, At, Types
<1>7. CASE EndTraining
  BY <1>7 DEF EndTraining, At, Types
<1>8. CASE EndValidation
  <2>1. PICK loss \in Losses \cup {NaN} :
          /\ losses' = Append(losses, loss)
          /\ (best' = loss /\ saved' = TRUE /\ loss # NaN) \/ UNCHANGED <<best, saved>>
    BY <1>8 DEF EndValidation, Improves
  <2>2. losses' \in Seq(Losses \cup {NaN})
    BY <2>1, AppendProperties DEF Types
  <2>3. best' \in Losses \cup {Inf} /\ saved' \in BOOLEAN
    BY <2>1 DEF Types
  <2>4. QED
    BY <1>8, <2>2, <2>3 DEF EndValidation, At, Types
<1>9. CASE EndEpoch
  <2>1. epoch' \in 1..Epochs
    BY <1>9, TrainingAssumption, SMTT(30) DEF EndEpoch, Types
  <2>2. phase' \in {"train", "end", "reload", "test"}
    BY <1>9 DEF EndEpoch, AfterEpochs
  <2>3. QED
    BY <1>9, <2>1, <2>2 DEF EndEpoch, At, Types
<1>10. CASE Reload
  BY <1>10 DEF Reload, At, Types
<1>11. CASE EndTest \/ EndVtpan
  BY <1>11 DEF EndTest, EndVtpan, At, Types
<1>12. CASE EndJob
  <2>1. CASE Len(todo) = 1
    BY <1>2, <1>12, <2>1 DEF EndJob, At, Types
  <2>2. CASE Len(todo) # 1
    <3>1. Tail(todo) \in Seq(Jobs) /\ Len(Tail(todo)) = Len(todo) - 1 /\ Len(todo) \in Nat \ {0}
      BY <1>12, HeadTailProperties, EmptySeq DEF Types, EndJob, At
    <3>2. Tail(todo) # <<>>
      <4>1. ASSUME Tail(todo) = <<>> PROVE Len(Tail(todo)) = 0
        BY <4>1, SMTT(30)
      <4>2. Len(Tail(todo)) # 0
        BY <2>2, <3>1
      <4>3. QED
        BY <4>1, <4>2, Zenon
    <3>3. QED
      BY <1>12, <1>e, <2>2, <3>1, <3>2 DEF EndJob, At, BeginJob, Types
  <2>3. QED
    BY <2>1, <2>2
<1>13. CASE Abort
  BY <1>2, <1>13 DEF Abort, At, Types
<1>14. CASE Die
  BY <1>2, <1>14 DEF Die, Types
<1>15. CASE LoadNext \/ Unload
  BY <1>15 DEF LoadNext, Unload, Types
<1>16. CASE UNCHANGED vars
  BY <1>16 DEF vars, Types
<1>17. ASSUME NEW s \in Scripts, StartGrooming(s) \/ StartEvaluation(s) \/ StartCyberbullying(s)
       PROVE  Types'
  BY <1>1, <1>17, Starts
<1>18. QED
  BY <1>3, <1>4, <1>5, <1>6, <1>7, <1>8, <1>9, <1>10, <1>11, <1>12, <1>13, <1>14, <1>15,
     <1>16, <1>17, Zenon DEF Next

-----------------------------------------------------------------------------
(* Writes *)

LEMMA PathFacts ==
  ASSUME NEW job, NEW i, NEW other, NEW j, NEW ts, NEW us
  PROVE  /\ Latest(job, i) # History(other, j, ts)
         /\ Latest(job, i) = Latest(other, j) => job = other /\ i = j
         /\ History(job, i, ts) = History(other, j, us) => job = other /\ i = j
         /\ job # "llm_cache" => Latest(job, i) # Cache
         /\ History(job, i, ts) # Cache
<1>1. Latest(job, i) # History(other, j, ts) /\ History(job, i, ts) # Cache
  <2>1. DOMAIN Latest(job, i) = 1..3 /\ DOMAIN Cache = 1..3
    BY DEF Latest, Cache
  <2>2. DOMAIN History(other, j, ts) = 1..4 /\ DOMAIN History(job, i, ts) = 1..4
    BY DEF History
  <2>3. 4 \in 1..4 /\ 4 \notin 1..3
    OBVIOUS
  <2>4. QED
    BY <2>1, <2>2, <2>3
<1>2. QED
  BY <1>1 DEF Latest, History, Cache

(* The six writes of a checkpoint.                                          *)
LEMMA CheckpointFacts ==
  ASSUME NEW job \in Jobs, NEW w, NEW ts \in 0..MaxMinute, NEW c, c = SaveCheckpoint(job, w, ts)
  PROVE  /\ IsSeq(c) /\ Len(c) = 6 /\ c # <<>>
         /\ \A i \in Parts : /\ c[2 * i - 1] = [path |-> Latest(job, i), content |-> w[i]]
                             /\ c[2 * i] = [path |-> History(job, i, ts), content |-> w[i]]
         /\ \A k \in 1..6 : c[k].path \in Paths \ {Cache}
         /\ \A k, l \in 1..6 : c[k].path = c[l].path => k = l
<1>1. IsSeq(c) /\ Len(c) = 6 /\ c # <<>>
  <2>1. DOMAIN c = 1..6 /\ c = [k \in 1..6 |-> c[k]]
    BY DEF SaveCheckpoint
  <2>2. Len(c) = 6
    BY <2>1
  <2>3. QED
    BY <2>1, <2>2 DEF IsSeq
<1>2. ASSUME NEW i \in Parts
      PROVE  /\ c[2 * i - 1] = [path |-> Latest(job, i), content |-> w[i]]
             /\ c[2 * i] = [path |-> History(job, i, ts), content |-> w[i]]
  <2>1. i = 1 \/ i = 2 \/ i = 3
    BY DEF Parts
  <2>2. /\ 2 * i - 1 \in 1..6 /\ 2 * i \in 1..6
        /\ ((2 * i - 1) + 1) \div 2 = i /\ (2 * i + 1) \div 2 = i
        /\ (2 * i - 1) % 2 = 1 /\ (2 * i) % 2 = 0
    BY <2>1
  <2>3. QED
    BY <2>2 DEF SaveCheckpoint, SaveArtifact
<1>3. ASSUME NEW k \in 1..6
      PROVE  \E i \in Parts : k = 2 * i - 1 \/ k = 2 * i
  <2>1. k = 2 * 1 - 1 \/ k = 2 * 1 \/ k = 2 * 2 - 1 \/ k = 2 * 2 \/ k = 2 * 3 - 1 \/ k = 2 * 3
    OBVIOUS
  <2>2. QED
    BY <2>1 DEF Parts
<1>4. job # "llm_cache"
  BY DEF Jobs, Variants
<1>5. ASSUME NEW k \in 1..6, NEW i \in Parts
      PROVE  /\ k = 2 * i - 1 => c[k].path = Latest(job, i)
             /\ k = 2 * i => c[k].path = History(job, i, ts)
  <2>1. k = 2 * i - 1 => c[k] = [path |-> Latest(job, i), content |-> w[i]]
    BY <1>2, Zenon
  <2>2. k = 2 * i => c[k] = [path |-> History(job, i, ts), content |-> w[i]]
    BY <1>2, Zenon
  <2>3. QED
    BY <2>1, <2>2
<1>6. ASSUME NEW k \in 1..6 PROVE c[k].path \in Paths \ {Cache}
  <2>1. PICK i \in Parts : k = 2 * i - 1 \/ k = 2 * i
    BY <1>3
  <2>2. <<job, i>> \in Saved
    BY DEF Saved
  <2>3. Latest(job, i) \in Paths /\ History(job, i, ts) \in Paths
    BY <2>2 DEF Paths
  <2>4. Latest(job, i) # Cache /\ History(job, i, ts) # Cache
    BY <1>4, PathFacts, Zenon
  <2>5. c[k].path = Latest(job, i) \/ c[k].path = History(job, i, ts)
    BY <1>5, <2>1, Zenon
  <2>6. QED
    BY <2>3, <2>4, <2>5, Zenon
<1>8. ASSUME NEW k \in 1..6, NEW l \in 1..6, c[k].path = c[l].path PROVE k = l
  <2>1. PICK i \in Parts : k = 2 * i - 1 \/ k = 2 * i
    BY <1>3
  <2>2. PICK j \in Parts : l = 2 * j - 1 \/ l = 2 * j
    BY <1>3
  <2>3. /\ Latest(job, i) = Latest(job, j) => i = j
        /\ History(job, i, ts) = History(job, j, ts) => i = j
        /\ Latest(job, i) # History(job, j, ts) /\ Latest(job, j) # History(job, i, ts)
    <3>1. Latest(job, i) = Latest(job, j) => i = j
      BY PathFacts, Zenon
    <3>2. History(job, i, ts) = History(job, j, ts) => i = j
      BY DEF History
    <3>3. Latest(job, i) # History(job, j, ts)
      BY PathFacts, Zenon
    <3>4. Latest(job, j) # History(job, i, ts)
      BY PathFacts, Zenon
    <3>5. QED
      BY <3>1, <3>2, <3>3, <3>4, Zenon
  <2>4. /\ k = 2 * i - 1 => c[k].path = Latest(job, i)
        /\ k = 2 * i => c[k].path = History(job, i, ts)
        /\ l = 2 * j - 1 => c[l].path = Latest(job, j)
        /\ l = 2 * j => c[l].path = History(job, j, ts)
    BY <1>5, Zenon
  <2>5. i = j /\ (k = 2 * i - 1 <=> l = 2 * j - 1)
    BY <1>8, <2>1, <2>2, <2>3, <2>4, Zenon
  <2>6. QED
    BY <2>1, <2>2, <2>5 DEF Parts
<1>9. QED
  BY <1>1, <1>2, <1>6, <1>8

LEMMA AtFacts ==
  ASSUME Types, NEW p, At(p)
  PROVE  script # Absent /\ phase = p /\ writes = <<>> /\ tmp = Absent /\ Job \in Jobs
<1>1. script # Absent /\ phase = p /\ writes = <<>> /\ tmp = Absent
  BY DEF At, Types
<1>2. Job \in Jobs
  BY <1>1, HeadTailProperties DEF Types, Job
<1>3. QED
  BY <1>1, <1>2

LEMMA SaveCacheFacts ==
  ASSUME PaidInv, script # Absent
  PROVE  SaveCache = <<>> \/ (Job = "C" /\ SaveCache = <<[path |-> Cache, content |-> cache]>>)
  BY DEF SaveCache, PaidInv

(* The cache file is replaced by the cache as it is in memory.              *)
LEMMA CacheWrite ==
  ASSUME Types, Pending, ReplaceCacheFile
  PROVE  Job = "C" /\ script # Absent /\ tmp = cache /\ writes' = <<>> /\ ~Saving
<1>0. /\ Head(writes).path = Cache /\ writes # <<>> /\ writes' = Tail(writes) /\ script # Absent
      /\ tmp = Head(writes).content
  BY DEF ReplaceCacheFile, Types, Pending
<1>1. ~Saving
  <2>1. SUFFICES ASSUME Saving PROVE FALSE
    OBVIOUS
  <2>2. PICK n \in 0..5 : Rest(n)
    BY <2>1 DEF Pending
  <2>3. n + 1 \in 1..6 /\ Head(writes) = Write(n + 1)
    BY <1>0, <2>2, SeqFacts DEF Rest
  <2>4. Job \in Jobs /\ timestamp \in 0..MaxMinute
    BY <1>0, HeadTailProperties DEF Job, Types
  <2>5. Write(n + 1).path # Cache
    BY <2>3, <2>4, CheckpointFacts DEF Write
  <2>6. QED
    BY <1>0, <2>3, <2>5
<1>2. ~(IsSeq(writes) /\ \A k \in 1..Len(writes) : Negative(writes[k]))
  <2>1. SUFFICES ASSUME IsSeq(writes), \A k \in 1..Len(writes) : Negative(writes[k])
                 PROVE  FALSE
    OBVIOUS
  <2>2. 1 \in 1..Len(writes) /\ Head(writes) = writes[1]
    BY <1>0, <2>1, SeqFacts DEF IsSeq
  <2>3. Head(writes).path \in NegativesPaths
    BY <2>1, <2>2 DEF Negative
  <2>4. Cache \notin NegativesPaths
    <3>1. Latest("goemotions_negatives", 1) # Cache
      BY DEF Latest, Cache
    <3>2. History("goemotions_negatives", 1, timestamp) # Cache
      BY PathFacts, Zenon
    <3>3. QED
      BY <3>1, <3>2 DEF NegativesPaths
  <2>5. QED
    BY <1>0, <2>3, <2>4
<1>3. Job = "C" /\ writes = <<[path |-> Cache, content |-> cache]>>
  BY <1>0, <1>1, <1>2 DEF Pending, Saving
<1>4. Head(writes) = [path |-> Cache, content |-> cache] /\ Tail(writes) = <<>>
  BY <1>3, SingleFacts
<1>5. QED
  BY <1>0, <1>1, <1>3, <1>4

(* While a checkpoint is saved, a rename puts the next of its six files in  *)
(* place.                                                                   *)
RenameStep(n) ==
  /\ Rest(n) /\ Renamed(n) /\ Renamed(n + 1)'
  /\ \A k \in 1..6 : Write(k)' = Write(k)
  /\ Write(n + 1).content \notin {Absent, Partial}
  /\ files' = [files EXCEPT ![Write(n + 1).path] = Write(n + 1).content]
  /\ n = 5 => writes' = <<>>
  /\ n # 5 => writes' # <<>> /\ Rest(n + 1)'

LEMMA CheckpointWrite ==
  ASSUME Types, Pending, ReplaceCheckpointFile, Saving
  PROVE  \E n \in 0..5 : RenameStep(n)
<1> USE DEF runVars, jobVars, fileVars, cacheVars, faultVars, serverVars
<1>0. /\ tmp = Head(writes).content /\ tmp \notin {Absent, Partial}
      /\ files' = [files EXCEPT ![Head(writes).path] = tmp]
      /\ writes' = Tail(writes) /\ UNCHANGED <<todo, weights, timestamp, phase>>
      /\ writes # <<>> /\ script # Absent
  BY DEF ReplaceCheckpointFile, Pending, Saving, Types
<1>1. PICK n \in 0..5 : Rest(n) /\ Renamed(n)
  BY DEF Pending
<1>2. IsSeq(writes) /\ Len(writes) = 6 - n
  BY <1>1 DEF Rest
<1>3. /\ Head(writes) = writes[1] /\ IsSeq(writes') /\ Len(writes') = 5 - n
      /\ \A k \in 1..(5 - n) : writes'[k] = writes[k + 1]
  BY <1>0, <1>2, SeqFacts
<1>4. n + 1 \in 1..6 /\ Head(writes) = Write(n + 1)
  BY <1>1, <1>3 DEF Rest
<1>5. ASSUME NEW k \in 1..6 PROVE Write(k)' = Write(k)
  BY <1>0 DEF Write, Job
<1>6. n = 5 => writes' = <<>>
  BY <1>3, NothingLeft
<1>7. ASSUME n # 5 PROVE writes' # <<>> /\ Rest(n + 1)'
  <2>1. ASSUME NEW k \in 1..(5 - n) PROVE writes'[k] = Write((n + 1) + k)'
    <3>1. k + 1 \in 1..(6 - n) /\ n + (k + 1) = (n + 1) + k /\ (n + 1) + k \in 1..6
      OBVIOUS
    <3>2. writes'[k] = Write(n + (k + 1))
      BY <1>1, <1>3, <3>1 DEF Rest
    <3>3. QED
      BY <1>5, <3>1, <3>2
  <2>2. 6 - (n + 1) = 5 - n /\ 5 - n # 0
    BY <1>7
  <2>3. writes' = <<>> => Len(writes') = 0
    OBVIOUS
  <2>4. QED
    BY <1>3, <2>1, <2>2, <2>3 DEF Rest
<1>8. Job \in Jobs /\ timestamp \in 0..MaxMinute
  BY <1>0, HeadTailProperties DEF Job, Types
<1>9. \A k, l \in 1..6 : Write(k).path = Write(l).path => k = l
  BY <1>8, CheckpointFacts DEF Write
<1>10. \A k \in 1..6 : Write(k).path \in Paths
  BY <1>8, CheckpointFacts DEF Write
<1>11. ASSUME NEW k \in 1..(n + 1)
       PROVE  files'[Write(k).path] = Write(k).content /\ Write(k).content \notin {Absent, Partial}
  <2>1. k \in 1..6 /\ Write(k).path \in Paths
    BY <1>10
  <2>2. CASE k = n + 1
    <3>1. Head(writes) = Write(k)
      BY <1>4, <2>2
    <3>2. files' = [files EXCEPT ![Write(k).path] = tmp] /\ tmp = Write(k).content
      BY <1>0, <3>1
    <3>3. files'[Write(k).path] = tmp
      BY <2>1, <3>2 DEF Types
    <3>4. QED
      BY <1>0, <3>2, <3>3
  <2>3. CASE k # n + 1
    <3>1. k \in 1..n
      BY <2>3
    <3>2. Write(k).path # Write(n + 1).path
      BY <1>4, <1>9, <2>1, <2>3
    <3>3. files'[Write(k).path] = files[Write(k).path]
      BY <1>0, <1>4, <2>1, <3>2 DEF Types
    <3>4. QED
      BY <1>1, <3>1, <3>3 DEF Renamed
  <2>4. QED
    BY <2>2, <2>3
<1>12. Renamed(n + 1)'
  <2>1. \A k \in 1..(n + 1) : Write(k)' = Write(k)
    BY <1>5
  <2>2. QED
    BY <1>11, <2>1 DEF Renamed
<1>13. /\ Write(n + 1).content \notin {Absent, Partial}
       /\ files' = [files EXCEPT ![Write(n + 1).path] = Write(n + 1).content]
  BY <1>0, <1>4
<1>14. \A k \in 1..6 : Write(k)' = Write(k)
  BY <1>5
<1>15. QED
  BY <1>1, <1>6, <1>7, <1>12, <1>13, <1>14 DEF RenameStep

(* Any other rename puts the negatives in place.                            *)
LEMMA NegativesWrite ==
  ASSUME Types, Pending, ReplaceCheckpointFile, ~Saving
  PROVE  /\ Negative(Head(writes)) /\ tmp = Head(writes).content
         /\ IsSeq(writes) /\ writes # <<>>
         /\ \A k \in 1..Len(writes) : Negative(writes[k])
<1>0. /\ Head(writes).path # Cache /\ writes # <<>> /\ phase # "save" /\ tmp = Head(writes).content
  BY DEF ReplaceCheckpointFile, Pending, Saving, Types
<1>1. writes # <<[path |-> Cache, content |-> cache]>>
  <2>1. ASSUME writes = <<[path |-> Cache, content |-> cache]>> PROVE Head(writes).path = Cache
    BY <2>1, SingleFacts
  <2>2. QED
    BY <1>0, <2>1
<1>2. IsSeq(writes) /\ \A k \in 1..Len(writes) : Negative(writes[k])
  BY <1>0, <1>1 DEF Pending
<1>3. 1 \in 1..Len(writes) /\ Head(writes) = writes[1]
  BY <1>0, <1>2, SeqFacts DEF IsSeq
<1>4. QED
  BY <1>0, <1>2, <1>3

LEMMA PendingInit == Init => Pending
  BY TrainingAssumption DEF Init, Pending, Saving

LEMMA PendingNext == Types /\ PaidInv /\ Pending /\ [Next]_vars => Pending'
<1> SUFFICES ASSUME Types, PaidInv, Pending, [Next]_vars PROVE Pending'
  OBVIOUS
<1> USE DEF runVars, jobVars, fileVars, cacheVars, faultVars, serverVars
<1>1. ASSUME run' = run, todo' = todo, phase' = phase, weights' = weights,
             timestamp' = timestamp, files' = files, writes' = writes, cache' = cache,
             tmp' \notin {Absent, Partial} => tmp' = Head(writes).content
      PROVE  Pending'
  <2>1. Job' = Job
    BY <1>1 DEF Job
  <2>2. ASSUME NEW n \in 0..5, Rest(n), Renamed(n) PROVE Rest(n)' /\ Renamed(n)'
    BY <1>1, <2>1, <2>2 DEF Rest, Renamed, Write
  <2>3. Saving' => \E n \in 0..5 : Rest(n)' /\ Renamed(n)'
    BY <1>1, <2>2 DEF Pending, Saving
  <2>4. QED
    BY <1>1, <2>1, <2>3 DEF Pending, NegativesPaths, Negative
(* A step that is ready for it leaves nothing, or the cache to be written.  *)
<1>2. ASSUME tmp' = Absent, phase' # "save" \/ writes' = <<>>,
             writes' = <<>> \/ (Job' = "C" /\ writes' = <<[path |-> Cache, content |-> cache']>>)
      PROVE  Pending'
  BY <1>2 DEF Pending, Saving
<1>3. CASE OpenTmp \/ DumpTmp
  <2>1. /\ run' = run /\ todo' = todo /\ phase' = phase /\ weights' = weights
        /\ timestamp' = timestamp /\ files' = files /\ writes' = writes /\ cache' = cache
    BY <1>3 DEF OpenTmp, DumpTmp
  <2>2. tmp' \notin {Absent, Partial} => tmp' = Head(writes).content
    BY <1>3 DEF OpenTmp, DumpTmp
  <2>3. QED
    BY <1>1, <2>1, <2>2
<1>4. CASE ReplaceCheckpointFile /\ Saving
  <2>1. PICK n \in 0..5 : RenameStep(n)
    BY <1>4, CheckpointWrite
  <2>2. tmp' = Absent /\ phase' = "save"
    BY <1>4 DEF ReplaceCheckpointFile, Saving
  <2>3. CASE n = 5
    BY <1>2, <2>1, <2>2, <2>3 DEF RenameStep
  <2>4. CASE n # 5
    <3>1. n + 1 \in 0..5 /\ Rest(n + 1)' /\ Renamed(n + 1)'
      BY <2>1, <2>4 DEF RenameStep
    <3>2. Saving' => \E m \in 0..5 : Rest(m)' /\ Renamed(m)'
      BY <3>1
    <3>3. QED
      BY <2>2, <3>2 DEF Pending
  <2>5. QED
    BY <2>3, <2>4
<1>5. CASE ReplaceCheckpointFile /\ ~Saving
  <2>1. /\ tmp' = Absent /\ writes # <<>> /\ phase' = phase /\ timestamp' = timestamp
        /\ run' = run /\ writes' = Tail(writes) /\ phase # "save"
    BY <1>5 DEF ReplaceCheckpointFile, Saving, Types
  <2>2. IsSeq(writes) /\ \A k \in 1..Len(writes) : Negative(writes[k])
    BY <1>5, NegativesWrite
  <2>3. /\ IsSeq(writes') /\ Len(writes') = Len(writes) - 1 /\ Len(writes) \in Nat
        /\ \A k \in 1..(Len(writes) - 1) : writes'[k] = writes[k + 1]
    BY <2>1, <2>2, SeqFacts DEF IsSeq
  <2>4. \A k \in 1..Len(writes') : Negative(writes'[k])
    BY <2>2, <2>3
  <2>5. NegativesPaths' = NegativesPaths
    BY <2>1 DEF NegativesPaths
  <2>6. \A k \in 1..Len(writes') : Negative(writes[k])'
    BY <2>1, <2>4, <2>5 DEF Negative
  <2>7. QED
    BY <2>1, <2>3, <2>6 DEF Pending, Saving
<1>6. CASE ReplaceCacheFile
  <2>1. tmp' = Absent /\ writes' = <<>>
    BY <1>6, CacheWrite DEF ReplaceCacheFile
  <2>2. QED
    BY <1>2, <2>1
<1>7. CASE GetSignals
  <2>1. PICK p \in {"train", "validate", "test", "vtpan"} : At(p)
    BY <1>7 DEF GetSignals
  <2>2. phase = p /\ writes = <<>> /\ tmp = Absent
    BY <2>1, AtFacts
  <2>3. tmp' = Absent /\ phase' # "save" /\ Job' = "C"
    BY <1>7, <2>2 DEF GetSignals, Job
  <2>4. writes' = <<>> \/ writes' = <<[path |-> Cache, content |-> cache']>>
    BY <1>7, <2>2, Zenon DEF GetSignals
  <2>5. QED
    BY <1>2, <2>3, <2>4
<1>8. CASE EndTraining \/ EndTest \/ Reload
  <2>1. writes = <<>> /\ tmp = Absent
    BY <1>8, AtFacts DEF EndTraining, EndTest, Reload
  <2>2. writes' = <<>> /\ tmp' = Absent
    BY <1>8, <2>1 DEF EndTraining, EndTest, Reload
  <2>3. QED
    BY <1>2, <2>2
<1>9. CASE EndValidation
  <2>1. writes = <<>> /\ tmp = Absent /\ Job \in Jobs
    BY <1>9, AtFacts DEF EndValidation
  <2>2. tmp' = Absent /\ phase' = "save" /\ Job' = Job /\ UNCHANGED <<weights, timestamp>>
    BY <1>9, <2>1 DEF EndValidation, Job
  <2>3. writes' = <<>> \/ writes' = SaveCheckpoint(Job, weights, timestamp)
    BY <1>9, <2>1 DEF EndValidation
  <2>4. CASE writes' = <<>>
    BY <1>2, <2>2, <2>4
  <2>5. CASE writes' = SaveCheckpoint(Job, weights, timestamp)
    <3>1. timestamp \in 0..MaxMinute
      BY DEF Types
    <3>2. IsSeq(writes') /\ Len(writes') = 6
      BY <2>1, <2>5, <3>1, CheckpointFacts
    <3>3. ASSUME NEW k \in 1..6 PROVE writes'[k] = Write(0 + k)'
      BY <2>2, <2>5 DEF Write
    <3>4. Rest(0)'
      BY <3>2, <3>3 DEF Rest
    <3>5. Renamed(0)'
      BY DEF Renamed
    <3>6. Saving' => \E n \in 0..5 : Rest(n)' /\ Renamed(n)'
      BY <3>4, <3>5
    <3>7. QED
      BY <2>2, <3>6 DEF Pending
  <2>6. QED
    BY <2>3, <2>4, <2>5
<1>10. CASE EndEpoch \/ EndVtpan
  <2>1. script # Absent /\ tmp = Absent
    BY <1>10, AtFacts DEF EndEpoch, EndVtpan
  <2>2. tmp' = Absent /\ phase' # "save" /\ Job' = Job /\ writes' = SaveCache /\ cache' = cache
    BY <1>10, <2>1 DEF EndEpoch, EndVtpan, AfterEpochs, Job
  <2>3. QED
    BY <1>2, <2>1, <2>2, SaveCacheFacts
<1>11. CASE EndJob \/ Abort
  <2>1. writes = <<>> /\ tmp = Absent
    BY <1>11, AtFacts DEF EndJob, Abort
  <2>2. writes' = <<>> /\ tmp' = Absent
    BY <1>11, <2>1 DEF EndJob, Abort
  <2>3. QED
    BY <1>2, <2>2
<1>12. CASE Die
  BY <1>2, <1>12 DEF Die
<1>13. CASE LoadNext \/ Unload \/ UNCHANGED vars
  <2>1. /\ run' = run /\ todo' = todo /\ phase' = phase /\ weights' = weights
        /\ timestamp' = timestamp /\ files' = files /\ writes' = writes /\ cache' = cache /\ tmp' = tmp
    BY <1>13 DEF LoadNext, Unload, vars
  <2>2. QED
    BY <1>1, <2>1 DEF Pending
<1>14. ASSUME NEW s \in Scripts, StartGrooming(s) \/ StartEvaluation(s) \/ StartCyberbullying(s)
       PROVE  Pending'
  <2>1. PICK d, classes : StartRun(s, d, classes)
    BY <1>14, Starts
  <2>2. tmp' = Absent /\ phase' # "save"
    BY <2>1 DEF StartRun, BeginJob, Types
  <2>3. CASE writes' = <<>>
    BY <1>2, <2>2, <2>3
  <2>4. CASE writes' # <<>>
    <3>1. writes' = SaveArtifact("goemotions_negatives", 1, Artifact(run', 0, <<>>), timestamp')
      BY <2>1, <2>4 DEF StartRun
    <3>2. IsSeq(writes') /\ Len(writes') = 2
      BY <3>1 DEF SaveArtifact, IsSeq
    <3>3. \A k \in 1..2 : Negative(writes[k])'
      BY <3>1 DEF SaveArtifact, NegativesPaths, Negative
    <3>4. QED
      BY <2>2, <3>2, <3>3 DEF Pending, Saving
  <2>5. QED
    BY <2>3, <2>4
<1>15. QED
  BY <1>3, <1>4, <1>5, <1>6, <1>7, <1>8, <1>9, <1>10, <1>11, <1>12, <1>13, <1>14 DEF Next

-----------------------------------------------------------------------------
(* Calls paid for *)

(* What is lost with the memory of a script.                                *)
LEMMA LostWithMemory ==
  ASSUME Types, PaidInv
  PROVE  /\ Cardinality(disk) \in Nat /\ Cardinality(disk \cup cache) \in Nat
         /\ Cardinality(disk \cup cache) <= Cardinality(disk) + unflushed
<1>1. IsFiniteSet(disk) /\ IsFiniteSet(cache \ disk) /\ IsFiniteSet(disk \cup cache)
  BY FS_Difference, FS_Union DEF PaidInv
<1>2. Cardinality(disk \cup cache) = Cardinality(disk) + Cardinality(cache \ disk)
  <2>1. disk \cup cache = disk \cup (cache \ disk) /\ disk \cap (cache \ disk) = {}
    OBVIOUS
  <2>2. Cardinality({}) = 0
    BY FS_EmptySet
  <2>3. Cardinality(disk) \in Nat /\ Cardinality(cache \ disk) \in Nat
    BY <1>1, FS_CardinalityType
  <2>4. Cardinality(disk \cup (cache \ disk))
          = Cardinality(disk) + Cardinality(cache \ disk) - Cardinality(disk \cap (cache \ disk))
    BY <1>1, FS_Union
  <2>5. Cardinality(disk \cap (cache \ disk)) = 0
    BY <2>1, <2>2, Zenon
  <2>6. Cardinality(disk \cup cache) = Cardinality(disk \cup (cache \ disk))
    BY <2>1, Zenon
  <2>7. QED
    BY <2>3, <2>4, <2>5, <2>6
<1>3. Cardinality(cache \ disk) <= unflushed
  <2>1. CASE script # Absent /\ Job = "C"
    BY <2>1 DEF PaidInv
  <2>2. CASE ~(script # Absent /\ Job = "C")
    <3>1. cache \ disk = {}
      BY <2>2 DEF PaidInv
    <3>2. Cardinality(cache \ disk) = 0
      BY <3>1, FS_EmptySet, Zenon
    <3>3. QED
      BY <3>2 DEF Types
  <2>3. QED
    BY <2>1, <2>2
<1>4. Cardinality(disk) \in Nat /\ Cardinality(disk \cup cache) \in Nat
      /\ Cardinality(cache \ disk) \in Nat /\ unflushed \in Nat
  BY <1>1, FS_CardinalityType DEF Types
<1>5. QED
  BY <1>2, <1>3, <1>4

LEMMA PaidInit == Init => PaidInv
<1> SUFFICES ASSUME Init PROVE PaidInv
  OBVIOUS
<1>1. IsFiniteSet({}) /\ Cardinality({}) = 0
  BY FS_EmptySet
<1>2. disk \cup cache = {} /\ cache \ disk = {} /\ deaths * FlushEvery = 0
  BY TrainingAssumption DEF Init
<1>3. QED
  BY <1>1, <1>2, TrainingAssumption DEF Init, PaidInv, PaidCallsAreKept

LEMMA PaidNext == Types /\ Pending /\ PaidInv /\ [Next]_vars => PaidInv'
<1> SUFFICES ASSUME Types, Pending, PaidInv, [Next]_vars PROVE PaidInv'
  OBVIOUS
<1> USE DEF runVars, jobVars, fileVars, cacheVars, faultVars, serverVars
<1>n. FlushEvery \in Nat \ {0} /\ deaths \in Nat /\ paid \in Nat /\ unflushed \in Nat
  BY TrainingAssumption DEF Types
(* A step that keeps the calls, and what is due.                            *)
<1>1. ASSUME disk' = disk, cache' = cache, unflushed' = unflushed, paid' = paid,
             deaths' = deaths, script' = script, todo' = todo,
             writes' = <<>> => unflushed < FlushEvery,
             phase' = "save" => unflushed < FlushEvery,
             phase' # "save" /\ writes' # <<>> /\ Head(writes').path # Cache => unflushed = 0,
             phase' \in {"reload", "end"} /\ writes' = <<>> => unflushed = 0
      PROVE  PaidInv'
  BY <1>1 DEF PaidInv, PaidCallsAreKept, Job
(* A step that drops or reloads a cache that is on disk as it is.           *)
<1>2. ASSUME disk' = disk, cache' = {} \/ (script' # Absent /\ Job' = "C" /\ cache' = disk),
             script' # Absent /\ Job' = "C" => cache' = disk,
             unflushed' = 0, deaths' \in Nat, paid' \in Nat,
             paid' <= Cardinality(disk) + deaths' * FlushEvery
      PROVE  PaidInv'
  <2>1. disk' \cup cache' = disk /\ (cache' = disk => cache' \ disk' = {})
    BY <1>2
  <2>2. IsFiniteSet(disk) /\ IsFiniteSet({}) /\ Cardinality({}) = 0
    BY FS_EmptySet DEF PaidInv
  <2>3. IsFiniteSet(disk') /\ IsFiniteSet(cache')
    BY <1>2, <2>2
  <2>4. script' # Absent /\ Job' = "C" =>
          disk' \subseteq cache' /\ Cardinality(cache' \ disk') <= unflushed'
    <3>1. cache' = disk => Cardinality(cache' \ disk') = 0
      BY <2>1, <2>2, Zenon
    <3>2. QED
      BY <1>2, <3>1
  <2>5. PaidCallsAreKept'
    BY <1>2, <2>1 DEF PaidCallsAreKept
  <2>6. script' = Absent \/ Job' # "C" => cache' = {}
    BY <1>2
  <2>7. QED
    BY <1>2, <1>n, <2>3, <2>4, <2>5, <2>6 DEF PaidInv
(* Nothing is due: the keys are on disk.                                    *)
<1>3. ASSUME unflushed = 0 PROVE paid <= Cardinality(disk) + deaths * FlushEvery
  <2>1. Cardinality(disk) \in Nat /\ Cardinality(disk \cup cache) <= Cardinality(disk)
        /\ Cardinality(disk \cup cache) \in Nat
    BY <1>3, LostWithMemory
  <2>2. deaths * FlushEvery \in Nat
    BY <1>n
  <2>3. QED
    BY <1>n, <2>1, <2>2 DEF PaidInv, PaidCallsAreKept
<1>4. CASE OpenTmp \/ DumpTmp
  <2>1. /\ disk' = disk /\ cache' = cache /\ unflushed' = unflushed /\ paid' = paid
        /\ deaths' = deaths /\ script' = script /\ todo' = todo /\ writes' = writes /\ phase' = phase
    BY <1>4 DEF OpenTmp, DumpTmp
  <2>2. QED
    BY <1>1, <2>1 DEF PaidInv
<1>5. CASE ReplaceCheckpointFile
  <2>1. /\ disk' = disk /\ cache' = cache /\ unflushed' = unflushed /\ paid' = paid
        /\ deaths' = deaths /\ script' = script /\ todo' = todo /\ phase' = phase
        /\ Head(writes).path # Cache /\ writes # <<>>
    BY <1>5 DEF ReplaceCheckpointFile, Types
  <2>2. phase # "save" => unflushed = 0
    BY <2>1 DEF PaidInv
  <2>3. phase = "save" => unflushed < FlushEvery
    BY DEF PaidInv
  <2>4. unflushed < FlushEvery
    BY <1>n, <2>2, <2>3
  <2>5. QED
    BY <1>1, <2>1, <2>2, <2>4
<1>6. CASE ReplaceCacheFile
  <2>1. Job = "C" /\ script # Absent /\ tmp = cache /\ writes' = <<>>
    BY <1>6, CacheWrite
  <2>2. /\ disk' = cache /\ cache' = cache /\ unflushed' = 0 /\ paid' = paid
        /\ deaths' = deaths /\ script' = script /\ Job' = Job
    BY <1>6, <2>1 DEF ReplaceCacheFile, Job
  <2>3. disk' \cup cache' = disk \cup cache /\ cache' \ disk' = {} /\ disk' \subseteq cache'
    BY <2>1, <2>2 DEF PaidInv
  <2>4. Cardinality(cache' \ disk') = 0
    BY <2>3, FS_EmptySet
  <2>5. PaidCallsAreKept'
    BY <2>2, <2>3 DEF PaidInv, PaidCallsAreKept
  <2>6. QED
    BY <1>n, <2>1, <2>2, <2>3, <2>4, <2>5 DEF PaidInv
<1>7. CASE GetSignals
  <2>1. PICK p \in {"train", "validate", "test", "vtpan"} : At(p)
    BY <1>7 DEF GetSignals
  <2>2. phase = p /\ writes = <<>> /\ script # Absent /\ Job = "C"
    BY <1>7, <2>1, AtFacts DEF GetSignals
  <2>3. /\ disk' = disk /\ deaths' = deaths /\ script' = script /\ todo' = todo /\ phase' = phase
        /\ unflushed < FlushEvery
    BY <1>7, <2>2 DEF GetSignals, PaidInv
  <2>4. CASE UNCHANGED <<cache, unflushed, paid, writes>>
    BY <1>1, <2>2, <2>3, <2>4
  <2>5. CASE ~UNCHANGED <<cache, unflushed, paid, writes>>
    <3>1. PICK key : /\ key \notin cache /\ cache' = cache \cup {key}
                     /\ unflushed' = unflushed + 1 /\ paid' = paid + 1
                     /\ writes' = IF FlushIsDue(unflushed + 1)
                                  THEN <<[path |-> Cache, content |-> cache']>> ELSE <<>>
      BY <1>7, <2>5, Zenon DEF GetSignals
    <3>2. disk \subseteq cache /\ IsFiniteSet(cache) /\ Cardinality(cache \ disk) <= unflushed
      BY <2>2 DEF PaidInv
    <3>3. IsFiniteSet(cache') /\ Cardinality(cache') = Cardinality(cache) + 1
          /\ Cardinality(cache) \in Nat
      BY <3>1, <3>2, FS_AddElement, FS_CardinalityType
    <3>4. disk \cup cache = cache /\ disk' \cup cache' = cache' /\ disk' \subseteq cache'
      BY <2>3, <3>1, <3>2
    <3>5. Cardinality(cache' \ disk') <= unflushed'
      <4>1. cache' \ disk' = (cache \ disk) \cup {key} /\ key \notin cache \ disk
        BY <2>3, <3>1, <3>2
      <4>2. IsFiniteSet(cache \ disk)
        BY <3>2, FS_Difference
      <4>3. Cardinality(cache' \ disk') = Cardinality(cache \ disk) + 1
            /\ Cardinality(cache \ disk) \in Nat
        BY <4>1, <4>2, FS_AddElement, FS_CardinalityType
      <4>4. QED
        BY <1>n, <3>1, <3>2, <4>3
    <3>6. PaidCallsAreKept'
      <4>1. deaths * FlushEvery \in Nat /\ deaths' * FlushEvery = deaths * FlushEvery
        BY <1>n, <2>3
      <4>2. paid <= Cardinality(cache) + deaths * FlushEvery
        BY <3>4 DEF PaidInv, PaidCallsAreKept
      <4>3. Cardinality(disk' \cup cache') = Cardinality(cache) + 1
        BY <3>3, <3>4, Zenon
      <4>4. QED
        BY <1>n, <3>1, <3>3, <4>1, <4>2, <4>3 DEF PaidCallsAreKept
    <3>7. unflushed' <= FlushEvery /\ (writes' = <<>> => unflushed' < FlushEvery)
      <4>1. <<[path |-> Cache, content |-> cache']>> # <<>>
        BY SingleFacts
      <4>2. QED
        BY <1>n, <2>3, <3>1, <4>1 DEF FlushIsDue
    <3>8. writes' # <<>> => Head(writes').path = Cache
      BY <3>1, SingleFacts
    <3>9. /\ script' # Absent /\ Job' = "C" /\ IsFiniteSet(disk')
          /\ phase' \in {"train", "validate", "test", "vtpan"}
      BY <2>2, <2>3 DEF PaidInv, Job
    <3>10. QED
      BY <3>3, <3>4, <3>5, <3>6, <3>7, <3>8, <3>9 DEF PaidInv
  <2>6. QED
    BY <2>4, <2>5
<1>8. CASE EndTraining \/ EndTest \/ EndValidation
  <2>1. writes = <<>>
    BY <1>8, AtFacts DEF EndTraining, EndTest, EndValidation
  <2>2. /\ disk' = disk /\ cache' = cache /\ unflushed' = unflushed /\ paid' = paid
        /\ deaths' = deaths /\ script' = script /\ todo' = todo
        /\ phase' = "save" \/ (writes' = <<>> /\ phase' \in {"validate", "vtpan"})
        /\ unflushed < FlushEvery
    BY <1>8, <2>1 DEF EndTraining, EndTest, EndValidation, PaidInv
  <2>3. QED
    BY <1>1, <2>2
<1>9. CASE EndEpoch \/ EndVtpan
  <2>1. writes = <<>> /\ script # Absent
    BY <1>9, AtFacts DEF EndEpoch, EndVtpan
  <2>2. /\ disk' = disk /\ cache' = cache /\ unflushed' = unflushed /\ paid' = paid
        /\ deaths' = deaths /\ script' = script /\ todo' = todo
        /\ writes' = SaveCache /\ phase' # "save" /\ unflushed < FlushEvery
    BY <1>9, <2>1 DEF EndEpoch, EndVtpan, AfterEpochs, PaidInv
  <2>3. writes' = <<>> => unflushed = 0
    BY <2>2, SingleFacts DEF SaveCache
  <2>4. writes' # <<>> => Head(writes').path = Cache
    BY <2>2, SingleFacts DEF SaveCache
  <2>5. QED
    BY <1>1, <2>2, <2>3, <2>4
<1>10. CASE Reload
  <2>1. /\ disk' = disk /\ cache' = cache /\ unflushed' = unflushed /\ paid' = paid
        /\ deaths' = deaths /\ script' = script /\ todo' = todo
        /\ writes' = <<>> /\ phase' = "test" /\ unflushed < FlushEvery
    BY <1>10, AtFacts DEF Reload, PaidInv
  <2>2. QED
    BY <1>1, <2>1
<1>11. CASE EndJob \/ Abort
  <2>1. unflushed = 0 /\ disk' = disk /\ paid' = paid /\ deaths' = deaths /\ unflushed' = 0
    <3>1. CASE EndJob
      BY <3>1, AtFacts DEF EndJob, Exit, BeginJob, PaidInv
    <3>2. CASE Abort
      BY <3>2, AtFacts DEF Abort, Exit, PaidInv
    <3>3. QED
      BY <1>11, <3>1, <3>2
  <2>2. paid <= Cardinality(disk) + deaths * FlushEvery
    BY <1>3, <2>1
  <2>3. \/ script' = Absent /\ cache' = {}
        \/ script' # Absent /\ cache' = IF Job' = "C" THEN disk ELSE {}
    <3>1. CASE Exit
      BY <3>1 DEF Exit
    <3>2. CASE ~Exit
      <4>1. EndJob /\ Len(todo) # 1
        BY <1>11, <3>2 DEF EndJob, Abort
      <4>2. todo' = Tail(todo) /\ script' = script /\ script # Absent
            /\ cache' = IF todo[2] = "C" THEN disk ELSE {}
        BY <4>1 DEF EndJob, BeginJob, At
      <4>3. todo \in Seq(Jobs) /\ todo # <<>>
        BY <4>2 DEF Types
      <4>4. Tail(todo) \in Seq(Jobs) /\ Len(Tail(todo)) = Len(todo) - 1
            /\ \A k \in 1..Len(Tail(todo)) : Tail(todo)[k] = todo[k + 1]
        BY <4>3, HeadTailProperties
      <4>5. Len(todo) \in Nat /\ Len(todo) > 1
        <5>1. Len(todo) \in Nat /\ Len(todo) # 0
          BY <4>3, EmptySeq, LenProperties
        <5>2. QED
          BY <4>1, <5>1
      <4>6. Tail(todo) # <<>> /\ Tail(todo)[1] = todo[2]
        <5>0. Len(Tail(todo)) \in Nat /\ Len(Tail(todo)) >= 1
          BY <4>4, <4>5, LenProperties
        <5>a. \A n \in Nat : n >= 1 => 1 \in 1..n /\ n # 0
          OBVIOUS
        <5>1. 1 \in 1..Len(Tail(todo)) /\ Len(Tail(todo)) # 0
          BY <5>0, <5>a, Zenon
        <5>2. Tail(todo) # <<>>
          BY <4>4, <5>1, EmptySeq
        <5>3. Tail(todo)[1] = todo[1 + 1]
          BY <4>4, <5>1, Zenon
        <5>4. QED
          BY <5>2, <5>3
      <4>7. Job' = todo[2]
        BY <4>2, <4>4, <4>6, HeadTailProperties DEF Job
      <4>8. QED
        BY <4>2, <4>7
    <3>3. QED
      BY <3>1, <3>2
  <2>4. QED
    BY <1>2, <1>n, <2>1, <2>2, <2>3
<1>12. CASE Die
  <2>1. /\ disk' = disk /\ cache' = {} /\ unflushed' = 0 /\ deaths' = deaths + 1 /\ script' = Absent
        /\ paid' = paid \/ (CallUnderWay /\ paid' = paid + 1)
    BY <1>12 DEF Die, Exit
  <2>2. paid <= Cardinality(disk) + unflushed + deaths * FlushEvery
    <3>1. deaths * FlushEvery \in Nat
      BY <1>n
    <3>2. QED
      BY <1>n, <3>1, LostWithMemory DEF PaidInv, PaidCallsAreKept
  <2>3. unflushed <= FlushEvery /\ (CallUnderWay => unflushed < FlushEvery)
    BY AtFacts DEF CallUnderWay, PaidInv
  <2>4. (deaths + 1) * FlushEvery = deaths * FlushEvery + FlushEvery /\ deaths * FlushEvery \in Nat
    BY <1>n
  <2>5. paid' \in Nat /\ paid' <= Cardinality(disk) + deaths' * FlushEvery
    BY <1>n, <2>1, <2>2, <2>3, <2>4, LostWithMemory
  <2>6. deaths' \in Nat
    BY <1>n, <2>1
  <2>7. QED
    BY <1>2, <2>1, <2>5, <2>6
<1>13. CASE LoadNext \/ Unload \/ UNCHANGED vars
  <2>1. /\ disk' = disk /\ cache' = cache /\ unflushed' = unflushed /\ paid' = paid
        /\ deaths' = deaths /\ script' = script /\ todo' = todo /\ writes' = writes /\ phase' = phase
    BY <1>13 DEF LoadNext, Unload, vars
  <2>2. QED
    BY <1>1, <2>1 DEF PaidInv
<1>14. ASSUME NEW s \in Scripts, StartGrooming(s) \/ StartEvaluation(s) \/ StartCyberbullying(s)
       PROVE  PaidInv'
  <2>1. PICK d, classes : StartRun(s, d, classes)
    BY <1>14, Starts
  <2>2. /\ script = Absent /\ script' = s /\ s # Absent /\ todo' = s.jobs
        /\ disk' = disk /\ paid' = paid /\ deaths' = deaths /\ unflushed' = 0
        /\ cache' = IF Job' = "C" THEN disk ELSE {}
    BY <2>1, ScriptsAssumption DEF StartRun, BeginJob, Job
  <2>3. unflushed = 0
    BY <2>2 DEF Types
  <2>4. paid <= Cardinality(disk) + deaths * FlushEvery
    BY <1>3, <2>3
  <2>5. QED
    BY <1>2, <1>n, <2>2, <2>4
<1>15. QED
  BY <1>4, <1>5, <1>6, <1>7, <1>8, <1>9, <1>10, <1>11, <1>12, <1>13, <1>14 DEF Next

-----------------------------------------------------------------------------
(* The best epoch *)

LEMMA BestIsUnique ==
  ASSUME NEW ls \in Seq(Losses \cup {NaN}), NEW e, IsBest(e, ls)
  PROVE  BestEpoch(ls) = e
<1>1. e \in Finite(ls) /\ Finite(ls) # {}
  BY DEF IsBest
<1>2. ASSUME NEW f \in Finite(ls) PROVE f \in Nat /\ ls[f] \in Nat
  <2>1. f \in 1..Len(ls) /\ ls[f] \in Losses \cup {NaN} /\ ls[f] # NaN
    BY LenProperties, ElementOfSeq DEF Finite
  <2>2. Len(ls) \in Nat /\ Losses \subseteq Nat
    BY LenProperties, TrainingAssumption
  <2>3. ls[f] \in Nat
    BY <2>1, <2>2, Zenon
  <2>4. f \in Nat
    BY <2>1, <2>2
  <2>5. QED
    BY <2>3, <2>4
<1>3. ASSUME NEW f \in Finite(ls),
             \A g \in Finite(ls) : ls[f] < ls[g] \/ (ls[f] = ls[g] /\ f <= g)
      PROVE  f = e
  <2>1. ls[f] < ls[e] \/ (ls[f] = ls[e] /\ f <= e)
    BY <1>1, <1>3
  <2>2. ls[e] < ls[f] \/ (ls[e] = ls[f] /\ e <= f)
    BY <1>3 DEF IsBest
  <2>3. e \in Nat /\ f \in Nat /\ ls[e] \in Nat /\ ls[f] \in Nat
    BY <1>1, <1>2, <1>3
  <2>4. QED
    BY <2>1, <2>2, <2>3
<1>4. \A g \in Finite(ls) : ls[e] < ls[g] \/ (ls[e] = ls[g] /\ e <= g)
  BY DEF IsBest
<1>5. QED
  BY <1>1, <1>3, <1>4 DEF BestEpoch

(* What another epoch changes.                                              *)
OneMore(ms, ls, loss) ==
  /\ ms \in Seq(Losses \cup {NaN}) /\ Len(ms) = Len(ls) + 1 /\ Len(ls) \in Nat
  /\ ms[Len(ms)] = loss
  /\ \A e \in Finite(ls) : e \in 1..Len(ls) /\ ms[e] = ls[e] /\ ls[e] \in Losses
  /\ loss = NaN => Finite(ms) = Finite(ls)
  /\ loss # NaN => Finite(ms) = Finite(ls) \cup {Len(ms)}

LEMMA FiniteAppend ==
  ASSUME NEW ls \in Seq(Losses \cup {NaN}), NEW loss \in Losses \cup {NaN},
         NEW ms, ms = Append(ls, loss)
  PROVE  OneMore(ms, ls, loss)
<1>1. /\ ms \in Seq(Losses \cup {NaN}) /\ Len(ms) = Len(ls) + 1 /\ Len(ls) \in Nat
      /\ ms[Len(ms)] = loss /\ \A k \in 1..Len(ls) : ms[k] = ls[k]
  BY AppendProperties, LenProperties
<1>2. DOMAIN ls = 1..Len(ls) /\ DOMAIN ms = 1..Len(ms)
  BY <1>1, LenProperties
<1>3. ASSUME NEW e \in Finite(ls) PROVE e \in 1..Len(ls) /\ ms[e] = ls[e] /\ ls[e] \in Losses
  <2>1. e \in 1..Len(ls) /\ ls[e] # NaN
    BY <1>2 DEF Finite
  <2>2. ls[e] \in Losses \cup {NaN}
    BY <2>1, ElementOfSeq
  <2>3. QED
    BY <1>1, <2>1, <2>2
<1>4. ASSUME NEW e
      PROVE  e \in Finite(ms) <=> e \in Finite(ls) \/ (e = Len(ms) /\ loss # NaN)
  <2>1. e \in 1..Len(ms) <=> e \in 1..Len(ls) \/ e = Len(ms)
    BY <1>1
  <2>2. e \in 1..Len(ls) => ms[e] = ls[e] /\ e # Len(ms)
    BY <1>1
  <2>3. QED
    BY <1>1, <1>2, <2>1, <2>2 DEF Finite
<1>5. /\ loss = NaN => Finite(ms) = Finite(ls)
      /\ loss # NaN => Finite(ms) = Finite(ls) \cup {Len(ms)}
  BY <1>4
<1>6. QED
  BY <1>1, <1>3, <1>5 DEF OneMore

(* The validation of an epoch keeps the book of the best one.               *)
LEMMA BestStep ==
  ASSUME NEW ls \in Seq(Losses \cup {NaN}), NEW loss \in Losses \cup {NaN},
         NEW ms, ms = Append(ls, loss), NEW b \in Losses \cup {Inf},
         \/ IsBest(BestEpoch(ls), ls) /\ b = ls[BestEpoch(ls)]
         \/ Finite(ls) = {} /\ b = Inf
  PROVE  /\ Improves(loss, b) => BestEpoch(ms) = Len(ms) /\ IsBest(Len(ms), ms)
         /\ ~Improves(loss, b) =>
              \/ /\ BestEpoch(ms) = BestEpoch(ls) /\ IsBest(BestEpoch(ls), ms)
                 /\ b = ms[BestEpoch(ls)]
              \/ Finite(ls) = {} /\ Finite(ms) = {} /\ b = Inf
<1>0. OneMore(ms, ls, loss)
  BY FiniteAppend, Zenon
<1>1. /\ ms \in Seq(Losses \cup {NaN}) /\ Len(ms) = Len(ls) + 1 /\ Len(ls) \in Nat
      /\ ms[Len(ms)] = loss
      /\ \A e \in Finite(ls) : e \in 1..Len(ls) /\ ms[e] = ls[e] /\ ls[e] \in Losses
      /\ loss = NaN => Finite(ms) = Finite(ls)
      /\ loss # NaN => Finite(ms) = Finite(ls) \cup {Len(ms)}
  BY <1>0, Zenon DEF OneMore
<1>n. Losses \subseteq Nat /\ NaN \notin Nat /\ Inf \notin Nat
  BY TrainingAssumption
<1>2. ASSUME Improves(loss, b) PROVE IsBest(Len(ms), ms)
  <2>1. loss # NaN /\ loss \in Nat /\ (b = Inf \/ loss < b)
    BY <1>2, <1>n DEF Improves
  <2>2. ASSUME NEW f \in Finite(ms)
        PROVE  ms[Len(ms)] < ms[f] \/ (ms[Len(ms)] = ms[f] /\ Len(ms) <= f)
    <3>1. CASE f = Len(ms)
      BY <1>1, <3>1
    <3>2. CASE f # Len(ms)
      <4>1. f \in Finite(ls) /\ ms[f] = ls[f] /\ ls[f] \in Nat
        BY <1>1, <1>n, <2>1, <3>2
      <4>2. IsBest(BestEpoch(ls), ls) /\ b = ls[BestEpoch(ls)]
        BY <4>1
      <4>3. b \in Nat /\ b <= ls[f]
        <5>1. BestEpoch(ls) \in Finite(ls)
              /\ (ls[BestEpoch(ls)] < ls[f] \/ ls[BestEpoch(ls)] = ls[f])
          BY <4>1, <4>2 DEF IsBest
        <5>2. b \in Nat
          BY <1>1, <1>n, <4>2, <5>1
        <5>3. QED
          BY <4>1, <4>2, <5>1, <5>2
      <4>4. loss < ls[f]
        BY <1>n, <2>1, <4>1, <4>3
      <4>5. QED
        BY <1>1, <4>1, <4>4
    <3>3. QED
      BY <3>1, <3>2
  <2>3. QED
    BY <1>1, <2>1, <2>2 DEF IsBest
<1>3. ASSUME ~Improves(loss, b), Finite(ls) = {}, b = Inf PROVE Finite(ms) = {}
  BY <1>1, <1>3 DEF Improves
<1>4. ASSUME ~Improves(loss, b), IsBest(BestEpoch(ls), ls), b = ls[BestEpoch(ls)]
      PROVE  IsBest(BestEpoch(ls), ms) /\ b = ms[BestEpoch(ls)]
  <2>1. BestEpoch(ls) \in Finite(ls)
    BY <1>4 DEF IsBest
  <2>2. /\ BestEpoch(ls) \in 1..Len(ls) /\ ms[BestEpoch(ls)] = b /\ b \in Nat
        /\ BestEpoch(ls) \in Finite(ms)
    BY <1>1, <1>4, <1>n, <2>1
  <2>3. ASSUME NEW f \in Finite(ms)
        PROVE  b < ms[f] \/ (b = ms[f] /\ BestEpoch(ls) <= f)
    <3>1. CASE f \in Finite(ls)
      BY <1>1, <1>4, <2>2, <3>1 DEF IsBest
    <3>2. CASE f \notin Finite(ls)
      <4>1. f = Len(ms) /\ ms[f] = loss /\ loss # NaN
        BY <1>1, <3>2
      <4>2. loss \in Nat /\ ~(loss < b)
        BY <1>4, <1>n, <4>1 DEF Improves
      <4>3. BestEpoch(ls) <= f
        BY <1>1, <2>2, <4>1
      <4>4. QED
        BY <2>2, <4>1, <4>2, <4>3
    <3>3. QED
      BY <3>1, <3>2
  <2>4. QED
    BY <2>2, <2>3 DEF IsBest
<1>5. \A e : IsBest(e, ms) => BestEpoch(ms) = e
  BY <1>1, BestIsUnique
<1>6. QED
  BY <1>2, <1>3, <1>4, <1>5, Zenon

-----------------------------------------------------------------------------
(* The job *)

LEMMA JobInit == Init => JobInv /\ BestOnDisk /\ DataInv
  BY DEF Init, JobInv, BestOnDisk, DataInv, Trains, InJob

LEMMA JobNext == Types /\ Pending /\ JobInv /\ BestOnDisk /\ [Next]_vars => JobInv'
<1> SUFFICES ASSUME Types, Pending, JobInv, BestOnDisk, [Next]_vars PROVE JobInv'
  OBVIOUS
<1> USE DEF runVars, jobVars, fileVars, cacheVars, faultVars, serverVars
<1>1. ASSUME script' = script, run' = run, phase' = phase, weights' = weights, losses' = losses,
             best' = best, saved' = saved, epoch' = epoch, Saving' => Saving
      PROVE  JobInv'
  BY <1>1 DEF JobInv, Trains, InJob, BestKnown
(* A job that begins.                                                       *)
<1>2. ASSUME NEW job, NEW d, NEW classes, script' # Absent,
             BeginJob(job, script'.command, run', d, classes)
      PROVE  JobInv'
  <2>1. /\ losses' = <<>> /\ saved' = FALSE /\ best' = Inf /\ epoch' = 1
        /\ phase' = IF script'.command = "evaluate" THEN "reload" ELSE "train"
        /\ weights' = [i \in Parts |-> Artifact(run', 0, classes)]
    BY <1>2 DEF BeginJob
  <2>2. Finite(losses') = {}
    BY <2>1 DEF Finite
  <2>3. weights'[1] = Artifact(run', 0, classes) /\ 1 \in Parts
    BY <2>1 DEF Parts
  <2>4. \A i \in Parts : weights'[i] = Artifact(run', weights'[1].epoch, weights'[1].classes)
    BY <2>1, <2>3 DEF Artifact
  <2>5. Len(losses') = epoch' - 1
    BY <2>1
  <2>6. BestKnown'
    BY <2>1, <2>2 DEF BestKnown
  <2>7. ~Saving'
    BY <2>1 DEF Saving
  <2>8. QED
    BY <2>1, <2>4, <2>5, <2>6, <2>7 DEF JobInv, Trains
(* The process is gone.                                                     *)
<1>3. ASSUME Exit PROVE JobInv'
  <2>1. script' = Absent
    BY <1>3 DEF Exit
  <2>2. QED
    BY <2>1 DEF JobInv, Trains, InJob
<1>4. CASE OpenTmp \/ DumpTmp \/ ReplaceCheckpointFile
  <2>1. /\ script' = script /\ run' = run /\ phase' = phase /\ weights' = weights
        /\ losses' = losses /\ best' = best /\ saved' = saved /\ epoch' = epoch
    BY <1>4 DEF OpenTmp, DumpTmp, ReplaceCheckpointFile
  <2>2. writes # <<>>
    BY <1>4, TrainingAssumption DEF OpenTmp, DumpTmp, ReplaceCheckpointFile, Types
  <2>3. QED
    BY <1>1, <2>1, <2>2 DEF Saving
<1>5. CASE ReplaceCacheFile
  <2>1. /\ script' = script /\ run' = run /\ phase' = phase /\ weights' = weights
        /\ losses' = losses /\ best' = best /\ saved' = saved /\ epoch' = epoch
    BY <1>5 DEF ReplaceCacheFile
  <2>2. ~Saving'
    BY <1>5, CacheWrite DEF Saving
  <2>3. QED
    BY <1>1, <2>1, <2>2
<1>6. CASE GetSignals
  <2>1. /\ script' = script /\ run' = run /\ phase' = phase /\ weights' = weights
        /\ losses' = losses /\ best' = best /\ saved' = saved /\ epoch' = epoch
    BY <1>6 DEF GetSignals
  <2>2. phase # "save"
    BY <1>6, AtFacts DEF GetSignals
  <2>3. QED
    BY <1>1, <2>1, <2>2 DEF Saving
<1>7. CASE LoadNext \/ Unload \/ UNCHANGED vars
  <2>1. /\ script' = script /\ run' = run /\ phase' = phase /\ weights' = weights
        /\ losses' = losses /\ best' = best /\ saved' = saved /\ epoch' = epoch
        /\ writes' = writes
    BY <1>7 DEF LoadNext, Unload, vars
  <2>2. QED
    BY <1>1, <2>1 DEF Saving
<1>8. CASE EndTraining
  <2>1. script # Absent /\ phase = "train" /\ writes = <<>>
    BY <1>8, AtFacts DEF EndTraining
  <2>2. /\ script' = script /\ run' = run /\ epoch' = epoch /\ losses' = losses /\ best' = best
        /\ saved' = saved /\ phase' = "validate" /\ writes' = <<>>
        /\ weights' = [i \in Parts |-> Artifact(run, epoch, weights[i].classes)]
    BY <1>8, <2>1 DEF EndTraining
  <2>3. script.command # "evaluate" /\ Trains
    BY <2>1 DEF JobInv, Trains, InJob
  <2>4. \A i \in Parts : weights[i].classes = weights[1].classes
    BY <2>3 DEF JobInv, Artifact
  <2>5. /\ \A i \in Parts : weights'[i] = Artifact(run', weights'[1].epoch, weights'[1].classes)
        /\ weights'[1].epoch = epoch
    <3>1. weights'[1] = Artifact(run, epoch, weights[1].classes)
      BY <2>2 DEF Parts
    <3>2. weights'[1].epoch = epoch /\ weights'[1].classes = weights[1].classes
      BY <3>1 DEF Artifact
    <3>3. QED
      BY <2>2, <2>4, <3>2
  <2>6. Len(losses') = epoch' - 1 /\ BestKnown'
    BY <2>1, <2>2, <2>3 DEF JobInv, BestKnown
  <2>7. QED
    BY <2>2, <2>3, <2>5, <2>6 DEF JobInv, Saving
<1>9. CASE EndValidation
  <2>1. script # Absent /\ phase = "validate" /\ writes = <<>> /\ Job \in Jobs
    BY <1>9, AtFacts DEF EndValidation
  <2>2. PICK loss \in Losses \cup {NaN} :
          /\ losses' = Append(losses, loss)
          /\ IF Improves(loss, best)
             THEN best' = loss /\ saved' = TRUE /\ writes' = SaveCheckpoint(Job, weights, timestamp)
             ELSE UNCHANGED <<best, saved, writes>>
    BY <1>9 DEF EndValidation
  <2>3. /\ script' = script /\ run' = run /\ epoch' = epoch /\ phase' = "save" /\ weights' = weights
    BY <1>9 DEF EndValidation
  <2>4. /\ script.command # "evaluate" /\ Trains /\ Len(losses) = epoch - 1 /\ BestKnown
        /\ \A i \in Parts : weights[i] = Artifact(run, weights[1].epoch, weights[1].classes)
        /\ weights[1].epoch = epoch
    BY <2>1 DEF JobInv, Trains, InJob
  <2>5. losses \in Seq(Losses \cup {NaN}) /\ best \in Losses \cup {Inf} /\ saved \in BOOLEAN
        /\ epoch \in Nat
    BY DEF Types
  <2>6. \/ IsBest(BestEpoch(losses), losses) /\ best = losses[BestEpoch(losses)]
        \/ Finite(losses) = {} /\ best = Inf
    BY <2>4, <2>5 DEF BestKnown
  <2>7. OneMore(losses', losses, loss)
    BY <2>2, <2>5, FiniteAppend, Zenon
  <2>8. Len(losses') = epoch' /\ losses'[Len(losses')] = loss
    BY <2>3, <2>4, <2>5, <2>7 DEF OneMore
  <2>9. /\ Improves(loss, best) => BestEpoch(losses') = epoch' /\ IsBest(epoch', losses')
        /\ ~Improves(loss, best) =>
             \/ /\ BestEpoch(losses') = BestEpoch(losses) /\ IsBest(BestEpoch(losses), losses')
                /\ best = losses'[BestEpoch(losses)]
             \/ Finite(losses) = {} /\ Finite(losses') = {} /\ best = Inf
    BY <2>2, <2>5, <2>6, <2>8, BestStep, Zenon
  <2>10. BestKnown' /\ (Saving' => saved' /\ BestEpoch(losses') = epoch')
    <3>1. CASE Improves(loss, best)
      BY <2>2, <2>8, <2>9, <3>1 DEF BestKnown
    <3>2. CASE ~Improves(loss, best)
      <4>1. best' = best /\ saved' = saved /\ writes' = <<>>
        BY <2>1, <2>2, <3>2
      <4>2. saved => Finite(losses) # {}
        BY <2>4 DEF BestKnown, IsBest
      <4>3. ~saved => Finite(losses) = {} /\ best = Inf
        BY <2>4 DEF BestKnown
      <4>4. ~saved => Finite(losses') = {}
        BY <2>7, <3>2, <4>3 DEF OneMore, Improves
      <4>5. saved => BestEpoch(losses') = BestEpoch(losses) /\ IsBest(BestEpoch(losses), losses')
                     /\ best = losses'[BestEpoch(losses)]
        BY <2>9, <3>2, <4>2
      <4>6. QED
        BY <4>1, <4>3, <4>4, <4>5 DEF BestKnown, Saving
    <3>3. QED
      BY <3>1, <3>2
  <2>11. QED
    BY <2>3, <2>4, <2>8, <2>10 DEF JobInv
<1>10. CASE EndEpoch
  <2>1. script # Absent /\ phase = "save" /\ writes = <<>>
    BY <1>10, AtFacts DEF EndEpoch
  <2>2. /\ script' = script /\ run' = run /\ weights' = weights /\ losses' = losses
        /\ best' = best /\ saved' = saved
        /\ \/ epoch' = epoch + 1 /\ phase' = "train"
           \/ epoch' = epoch /\ phase' = AfterEpochs
    BY <1>10 DEF EndEpoch
  <2>3. /\ script.command # "evaluate" /\ Len(losses) = epoch /\ BestKnown
        /\ \A i \in Parts : weights[i] = Artifact(run, weights[1].epoch, weights[1].classes)
        /\ weights[1].epoch = epoch /\ epoch \in Nat
    BY <2>1 DEF JobInv, Trains, InJob, Types
  <2>4. BestKnown'
    BY <2>2, <2>3 DEF BestKnown
  <2>5. phase' \in {"train", "end", "reload", "test"} /\ (phase' = "reload" => saved)
        /\ (phase' = "test" => ~saved)
    BY <2>2 DEF AfterEpochs
  <2>6. phase' = "test" => BestEpoch(losses) = epoch
    BY <2>3, <2>5 DEF BestKnown, BestEpoch
  <2>7. /\ phase' = "train" => Len(losses') = epoch' - 1
        /\ phase' # "train" => Len(losses') = epoch'
    BY <2>2, <2>3, <2>5 DEF AfterEpochs
  <2>8. QED
    BY <2>2, <2>3, <2>4, <2>5, <2>6, <2>7 DEF JobInv, Saving
<1>11. CASE Reload
  <2>1. script # Absent /\ phase = "reload" /\ writes = <<>>
    BY <1>11, AtFacts DEF Reload
  <2>2. /\ script' = script /\ run' = run /\ epoch' = epoch /\ losses' = losses /\ best' = best
        /\ saved' = saved /\ phase' = "test"
        /\ weights' = [i \in Parts |-> files[Latest(Job, i)]]
    BY <1>11 DEF Reload
  <2>3. CASE script.command = "evaluate"
    BY <2>1, <2>2, <2>3 DEF JobInv, Trains
  <2>4. CASE script.command # "evaluate"
    <3>1. InJob /\ Trains /\ saved /\ ~Saving /\ Len(losses) = epoch /\ BestKnown
      BY <2>1, <2>4 DEF JobInv, Trains, InJob, Saving
    <3>2. \A i \in Parts : weights'[i] = Artifact(run, BestEpoch(losses), weights[1].classes)
      BY <2>2, <3>1 DEF BestOnDisk
    <3>3. /\ weights'[1].epoch = BestEpoch(losses) /\ weights'[1].classes = weights[1].classes
      BY <3>2 DEF Artifact, Parts
    <3>4. BestKnown'
      BY <2>2, <3>1 DEF BestKnown
    <3>5. QED
      BY <2>2, <2>4, <3>1, <3>2, <3>3, <3>4 DEF JobInv, Saving
  <2>5. QED
    BY <2>3, <2>4
<1>12. CASE EndTest
  <2>1. script # Absent /\ phase = "test"
    BY <1>12, AtFacts DEF EndTest
  <2>2. /\ script' = script /\ run' = run /\ epoch' = epoch /\ losses' = losses /\ best' = best
        /\ saved' = saved /\ phase' = "vtpan" /\ weights' = weights
    BY <1>12 DEF EndTest
  <2>3. QED
    BY <2>1, <2>2 DEF JobInv, Trains, InJob, BestKnown, Saving
<1>13. CASE EndVtpan
  <2>1. script # Absent /\ phase = "vtpan"
    BY <1>13, AtFacts DEF EndVtpan
  <2>2. /\ script' = script /\ saved' = saved /\ phase' = "end"
    BY <1>13 DEF EndVtpan
  <2>3. QED
    BY <2>1, <2>2 DEF JobInv, Trains, InJob
<1>14. CASE EndJob
  <2>1. CASE Len(todo) = 1
    BY <1>3, <1>14, <2>1 DEF EndJob
  <2>2. CASE Len(todo) # 1
    <3>1. /\ script' = script /\ run' = run /\ script # Absent
          /\ BeginJob(todo[2], script.command, run, data, <<>>)
      BY <1>14, <2>2 DEF EndJob, At
    <3>2. QED
      BY <1>2, <3>1, Zenon
  <2>3. QED
    BY <2>1, <2>2
<1>15. CASE Abort \/ Die
  BY <1>3, <1>15 DEF Abort, Die
<1>16. ASSUME NEW s \in Scripts, StartGrooming(s) \/ StartEvaluation(s) \/ StartCyberbullying(s)
       PROVE  JobInv'
  <2>1. PICK d, classes : StartRun(s, d, classes)
    BY <1>16, Starts
  <2>2. /\ script' = s /\ s # Absent /\ run' = run + 1
        /\ BeginJob(Head(s.jobs), s.command, run + 1, d, classes)
    BY <2>1, ScriptsAssumption DEF StartRun
  <2>3. QED
    BY <1>2, <2>2, Zenon
<1>17. QED
  BY <1>4, <1>5, <1>6, <1>7, <1>8, <1>9, <1>10, <1>11, <1>12, <1>13, <1>14, <1>15, <1>16 DEF Next

LEMMA BestOnDiskNext == Types /\ Pending /\ JobInv /\ BestOnDisk /\ [Next]_vars => BestOnDisk'
<1> SUFFICES ASSUME Types, Pending, JobInv, BestOnDisk, [Next]_vars PROVE BestOnDisk'
  OBVIOUS
<1> USE DEF runVars, jobVars, fileVars, cacheVars, faultVars, serverVars
<1>1. ASSUME files' = files, todo' = todo, timestamp' = timestamp, run' = run,
             weights'[1].classes = weights[1].classes,
             InJob' /\ saved' /\ ~Saving' =>
               InJob /\ saved /\ ~Saving /\ BestEpoch(losses') = BestEpoch(losses)
      PROVE  BestOnDisk'
  BY <1>1 DEF BestOnDisk, Job
<1>2. ASSUME ~InJob' \/ ~saved' \/ Saving' PROVE BestOnDisk'
  BY <1>2 DEF BestOnDisk
<1>3. CASE OpenTmp \/ DumpTmp \/ LoadNext \/ Unload \/ UNCHANGED vars
  <2>1. /\ files' = files /\ todo' = todo /\ timestamp' = timestamp /\ run' = run
        /\ weights' = weights /\ losses' = losses /\ saved' = saved /\ phase' = phase
        /\ script' = script /\ writes' = writes
    BY <1>3 DEF OpenTmp, DumpTmp, LoadNext, Unload, vars
  <2>2. QED
    BY <1>1, <2>1 DEF InJob, Saving
<1>4. CASE ReplaceCheckpointFile /\ Saving
  <2>1. PICK n \in 0..5 : RenameStep(n)
    BY <1>4, CheckpointWrite
  <2>2. /\ todo' = todo /\ timestamp' = timestamp /\ run' = run /\ weights' = weights
        /\ losses' = losses /\ saved' = saved /\ phase' = "save" /\ script' = script /\ script # Absent
    BY <1>4 DEF ReplaceCheckpointFile, Saving, Types
  <2>3. CASE n # 5
    BY <1>2, <2>1, <2>2, <2>3 DEF RenameStep, Saving
  <2>4. CASE n = 5
    <3>1. \A k \in 1..6 : files'[Write(k).path] = Write(k).content
      <4>1. Renamed(6)' /\ \A k \in 1..6 : Write(k)' = Write(k)
        BY <2>1, <2>4 DEF RenameStep
      <4>2. QED
        BY <4>1 DEF Renamed
    <3>2. Job \in Jobs /\ timestamp \in 0..MaxMinute
      BY <2>2, HeadTailProperties DEF Job, Types
    <3>3. \A i \in Parts : /\ Write(2 * i - 1) = [path |-> Latest(Job, i), content |-> weights[i]]
                           /\ Write(2 * i) = [path |-> History(Job, i, timestamp), content |-> weights[i]]
      BY <3>2, CheckpointFacts DEF Write
    <3>4. Trains
      BY <1>4, <2>2 DEF JobInv, Trains, InJob, Saving
    <3>5. /\ \A i \in Parts : weights[i] = Artifact(run, weights[1].epoch, weights[1].classes)
          /\ weights[1].epoch = epoch /\ BestEpoch(losses) = epoch
      BY <1>4, <3>4 DEF JobInv, Saving
    <3>6. ASSUME NEW i \in Parts
          PROVE  /\ files'[Latest(Job, i)] = Artifact(run, BestEpoch(losses), weights[1].classes)
                 /\ files'[History(Job, i, timestamp)] = files'[Latest(Job, i)]
      <4>1. 2 * i - 1 \in 1..6 /\ 2 * i \in 1..6
        BY DEF Parts
      <4>a. /\ files'[Write(2 * i - 1).path] = Write(2 * i - 1).content
            /\ files'[Write(2 * i).path] = Write(2 * i).content
        BY <3>1, <4>1, Zenon
      <4>b. /\ Write(2 * i - 1).path = Latest(Job, i) /\ Write(2 * i - 1).content = weights[i]
            /\ Write(2 * i).path = History(Job, i, timestamp) /\ Write(2 * i).content = weights[i]
        <5>1. Write(2 * i - 1) = [path |-> Latest(Job, i), content |-> weights[i]]
          BY <3>3, Zenon
        <5>2. Write(2 * i) = [path |-> History(Job, i, timestamp), content |-> weights[i]]
          BY <3>3, Zenon
        <5>3. QED
          BY <5>1, <5>2
      <4>2. files'[Latest(Job, i)] = weights[i] /\ files'[History(Job, i, timestamp)] = weights[i]
        BY <4>a, <4>b, Zenon
      <4>3. QED
        BY <3>5, <4>2
    <3>7. QED
      BY <2>2, <3>6 DEF BestOnDisk, Job
  <2>5. QED
    BY <2>3, <2>4
<1>5. CASE ReplaceCheckpointFile /\ ~Saving
  <2>1. /\ Head(writes).path \in NegativesPaths /\ files' = [files EXCEPT ![Head(writes).path] = tmp]
    BY <1>5, NegativesWrite DEF ReplaceCheckpointFile, Negative
  <2>2. /\ todo' = todo /\ timestamp' = timestamp /\ run' = run /\ weights' = weights
        /\ losses' = losses /\ saved' = saved /\ phase' = phase /\ script' = script
        /\ script # Absent /\ phase' # "save"
    BY <1>5 DEF ReplaceCheckpointFile, Saving, Types
  <2>3. Job \in Jobs /\ timestamp \in 0..MaxMinute
    BY <2>2, HeadTailProperties DEF Job, Types
  <2>4. Job # "goemotions_negatives"
    BY <2>3 DEF Jobs, Variants
  <2>5. ASSUME NEW i \in Parts
        PROVE  /\ files'[Latest(Job, i)] = files[Latest(Job, i)]
               /\ files'[History(Job, i, timestamp)] = files[History(Job, i, timestamp)]
    <3>1. <<Job, i>> \in Saved
      BY <2>3 DEF Saved
    <3>2. Latest(Job, i) \in Paths /\ History(Job, i, timestamp) \in Paths
      BY <2>3, <3>1 DEF Paths
    <3>3. Latest(Job, i) \notin NegativesPaths /\ History(Job, i, timestamp) \notin NegativesPaths
      BY <2>4 DEF NegativesPaths, Latest, History
    <3>4. QED
      BY <2>1, <3>2, <3>3 DEF Types
  <2>6. QED
    BY <2>2, <2>5, <1>5 DEF BestOnDisk, Job, InJob
<1>6. CASE ReplaceCacheFile
  <2>1. /\ files' = files /\ todo' = todo /\ timestamp' = timestamp /\ run' = run
        /\ weights' = weights /\ losses' = losses /\ saved' = saved /\ phase' = phase
        /\ script' = script /\ ~Saving
    BY <1>6, CacheWrite DEF ReplaceCacheFile
  <2>2. QED
    BY <1>1, <2>1 DEF InJob
<1>7. CASE GetSignals \/ EndTest
  <2>1. /\ files' = files /\ todo' = todo /\ timestamp' = timestamp /\ run' = run
        /\ weights' = weights /\ losses' = losses /\ saved' = saved /\ script' = script
        /\ script # Absent /\ phase \notin {"save", "end"}
    BY <1>7, AtFacts DEF GetSignals, EndTest
  <2>2. QED
    BY <1>1, <2>1 DEF InJob, Saving
<1>8. CASE EndTraining
  <2>1. /\ files' = files /\ todo' = todo /\ timestamp' = timestamp /\ run' = run
        /\ losses' = losses /\ saved' = saved /\ script # Absent /\ phase = "train"
        /\ weights' = [i \in Parts |-> Artifact(run, epoch, weights[i].classes)]
    BY <1>8, AtFacts DEF EndTraining
  <2>2. weights'[1] = Artifact(run, epoch, weights[1].classes)
    BY <2>1 DEF Parts
  <2>3. QED
    BY <1>1, <2>1, <2>2 DEF InJob, Saving, Artifact
<1>9. CASE EndValidation
  <2>1. script # Absent /\ phase = "validate" /\ writes = <<>> /\ Job \in Jobs
    BY <1>9, AtFacts DEF EndValidation
  <2>2. PICK loss \in Losses \cup {NaN} :
          /\ losses' = Append(losses, loss)
          /\ IF Improves(loss, best)
             THEN best' = loss /\ saved' = TRUE /\ writes' = SaveCheckpoint(Job, weights, timestamp)
             ELSE UNCHANGED <<best, saved, writes>>
    BY <1>9 DEF EndValidation
  <2>3. /\ files' = files /\ todo' = todo /\ timestamp' = timestamp /\ run' = run
        /\ weights' = weights /\ phase' = "save"
    BY <1>9 DEF EndValidation
  <2>4. CASE Improves(loss, best)
    <3>1. writes' # <<>>
      BY <2>1, <2>2, <2>4, CheckpointFacts DEF Types
    <3>2. QED
      BY <1>2, <2>3, <3>1 DEF Saving
  <2>5. CASE ~Improves(loss, best)
    <3>1. saved' = saved /\ ~Saving /\ InJob
      BY <2>1, <2>2, <2>5 DEF Saving, InJob
    <3>2. BestKnown
      BY <2>1 DEF JobInv, Trains, InJob
    <3>3. losses \in Seq(Losses \cup {NaN}) /\ best \in Losses \cup {Inf} /\ saved \in BOOLEAN
      BY DEF Types
    <3>4. \/ IsBest(BestEpoch(losses), losses) /\ best = losses[BestEpoch(losses)]
          \/ Finite(losses) = {} /\ best = Inf
      BY <3>2, <3>3 DEF BestKnown
    <3>5. BestEpoch(losses') = BestEpoch(losses) \/ Finite(losses) = {}
      BY <2>2, <2>5, <3>3, <3>4, BestStep, Zenon
    <3>6. saved => Finite(losses) # {}
      BY <3>2 DEF BestKnown, IsBest
    <3>7. QED
      BY <1>1, <2>3, <3>1, <3>5, <3>6
  <2>6. QED
    BY <2>4, <2>5
<1>10. CASE EndEpoch
  <2>1. /\ files' = files /\ todo' = todo /\ timestamp' = timestamp /\ run' = run
        /\ weights' = weights /\ losses' = losses /\ saved' = saved
        /\ script # Absent /\ phase = "save" /\ writes = <<>>
    BY <1>10, AtFacts DEF EndEpoch
  <2>2. QED
    BY <1>1, <2>1 DEF InJob, Saving
<1>11. CASE Reload
  <2>1. /\ files' = files /\ todo' = todo /\ timestamp' = timestamp /\ run' = run
        /\ losses' = losses /\ saved' = saved /\ script # Absent /\ phase = "reload"
        /\ weights' = [i \in Parts |-> files[Latest(Job, i)]]
    BY <1>11, AtFacts DEF Reload
  <2>2. CASE ~saved
    BY <1>2, <2>1, <2>2
  <2>3. CASE saved
    <3>1. InJob /\ ~Saving
      BY <2>1 DEF InJob, Saving
    <3>2. weights'[1] = Artifact(run, BestEpoch(losses), weights[1].classes)
      BY <2>1, <2>3, <3>1 DEF BestOnDisk, Parts
    <3>3. QED
      BY <1>1, <2>1, <2>3, <3>1, <3>2 DEF Artifact
  <2>4. QED
    BY <2>2, <2>3
<1>12. CASE EndVtpan \/ EndJob \/ Abort \/ Die
  <2>1. \/ phase' = "end" \/ saved' = FALSE
    BY <1>12 DEF EndVtpan, EndJob, Abort, Die, Exit, BeginJob
  <2>2. QED
    BY <1>2, <2>1 DEF InJob
<1>13. ASSUME NEW s \in Scripts, StartGrooming(s) \/ StartEvaluation(s) \/ StartCyberbullying(s)
       PROVE  BestOnDisk'
  <2>1. PICK d, classes : StartRun(s, d, classes)
    BY <1>13, Starts
  <2>2. saved' = FALSE
    BY <2>1 DEF StartRun, BeginJob
  <2>3. QED
    BY <1>2, <2>2
<1>14. QED
  BY <1>3, <1>4, <1>5, <1>6, <1>7, <1>8, <1>9, <1>10, <1>11, <1>12, <1>13 DEF Next

-----------------------------------------------------------------------------
(* The data *)

(* What is left out of the training corpus speaks in none of its samples.   *)
LEMMA SamplesAreDisjoint ==
  ASSUME NEW pack, NEW excluded, NEW cap, NEW sample \in LoadSamples(pack, excluded, cap)
  PROVE  sample.authors \cap excluded = {}
  BY DEF LoadSamples, IdentityDisjoint

LEMMA DataNext == DataInv /\ [Next]_vars => DataInv'
<1> SUFFICES ASSUME DataInv, [Next]_vars PROVE DataInv'
  OBVIOUS
<1> USE DEF runVars, jobVars, fileVars, cacheVars, faultVars, serverVars
<1>1. ASSUME NEW s \in Scripts, StartGrooming(s) PROVE DataInv'
  <2>1. PICK excluded, all, train :
          /\ all = LoadSamples("PAN12-train", excluded, s.cap) /\ train \subseteq all
          /\ excluded = (IF s.disjoint THEN DefaultOverlappingPredatorIds ELSE {})
          /\ data'.train = train /\ data'.val = all \ train /\ script' = s
    <3>1. PICK train \in Splits(LoadSamples("PAN12-train",
                     IF s.disjoint THEN DefaultOverlappingPredatorIds ELSE {}, s.cap), s.percent) :
            StartRun(s, [train |-> train,
                         val   |-> LoadSamples("PAN12-train",
                                     IF s.disjoint THEN DefaultOverlappingPredatorIds ELSE {}, s.cap) \ train,
                         test  |-> TestData(s).test, vtpan |-> TestData(s).vtpan], <<>>)
      BY <1>1, Zenon DEF StartGrooming
    <3>2. QED
      BY <3>1 DEF StartRun, Splits
  <2>2. s.disjoint => \A sample \in all : sample.authors \cap DefaultOverlappingPredatorIds = {}
    BY <2>1, SamplesAreDisjoint
  <2>3. QED
    BY <2>1, <2>2 DEF DataInv
<1>2. ASSUME NEW s \in Scripts, StartEvaluation(s) PROVE DataInv'
  BY <1>2 DEF StartEvaluation, StartRun, DataInv
<1>3. ASSUME NEW s \in Scripts, StartCyberbullying(s) PROVE DataInv'
  <2>1. PICK kept, train, classes :
          StartRun(s, [train |-> train, val |-> kept \ train, test |-> {}, vtpan |-> {}], classes)
    BY <1>3, Zenon DEF StartCyberbullying
  <2>2. s.command = "cyberbullying"
    BY <1>3 DEF StartCyberbullying
  <2>3. QED
    BY <2>1, <2>2 DEF StartRun, DataInv
<1>4. ASSUME script' = Absent PROVE DataInv'
  BY <1>4 DEF DataInv
<1>5. ASSUME script' = script, data' = data PROVE DataInv'
  BY <1>5 DEF DataInv
<1>6. CASE OpenTmp \/ DumpTmp \/ ReplaceCheckpointFile \/ ReplaceCacheFile \/ GetSignals
           \/ EndTraining \/ EndValidation \/ EndEpoch
  BY <1>5, <1>6 DEF OpenTmp, DumpTmp, ReplaceCheckpointFile, ReplaceCacheFile, GetSignals,
                    EndTraining, EndValidation, EndEpoch
<1>7. CASE Reload \/ EndTest \/ EndVtpan \/ LoadNext \/ Unload \/ UNCHANGED vars
  BY <1>5, <1>7 DEF Reload, EndTest, EndVtpan, LoadNext, Unload, vars
<1>8. CASE EndJob \/ Abort \/ Die
  BY <1>4, <1>5, <1>8 DEF EndJob, Abort, Die, Exit
<1>9. QED
  BY <1>1, <1>2, <1>3, <1>6, <1>7, <1>8 DEF Next

-----------------------------------------------------------------------------
(* The files *)

LEMMA LatestPaths ==
  ASSUME NEW job \in Jobs, NEW i \in Parts
  PROVE  Latest(job, i) \in Paths
<1>1. <<job, i>> \in Saved
  BY DEF Saved
<1>2. QED
  BY <1>1 DEF Paths

(* A rename changes the latest copies of the job that saves, and no other.  *)
LEMMA OthersKept ==
  ASSUME Types, Pending, ReplaceCheckpointFile, NEW job \in Jobs, ~(Saving /\ Job = job)
  PROVE  \A i \in Parts : files'[Latest(job, i)] = files[Latest(job, i)]
<1>1. files' = [files EXCEPT ![Head(writes).path] = tmp] /\ script # Absent /\ writes # <<>>
  BY DEF ReplaceCheckpointFile, Types
<1>2. ASSUME NEW i \in Parts PROVE Head(writes).path # Latest(job, i)
  <2>1. CASE ~Saving
    <3>1. Head(writes).path \in NegativesPaths
      BY <2>1, NegativesWrite DEF Negative
    <3>2. job # "goemotions_negatives"
      BY DEF Jobs, Variants
    <3>3. QED
      BY <3>1, <3>2 DEF NegativesPaths, Latest, History
  <2>2. CASE Saving
    <3>1. PICK n \in 0..5 : Rest(n)
      BY <2>2 DEF Pending
    <3>2. n + 1 \in 1..6 /\ Head(writes) = Write(n + 1)
      BY <1>1, <3>1, SeqFacts DEF Rest
    <3>3. Job # job
      BY <2>2
    <3>4. Head(writes).path = Latest(Job, (n + 2) \div 2) \/
          Head(writes).path = History(Job, (n + 2) \div 2, timestamp)
      <4>1. n + 1 = 1 \/ n + 1 = 2 \/ n + 1 = 3 \/ n + 1 = 4 \/ n + 1 = 5 \/ n + 1 = 6
        BY <3>2
      <4>2. /\ ((n + 1) + 1) \div 2 = (n + 2) \div 2
            /\ (n + 1) % 2 = 1 \/ (n + 1) % 2 = 0
        BY <4>1
      <4>3. QED
        BY <3>2, <4>2 DEF Write, SaveCheckpoint, SaveArtifact
    <3>5. QED
      BY <3>3, <3>4 DEF Latest, History
  <2>3. QED
    BY <2>1, <2>2
<1>3. \A i \in Parts : Latest(job, i) \in Paths
  BY LatestPaths
<1>4. QED
  BY <1>1, <1>2, <1>3 DEF Types

LEMMA FilesInit == Init => FilesInv
<1> SUFFICES ASSUME Init PROVE FilesInv
  OBVIOUS
<1>1. \A p \in Paths : files[p] = Absent
  BY DEF Init
<1>2. ASSUME NEW job \in Jobs PROVE Whole(LatestOf(job))
  BY <1>1, LatestPaths DEF Whole, LatestOf
<1>3. ~Saving
  BY DEF Init, Saving
<1>4. 0 \in 0..run
  BY DEF Init
<1>5. QED
  BY <1>1, <1>2, <1>3, <1>4, TrainingAssumption DEF FilesInv, RunOf

LEMMA FilesNext ==
  Types /\ Pending /\ JobInv /\ BestOnDisk /\ BestOnDisk' /\ FilesInv /\ [Next]_vars => FilesInv'
<1> SUFFICES ASSUME Types, Pending, JobInv, BestOnDisk, BestOnDisk', FilesInv, [Next]_vars
             PROVE  FilesInv'
  OBVIOUS
<1> USE DEF runVars, jobVars, fileVars, cacheVars, faultVars, serverVars
(* Files, saving and the cut runs stay as they are.                         *)
<1>1. ASSUME files' = files, cut' = cut, run' \in Nat, run' >= run,
             \/ ~Saving' /\ ~Saving
             \/ Saving' /\ Saving /\ todo' = todo /\ writes' = writes
      PROVE  FilesInv'
  <2>1. \A p \in Paths : files'[p] # Partial /\ RunOf(files'[p]) \in 0..run'
    <3>1. \A p \in Paths : RunOf(files'[p]) = RunOf(files[p]) /\ RunOf(files[p]) \in 0..run
      BY <1>1 DEF FilesInv, RunOf
    <3>2. run \in Nat
      BY DEF Types
    <3>3. QED
      BY <1>1, <3>1, <3>2 DEF FilesInv
  <2>2. \A job \in Jobs : Whole(LatestOf(job)) => Whole(LatestOf(job))'
    BY <1>1 DEF Whole, LatestOf, RunOf
  <2>3. \A job \in Jobs : ~(Saving' /\ Job' = job) => Whole(LatestOf(job))'
    BY <1>1, <2>2 DEF FilesInv, Job
  <2>4. Saving' /\ Len(writes') = 6 => Whole(LatestOf(Job))'
    BY <1>1 DEF FilesInv, Job, Whole, LatestOf, RunOf
  <2>5. QED
    BY <2>1, <2>3, <2>4 DEF FilesInv
<1>2. CASE OpenTmp \/ DumpTmp \/ LoadNext \/ Unload \/ UNCHANGED vars
  <2>1. /\ files' = files /\ cut' = cut /\ run' = run /\ todo' = todo /\ writes' = writes
        /\ phase' = phase
    BY <1>2 DEF OpenTmp, DumpTmp, LoadNext, Unload, vars
  <2>2. QED
    BY <1>1, <2>1 DEF Saving, Types
<1>3. CASE ReplaceCheckpointFile /\ ~Saving
  <2>1. /\ Negative(Head(writes)) /\ files' = [files EXCEPT ![Head(writes).path] = tmp]
        /\ tmp = Head(writes).content /\ tmp # Partial /\ writes # <<>>
    BY <1>3, NegativesWrite DEF ReplaceCheckpointFile
  <2>2. cut' = cut /\ run' = run /\ phase' = phase /\ phase # "save"
    BY <1>3, <2>1 DEF ReplaceCheckpointFile, Saving
  <2>3. RunOf(tmp) \in 0..run /\ run \in Nat
    BY <2>1 DEF Negative, Artifact, RunOf, Types
  <2>4. ASSUME NEW p \in Paths PROVE files'[p] # Partial /\ RunOf(files'[p]) \in 0..run'
    <3>1. files'[p] = files[p] \/ files'[p] = tmp
      BY <2>1 DEF Types
    <3>2. QED
      BY <2>1, <2>2, <2>3, <3>1 DEF FilesInv
  <2>5. ASSUME NEW job \in Jobs PROVE Whole(LatestOf(job))'
    <3>1. \A i \in Parts : files'[Latest(job, i)] = files[Latest(job, i)]
      BY <1>3, OthersKept
    <3>2. Whole(LatestOf(job))
      BY <1>3 DEF FilesInv
    <3>3. LatestOf(job)' = LatestOf(job)
      BY <3>1 DEF LatestOf
    <3>4. QED
      BY <2>2, <3>2, <3>3 DEF Whole, RunOf
  <2>6. QED
    BY <2>2, <2>4, <2>5 DEF FilesInv, Saving
<1>4. CASE ReplaceCheckpointFile /\ Saving
  <2>1. PICK n \in 0..5 : RenameStep(n)
    BY <1>4, CheckpointWrite
  <2>2. /\ cut' = cut /\ run' = run /\ phase' = "save" /\ script' = script /\ todo' = todo
        /\ saved' = saved /\ script # Absent /\ weights' = weights
    BY <1>4 DEF ReplaceCheckpointFile, Saving, Types
  <2>3. Job \in Jobs /\ timestamp \in 0..MaxMinute /\ Job' = Job
    BY <2>2, HeadTailProperties DEF Job, Types
  <2>4. Trains /\ saved /\ InJob'
    BY <1>4, <2>2 DEF JobInv, Trains, InJob, Saving
  <2>5. \A i \in Parts : RunOf(weights[i]) \in 0..run
    <3>1. \A i \in Parts : weights[i] = Artifact(run, weights[1].epoch, weights[1].classes)
      BY <2>4 DEF JobInv
    <3>2. QED
      BY <3>1 DEF RunOf, Artifact, Types
  <2>6. RunOf(Write(n + 1).content) \in 0..run
    <3>1. n + 1 = 2 * 1 - 1 \/ n + 1 = 2 * 1 \/ n + 1 = 2 * 2 - 1 \/ n + 1 = 2 * 2
          \/ n + 1 = 2 * 3 - 1 \/ n + 1 = 2 * 3
      OBVIOUS
    <3>2. PICK i \in Parts : n + 1 = 2 * i - 1 \/ n + 1 = 2 * i
      BY <3>1 DEF Parts
    <3>3. /\ Write(2 * i - 1) = [path |-> Latest(Job, i), content |-> weights[i]]
          /\ Write(2 * i) = [path |-> History(Job, i, timestamp), content |-> weights[i]]
      BY <2>3, CheckpointFacts DEF Write
    <3>4. Write(n + 1).content = weights[i]
      BY <3>2, <3>3
    <3>5. QED
      BY <2>5, <3>4
  <2>7. ASSUME NEW p \in Paths PROVE files'[p] # Partial /\ RunOf(files'[p]) \in 0..run'
    <3>1. files'[p] = files[p] \/ files'[p] = Write(n + 1).content
      BY <2>1 DEF Types, RenameStep
    <3>2. Write(n + 1).content # Partial
      BY <2>1 DEF RenameStep
    <3>3. QED
      BY <2>2, <2>6, <3>1, <3>2 DEF FilesInv
  <2>8. ASSUME NEW job \in Jobs, job # Job PROVE Whole(LatestOf(job))'
    <3>1. \A i \in Parts : files'[Latest(job, i)] = files[Latest(job, i)]
      BY <1>4, <2>8, OthersKept
    <3>2. Whole(LatestOf(job))
      BY <2>8 DEF FilesInv
    <3>3. LatestOf(job)' = LatestOf(job)
      BY <3>1 DEF LatestOf
    <3>4. QED
      BY <2>2, <3>2, <3>3 DEF Whole, RunOf
  <2>9. CASE n = 5
    <3>1. ~Saving'
      BY <2>1, <2>9 DEF RenameStep, Saving
    <3>2. \A i \in Parts : files'[Latest(Job, i)] = Artifact(run', BestEpoch(losses'), weights'[1].classes)
      BY <2>2, <2>3, <2>4, <3>1 DEF BestOnDisk
    <3>3. Whole(LatestOf(Job))'
      BY <2>3, <3>2 DEF Whole, LatestOf
    <3>4. \A job \in Jobs : Whole(LatestOf(job))'
      BY <2>3, <2>8, <3>3
    <3>5. QED
      BY <2>7, <3>1, <3>4 DEF FilesInv
  <2>10. CASE n # 5
    <3>1. Len(writes') = 6 - (n + 1) /\ Saving'
      BY <2>1, <2>2, <2>10 DEF RenameStep, Saving, Rest
    <3>2. Len(writes') # 6
      BY <3>1
    <3>3. QED
      BY <2>3, <2>7, <2>8, <3>1, <3>2 DEF FilesInv
  <2>11. QED
    BY <2>9, <2>10
<1>5. CASE ReplaceCacheFile
  <2>1. /\ files' = files /\ cut' = cut /\ run' = run /\ writes' = <<>> /\ ~Saving
    BY <1>5, CacheWrite DEF ReplaceCacheFile
  <2>2. QED
    BY <1>1, <2>1 DEF Saving, Types
<1>6. CASE GetSignals \/ EndTraining \/ EndEpoch \/ Reload \/ EndTest \/ EndVtpan
  <2>1. /\ files' = files /\ cut' = cut /\ run' = run /\ phase' # "save"
    BY <1>6, AtFacts DEF GetSignals, EndTraining, EndEpoch, Reload, EndTest, EndVtpan, AfterEpochs
  <2>2. writes = <<>>
    BY <1>6, AtFacts DEF GetSignals, EndTraining, EndEpoch, Reload, EndTest, EndVtpan
  <2>3. QED
    BY <1>1, <2>1, <2>2 DEF Saving, Types
<1>7. CASE EndJob \/ Abort
  <2>1. /\ files' = files /\ cut' = cut /\ run' = run /\ phase' # "save"
    BY <1>7 DEF EndJob, Abort, Exit, BeginJob
  <2>2. writes = <<>>
    BY <1>7, AtFacts DEF EndJob, Abort
  <2>3. QED
    BY <1>1, <2>1, <2>2 DEF Saving, Types
<1>8. CASE EndValidation
  <2>1. /\ files' = files /\ cut' = cut /\ run' = run /\ ~Saving
    BY <1>8, AtFacts DEF EndValidation, Saving
  <2>2. \A job \in Jobs : Whole(LatestOf(job))'
    BY <2>1 DEF FilesInv, Whole, LatestOf, RunOf
  <2>3. script # Absent /\ todo' = todo
    BY <1>8, AtFacts DEF EndValidation
  <2>4. Job' \in Jobs
    BY <2>3, HeadTailProperties DEF Types, Job
  <2>5. \A p \in Paths : files'[p] # Partial /\ RunOf(files'[p]) \in 0..run'
    BY <2>1 DEF FilesInv, RunOf
  <2>6. QED
    BY <2>2, <2>4, <2>5 DEF FilesInv
<1>9. CASE Die
  <2>1. /\ files' = files /\ run' = run /\ phase' = "end" /\ script # Absent
        /\ cut' = IF Saving THEN cut \cup {run} ELSE cut
    BY <1>9 DEF Die, Exit
  <2>2. ASSUME NEW job \in Jobs PROVE Whole(LatestOf(job))'
    <3>1. LatestOf(job)' = LatestOf(job) /\ cut \subseteq cut'
      BY <2>1 DEF LatestOf
    <3>2. CASE Whole(LatestOf(job))
      BY <3>1, <3>2 DEF Whole, RunOf
    <3>3. CASE ~Whole(LatestOf(job))
      <4>1. Saving /\ Job = job /\ Len(writes) # 6
        BY <3>3 DEF FilesInv
      <4>2. PICK n \in 0..5 : Rest(n) /\ Renamed(n)
        BY <4>1 DEF Pending
      <4>3. n # 0 /\ 1 \in 1..n
        BY <4>1, <4>2 DEF Rest
      <4>4. files[Write(1).path] = Write(1).content /\ Write(1).content \notin {Absent, Partial}
        BY <4>2, <4>3 DEF Renamed
      <4>5. Job \in Jobs /\ timestamp \in 0..MaxMinute
        BY <4>1 DEF Types
      <4>6. Write(1) = [path |-> Latest(job, 1), content |-> weights[1]]
        <5>1. \A i \in Parts :
                /\ Write(2 * i - 1) = [path |-> Latest(Job, i), content |-> weights[i]]
                /\ Write(2 * i) = [path |-> History(Job, i, timestamp), content |-> weights[i]]
          BY <4>5, CheckpointFacts DEF Write
        <5>2. 2 * 1 - 1 = 1 /\ 1 \in Parts
          BY DEF Parts
        <5>3. QED
          BY <4>1, <5>1, <5>2
      <4>7. weights[1].run = run
        <5>1. Trains /\ 1 \in Parts
          BY <2>1, <4>1 DEF JobInv, Trains, InJob, Saving, Parts
        <5>2. weights[1] = Artifact(run, weights[1].epoch, weights[1].classes)
          BY <5>1 DEF JobInv
        <5>3. QED
          BY <5>2 DEF Artifact
      <4>8. RunOf(LatestOf(job)[1]) = run /\ 1 \in Parts
        BY <4>4, <4>6, <4>7 DEF RunOf, LatestOf, Parts
      <4>9. \A j \in Parts : RunOf(LatestOf(job)[j]) <= run
        <5>1. ASSUME NEW j \in Parts PROVE RunOf(LatestOf(job)[j]) \in 0..run
          BY LatestPaths DEF FilesInv, LatestOf
        <5>2. QED
          BY <5>1 DEF Types
      <4>10. run \in cut'
        BY <2>1, <4>1
      <4>11. QED
        BY <3>1, <4>8, <4>9, <4>10 DEF Whole, RunOf
    <3>4. QED
      BY <3>2, <3>3
  <2>3. \A p \in Paths : files'[p] # Partial /\ RunOf(files'[p]) \in 0..run'
    BY <2>1 DEF FilesInv, RunOf
  <2>4. QED
    BY <2>1, <2>2, <2>3 DEF FilesInv, Saving
<1>10. ASSUME NEW s \in Scripts, StartGrooming(s) \/ StartEvaluation(s) \/ StartCyberbullying(s)
       PROVE  FilesInv'
  <2>1. PICK d, classes : StartRun(s, d, classes)
    BY <1>10, Starts
  <2>2. /\ files' = files /\ cut' = cut /\ run' = run + 1 /\ phase' # "save" /\ phase = "end"
    BY <2>1 DEF StartRun, BeginJob, Types
  <2>3. run' \in Nat /\ run' >= run
    BY <2>2 DEF Types
  <2>4. QED
    BY <1>1, <2>2, <2>3 DEF Saving
<1>11. QED
  BY <1>2, <1>3, <1>4, <1>5, <1>6, <1>7, <1>8, <1>9, <1>10 DEF Next

-----------------------------------------------------------------------------
(* The server *)

LEMMA LoadInit == Init => LoadInv
  BY DEF Init, LoadInv, IsSeq, Loading, LoadOrder

(* What the server reads at each place is a latest copy of the job it is of. *)
LEMMA OrderFacts ==
  /\ Len(LoadOrder) = 6 /\ DOMAIN LoadOrder = 1..6
  /\ \A k \in 1..6 : \E i \in Parts : LoadOrder[k] = Latest(JobRead(k), i)
  /\ LoadOrder[1] = Latest("cyberbullying", 3) /\ LoadOrder[2] = Latest("cyberbullying", 1)
  /\ LoadOrder[3] = Latest("cyberbullying", 2)
  /\ LoadOrder[4] = Latest("B", 1) /\ LoadOrder[5] = Latest("B", 2) /\ LoadOrder[6] = Latest("B", 3)
  /\ {"cyberbullying", "B"} \subseteq Jobs
<1>1. Len(LoadOrder) = 6 /\ DOMAIN LoadOrder = 1..6
  BY DEF LoadOrder
<1>2. /\ LoadOrder[1] = Latest("cyberbullying", 3) /\ LoadOrder[2] = Latest("cyberbullying", 1)
      /\ LoadOrder[3] = Latest("cyberbullying", 2)
      /\ LoadOrder[4] = Latest("B", 1) /\ LoadOrder[5] = Latest("B", 2) /\ LoadOrder[6] = Latest("B", 3)
  BY DEF LoadOrder
<1>3. ASSUME NEW k \in 1..6 PROVE \E i \in Parts : LoadOrder[k] = Latest(JobRead(k), i)
  <2>1. k = 1 \/ k = 2 \/ k = 3 \/ k = 4 \/ k = 5 \/ k = 6
    OBVIOUS
  <2>2. 1 \in Parts /\ 2 \in Parts /\ 3 \in Parts
    BY DEF Parts
  <2>3. JobRead(k) = IF k <= 3 THEN "cyberbullying" ELSE "B"
    BY DEF JobRead
  <2>4. QED
    BY <1>2, <2>1, <2>2, <2>3
<1>4. {"cyberbullying", "B"} \subseteq Jobs
  BY DEF Jobs, Variants
<1>5. QED
  BY <1>1, <1>2, <1>3, <1>4

Grown(t, s, e) ==
  /\ IsSeq(t) /\ Len(t) = Len(s) + 1 /\ t[Len(s) + 1] = e
  /\ \A k \in 1..Len(s) : t[k] = s[k]

LEMMA AppendFacts ==
  ASSUME NEW s, IsSeq(s), NEW e, NEW t, t = Append(s, e)
  PROVE  Grown(t, s, e)
<1> DEFINE S == {s[k] : k \in 1..Len(s)} \cup {e}
<1>1. s \in Seq(S) /\ e \in S
  <2>1. s \in [1..Len(s) -> S] /\ Len(s) \in Nat
    BY DEF IsSeq
  <2>2. QED
    BY <2>1, SeqDef
<1> HIDE DEF S
<1>2. /\ t \in Seq(S) /\ Len(t) = Len(s) + 1 /\ t[Len(s) + 1] = e
      /\ \A k \in 1..Len(s) : t[k] = s[k]
  BY <1>1, AppendProperties
<1>3. t \in [1..Len(t) -> S] /\ Len(t) \in Nat
  BY <1>2, LenProperties
<1>4. IsSeq(t)
  BY <1>3 DEF IsSeq
<1>5. QED
  BY <1>2, <1>4 DEF Grown

LEMMA LoadNextInv == Types /\ Pending /\ FilesInv /\ LoadInv /\ [Next]_vars => LoadInv'
<1> SUFFICES ASSUME Types, Pending, FilesInv, LoadInv, [Next]_vars PROVE LoadInv'
  OBVIOUS
<1> USE DEF runVars, jobVars, fileVars, cacheVars, faultVars, serverVars
(* What was read whole stays so; a save during the load is on record.       *)
<1>1. ASSUME loaded' = loaded, raced \subseteq raced', cut \subseteq cut',
             Loading => \A k \in 1..Len(loaded) :
                          JobRead(k) \notin raced' => files'[LoadOrder[k]] = files[LoadOrder[k]]
      PROVE  LoadInv'
  <2>1. \A part : Whole(part) =>
          \/ \A i, j \in Parts : part[i] = part[j]
          \/ \E i \in Parts : RunOf(part[i]) \in cut' /\ \A j \in Parts : RunOf(part[j]) <= RunOf(part[i])
    BY <1>1 DEF Whole
  <2>2. /\ Whole(<<loaded[2], loaded[3], loaded[1]>>) => Whole(<<loaded[2], loaded[3], loaded[1]>>)'
        /\ Whole(<<loaded[4], loaded[5], loaded[6]>>) => Whole(<<loaded[4], loaded[5], loaded[6]>>)'
    <3>1. Whole(<<loaded[2], loaded[3], loaded[1]>>) => Whole(<<loaded[2], loaded[3], loaded[1]>>)'
      BY <1>1, <2>1 DEF Whole, RunOf
    <3>2. Whole(<<loaded[4], loaded[5], loaded[6]>>) => Whole(<<loaded[4], loaded[5], loaded[6]>>)'
      BY <1>1, <2>1 DEF Whole, RunOf
    <3>3. QED
      BY <3>1, <3>2
  <2>3. Loading' = Loading
    BY <1>1 DEF Loading
  <2>4. Loading' => \A k \in 1..Len(loaded') :
          JobRead(k) \notin raced' => loaded'[k] = files'[LoadOrder[k]]
    BY <1>1, <2>3 DEF LoadInv
  <2>5. QED
    BY <1>1, <2>2, <2>4 DEF LoadInv
<1>2. CASE OpenTmp \/ DumpTmp \/ ReplaceCacheFile \/ GetSignals \/ EndTraining \/ EndValidation
  <2>1. loaded' = loaded /\ raced' = raced /\ cut' = cut /\ files' = files
    BY <1>2 DEF OpenTmp, DumpTmp, ReplaceCacheFile, GetSignals, EndTraining, EndValidation
  <2>2. QED
    BY <1>1, <2>1
<1>3. CASE EndEpoch \/ Reload \/ EndTest \/ EndVtpan \/ EndJob \/ Abort \/ Die \/ UNCHANGED vars
  <2>1. loaded' = loaded /\ raced' = raced /\ cut \subseteq cut' /\ files' = files
    BY <1>3 DEF EndEpoch, Reload, EndTest, EndVtpan, EndJob, Abort, Die, vars
  <2>2. QED
    BY <1>1, <2>1
<1>4. CASE ReplaceCheckpointFile
  <2>1. /\ loaded' = loaded /\ cut' = cut /\ raced' = IF Loading THEN raced \cup SavingJob ELSE raced
    BY <1>4 DEF ReplaceCheckpointFile
  <2>2. ASSUME Loading, NEW k \in 1..Len(loaded), JobRead(k) \notin raced'
        PROVE  files'[LoadOrder[k]] = files[LoadOrder[k]]
    <3>1. k \in 1..6
      BY <2>2 DEF LoadInv, IsSeq
    <3>2. PICK i \in Parts : LoadOrder[k] = Latest(JobRead(k), i)
      BY <3>1, OrderFacts
    <3>3. JobRead(k) \in Jobs
      BY OrderFacts DEF JobRead
    <3>4. ~(Saving /\ Job = JobRead(k))
      <4>1. JobRead(k) \notin SavingJob
        BY <2>1, <2>2
      <4>2. JobRead(k) \in {"cyberbullying", "B"}
        BY DEF JobRead
      <4>3. QED
        BY <4>1, <4>2 DEF SavingJob, Job
    <3>5. QED
      BY <1>4, <3>2, <3>3, <3>4, OthersKept
  <2>3. QED
    BY <1>1, <2>1, <2>2
<1>5. CASE LoadNext
  <2> DEFINE n == Len(loaded)
  <2>1. /\ n \in 0..5 /\ loaded' = Append(loaded, files[LoadOrder[n + 1]])
        /\ raced' = (IF n + 1 > 1 THEN raced ELSE {}) \cup SavingJob
        /\ files' = files /\ cut' = cut
    BY <1>5, OrderFacts, SMTT(30) DEF LoadNext, LoadInv, IsSeq
  <2>2. IsSeq(loaded)
    BY DEF LoadInv
  <2>3. /\ IsSeq(loaded') /\ Len(loaded') = n + 1 /\ loaded'[n + 1] = files[LoadOrder[n + 1]]
        /\ \A k \in 1..n : loaded'[k] = loaded[k]
    <3>1. Grown(loaded', loaded, files[LoadOrder[n + 1]])
      BY <2>1, <2>2, AppendFacts, Zenon
    <3>2. QED
      BY <3>1 DEF Grown
  <2> HIDE DEF n
  <2>4. n # 0 => raced \subseteq raced'
    BY <2>1
  <2>5. ASSUME NEW k \in 1..(n + 1), JobRead(k) \notin raced' PROVE loaded'[k] = files[LoadOrder[k]]
    <3>1. CASE k = n + 1
      BY <2>3, <3>1
    <3>2. CASE k # n + 1
      <4>1. k \in 1..n /\ n # 0 /\ n \in 1..5
        BY <2>1, <3>2
      <4>2. Loading
        BY <4>1, OrderFacts DEF n, Loading
      <4>3. JobRead(k) \notin raced
        BY <2>4, <2>5, <4>1
      <4>4. loaded[k] = files[LoadOrder[k]]
        BY <4>1, <4>2, <4>3 DEF LoadInv, n
      <4>5. QED
        BY <2>3, <4>1, <4>4
    <3>3. QED
      BY <3>1, <3>2
  <2>6. ASSUME NEW job \in {"cyberbullying", "B"}, job \notin raced' PROVE Whole(LatestOf(job))
    <3>1. ~(Saving /\ Job = job)
      <4>1. job \notin SavingJob
        BY <2>1, <2>6
      <4>2. QED
        BY <4>1 DEF SavingJob, Job
    <3>2. job \in Jobs
      BY OrderFacts
    <3>3. QED
      BY <3>1, <3>2 DEF FilesInv
  <2>7. JobRead(1) = "cyberbullying" /\ JobRead(2) = "cyberbullying" /\ JobRead(3) = "cyberbullying"
        /\ JobRead(4) = "B" /\ JobRead(5) = "B" /\ JobRead(6) = "B"
    BY DEF JobRead
  <2>8. ASSUME Len(loaded') >= 3, "cyberbullying" \notin raced'
        PROVE  Whole(<<loaded[2], loaded[3], loaded[1]>>)'
    <3>1. CASE n = 2
      <4>1. 1 \in 1..(n + 1) /\ 2 \in 1..(n + 1) /\ 3 \in 1..(n + 1)
        BY <3>1
      <4>2. /\ loaded'[1] = files[LoadOrder[1]] /\ loaded'[2] = files[LoadOrder[2]]
            /\ loaded'[3] = files[LoadOrder[3]]
        BY <2>5, <2>7, <2>8, <4>1
      <4>3. <<loaded'[2], loaded'[3], loaded'[1]>> = LatestOf("cyberbullying")
        BY <4>2, OrderFacts DEF LatestOf, Parts
      <4>4. Whole(LatestOf("cyberbullying"))
        BY <2>6, <2>8
      <4>5. QED
        BY <2>1, <4>3, <4>4 DEF Whole, RunOf
    <3>2. CASE n # 2
      <4>1. n >= 3 /\ 1 \in 1..n /\ 2 \in 1..n /\ 3 \in 1..n /\ "cyberbullying" \notin raced
        BY <2>1, <2>3, <2>4, <2>8, <3>2
      <4>2. Whole(<<loaded[2], loaded[3], loaded[1]>>)
        BY <4>1 DEF LoadInv, n
      <4>3. loaded'[1] = loaded[1] /\ loaded'[2] = loaded[2] /\ loaded'[3] = loaded[3]
        BY <2>3, <4>1
      <4>4. QED
        <5>1. PICK part : part = <<loaded[2], loaded[3], loaded[1]>>
          OBVIOUS
        <5>2. part = <<loaded'[2], loaded'[3], loaded'[1]>>
          BY <4>3, <5>1
        <5>3. Whole(part)
          BY <4>2, <5>1
        <5>4. QED
          BY <2>1, <5>2, <5>3 DEF Whole, RunOf
    <3>3. QED
      BY <3>1, <3>2
  <2>9. ASSUME Len(loaded') = 6, "B" \notin raced'
        PROVE  Whole(<<loaded[4], loaded[5], loaded[6]>>)'
    <3>1. 4 \in 1..(n + 1) /\ 5 \in 1..(n + 1) /\ 6 \in 1..(n + 1)
      BY <2>1, <2>3, <2>9
    <3>2. /\ loaded'[4] = files[LoadOrder[4]] /\ loaded'[5] = files[LoadOrder[5]]
          /\ loaded'[6] = files[LoadOrder[6]]
      BY <2>5, <2>7, <2>9, <3>1
    <3>3. <<loaded'[4], loaded'[5], loaded'[6]>> = LatestOf("B")
      BY <3>2, OrderFacts DEF LatestOf, Parts
    <3>4. Whole(LatestOf("B"))
      BY <2>6, <2>9
    <3>5. QED
      BY <2>1, <3>3, <3>4 DEF Whole, RunOf
  <2>10. Len(loaded') <= 6
    BY <2>1, <2>3
  <2>11. \A k \in 1..Len(loaded') : JobRead(k) \notin raced' => loaded'[k] = files'[LoadOrder[k]]
    BY <2>1, <2>3, <2>5
  <2>12. QED
    BY <2>3, <2>8, <2>9, <2>10, <2>11 DEF LoadInv
<1>6. CASE Unload
  <2>1. loaded' = <<>>
    BY <1>6 DEF Unload
  <2>2. IsSeq(loaded') /\ Len(loaded') = 0
    BY <2>1 DEF IsSeq
  <2>3. ~Loading'
    BY <2>2 DEF Loading
  <2>4. QED
    BY <2>2, <2>3 DEF LoadInv
<1>7. ASSUME NEW s \in Scripts, StartGrooming(s) \/ StartEvaluation(s) \/ StartCyberbullying(s)
      PROVE  LoadInv'
  <2>1. PICK d, classes : StartRun(s, d, classes)
    BY <1>7, Starts
  <2>2. loaded' = loaded /\ raced' = raced /\ cut' = cut /\ files' = files
    BY <2>1 DEF StartRun
  <2>3. QED
    BY <1>1, <2>2
<1>8. QED
  BY <1>2, <1>3, <1>4, <1>5, <1>6, <1>7 DEF Next

-----------------------------------------------------------------------------
(* The theorems *)

TrainingInv ==
  Types /\ Pending /\ PaidInv /\ JobInv /\ BestOnDisk /\ FilesInv /\ LoadInv /\ DataInv

(* The inductive invariant: what each script has pending, what its job      *)
(* knows of its best epoch, what is on disk and what the server has read.   *)
THEOREM TrainingInvariant == Spec => []TrainingInv
<1>1. Init => TrainingInv
  BY TypesInit, PendingInit, PaidInit, JobInit, FilesInit, LoadInit DEF TrainingInv
<1>2. TrainingInv /\ [Next]_vars => TrainingInv'
  <2>1. SUFFICES ASSUME TrainingInv, [Next]_vars PROVE TrainingInv'
    OBVIOUS
  <2>2. Types' /\ Pending' /\ PaidInv' /\ JobInv' /\ BestOnDisk' /\ DataInv'
    BY <2>1, TypesNext, PendingNext, PaidNext, JobNext, BestOnDiskNext, DataNext DEF TrainingInv
  <2>3. FilesInv' /\ LoadInv'
    BY <2>1, <2>2, FilesNext, LoadNextInv DEF TrainingInv
  <2>4. QED
    BY <2>2, <2>3 DEF TrainingInv
<1>3. QED
  BY <1>1, <1>2, PTL DEF Spec

(* Each death of a script costs at most flush_every paid calls.             *)
THEOREM PaidCallsKept == Spec => []PaidCallsAreKept
<1>1. TrainingInv => PaidCallsAreKept
  BY DEF TrainingInv, PaidInv
<1>2. QED
  BY <1>1, TrainingInvariant, PTL

(* The tested weights are of the first best epoch of the run, and what is   *)
(* validated on, or excluded, was not learned from.                         *)
THEOREM EvaluationSound == Spec => []EvaluationIsSound
<1>1. ASSUME TrainingInv PROVE EvaluationIsSound
  <2>1. ASSUME InJob, phase \in {"test", "vtpan"}, script.command = "grooming", NEW i \in Parts
        PROVE  weights[i].run = run /\ weights[i].epoch = BestEpoch(losses)
    <3>1. Trains
      BY <2>1 DEF Trains
    <3>2. weights[i] = Artifact(run, BestEpoch(losses), weights[1].classes)
      BY <1>1, <2>1, <3>1 DEF TrainingInv, JobInv
    <3>3. QED
      BY <3>2 DEF Artifact
  <2>2. DataInv
    BY <1>1 DEF TrainingInv
  <2>3. QED
    BY <2>1, <2>2 DEF DataInv, EvaluationIsSound
<1>2. QED
  BY <1>1, TrainingInvariant, PTL

(* No file is half written, and what is on disk between two saves, or what  *)
(* a server loads while no save runs, is a whole checkpoint, but for a run  *)
(* that died while saving.                                                  *)
THEOREM CheckpointsWhole == Spec => []CheckpointsAreWhole
<1>1. ASSUME TrainingInv PROVE CheckpointsAreWhole
  <2>1. \A p \in Paths : files[p] # Partial
    BY <1>1 DEF TrainingInv, FilesInv
  <2>2. \A job \in Jobs :
          ~(Saving /\ Job = job) => Whole([i \in Parts |-> files[Latest(job, i)]])
    BY <1>1 DEF TrainingInv, FilesInv, LatestOf
  <2>3. ASSUME InJob, saved, ~Saving, NEW i \in Parts
        PROVE  /\ files[Latest(Job, i)] = Artifact(run, BestEpoch(losses), weights[i].classes)
               /\ files[History(Job, i, timestamp)] = files[Latest(Job, i)]
    <3>1. Trains
      BY <1>1, <2>3 DEF TrainingInv, JobInv, Trains, InJob
    <3>2. weights[i] = Artifact(run, weights[1].epoch, weights[1].classes)
      BY <1>1, <3>1 DEF TrainingInv, JobInv
    <3>3. weights[i].classes = weights[1].classes
      BY <3>2 DEF Artifact
    <3>4. QED
      BY <1>1, <2>3, <3>3 DEF TrainingInv, BestOnDisk
  <2>4. Len(loaded) >= 3 /\ "cyberbullying" \notin raced =>
          Whole(<<loaded[2], loaded[3], loaded[1]>>)
    BY <1>1 DEF TrainingInv, LoadInv
  <2>5. Len(loaded) = 6 /\ "B" \notin raced => Whole(<<loaded[4], loaded[5], loaded[6]>>)
    BY <1>1 DEF TrainingInv, LoadInv
  <2>6. QED
    BY <2>1, <2>2, <2>3, <2>4, <2>5 DEF CheckpointsAreWhole
<1>2. QED
  BY <1>1, TrainingInvariant, PTL
===============================================================================
