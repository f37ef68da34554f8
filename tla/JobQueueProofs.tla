---------------------------- MODULE JobQueueProofs ----------------------------
(***************************************************************************)
(* Theorems about JobQueue, for any finite set of cases, any analysts,      *)
(* administrators and reviewers and any bounds, where the database locks    *)
(* rows (RowLocks).                                                         *)
(*                                                                          *)
(* The argument: IInv says who may hold a job in each of its states; each   *)
(* action preserves it (one lemma per action, one step per conjunct the     *)
(* action can disturb); the safety properties are its conjuncts or follow   *)
(* from it; and since a step then moves one case along one edge             *)
(* (StepMovesACase), JobQueue implements AnalysisService.                   *)
(***************************************************************************)
EXTENDS JobQueue, TLAPS, SequenceTheorems, FiniteSetTheorems

-------------------------------------------------------------------------------
(* The asyncio queue, the requests, the slots                               *)

(* A step that leaves the asyncio queue alone changes no job's place in it.  *)
LEMMA QueueSame ==
  ASSUME queue' = queue
  PROVE  /\ QueuedOnce' <=> QueuedOnce
         /\ \A d \in Cases : InQueue(d)' <=> InQueue(d)
  BY DEF QueuedOnce, InQueue

(* queue.put_nowait of a job that is not in the queue: it is there, once,    *)
(* and the others are where they were.                                       *)
LEMMA QueueAppend ==
  ASSUME queue \in Seq(Cases), NEW c \in Cases, queue' = Append(queue, c)
  PROVE  /\ queue' \in Seq(Cases)
         /\ \A d \in Cases : InQueue(d)' <=> InQueue(d) \/ d = c
         /\ QueuedOnce /\ ~InQueue(c) => QueuedOnce'
<1>1. /\ DOMAIN queue' = 1..(Len(queue) + 1)
      /\ DOMAIN queue = 1..Len(queue) /\ Len(queue) \in Nat
      /\ \A i \in DOMAIN queue : queue'[i] = queue[i]
      /\ queue'[Len(queue) + 1] = c
      /\ queue' \in Seq(Cases)
  BY AppendProperties, LenProperties
<1>2. \A d \in Cases : InQueue(d)' <=> InQueue(d) \/ d = c
  BY <1>1 DEF InQueue
<1>3. QueuedOnce /\ ~InQueue(c) => QueuedOnce'
  BY <1>1 DEF InQueue, QueuedOnce
<1> QED BY <1>1, <1>2, <1>3

(* queue.get: the head leaves the queue and is not in what remains.          *)
LEMMA QueueTail ==
  ASSUME queue \in Seq(Cases), queue # << >>, QueuedOnce, queue' = Tail(queue)
  PROVE  /\ queue' \in Seq(Cases)
         /\ Head(queue) \in Cases /\ InQueue(Head(queue))
         /\ \A d \in Cases : InQueue(d)' <=> InQueue(d) /\ d # Head(queue)
         /\ QueuedOnce'
<1>1. /\ DOMAIN queue = 1..Len(queue) /\ Len(queue) \in Nat \ {0}
      /\ DOMAIN queue' = 1..(Len(queue) - 1)
      /\ \A i \in DOMAIN queue' : queue'[i] = queue[i + 1]
      /\ Head(queue) = queue[1] /\ Head(queue) \in Cases
      /\ queue' \in Seq(Cases)
  BY HeadTailProperties, LenProperties, EmptySeq
<1>2. InQueue(Head(queue))
  BY <1>1 DEF InQueue
<1>3. ASSUME NEW d \in Cases, InQueue(d)' PROVE InQueue(d) /\ d # Head(queue)
  BY <1>1, <1>3 DEF InQueue, QueuedOnce
<1>4. ASSUME NEW d \in Cases, InQueue(d), d # Head(queue) PROVE InQueue(d)'
  <2>1. PICK i \in DOMAIN queue : queue[i] = d
    BY <1>4 DEF InQueue
  <2>2. i - 1 \in DOMAIN queue' /\ queue'[i - 1] = d
    BY <2>1, <1>1, <1>4
  <2> QED BY <2>2 DEF InQueue
<1>5. QueuedOnce'
  BY <1>1 DEF QueuedOnce
<1> QED BY <1>1, <1>2, <1>3, <1>4, <1>5

(* A step of anybody else changes no dead-letter request.                    *)
LEMMA AdminSame ==
  ASSUME admin' = admin
  PROVE  /\ RedrivenOnce' <=> RedrivenOnce
         /\ \A d \in Cases : BeingRedriven(d)' <=> BeingRedriven(d)
  BY DEF RedrivenOnce, BeingRedriven

(* A dead-letter request that moves to a state other than "committed, not    *)
(* yet enqueued" makes no new dispatch.                                      *)
LEMMA AdminChanges ==
  ASSUME admin \in [Admins -> AdminCalls], NEW a \in Admins, NEW call,
         call \in AdminCalls, call.pc # "redriven", RedrivenOnce,
         admin' = [admin EXCEPT ![a] = call]
  PROVE  /\ admin' \in [Admins -> AdminCalls]
         /\ RedrivenOnce'
         /\ \A d \in Cases : BeingRedriven(d)' => BeingRedriven(d)
<1>1. /\ admin' \in [Admins -> AdminCalls]
      /\ admin'[a] = call
      /\ \A b \in Admins \ {a} : admin'[b] = admin[b]
  OBVIOUS
<1> QED BY <1>1 DEF RedrivenOnce, BeingRedriven

(* acquire and release keep the concurrency gauge a natural number.          *)
LEMMA SlotType ==
  ASSUME gauge \in [Analysts -> Nat], NEW c \in Cases,
         AcquireSlot(c) \/ ReleaseSlot(c)
  PROVE  gauge' \in [Analysts -> Nat]
  BY JobQueueAssumption DEF AcquireSlot, ReleaseSlot

(* Whoever holds a job for the worker holds a queued job; the worker's own   *)
(* job is running or failed.                                                 *)
LEMMA Dispatched ==
  ASSUME IInv, NEW c \in Cases
  PROVE  /\ InQueue(c) => proc = "up" /\ jobStatus[c] = "queued"
         /\ timers[c] \in Nat
         /\ timers[c] > 0 => proc = "up" /\ jobStatus[c] = "queued"
         /\ submit[c] = "committed" => proc = "up" /\ jobStatus[c] = "queued"
         /\ BeingRedriven(c) => proc = "up" /\ jobStatus[c] = "queued"
         /\ worker.job = c => jobStatus[c] \in {"running", "failed"}
         /\ worker.job = c <=> worker.pc # "idle" /\ worker.job = c
<1> USE DEF IInv
<1>1. BeingRedriven(c) => proc = "up" /\ jobStatus[c] = "queued"
  BY DEF BeingRedriven, AdminInv, AdminCallInv
<1>2. worker.job = c => worker.pc # "idle" /\ jobStatus[c] \in {"running", "failed"}
  BY JobQueueAssumption DEF WorkerInv, IdleWorker, TypeOK, WorkerCalls
<1> QED BY <1>1, <1>2 DEF DispatchInv, TypeOK

(* A request that has locked a dead-letter entry holds the last entry of a   *)
(* failed job under investigation.                                           *)
LEMMA HeldEntry ==
  ASSUME IInv, NEW a \in Admins, Holds(a)
  PROVE  /\ admin[a].job \in Cases
         /\ admin[a].entry \in DOMAIN dlq[admin[a].job]
         /\ admin[a].entry = Len(dlq[admin[a].job])
         /\ dlq[admin[a].job][admin[a].entry].resolution = INVESTIGATING
         /\ caseStatus[admin[a].job] \in {DLQ_INVESTIGATION, CLOSED}
         /\ admin[a].pc = "loaded" => caseStatus[admin[a].job] = DLQ_INVESTIGATION
         /\ jobStatus[admin[a].job] = "failed"
         /\ proc = "up"
<1>1. /\ admin[a].job \in Cases
      /\ admin[a].entry \in DOMAIN dlq[admin[a].job]
      /\ dlq[admin[a].job][admin[a].entry].resolution = INVESTIGATING
      /\ admin[a].pc = "loaded" => caseStatus[admin[a].job] = DLQ_INVESTIGATION
      /\ proc = "up"
  BY DEF IInv, AdminInv, AdminCallInv, Holds
<1> QED BY <1>1 DEF IInv, EntryInv

(* The job of a dead-letter request is queued (redriven) or failed.          *)
LEMMA AdminJob ==
  ASSUME IInv, NEW a \in Admins, admin[a].pc # "idle"
  PROVE  /\ admin[a].job \in Cases
         /\ proc = "up"
         /\ jobStatus[admin[a].job] \in {"queued", "failed"}
<1>1. admin[a].job \in Cases /\ proc = "up"
  BY DEF IInv, AdminInv, AdminCallInv
<1>2. CASE admin[a].pc = "redriven"
  BY <1>1, <1>2 DEF IInv, AdminInv, AdminCallInv
<1>3. CASE Holds(a)
  BY <1>1, <1>3, HeldEntry
<1> QED BY <1>1, <1>2, <1>3 DEF Holds, IInv, TypeOK, AdminCalls

-------------------------------------------------------------------------------
(* What a step cannot disturb                                                *)

(* A step that writes no row keeps what IInv says of the rows.               *)
LEMMA RowsSame ==
  ASSUME IInv, UNCHANGED rows
  PROVE  EntryInv' /\ AttemptsInv' /\ StatusesAgree' /\ OneResult' /\ RetryBudget'
<1> USE DEF IInv, rows
<1>1. EntryInv'      BY DEF EntryInv
<1>2. AttemptsInv'   BY DEF AttemptsInv
<1>3. StatusesAgree' BY DEF StatusesAgree, LastEntry
<1>4. OneResult'     BY DEF OneResult
<1>5. RetryBudget'   BY DEF RetryBudget
<1> QED BY <1>1, <1>2, <1>3, <1>4, <1>5

(* A transaction on a case that no dead-letter request is at keeps what the  *)
(* requests have read true.                                                  *)
LEMMA AdminElsewhere ==
  ASSUME IInv, NEW c \in Cases,
         \A a \in Admins : admin[a].pc # "idle" => admin[a].job # c,
         UNCHANGED <<admin, proc>>,
         \A d \in Cases \ {c} : /\ dlq'[d] = dlq[d]
                                /\ jobStatus'[d] = jobStatus[d]
                                /\ caseStatus'[d] = caseStatus[d]
  PROVE  AdminInv'
<1>1. ASSUME NEW a \in Admins PROVE AdminCallInv(a)'
  <2>1. admin[a].pc # "idle" => admin[a].job \in Cases \ {c}
    BY DEF IInv, AdminInv, AdminCallInv
  <2> QED BY <2>1 DEF IInv, AdminInv, AdminCallInv, Holds
<1> QED BY <1>1 DEF IInv, AdminInv, Holds

(* A step that changes neither the requests nor what they have read keeps    *)
(* AdminInv.                                                                 *)
LEMMA AdminInvSame ==
  ASSUME IInv, UNCHANGED <<admin, proc, dlq, jobStatus, caseStatus>>
  PROVE  AdminInv'
  BY DEF IInv, AdminInv, AdminCallInv, Holds

(* A reviewer that has read a case keeps its row for as long as no step      *)
(* changes the case's status and no administrator takes hold of the case.    *)
LEMMA ReviewInvKept ==
  ASSUME IInv, reviews' = reviews,
         \A r \in Reviewers : Reviews(r) =>
           /\ proc' = "up"
           /\ caseStatus'[reviews[r].case] = caseStatus[reviews[r].case],
         \A a \in Admins : Holds(a)' => Holds(a) /\ admin'[a].job = admin[a].job
  PROVE  ReviewInv'
  BY DEF IInv, ReviewInv, Reviews

(* A step that changes neither the requests nor the cases keeps ReviewInv.   *)
LEMMA ReviewInvSame ==
  ASSUME IInv, UNCHANGED <<reviews, admin, proc, caseStatus>>
  PROVE  ReviewInv'
<1>1. \A r \in Reviewers : Reviews(r) => proc = "up"
  BY DEF IInv, ReviewInv
<1>2. \A a \in Admins : Holds(a)' => Holds(a)
  BY DEF Holds
<1> QED BY <1>1, <1>2, ReviewInvKept

(* A transaction that has waited for the locks on its case keeps what every  *)
(* reviewer has read true.                                                   *)
LEMMA ReviewElsewhere ==
  ASSUME RowLocks, IInv, NEW c \in Cases, CaseUnlocked(c),
         UNCHANGED <<reviews, admin, proc>>,
         \A d \in Cases \ {c} : caseStatus'[d] = caseStatus[d]
  PROVE  ReviewInv'
<1>1. \A r \in Reviewers : Reviews(r) => proc = "up" /\ reviews[r].case \in Cases \ {c}
  BY DEF IInv, ReviewInv, Reviews, CaseUnlocked, ReviewLocks
<1>2. \A a \in Admins : Holds(a)' => Holds(a)
  BY DEF Holds
<1> QED BY <1>1, <1>2, ReviewInvKept

(* While the process is not up, nobody reviews.                              *)
LEMMA ReviewNotUp ==
  ASSUME IInv, proc # "up", UNCHANGED <<reviews, admin>>
  PROVE  ReviewInv'
<1>1. \A r \in Reviewers : ~Reviews(r)
  BY DEF IInv, ReviewInv
<1>2. \A a \in Admins : Holds(a)' => Holds(a)
  BY DEF Holds
<1> QED BY <1>1, <1>2, ReviewInvKept

(* A step that changes neither the worker nor the rows keeps WorkerInv.      *)
LEMMA WorkerInvSame ==
  ASSUME IInv, UNCHANGED <<rows, worker, proc>>
  PROVE  WorkerInv'
  BY DEF IInv, WorkerInv, MayRetry, rows

-------------------------------------------------------------------------------
(* The actions that write no row, and the replay                             *)

(* submit_case takes a concurrency slot.                                     *)
LEMMA SubmitAcquireStep ==
  ASSUME IInv, NEW c \in Cases, SubmitAcquire(c)
  PROVE  IInv'
<1> USE DEF SubmitAcquire, rows, bounds
<1>1. TypeOK'
  BY SlotType DEF IInv, TypeOK, SubmitPhases
<1>2. DispatchInv'
  BY QueueSame DEF IInv, TypeOK, DispatchInv, ABSENT
<1>3. SingleDispatch'
  <2>1. \A d \in Cases : InOnePlace(d)'
    BY QueueSame, AdminSame DEF IInv, TypeOK, SingleDispatch, InOnePlace
  <2> QED BY <2>1, QueueSame, AdminSame DEF IInv, SingleDispatch
<1> QED BY <1>1, <1>2, <1>3, RowsSame, AdminInvSame, ReviewInvSame,
   WorkerInvSame DEF IInv

(* submit_case fails before its commit and gives the slot back.              *)
LEMMA SubmitFailStep ==
  ASSUME IInv, NEW c \in Cases, SubmitFail(c)
  PROVE  IInv'
<1> USE DEF SubmitFail, rows, bounds
<1>1. TypeOK'
  BY SlotType DEF IInv, TypeOK, SubmitPhases
<1>2. DispatchInv'
  BY QueueSame DEF IInv, TypeOK, DispatchInv, ABSENT
<1>3. SingleDispatch'
  <2>1. \A d \in Cases : InOnePlace(d)'
    BY QueueSame, AdminSame DEF IInv, TypeOK, SingleDispatch, InOnePlace
  <2> QED BY <2>1, QueueSame, AdminSame DEF IInv, SingleDispatch
<1> QED BY <1>1, <1>2, <1>3, RowsSame, AdminInvSame, ReviewInvSame,
   WorkerInvSame DEF IInv

(* submit_case enqueues the job it has committed.                            *)
LEMMA SubmitEnqueueStep ==
  ASSUME IInv, NEW c \in Cases, SubmitEnqueue(c)
  PROVE  IInv'
<1> USE DEF SubmitEnqueue, rows, bounds
<1>0. /\ jobStatus[c] = "queued" /\ proc = "up"
      /\ ~InQueue(c) /\ timers[c] = 0 /\ worker.job # c /\ ~BeingRedriven(c)
  BY Dispatched DEF IInv, SingleDispatch, InOnePlace
<1>q. /\ queue' \in Seq(Cases) /\ QueuedOnce'
      /\ \A d \in Cases : InQueue(d)' <=> InQueue(d) \/ d = c
  BY <1>0, QueueAppend DEF IInv, TypeOK, SingleDispatch
<1>1. TypeOK'
  BY <1>q DEF IInv, TypeOK, SubmitPhases
<1>2. DispatchInv'
  BY <1>0, <1>q DEF IInv, TypeOK, DispatchInv, ABSENT
<1>3. SingleDispatch'
  <2>1. \A d \in Cases : InOnePlace(d)'
    BY <1>0, <1>q, AdminSame DEF IInv, TypeOK, SingleDispatch, InOnePlace
  <2> QED BY <2>1, <1>q, AdminSame DEF IInv, SingleDispatch
<1> QED BY <1>1, <1>2, <1>3, RowsSame, AdminInvSame, ReviewInvSame,
   WorkerInvSame DEF IInv

(* submit_case raises after its commit: the job is stored and not enqueued.  *)
LEMMA SubmitFaultStep ==
  ASSUME IInv, NEW c \in Cases, SubmitFault(c)
  PROVE  IInv'
<1> USE DEF SubmitFault, Fault, rows, bounds
<1>1. TypeOK'
  BY JobQueueAssumption DEF IInv, TypeOK, SubmitPhases
<1>2. DispatchInv'
  BY QueueSame DEF IInv, TypeOK, DispatchInv, ABSENT
<1>3. SingleDispatch'
  <2>1. \A d \in Cases : InOnePlace(d)'
    BY QueueSame, AdminSame DEF IInv, TypeOK, SingleDispatch, InOnePlace
  <2> QED BY <2>1, QueueSame, AdminSame DEF IInv, SingleDispatch
<1> QED BY <1>1, <1>2, <1>3, RowsSame, AdminInvSame, ReviewInvSame,
   WorkerInvSame DEF IInv

(* _delayed_requeue puts a job back on the queue after its backoff.          *)
LEMMA TimerFiresStep ==
  ASSUME IInv, NEW c \in Cases, TimerFires(c)
  PROVE  IInv'
<1> USE DEF TimerFires, rows, bounds
<1>0. /\ jobStatus[c] = "queued" /\ proc = "up" /\ timers[c] = 1
      /\ ~InQueue(c) /\ worker.job # c /\ submit[c] # "committed"
      /\ ~BeingRedriven(c)
  BY Dispatched DEF IInv, SingleDispatch, InOnePlace
<1>q. /\ queue' \in Seq(Cases) /\ QueuedOnce'
      /\ \A d \in Cases : InQueue(d)' <=> InQueue(d) \/ d = c
  BY <1>0, QueueAppend DEF IInv, TypeOK, SingleDispatch
<1>t. timers' \in [Cases -> Nat] /\ timers'[c] = 0
      /\ \A d \in Cases \ {c} : timers'[d] = timers[d]
  BY <1>0 DEF IInv, TypeOK
<1>1. TypeOK'
  BY <1>q, <1>t DEF IInv, TypeOK
<1>2. DispatchInv'
  BY <1>0, <1>q, <1>t DEF IInv, TypeOK, DispatchInv, ABSENT
<1>3. SingleDispatch'
  <2>1. \A d \in Cases : InOnePlace(d)'
    BY <1>0, <1>q, <1>t, AdminSame DEF IInv, TypeOK, SingleDispatch, InOnePlace
  <2> QED BY <2>1, <1>q, AdminSame DEF IInv, SingleDispatch
<1> QED BY <1>1, <1>2, <1>3, RowsSame, AdminInvSame, ReviewInvSame,
   WorkerInvSame DEF IInv

(* process_job_once returns at once for a job that has succeeded: under row  *)
(* locks no such job is ever in the queue.                                   *)
LEMMA WorkerSkipStep ==
  ASSUME IInv, NEW c \in Cases, WorkerSkip(c)
  PROVE  IInv'
<1>1. InQueue(c)
  BY QueueTail DEF IInv, TypeOK, SingleDispatch, WorkerSkip, WorkerTakes
<1> QED BY <1>1, Dispatched DEF WorkerSkip

(* The commit that starts an attempt is refused and the job is forgotten.    *)
LEMMA WorkerStartFaultStep ==
  ASSUME IInv, NEW c \in Cases, WorkerStartFault(c)
  PROVE  IInv'
<1> USE DEF WorkerStartFault, WorkerTakes, Fault, rows, bounds
<1>q. /\ queue' \in Seq(Cases) /\ QueuedOnce' /\ InQueue(c)
      /\ \A d \in Cases : InQueue(d)' <=> InQueue(d) /\ d # c
  BY QueueTail DEF IInv, TypeOK, SingleDispatch
<1>1. TypeOK'
  BY <1>q, JobQueueAssumption, SMTT(30) DEF IInv, TypeOK
<1>2. DispatchInv'
  BY <1>q DEF IInv, DispatchInv
<1>3. SingleDispatch'
  <2>1. \A d \in Cases : InOnePlace(d)'
    BY <1>q, AdminSame DEF IInv, SingleDispatch, InOnePlace
  <2> QED BY <2>1, <1>q, AdminSame DEF IInv, SingleDispatch
<1> QED BY <1>1, <1>2, <1>3, RowsSame, AdminInvSame, ReviewInvSame,
   WorkerInvSame DEF IInv

(* An exception leaves process_job_once: no row changes, the worker is free. *)
LEMMA WorkerLeavesStep ==
  ASSUME IInv, WorkerRaises \/ WorkerFault
  PROVE  IInv'
<1> USE DEF WorkerRaises, WorkerFault, Fault, rows, bounds
<1>0. /\ UNCHANGED <<rows, proc, queue, timers, gauge, submit, admin, reviews, crashes>>
      /\ proc = "up" /\ worker' = IdleWorker
      /\ faults' \in {faults, faults + 1} /\ faults' <= MaxFaults
  BY JobQueueAssumption DEF IInv, TypeOK
<1>1. TypeOK'
  BY <1>0, JobQueueAssumption DEF IInv, TypeOK, WorkerCalls, IdleWorker, ErrorCategories
<1>2. WorkerInv'
  BY <1>0 DEF WorkerInv, IdleWorker
<1>3. DispatchInv'
  BY <1>0, QueueSame DEF IInv, DispatchInv
<1>4. SingleDispatch'
  <2>1. \A d \in Cases : InOnePlace(d)'
    BY <1>0, QueueSame, AdminSame, JobQueueAssumption
       DEF IInv, SingleDispatch, InOnePlace, IdleWorker
  <2> QED BY <2>1, <1>0, QueueSame, AdminSame DEF IInv, SingleDispatch
<1> QED BY <1>0, <1>1, <1>2, <1>3, <1>4, RowsSame, AdminInvSame, ReviewInvSame
   DEF IInv

(* A crash empties the memory and leaves the rows.                           *)
LEMMA CrashStep ==
  ASSUME IInv, Crash
  PROVE  IInv'
<1> USE DEF Crash, rows, bounds
<1>0. \A d \in Cases : ~InQueue(d)'
  BY DEF InQueue
<1>b. \A d \in Cases : ~BeingRedriven(d)'
  BY DEF BeingRedriven, IdleAdmin
<1>1. TypeOK'
  <2>1. IdleWorker \in WorkerCalls /\ IdleAdmin \in AdminCalls /\ NoReview \in ReviewCalls
    BY DEF IdleWorker, WorkerCalls, IdleAdmin, AdminCalls, ErrorCategories, NoReview, ReviewCalls
  <2>2. crashes' \in 0..MaxCrashes
    BY JobQueueAssumption DEF IInv, TypeOK
  <2> QED BY <2>1, <2>2 DEF IInv, TypeOK, SubmitPhases
<1>2. WorkerInv'
  BY DEF WorkerInv, IdleWorker
<1>3. AdminInv'
  BY DEF AdminInv, AdminCallInv, Holds, IdleAdmin
<1>4. DispatchInv'
  BY <1>0 DEF IInv, TypeOK, DispatchInv, SubmitPhases
<1>5. SingleDispatch'
  <2>1. \A d \in Cases : InOnePlace(d)'
    BY <1>0, <1>b, JobQueueAssumption DEF InOnePlace, IdleWorker
  <2> QED BY <2>1 DEF SingleDispatch, QueuedOnce, RedrivenOnce, IdleAdmin
<1>6. ReviewInv'
  BY DEF ReviewInv, Reviews, NoReview
<1> QED BY <1>1, <1>2, <1>3, <1>4, <1>5, <1>6, RowsSame DEF IInv

(* While the process is not up, its memory holds nothing.                    *)
LEMMA NotUp ==
  ASSUME IInv, proc # "up"
  PROVE  /\ queue = << >>
         /\ \A d \in Cases : /\ ~InQueue(d) /\ ~BeingRedriven(d)
                             /\ timers[d] = 0
                             /\ submit[d] \notin {"acquired", "committed"}
         /\ \A a \in Admins : admin[a].pc = "idle"
  BY Dispatched, AdminJob DEF IInv, DispatchInv

(* The process starts and enters the startup replay.                         *)
LEMMA RestartStep ==
  ASSUME IInv, Restart
  PROVE  IInv'
<1> USE DEF Restart, rows, bounds
<1>1. TypeOK'        BY DEF IInv, TypeOK
<1>2. WorkerInv'     BY DEF IInv, WorkerInv, MayRetry
<1>3. AdminInv'      BY NotUp DEF AdminInv, AdminCallInv, Holds
<1>4. DispatchInv'   BY NotUp, QueueSame DEF IInv, DispatchInv
<1>5. SingleDispatch'
  <2>1. \A d \in Cases : InOnePlace(d)'
    BY QueueSame, AdminSame DEF IInv, SingleDispatch, InOnePlace
  <2> QED BY <2>1, QueueSame, AdminSame DEF IInv, SingleDispatch
<1> QED BY <1>1, <1>2, <1>3, <1>4, <1>5, RowsSame, ReviewNotUp DEF IInv

(* The startup replay raises and the process exits.                          *)
LEMMA StartupLeavesStep ==
  ASSUME IInv, StartupFault \/ \E c \in Cases : StartupFails(c)
  PROVE  IInv'
<1>0. /\ UNCHANGED <<rows, queue, timers, gauge, submit, admin, reviews, crashes>>
      /\ proc = "recovering" /\ proc' = "down" /\ worker' = IdleWorker
      /\ faults' \in {faults, faults + 1} /\ faults' <= MaxFaults
  BY JobQueueAssumption
     DEF StartupFault, StartupFails, Interrupted, Fault, IInv, TypeOK, WorkerInv, rows, bounds
<1>1. TypeOK'
  BY <1>0, JobQueueAssumption DEF IInv, TypeOK, WorkerCalls, IdleWorker, ErrorCategories, rows
<1>2. WorkerInv'     BY <1>0 DEF WorkerInv, IdleWorker
<1>3. AdminInv'      BY <1>0, NotUp DEF AdminInv, AdminCallInv, Holds
<1>4. DispatchInv'   BY <1>0, NotUp, QueueSame DEF IInv, DispatchInv, rows
<1>5. SingleDispatch'
  <2>1. \A d \in Cases : InOnePlace(d)'
    BY <1>0, QueueSame, AdminSame, JobQueueAssumption
       DEF IInv, SingleDispatch, InOnePlace, IdleWorker
  <2> QED BY <2>1, <1>0, QueueSame, AdminSame DEF IInv, SingleDispatch
<1>6. ReviewInv'     BY <1>0, ReviewNotUp
<1> QED BY <1>0, <1>1, <1>2, <1>3, <1>4, <1>5, <1>6, RowsSame DEF IInv

(* replay_unfinished_jobs fills the empty queue with every queued job, each  *)
(* once.                                                                     *)
LEMMA ReplayStep ==
  ASSUME IInv, Replay
  PROVE  IInv'
<1> USE DEF Replay, rows, bounds
<1> DEFINE S == {c \in Cases : jobStatus[c] = "queued"}
<1>0. Cardinality(S) \in Nat
  BY JobQueueAssumption, FS_Subset, FS_CardinalityType
<1>q. /\ queue' \in Seq(Cases)
      /\ QueuedOnce'
      /\ \A d \in Cases : InQueue(d)' => jobStatus[d] = "queued"
  <2>1. /\ queue' \in [1..Cardinality(S) -> S]
        /\ \A i, j \in DOMAIN queue' : queue'[i] = queue'[j] => i = j
    BY DEF Orders
  <2>2. queue' \in Seq(S)
    BY <2>1, <1>0
  <2>3. queue' \in Seq(Cases)
    BY <2>2
  <2> QED BY <2>1, <2>3 DEF QueuedOnce, InQueue
<1>1. TypeOK'        BY <1>q DEF IInv, TypeOK
<1>2. WorkerInv'     BY DEF IInv, WorkerInv
<1>3. AdminInv'      BY NotUp DEF AdminInv, AdminCallInv, Holds
<1>4. DispatchInv'   BY <1>q, NotUp DEF IInv, DispatchInv
<1>5. SingleDispatch'
  <2>1. \A d \in Cases : InOnePlace(d)'
    BY NotUp, AdminSame, JobQueueAssumption DEF IInv, WorkerInv, IdleWorker, InOnePlace
  <2> QED BY <2>1, <1>q, AdminSame DEF IInv, SingleDispatch
<1> QED BY <1>1, <1>2, <1>3, <1>4, <1>5, RowsSame, ReviewNotUp DEF IInv

-------------------------------------------------------------------------------
(* The transactions of submit_case, of the worker and of the recovery        *)

(* The transaction of submit_case: the case and its job appear, queued.      *)
LEMMA SubmitCommitStep ==
  ASSUME IInv, NEW c \in Cases, SubmitCommit(c)
  PROVE  IInv'
<1> USE DEF SubmitCommit, rows, bounds
<1>0. /\ jobStatus[c] = ABSENT /\ caseStatus[c] = ABSENT /\ proc = "up"
      /\ dlq[c] \in Seq(DLQEntries)
  BY DEF IInv, TypeOK, DispatchInv, StatusesAgree
<1>a. /\ ~InQueue(c) /\ timers[c] = 0 /\ worker.job # c /\ ~BeingRedriven(c)
  BY <1>0, Dispatched DEF ABSENT
<1>b. \A a \in Admins : admin[a].pc # "idle" => admin[a].job # c
  BY <1>0, AdminJob DEF ABSENT
<1>1. TypeOK'
  BY DEF IInv, TypeOK, SubmitPhases, JobStatuses, ALL_STATUSES, TRANSITIONS, QUEUED
<1>2. WorkerInv'
  BY <1>0, <1>a DEF IInv, TypeOK, WorkerInv, MayRetry
<1>3. AdminInv'
  BY <1>b, AdminElsewhere DEF IInv, TypeOK
<1>4. DispatchInv'
  BY <1>0, QueueSame DEF IInv, TypeOK, DispatchInv, ABSENT
<1>5. EntryInv'
  BY <1>0 DEF IInv, TypeOK, EntryInv, QUEUED, DLQ_INVESTIGATION, ABSENT
<1>6. AttemptsInv'
  BY <1>0 DEF IInv, TypeOK, AttemptsInv, ABSENT
<1>7. SingleDispatch'
  <2>1. \A d \in Cases : InOnePlace(d)'
    BY <1>a, QueueSame, AdminSame DEF IInv, TypeOK, SingleDispatch, InOnePlace
  <2> QED BY <2>1, QueueSame, AdminSame DEF IInv, SingleDispatch
<1>8. StatusesAgree'
  BY <1>0 DEF IInv, TypeOK, StatusesAgree, LastEntry, QUEUED, ABSENT
<1>9. OneResult'
  BY <1>0 DEF IInv, TypeOK, OneResult, ABSENT
<1>10. RetryBudget'
  BY DEF IInv, RetryBudget
<1>11. ReviewInv'
  <2>1. \A r \in Reviewers : Reviews(r) =>
          /\ proc = "up"
          /\ caseStatus'[reviews[r].case] = caseStatus[reviews[r].case]
    BY <1>0 DEF IInv, TypeOK, ReviewInv, Reviews
  <2>2. \A a \in Admins : Holds(a)' => Holds(a)
    BY DEF Holds
  <2> QED BY <2>1, <2>2, ReviewInvKept
<1> QED BY <1>1, <1>2, <1>3, <1>4, <1>5, <1>6, <1>7, <1>8, <1>9, <1>10, <1>11 DEF IInv

(* The commit that starts an attempt.                                        *)
LEMMA WorkerStartStep ==
  ASSUME RowLocks, IInv, NEW c \in Cases, WorkerStart(c)
  PROVE  IInv'
<1> USE DEF rows, bounds
<1>q. /\ queue' \in Seq(Cases) /\ QueuedOnce' /\ InQueue(c)
      /\ \A d \in Cases : InQueue(d)' <=> InQueue(d) /\ d # c
  BY QueueTail DEF WorkerStart, WorkerTakes, IInv, TypeOK, SingleDispatch
<1>0. /\ jobStatus[c] = "queued" /\ proc = "up" /\ caseStatus[c] = QUEUED
      /\ timers[c] = 0 /\ submit[c] # "committed" /\ ~BeingRedriven(c)
      /\ worker.pc = "idle"
  BY <1>q, Dispatched DEF IInv, SingleDispatch, InOnePlace, StatusesAgree, WorkerStart, WorkerTakes
<1>s. /\ jobStatus' = [jobStatus EXCEPT ![c] = "running"]
      /\ attempts' = [attempts EXCEPT ![c] = @ + 1]
      /\ caseStatus' = [caseStatus EXCEPT ![c] = ANALYZING]
      /\ worker' = [pc |-> "analyzing", job |-> c, seen |-> ANALYZING,
                    category |-> UNKNOWN]
      /\ UNCHANGED <<results, dlq, proc, timers, gauge, submit, admin, reviews, bounds>>
      /\ CaseUnlocked(c)
  <2>1. IsValidTransition(QUEUED, ANALYZING)
    BY DEF IsValidTransition, TRANSITIONS, QUEUED, ANALYZING
  <2> QED BY <2>1, <1>0 DEF WorkerStart
<1>b. \A a \in Admins : admin[a].pc # "idle" => admin[a].job # c
  BY <1>0, HeldEntry DEF Holds, BeingRedriven, IInv, TypeOK, AdminCalls
<1>1. TypeOK'
  BY <1>q, <1>s, SMTT(30) DEF IInv, TypeOK, WorkerCalls, JobStatuses, ErrorCategories,
                    ALL_STATUSES, TRANSITIONS, ANALYZING
<1>2. WorkerInv'
  BY <1>0, <1>s DEF IInv, TypeOK, WorkerInv
<1>3. AdminInv'
  BY <1>b, <1>s, AdminElsewhere DEF IInv, TypeOK
<1>4. DispatchInv'
  BY <1>0, <1>q, <1>s DEF IInv, TypeOK, DispatchInv, ABSENT
<1>5. EntryInv'
  BY <1>0, <1>s DEF IInv, TypeOK, EntryInv, QUEUED, ANALYZING, DLQ_INVESTIGATION
<1>6. AttemptsInv'
  BY <1>0, <1>s DEF IInv, TypeOK, AttemptsInv, ABSENT
<1>7. SingleDispatch'
  <2>1. \A d \in Cases : InOnePlace(d)'
    BY <1>0, <1>q, <1>s, AdminSame DEF IInv, SingleDispatch, InOnePlace
  <2> QED BY <2>1, <1>q, <1>s, AdminSame DEF IInv, SingleDispatch
<1>8. StatusesAgree'
  BY <1>0, <1>s DEF IInv, TypeOK, StatusesAgree, LastEntry, ANALYZING, ABSENT
<1>9. OneResult'
  BY <1>0, <1>s DEF IInv, TypeOK, OneResult
<1>10. RetryBudget'
  BY <1>0, <1>s, JobQueueAssumption DEF IInv, TypeOK, RetryBudget, AttemptsInv
<1>11. ReviewInv'
  <2>1. \A d \in Cases \ {c} : caseStatus'[d] = caseStatus[d]
    BY <1>s DEF IInv, TypeOK
  <2> QED BY <1>0, <1>s, <2>1, ReviewElsewhere DEF bounds
<1> QED BY <1>1, <1>2, <1>3, <1>4, <1>5, <1>6, <1>7, <1>8, <1>9, <1>10, <1>11 DEF IInv

(* The worker's job is in no other place, and no administrator is at it.     *)
LEMMA WorkersJob ==
  ASSUME IInv, worker.pc # "idle"
  PROVE  /\ worker.job \in Cases
         /\ worker.pc = "analyzing" => /\ proc = "up"
                                       /\ jobStatus[worker.job] = "running"
                                       /\ caseStatus[worker.job] = ANALYZING
         /\ worker.pc = "failing" => /\ jobStatus[worker.job] = "failed"
                                     /\ caseStatus[worker.job] = PROCESSING_FAILED
         /\ worker.pc \in {"analyzing", "failing"}
         /\ ~InQueue(worker.job) /\ timers[worker.job] = 0
         /\ submit[worker.job] \notin {"none", "acquired", "committed"}
         /\ ~BeingRedriven(worker.job)
         /\ \A a \in Admins : admin[a].pc # "idle" => admin[a].job # worker.job
<1>1. worker.pc \in {"analyzing", "failing"}
  BY DEF IInv, TypeOK, WorkerCalls
<1>2. /\ worker.job \in Cases
      /\ worker.pc = "analyzing" => /\ proc = "up"
                                    /\ jobStatus[worker.job] = "running"
      /\ worker.pc = "failing" => /\ jobStatus[worker.job] = "failed"
                                  /\ caseStatus[worker.job] = PROCESSING_FAILED
  BY <1>1 DEF IInv, WorkerInv
<1>3. /\ ~InQueue(worker.job) /\ timers[worker.job] = 0
      /\ submit[worker.job] # "committed"
      /\ ~BeingRedriven(worker.job)
  BY <1>1, <1>2, Dispatched
<1>4. submit[worker.job] \notin {"none", "acquired"}
  BY <1>1, <1>2 DEF IInv, DispatchInv, ABSENT
<1>5. ASSUME NEW a \in Admins, admin[a].pc # "idle", admin[a].job = worker.job
      PROVE  FALSE
  <2>1. admin[a].pc # "redriven"
    BY <1>3, <1>5 DEF BeingRedriven
  <2>2. Holds(a)
    BY <2>1, <1>5 DEF Holds, IInv, TypeOK, AdminCalls
  <2> QED BY <2>2, <1>5, <1>1, <1>2, HeldEntry
          DEF PROCESSING_FAILED, DLQ_INVESTIGATION, CLOSED
<1> QED BY <1>1, <1>2, <1>3, <1>4, <1>5 DEF IInv, StatusesAgree

(* The commit that publishes a result, with or without the release of the    *)
(* slot.                                                                     *)
LEMMA WorkerSucceedStep ==
  ASSUME RowLocks, IInv, WorkerSucceed \/ WorkerSucceedFault
  PROVE  IInv'
<1> DEFINE c == worker.job
<1>s. /\ worker.pc = "analyzing" /\ CaseUnlocked(c)
      /\ results' = [results EXCEPT ![c] = @ + 1]
      /\ jobStatus' = [jobStatus EXCEPT ![c] = "succeeded"]
      /\ caseStatus' = [caseStatus EXCEPT ![c] = READY_FOR_REVIEW]
      /\ ReleaseSlot(c) \/ gauge' = gauge
      /\ worker' = IdleWorker
      /\ UNCHANGED <<attempts, dlq, proc, queue, timers, submit, admin, reviews, crashes>>
      /\ faults' \in 0..MaxFaults
  BY JobQueueAssumption
     DEF WorkerSucceed, WorkerSucceedFault, Fault, bounds, IInv, TypeOK
<1>0. /\ c \in Cases /\ proc = "up"
      /\ jobStatus[c] = "running" /\ caseStatus[c] = ANALYZING
      /\ ~InQueue(c) /\ timers[c] = 0 /\ ~BeingRedriven(c)
      /\ submit[c] \notin {"none", "acquired", "committed"}
      /\ \A a \in Admins : admin[a].pc # "idle" => admin[a].job # c
  BY <1>s, WorkersJob
<1> HIDE DEF c
<1>1. TypeOK'
  <2>1. gauge' \in [Analysts -> Nat]
    BY <1>0, <1>s, SlotType DEF IInv, TypeOK
  <2>2. worker' \in WorkerCalls
    BY <1>s DEF WorkerCalls, IdleWorker, ErrorCategories
  <2>3. READY_FOR_REVIEW \in ALL_STATUSES
    BY DEF ALL_STATUSES, TRANSITIONS, READY_FOR_REVIEW
  <2> QED BY <1>0, <1>s, <2>1, <2>2, <2>3 DEF IInv, TypeOK, JobStatuses
<1>2. WorkerInv'
  BY <1>s DEF WorkerInv, IdleWorker
<1>3. AdminInv'
  BY <1>0, <1>s, AdminElsewhere DEF IInv, TypeOK
<1>4. DispatchInv'
  BY <1>0, <1>s, QueueSame DEF IInv, TypeOK, DispatchInv, ABSENT
<1>5. EntryInv'
  BY <1>0, <1>s DEF IInv, TypeOK, EntryInv, READY_FOR_REVIEW, ANALYZING, DLQ_INVESTIGATION
<1>6. AttemptsInv'
  BY <1>0, <1>s DEF IInv, TypeOK, AttemptsInv, ABSENT
<1>7. SingleDispatch'
  <2>1. \A d \in Cases : InOnePlace(d)'
    BY <1>0, <1>s, QueueSame, AdminSame, JobQueueAssumption
       DEF IInv, SingleDispatch, InOnePlace, IdleWorker
  <2> QED BY <2>1, <1>s, QueueSame, AdminSame DEF IInv, SingleDispatch
<1>8. StatusesAgree'
  BY <1>0, <1>s DEF IInv, TypeOK, StatusesAgree, LastEntry, READY_FOR_REVIEW, ABSENT
<1>9. OneResult'
  BY <1>0, <1>s DEF IInv, TypeOK, OneResult
<1>10. RetryBudget'
  BY <1>0, <1>s DEF IInv, RetryBudget
<1>11. ReviewInv'
  <2>1. \A d \in Cases \ {c} : caseStatus'[d] = caseStatus[d]
    BY <1>s DEF IInv, TypeOK
  <2> QED BY <1>0, <1>s, <2>1, ReviewElsewhere DEF bounds
<1> QED BY <1>1, <1>2, <1>3, <1>4, <1>5, <1>6, <1>7, <1>8, <1>9, <1>10, <1>11 DEF IInv

(* The commit that queues another attempt, with or without its timer.        *)
LEMMA WorkerRetryStep ==
  ASSUME RowLocks, IInv, NEW category \in FailureCategories,
         WorkerRetry(category) \/ WorkerRetryFault(category)
  PROVE  IInv'
<1> DEFINE c == worker.job
<1>s. /\ worker.pc = "analyzing" /\ CaseUnlocked(c)
      /\ MayRetry(c, category)
      /\ caseStatus' = [caseStatus EXCEPT ![c] = QUEUED]
      /\ jobStatus' = [jobStatus EXCEPT ![c] = "queued"]
      /\ timers' = [timers EXCEPT ![c] = @ + 1] \/ timers' = timers
      /\ worker' = IdleWorker
      /\ UNCHANGED <<attempts, results, dlq, proc, queue, gauge, submit, admin,
                     reviews, crashes>>
      /\ faults' \in 0..MaxFaults
  BY JobQueueAssumption
     DEF WorkerRetry, WorkerRetryFault, Fault, bounds, IInv, TypeOK
<1>0. /\ c \in Cases /\ proc = "up"
      /\ jobStatus[c] = "running" /\ caseStatus[c] = ANALYZING
      /\ ~InQueue(c) /\ timers[c] = 0 /\ ~BeingRedriven(c)
      /\ submit[c] \notin {"none", "acquired", "committed"}
      /\ \A a \in Admins : admin[a].pc # "idle" => admin[a].job # c
  BY <1>s, WorkersJob
<1> HIDE DEF c
<1>1. TypeOK'
  <2>1. timers' \in [Cases -> Nat]
    BY <1>0, <1>s DEF IInv, TypeOK
  <2>2. worker' \in WorkerCalls
    BY <1>s DEF WorkerCalls, IdleWorker, ErrorCategories
  <2>3. QUEUED \in ALL_STATUSES
    BY DEF ALL_STATUSES, TRANSITIONS, QUEUED
  <2> QED BY <1>0, <1>s, <2>1, <2>2, <2>3 DEF IInv, TypeOK, JobStatuses
<1>2. WorkerInv'
  BY <1>s DEF WorkerInv, IdleWorker
<1>3. AdminInv'
  BY <1>0, <1>s, AdminElsewhere DEF IInv, TypeOK
<1>4. DispatchInv'
  BY <1>0, <1>s, QueueSame DEF IInv, TypeOK, DispatchInv, ABSENT
<1>5. EntryInv'
  BY <1>0, <1>s DEF IInv, TypeOK, EntryInv, QUEUED, ANALYZING, DLQ_INVESTIGATION
<1>6. AttemptsInv'
  BY <1>0, <1>s DEF IInv, TypeOK, AttemptsInv, MayRetry, ABSENT
<1>7. SingleDispatch'
  <2>1. \A d \in Cases : InOnePlace(d)'
    <3>1. /\ timers'[c] <= 1
          /\ \A d \in Cases \ {c} : timers'[d] = timers[d]
      BY <1>0, <1>s DEF IInv, TypeOK
    <3> QED BY <3>1, <1>0, <1>s, QueueSame, AdminSame, JobQueueAssumption
            DEF IInv, SingleDispatch, InOnePlace, IdleWorker
  <2> QED BY <2>1, <1>s, QueueSame, AdminSame DEF IInv, SingleDispatch
<1>8. StatusesAgree'
  BY <1>0, <1>s DEF IInv, TypeOK, StatusesAgree, LastEntry, QUEUED, ABSENT
<1>9. OneResult'
  BY <1>0, <1>s DEF IInv, TypeOK, OneResult
<1>10. RetryBudget'
  BY <1>0, <1>s DEF IInv, RetryBudget
<1>11. ReviewInv'
  <2>1. \A d \in Cases \ {c} : caseStatus'[d] = caseStatus[d]
    BY <1>s DEF IInv, TypeOK
  <2> QED BY <1>0, <1>s, <2>1, ReviewElsewhere DEF bounds
<1> QED BY <1>1, <1>2, <1>3, <1>4, <1>5, <1>6, <1>7, <1>8, <1>9, <1>10, <1>11 DEF IInv

(* The first commit of the failure path.                                     *)
LEMMA WorkerGiveUpStep ==
  ASSUME RowLocks, IInv, NEW category \in FailureCategories, WorkerGiveUp(category)
  PROVE  IInv'
<1> DEFINE c == worker.job
<1>s. /\ worker.pc = "analyzing" /\ CaseUnlocked(c)
      /\ ~MayRetry(c, category)
      /\ caseStatus' = [caseStatus EXCEPT ![c] = PROCESSING_FAILED]
      /\ jobStatus' = [jobStatus EXCEPT ![c] = "failed"]
      /\ worker' = [pc |-> "failing", job |-> c, seen |-> ABSENT, category |-> category]
      /\ UNCHANGED <<attempts, results, dlq, proc, queue, timers, gauge, submit, admin,
                     reviews, crashes, faults>>
  BY DEF WorkerGiveUp, bounds
<1>0. /\ c \in Cases /\ proc = "up"
      /\ jobStatus[c] = "running" /\ caseStatus[c] = ANALYZING
      /\ ~InQueue(c) /\ timers[c] = 0 /\ ~BeingRedriven(c)
      /\ submit[c] \notin {"none", "acquired", "committed"}
      /\ \A a \in Admins : admin[a].pc # "idle" => admin[a].job # c
  BY <1>s, WorkersJob
<1> HIDE DEF c
<1>1. TypeOK'
  BY <1>0, <1>s, JobQueueAssumption
     DEF IInv, TypeOK, WorkerCalls, JobStatuses, ALL_STATUSES, TRANSITIONS, PROCESSING_FAILED
<1>2. WorkerInv'
  BY <1>0, <1>s DEF IInv, TypeOK, WorkerInv, MayRetry
<1>3. AdminInv'
  BY <1>0, <1>s, AdminElsewhere DEF IInv, TypeOK
<1>4. DispatchInv'
  BY <1>0, <1>s, QueueSame DEF IInv, TypeOK, DispatchInv, ABSENT
<1>5. EntryInv'
  BY <1>0, <1>s DEF IInv, TypeOK, EntryInv, PROCESSING_FAILED, ANALYZING, DLQ_INVESTIGATION
<1>6. AttemptsInv'
  BY <1>0, <1>s DEF IInv, TypeOK, AttemptsInv, ABSENT
<1>7. SingleDispatch'
  <2>1. \A d \in Cases : InOnePlace(d)'
    BY <1>0, <1>s, QueueSame, AdminSame DEF IInv, SingleDispatch, InOnePlace
  <2> QED BY <2>1, <1>s, QueueSame, AdminSame DEF IInv, SingleDispatch
<1>8. StatusesAgree'
  BY <1>0, <1>s DEF IInv, TypeOK, StatusesAgree, LastEntry, PROCESSING_FAILED, ABSENT
<1>9. OneResult'
  BY <1>0, <1>s DEF IInv, TypeOK, OneResult
<1>10. RetryBudget'
  BY <1>0, <1>s DEF IInv, RetryBudget
<1>11. ReviewInv'
  <2>1. \A d \in Cases \ {c} : caseStatus'[d] = caseStatus[d]
    BY <1>s DEF IInv, TypeOK
  <2> QED BY <1>0, <1>s, <2>1, ReviewElsewhere DEF bounds
<1> QED BY <1>1, <1>2, <1>3, <1>4, <1>5, <1>6, <1>7, <1>8, <1>9, <1>10, <1>11 DEF IInv

(* The commit that puts a job in the dead-letter queue, with or without the  *)
(* release of its slot.                                                      *)
LEMMA DLQEntryStep ==
  ASSUME RowLocks, IInv, CreateDLQEntry \/ AlertFault
  PROVE  IInv'
<1> DEFINE c == worker.job
           entry == [resolution |-> INVESTIGATING, category |-> worker.category,
                     attempts |-> attempts[c]]
<1>s. /\ worker.pc = "failing" /\ CaseUnlocked(c)
      /\ caseStatus' = [caseStatus EXCEPT ![c] = DLQ_INVESTIGATION]
      /\ dlq' = [dlq EXCEPT ![c] = Append(@, entry)]
      /\ worker' = IdleWorker
      /\ UNCHANGED <<jobStatus, attempts, results, proc, queue, timers, submit, admin, reviews, crashes>>
      /\ ReleaseSlot(c) \/ gauge' = gauge
      /\ faults' \in {faults, faults + 1} /\ faults' \in 0..MaxFaults
  BY JobQueueAssumption DEF CreateDLQEntry, AlertFault, EntryOf, Fault, bounds, IInv, TypeOK
<1>0. /\ c \in Cases
      /\ jobStatus[c] = "failed" /\ caseStatus[c] = PROCESSING_FAILED
      /\ ~InQueue(c) /\ timers[c] = 0 /\ ~BeingRedriven(c)
      /\ submit[c] \notin {"none", "acquired", "committed"}
      /\ \A a \in Admins : admin[a].pc # "idle" => admin[a].job # c
  BY <1>s, WorkersJob
<1>a. /\ attempts[c] \in 1..MaxAttempts
      /\ worker.category \in RETRYABLE_CATEGORIES => attempts[c] = MaxAttempts
      /\ worker.category \in ErrorCategories
      /\ entry \in DLQEntries
  <2>1. /\ attempts[c] \in 1..MaxAttempts
        /\ worker.category \in RETRYABLE_CATEGORIES => attempts[c] = MaxAttempts
    BY <1>0, <1>s, JobQueueAssumption
       DEF IInv, TypeOK, WorkerInv, MayRetry, RetryBudget, AttemptsInv
  <2>2. worker.category \in ErrorCategories
    BY DEF IInv, TypeOK, WorkerCalls
  <2> QED BY <2>1, <2>2 DEF DLQEntries
<1>d. /\ dlq[c] \in Seq(DLQEntries) /\ Len(dlq[c]) \in Nat
      /\ \A e \in DOMAIN dlq[c] : dlq[c][e].resolution # INVESTIGATING
  BY <1>0, LenProperties
     DEF IInv, TypeOK, EntryInv, PROCESSING_FAILED, DLQ_INVESTIGATION, CLOSED
<1>e. entry.resolution = INVESTIGATING /\ entry.category = worker.category
      /\ entry.attempts = attempts[c]
  OBVIOUS
<1> HIDE DEF c, entry
<1>l. /\ dlq'[c] \in Seq(DLQEntries)
      /\ Len(dlq'[c]) = Len(dlq[c]) + 1
      /\ DOMAIN dlq[c] = 1..Len(dlq[c])
      /\ DOMAIN dlq'[c] = 1..(Len(dlq[c]) + 1)
      /\ dlq'[c][Len(dlq[c]) + 1] = entry
      /\ \A e \in DOMAIN dlq[c] : dlq'[c][e] = dlq[c][e]
      /\ \A d \in Cases \ {c} : dlq'[d] = dlq[d]
  <2>1. dlq'[c] = Append(dlq[c], entry) /\ \A d \in Cases \ {c} : dlq'[d] = dlq[d]
    BY <1>0, <1>s DEF IInv, TypeOK
  <2> QED BY <2>1, <1>a, <1>d, AppendProperties, LenProperties
<1>1. TypeOK'
  <2>1. dlq' \in [Cases -> Seq(DLQEntries)]
    BY <1>0, <1>s, <1>l DEF IInv, TypeOK
  <2> QED BY <2>1, <1>0, <1>s, SlotType DEF IInv, TypeOK, WorkerCalls, IdleWorker, ErrorCategories,
             ALL_STATUSES, TRANSITIONS, DLQ_INVESTIGATION
<1>2. WorkerInv'
  BY <1>s DEF WorkerInv, IdleWorker
<1>3. AdminInv'
  BY <1>0, <1>s, <1>l, AdminElsewhere
<1>4. DispatchInv'
  BY <1>0, <1>s, QueueSame DEF IInv, DispatchInv
<1>5. EntryInv'
  <2> SUFFICES ASSUME NEW d \in Cases
               PROVE  /\ \A e \in DOMAIN dlq'[d] :
                           dlq'[d][e].resolution = INVESTIGATING =>
                             /\ e = Len(dlq'[d])
                             /\ caseStatus'[d] \in {DLQ_INVESTIGATION, CLOSED}
                             /\ jobStatus'[d] = "failed"
                      /\ caseStatus'[d] = DLQ_INVESTIGATION => jobStatus'[d] = "failed"
    BY DEF EntryInv
  <2>1. CASE d = c
    <3>1. caseStatus'[c] = DLQ_INVESTIGATION /\ jobStatus'[c] = "failed"
      BY <1>0, <1>s DEF IInv, TypeOK
    <3>2. ASSUME NEW e \in DOMAIN dlq'[c], dlq'[c][e].resolution = INVESTIGATING
          PROVE  e = Len(dlq'[c])
      BY <1>d, <1>l, <3>2
    <3> QED BY <2>1, <3>1, <3>2
  <2>2. CASE d # c
    BY <2>2, <1>s, <1>l DEF IInv, TypeOK, EntryInv
  <2> QED BY <2>1, <2>2
<1>6. AttemptsInv'
  BY <1>s DEF IInv, AttemptsInv
<1>7. SingleDispatch'
  <2>1. \A d \in Cases : InOnePlace(d)'
    BY <1>0, <1>s, QueueSame, AdminSame, JobQueueAssumption
       DEF IInv, SingleDispatch, InOnePlace, IdleWorker
  <2> QED BY <2>1, <1>s, QueueSame, AdminSame DEF IInv, SingleDispatch
<1>8. StatusesAgree'
  <2>1. dlq'[c] # << >> /\ dlq'[c][Len(dlq'[c])].resolution = INVESTIGATING
    BY <1>d, <1>e, <1>l, EmptySeq, LenProperties
  <2>2. caseStatus'[c] = DLQ_INVESTIGATION /\ jobStatus'[c] = "failed"
        /\ \A d \in Cases \ {c} : caseStatus'[d] = caseStatus[d]
    BY <1>0, <1>s DEF IInv, TypeOK
  <2>3. \A i \in DOMAIN dlq'[c] : dlq'[c][i].resolution # RESOLVED_CLOSED
    BY <1>0, <1>e, <1>l DEF IInv, StatusesAgree, PROCESSING_FAILED, CLOSED,
       INVESTIGATING, RESOLVED_CLOSED
  <2>4. StatusesAgree
    BY DEF IInv
  <2> QED BY <1>s, <1>l, <2>1, <2>2, <2>3, <2>4
          DEF StatusesAgree, LastEntry, DLQ_INVESTIGATION, ABSENT
<1>9. OneResult'
  BY <1>s DEF IInv, OneResult
<1>10. RetryBudget'
  <2> SUFFICES ASSUME NEW d \in Cases, NEW e \in DOMAIN dlq'[d]
               PROVE  /\ dlq'[d][e].attempts \in 1..MaxAttempts
                      /\ dlq'[d][e].category \in RETRYABLE_CATEGORIES
                           => dlq'[d][e].attempts = MaxAttempts
    BY <1>s DEF IInv, RetryBudget
  <2>1. CASE d = c /\ e = Len(dlq[c]) + 1
    BY <2>1, <1>a, <1>e, <1>l
  <2>2. CASE ~(d = c /\ e = Len(dlq[c]) + 1)
    BY <2>2, <1>d, <1>l, SMTT(30) DEF IInv, RetryBudget
  <2> QED BY <2>1, <2>2
<1>11. ReviewInv'
  <2>1. \A d \in Cases \ {c} : caseStatus'[d] = caseStatus[d]
    BY <1>s DEF IInv, TypeOK
  <2> QED BY <1>0, <1>s, <2>1, ReviewElsewhere DEF bounds
<1> QED BY <1>1, <1>2, <1>3, <1>4, <1>5, <1>6, <1>7, <1>8, <1>9, <1>10, <1>11 DEF IInv

(* _recover_running_job on a case: the process is recovering, so nothing     *)
(* dispatches the job and no administrator is at it.                         *)
LEMMA RecoverRequeueStep ==
  ASSUME IInv, NEW c \in Cases, RecoverRequeue(c)
  PROVE  IInv'
<1> USE DEF RecoverRequeue, Interrupted, rows, bounds
<1>0. /\ proc = "recovering" /\ worker.pc = "idle" /\ attempts[c] < MaxAttempts
      /\ jobStatus[c] = "running" /\ caseStatus[c] = ANALYZING
  BY DEF IInv, StatusesAgree
<1>1. TypeOK'
  BY DEF IInv, TypeOK, JobStatuses, ALL_STATUSES, TRANSITIONS, QUEUED
<1>2. WorkerInv'
  BY <1>0 DEF IInv, WorkerInv, IdleWorker
<1>3. AdminInv'
  BY <1>0, NotUp DEF AdminInv, AdminCallInv, Holds
<1>4. DispatchInv'
  BY <1>0, NotUp, QueueSame DEF IInv, TypeOK, DispatchInv, ABSENT
<1>5. EntryInv'
  BY <1>0 DEF IInv, TypeOK, EntryInv, QUEUED, ANALYZING, DLQ_INVESTIGATION
<1>6. AttemptsInv'
  BY <1>0 DEF IInv, TypeOK, AttemptsInv, ABSENT
<1>7. SingleDispatch'
  <2>1. \A d \in Cases : InOnePlace(d)'
    BY QueueSame, AdminSame DEF IInv, SingleDispatch, InOnePlace
  <2> QED BY <2>1, QueueSame, AdminSame DEF IInv, SingleDispatch
<1>8. StatusesAgree'
  BY <1>0 DEF IInv, TypeOK, StatusesAgree, LastEntry, QUEUED, ABSENT
<1>9. OneResult'
  BY <1>0 DEF IInv, TypeOK, OneResult
<1>10. RetryBudget'
  BY DEF IInv, RetryBudget
<1>11. ReviewInv'
  BY <1>0, ReviewNotUp
<1> QED BY <1>1, <1>2, <1>3, <1>4, <1>5, <1>6, <1>7, <1>8, <1>9, <1>10, <1>11 DEF IInv

(* _recover_running_job on a job that has no attempt left: its first commit. *)
LEMMA RecoverGiveUpStep ==
  ASSUME IInv, NEW c \in Cases, RecoverGiveUp(c)
  PROVE  IInv'
<1> USE DEF RecoverGiveUp, Interrupted, rows, bounds
<1>0. /\ proc = "recovering" /\ worker.pc = "idle" /\ attempts[c] >= MaxAttempts
      /\ jobStatus[c] = "running" /\ caseStatus[c] = ANALYZING
  BY DEF IInv, StatusesAgree
<1>1. TypeOK'
  BY DEF IInv, TypeOK, WorkerCalls, ErrorCategories, JobStatuses, ALL_STATUSES,
         TRANSITIONS, PROCESSING_FAILED
<1>2. WorkerInv'
  BY <1>0 DEF IInv, TypeOK, WorkerInv, MayRetry, RETRYABLE_CATEGORIES, UNKNOWN, TRANSIENT, RESOURCE
<1>3. AdminInv'
  BY <1>0, NotUp DEF AdminInv, AdminCallInv, Holds
<1>4. DispatchInv'
  BY <1>0, NotUp, QueueSame DEF IInv, TypeOK, DispatchInv, ABSENT
<1>5. EntryInv'
  BY <1>0 DEF IInv, TypeOK, EntryInv, PROCESSING_FAILED, ANALYZING, DLQ_INVESTIGATION
<1>6. AttemptsInv'
  BY <1>0 DEF IInv, TypeOK, AttemptsInv, ABSENT
<1>7. SingleDispatch'
  <2>1. \A d \in Cases : InOnePlace(d)'
    BY <1>0, NotUp, QueueSame, AdminSame DEF IInv, SingleDispatch, InOnePlace
  <2> QED BY <2>1, QueueSame, AdminSame DEF IInv, SingleDispatch
<1>8. StatusesAgree'
  BY <1>0 DEF IInv, TypeOK, StatusesAgree, LastEntry, PROCESSING_FAILED, ABSENT
<1>9. OneResult'
  BY <1>0 DEF IInv, TypeOK, OneResult
<1>10. RetryBudget'
  BY DEF IInv, RetryBudget
<1>11. ReviewInv'
  BY <1>0, ReviewNotUp
<1> QED BY <1>1, <1>2, <1>3, <1>4, <1>5, <1>6, <1>7, <1>8, <1>9, <1>10, <1>11 DEF IInv

-------------------------------------------------------------------------------
(* The dead-letter endpoints                                                 *)

(* An entry that is held is held by one request, and no other request is at  *)
(* its case.                                                                 *)
LEMMA HeldAlone ==
  ASSUME IInv, NEW a \in Admins, Holds(a)
  PROVE  \A b \in Admins \ {a} : admin[b].pc # "idle" => admin[b].job # admin[a].job
<1> SUFFICES ASSUME NEW b \in Admins \ {a}, admin[b].pc # "idle",
                    admin[b].job = admin[a].job
             PROVE  FALSE
  OBVIOUS
<1>1. CASE Holds(b)
  BY <1>1, HeldEntry DEF IInv, AdminInv
<1>2. CASE admin[b].pc = "redriven"
  BY <1>2, HeldEntry DEF IInv, AdminInv, AdminCallInv
<1> QED BY <1>1, <1>2 DEF Holds, IInv, TypeOK, AdminCalls

(* Writing resolution_status of one entry leaves every other entry, and the  *)
(* rest of that one, as they were.                                           *)
LEMMA ResolveEntry ==
  ASSUME TypeOK, NEW c \in Cases, NEW e \in DOMAIN dlq[c],
         NEW r \in {REDRIVEN, RESOLVED_CLOSED},
         dlq' = [dlq EXCEPT ![c][e].resolution = r]
  PROVE  /\ dlq' \in [Cases -> Seq(DLQEntries)]
         /\ \A d \in Cases : /\ DOMAIN dlq'[d] = DOMAIN dlq[d]
                             /\ Len(dlq'[d]) = Len(dlq[d])
                             /\ dlq'[d] = << >> <=> dlq[d] = << >>
         /\ \A d \in Cases \ {c} : dlq'[d] = dlq[d]
         /\ \A i \in DOMAIN dlq[c] \ {e} : dlq'[c][i] = dlq[c][i]
         /\ dlq'[c][e].resolution = r /\ r # INVESTIGATING
         /\ dlq'[c][e].category = dlq[c][e].category
         /\ dlq'[c][e].attempts = dlq[c][e].attempts
<1> DEFINE x == [dlq[c][e] EXCEPT !.resolution = r]
<1>1. /\ dlq[c] \in Seq(DLQEntries)
      /\ e \in 1..Len(dlq[c]) /\ dlq[c][e] \in DLQEntries
  BY LenProperties, ElementOfSeq DEF TypeOK
<1>2. x \in DLQEntries /\ x.resolution = r /\ x.category = dlq[c][e].category
      /\ x.attempts = dlq[c][e].attempts
  BY <1>1 DEF DLQEntries
<1>3. dlq'[c] = [dlq[c] EXCEPT ![e] = x] /\ \A d \in Cases \ {c} : dlq'[d] = dlq[d]
  BY DEF TypeOK
<1> HIDE DEF x
<1>4. /\ dlq'[c] \in Seq(DLQEntries)
      /\ Len(dlq'[c]) = Len(dlq[c])
      /\ \A i \in 1..Len(dlq[c]) : dlq'[c][i] = IF i = e THEN x ELSE dlq[c][i]
  BY <1>1, <1>2, <1>3, ExceptSeq
<1>5. DOMAIN dlq'[c] = DOMAIN dlq[c] /\ DOMAIN dlq[c] = 1..Len(dlq[c])
  BY <1>1, <1>4, LenProperties
<1>6. dlq'[c] = << >> <=> dlq[c] = << >>
  BY <1>1, <1>4, EmptySeq
<1>7. dlq' \in [Cases -> Seq(DLQEntries)]
  BY <1>3, <1>4 DEF TypeOK
<1>8. r # INVESTIGATING
  BY DEF INVESTIGATING, REDRIVEN, RESOLVED_CLOSED
<1> QED BY <1>2, <1>3, <1>4, <1>5, <1>6, <1>7, <1>8

(* A dead-letter request reads an entry FOR UPDATE.  This is the one step    *)
(* that needs the row lock: without it two requests hold one entry.          *)
LEMMA AdminOpenStep ==
  ASSUME RowLocks, IInv, NEW a \in Admins, NEW op \in {"redrive", "close"},
         NEW c \in Cases, NEW e \in DOMAIN dlq[c], AdminOpen(a, op, c, e)
  PROVE  IInv'
<1> USE DEF AdminOpen, rows, bounds
<1> DEFINE call == [pc |-> "entry", op |-> op, job |-> c, entry |-> e,
                    seen |-> ABSENT, tries |-> 0]
<1>a. /\ call \in AdminCalls /\ call.pc = "entry" /\ call.job = c /\ call.entry = e
      /\ admin \in [Admins -> AdminCalls]
      /\ admin' = [admin EXCEPT ![a] = call]
  BY LenProperties DEF IInv, TypeOK, AdminCalls
<1> HIDE DEF call
<1>b. /\ admin' \in [Admins -> AdminCalls] /\ RedrivenOnce'
      /\ \A d \in Cases : BeingRedriven(d)' => BeingRedriven(d)
  BY <1>a, AdminChanges DEF IInv, SingleDispatch
<1>1. TypeOK'
  BY <1>b DEF IInv, TypeOK
<1>2. AdminInv'
  <2>0. /\ \A b \in Admins \ {a} : admin'[b] = admin[b]
        /\ admin'[a] = call /\ call.pc = "entry" /\ call.job = c /\ call.entry = e
    BY <1>a
  <2>1. ASSUME NEW b \in Admins PROVE AdminCallInv(b)'
    <3>1. CASE b = a
      BY <2>0, <3>1 DEF AdminCallInv, Holds
    <3>2. CASE b # a
      BY <2>0, <3>2 DEF IInv, AdminInv, AdminCallInv, Holds
    <3> QED BY <3>1, <3>2
  <2>2. \A b \in Admins \ {a} : Holds(b) => admin[b].job # c
    BY DEF CaseUnlocked, Locks, Holds
  <2> QED BY <2>0, <2>1, <2>2 DEF IInv, AdminInv, Holds
<1>3. DispatchInv'
  BY QueueSame DEF IInv, DispatchInv
<1>4. SingleDispatch'
  <2>1. \A d \in Cases : InOnePlace(d)'
    BY <1>b, QueueSame DEF IInv, SingleDispatch, InOnePlace
  <2> QED BY <2>1, <1>b, QueueSame DEF IInv, SingleDispatch
<1>5. ReviewInv'
  <2>1. \A r \in Reviewers : Reviews(r) => reviews[r].case # c
    BY DEF CaseUnlocked, ReviewLocks, Reviews
  <2>2. \A b \in Admins : Holds(b)' =>
          \/ Holds(b) /\ admin'[b].job = admin[b].job
          \/ admin'[b].job = c
    BY <1>a DEF Holds
  <2> QED BY <2>1, <2>2 DEF IInv, ReviewInv, Reviews
<1> QED BY <1>1, <1>2, <1>3, <1>4, <1>5, RowsSame, WorkerInvSame DEF IInv

(* A closed case has no way out: its entry is neither redriven nor closed.   *)
LEMMA NoEdgeFromClosed ==
  ASSUME NEW op
  PROVE  ~IsValidTransition(CLOSED, Target(op))
  BY DEF IsValidTransition, TRANSITIONS, CLOSED

(* A dead-letter request reads the case and the job.                         *)
LEMMA AdminLoadStep ==
  ASSUME IInv, NEW a \in Admins, AdminLoad(a)
  PROVE  IInv'
<1> USE DEF AdminLoad, rows, bounds
<1> DEFINE c == admin[a].job
           call == [pc |-> "loaded", op |-> admin[a].op, job |-> c,
                    entry |-> admin[a].entry, seen |-> jobStatus[c],
                    tries |-> attempts[c]]
<1>0. /\ c \in Cases /\ jobStatus[c] = "failed" /\ attempts[c] > 0
      /\ attempts[c] \in Nat
      /\ caseStatus[c] = DLQ_INVESTIGATION
  BY HeldEntry, NoEdgeFromClosed DEF Holds, IInv, TypeOK, AttemptsInv
<1>a. /\ call \in AdminCalls /\ call.pc = "loaded" /\ call.job = c
      /\ call.entry = admin[a].entry /\ call.seen = "failed" /\ call.tries > 0
      /\ admin \in [Admins -> AdminCalls]
      /\ admin' = [admin EXCEPT ![a] = call]
  BY <1>0 DEF IInv, TypeOK, AdminCalls, JobStatuses
<1> HIDE DEF call
<1>b. /\ admin' \in [Admins -> AdminCalls] /\ RedrivenOnce'
      /\ \A d \in Cases : BeingRedriven(d)' => BeingRedriven(d)
  BY <1>a, AdminChanges DEF IInv, SingleDispatch
<1>1. TypeOK'
  BY <1>b DEF IInv, TypeOK
<1>2. AdminInv'
  <2>0. /\ \A b \in Admins \ {a} : admin'[b] = admin[b]
        /\ admin'[a] = call /\ call.pc = "loaded" /\ call.job = c
        /\ call.entry = admin[a].entry /\ Holds(a)
    BY <1>a DEF Holds
  <2>1. ASSUME NEW b \in Admins PROVE AdminCallInv(b)'
    <3>1. CASE b = a
      <4>1. /\ admin[a].entry \in DOMAIN dlq[c]
            /\ dlq[c][admin[a].entry].resolution = INVESTIGATING
            /\ proc = "up"
        BY <2>0, HeldEntry
      <4> HIDE DEF c
      <4> QED BY <2>0, <3>1, <4>1, <1>0, <1>a DEF AdminCallInv, Holds
    <3>2. CASE b # a
      BY <2>0, <3>2 DEF IInv, AdminInv, AdminCallInv, Holds
    <3> QED BY <3>1, <3>2
  <2> QED BY <2>0, <2>1 DEF IInv, AdminInv, Holds
<1>3. DispatchInv'
  BY QueueSame DEF IInv, DispatchInv
<1>4. SingleDispatch'
  <2>1. \A d \in Cases : InOnePlace(d)'
    BY <1>b, QueueSame DEF IInv, SingleDispatch, InOnePlace
  <2> QED BY <2>1, <1>b, QueueSame DEF IInv, SingleDispatch
<1>5. ReviewInv'
  <2>1. \A b \in Admins : Holds(b)' => Holds(b) /\ admin'[b].job = admin[b].job
    BY <1>a DEF Holds, c
  <2>2. \A r \in Reviewers : Reviews(r) => proc = "up"
    BY DEF IInv, ReviewInv
  <2> QED BY <2>1, <2>2, ReviewInvKept
<1> QED BY <1>1, <1>2, <1>3, <1>4, <1>5, RowsSame, WorkerInvSame DEF IInv

(* A request that ends: it holds nothing any more, the others hold what they *)
(* held.                                                                     *)
LEMMA AdminEnds ==
  ASSUME IInv, NEW a \in Admins, admin' = [admin EXCEPT ![a] = IdleAdmin]
  PROVE  /\ admin' \in [Admins -> AdminCalls]
         /\ RedrivenOnce'
         /\ \A d \in Cases : BeingRedriven(d)' => BeingRedriven(d)
         /\ admin'[a].pc = "idle"
         /\ \A b \in Admins \ {a} : admin'[b] = admin[b]
         /\ \A d \in Cases : admin[a].pc = "redriven" /\ admin[a].job = d
                               => ~BeingRedriven(d)'
<1>1. IdleAdmin \in AdminCalls /\ IdleAdmin.pc = "idle"
  BY DEF IdleAdmin, AdminCalls
<1>2. admin \in [Admins -> AdminCalls] /\ RedrivenOnce
  BY DEF IInv, TypeOK, SingleDispatch
<1>3. /\ admin' \in [Admins -> AdminCalls] /\ RedrivenOnce'
      /\ \A d \in Cases : BeingRedriven(d)' => BeingRedriven(d)
  BY <1>1, <1>2, AdminChanges
<1>4. admin'[a].pc = "idle" /\ \A b \in Admins \ {a} : admin'[b] = admin[b]
  BY <1>1, <1>2
<1> QED BY <1>2, <1>3, <1>4 DEF BeingRedriven, RedrivenOnce

(* When a request ends, what the other requests have read stays true.        *)
LEMMA AdminEndsInv ==
  ASSUME IInv, NEW a \in Admins, admin'[a].pc = "idle",
         \A b \in Admins \ {a} : admin'[b] = admin[b],
         \A b \in Admins \ {a} : admin[b].pc # "idle" =>
           /\ dlq'[admin[b].job] = dlq[admin[b].job]
           /\ jobStatus'[admin[b].job] = jobStatus[admin[b].job]
           /\ caseStatus'[admin[b].job] = caseStatus[admin[b].job],
         proc' = proc
  PROVE  AdminInv'
<1>1. ASSUME NEW b \in Admins PROVE AdminCallInv(b)'
  <2>1. CASE b = a
    BY <2>1 DEF AdminCallInv, Holds
  <2>2. CASE b # a
    BY <2>2 DEF IInv, AdminInv, AdminCallInv, Holds
  <2> QED BY <2>1, <2>2
<1> QED BY <1>1 DEF IInv, AdminInv, Holds

(* When a request ends, what the reviewers have read stays true.             *)
LEMMA AdminEndsReviews ==
  ASSUME IInv, NEW a \in Admins, admin'[a].pc = "idle",
         \A b \in Admins \ {a} : admin'[b] = admin[b],
         UNCHANGED <<reviews, caseStatus, proc>>
  PROVE  ReviewInv'
<1>1. \A b \in Admins : Holds(b)' => Holds(b) /\ admin'[b].job = admin[b].job
  BY DEF Holds
<1>2. \A r \in Reviewers : Reviews(r) => proc = "up"
  BY DEF IInv, ReviewInv
<1> QED BY <1>1, <1>2, ReviewInvKept

(* A dead-letter request ends without a commit.                              *)
LEMMA AdminAbortsStep ==
  ASSUME IInv, NEW a \in Admins, AdminAborts(a)
  PROVE  IInv'
<1> USE DEF AdminAborts, rows, bounds
<1>1. TypeOK'
  BY AdminEnds DEF IInv, TypeOK
<1>2. AdminInv'
  BY AdminEnds, AdminEndsInv
<1>3. DispatchInv'
  BY QueueSame DEF IInv, DispatchInv
<1>4. SingleDispatch'
  <2>1. \A d \in Cases : InOnePlace(d)'
    BY AdminEnds, QueueSame DEF IInv, SingleDispatch, InOnePlace
  <2> QED BY <2>1, AdminEnds, QueueSame DEF IInv, SingleDispatch
<1>5. ReviewInv'
  BY AdminEnds, AdminEndsReviews
<1> QED BY <1>1, <1>2, <1>3, <1>4, <1>5, RowsSame, WorkerInvSame DEF IInv

(* The redrive endpoint enqueues the job it has committed.                   *)
LEMMA RedriveEnqueueStep ==
  ASSUME IInv, NEW a \in Admins, RedriveEnqueue(a)
  PROVE  IInv'
<1> USE DEF RedriveEnqueue, rows, bounds
<1> DEFINE c == admin[a].job
<1>0. /\ c \in Cases /\ BeingRedriven(c) /\ proc = "up" /\ jobStatus[c] = "queued"
      /\ ~InQueue(c) /\ timers[c] = 0 /\ worker.job # c /\ submit[c] # "committed"
  BY AdminJob, Dispatched DEF IInv, SingleDispatch, InOnePlace, BeingRedriven
<1>q. /\ queue' \in Seq(Cases) /\ QueuedOnce'
      /\ \A d \in Cases : InQueue(d)' <=> InQueue(d) \/ d = c
  BY <1>0, QueueAppend DEF IInv, TypeOK, SingleDispatch
<1>e. /\ admin' \in [Admins -> AdminCalls] /\ RedrivenOnce'
      /\ \A d \in Cases : BeingRedriven(d)' => BeingRedriven(d) /\ d # c
  BY <1>0, AdminEnds
<1>1. TypeOK'
  BY <1>q, <1>e DEF IInv, TypeOK
<1>2. AdminInv'
  BY AdminEnds, AdminEndsInv
<1> HIDE DEF c
<1>3. DispatchInv'
  BY <1>0, <1>q DEF IInv, DispatchInv
<1>4. SingleDispatch'
  <2>1. \A d \in Cases : InOnePlace(d)'
    BY <1>0, <1>q, <1>e DEF IInv, SingleDispatch, InOnePlace
  <2> QED BY <2>1, <1>q, <1>e DEF IInv, SingleDispatch
<1>5. ReviewInv'
  BY AdminEnds, AdminEndsReviews
<1> QED BY <1>1, <1>2, <1>3, <1>4, <1>5, RowsSame, WorkerInvSame DEF IInv

(* The redrive endpoint raises after its commit: the job is not enqueued.    *)
LEMMA RedriveFaultStep ==
  ASSUME IInv, NEW a \in Admins, RedriveFault(a)
  PROVE  IInv'
<1> USE DEF RedriveFault, Fault, rows, bounds
<1>1. TypeOK'
  <2>1. faults' \in 0..MaxFaults
    BY JobQueueAssumption DEF IInv, TypeOK
  <2> QED BY <2>1, AdminEnds DEF IInv, TypeOK
<1>2. AdminInv'
  BY AdminEnds, AdminEndsInv
<1>3. DispatchInv'
  BY QueueSame DEF IInv, DispatchInv
<1>4. SingleDispatch'
  <2>1. \A d \in Cases : InOnePlace(d)'
    BY AdminEnds, QueueSame DEF IInv, SingleDispatch, InOnePlace
  <2> QED BY <2>1, AdminEnds, QueueSame DEF IInv, SingleDispatch
<1>5. ReviewInv'
  BY AdminEnds, AdminEndsReviews
<1> QED BY <1>1, <1>2, <1>3, <1>4, <1>5, RowsSame, WorkerInvSame DEF IInv

(* The commit of redrive_dlq_entry.                                          *)
LEMMA RedriveCommitStep ==
  ASSUME IInv, NEW a \in Admins, RedriveCommit(a)
  PROVE  IInv'
<1> DEFINE c == admin[a].job
           e == admin[a].entry
           call == [pc |-> "redriven", op |-> "redrive", job |-> c,
                    entry |-> 0, seen |-> ABSENT, tries |-> 0]
<1>h. /\ admin[a].pc = "loaded" /\ admin[a].seen = "failed" /\ admin[a].tries # 0
      /\ c \in Cases /\ e \in DOMAIN dlq[c] /\ e = Len(dlq[c]) /\ proc = "up"
      /\ jobStatus[c] = "failed" /\ caseStatus[c] = DLQ_INVESTIGATION
      /\ \A b \in Admins \ {a} : admin[b].pc # "idle" => admin[b].job # c
  <2>1. admin[a].pc = "loaded" /\ Holds(a)
    BY DEF RedriveCommit, Holds
  <2>2. admin[a].seen = "failed" /\ admin[a].tries > 0 /\ admin[a].tries \in Nat
    BY <2>1 DEF IInv, TypeOK, AdminCalls, AdminInv, AdminCallInv
  <2>3. admin[a].tries # 0
    BY <2>2
  <2> QED BY <2>1, <2>2, <2>3, HeldEntry, HeldAlone
<1>s. /\ caseStatus' = [caseStatus EXCEPT ![c] = QUEUED]
      /\ jobStatus' = [jobStatus EXCEPT ![c] = "queued"]
      /\ attempts' = [attempts EXCEPT ![c] = 0]
      /\ dlq' = [dlq EXCEPT ![c][e].resolution = REDRIVEN]
      /\ admin' = [admin EXCEPT ![a] = call]
      /\ UNCHANGED <<results, proc, queue, timers, worker, gauge, submit,
                     reviews, crashes, faults>>
  BY <1>h DEF RedriveCommit, bounds
<1>c. /\ call \in AdminCalls /\ call.pc = "redriven" /\ call.job = c
  BY <1>h DEF AdminCalls
<1>d. /\ dlq' \in [Cases -> Seq(DLQEntries)]
      /\ \A d \in Cases : /\ DOMAIN dlq'[d] = DOMAIN dlq[d]
                          /\ Len(dlq'[d]) = Len(dlq[d])
                          /\ dlq'[d] = << >> <=> dlq[d] = << >>
      /\ \A d \in Cases \ {c} : dlq'[d] = dlq[d]
      /\ \A i \in DOMAIN dlq[c] \ {e} : dlq'[c][i] = dlq[c][i]
      /\ dlq'[c][e].resolution = REDRIVEN /\ REDRIVEN # INVESTIGATING
      /\ dlq'[c][e].category = dlq[c][e].category
      /\ dlq'[c][e].attempts = dlq[c][e].attempts
  <2> HIDE DEF c, e
  <2>1. TypeOK /\ REDRIVEN \in {REDRIVEN, RESOLVED_CLOSED}
    BY DEF IInv
  <2>2. c \in Cases /\ e \in DOMAIN dlq[c] /\ dlq' = [dlq EXCEPT ![c][e].resolution = REDRIVEN]
    BY <1>h, <1>s
  <2> QED BY <2>1, <2>2, ResolveEntry, Zenon
<1>o. /\ ~InQueue(c) /\ timers[c] = 0 /\ submit[c] # "committed" /\ ~BeingRedriven(c)
      /\ worker.job # c
      /\ submit[c] \notin {"none", "acquired"}
  <2>1. worker.job # c
    BY <1>h, Dispatched, WorkersJob DEF PROCESSING_FAILED, DLQ_INVESTIGATION
  <2> QED BY <2>1, <1>h, Dispatched DEF IInv, DispatchInv, ABSENT
<1> HIDE DEF c, e, call
<1>b. /\ admin \in [Admins -> AdminCalls]
      /\ admin' \in [Admins -> AdminCalls] /\ admin'[a] = call
      /\ \A b \in Admins \ {a} : admin'[b] = admin[b]
  BY <1>c, <1>s DEF IInv, TypeOK
<1>r. /\ \A d \in Cases \ {c} : BeingRedriven(d)' => BeingRedriven(d)
      /\ RedrivenOnce'
  BY <1>b, <1>c, <1>h DEF IInv, SingleDispatch, RedrivenOnce, BeingRedriven
<1>1. TypeOK'
  BY <1>b, <1>d, <1>h, <1>s DEF IInv, TypeOK, JobStatuses, ALL_STATUSES, TRANSITIONS, QUEUED
<1>2. WorkerInv'
  <2>1. ASSUME worker.pc # "idle"
        PROVE  /\ worker.job \in Cases \ {c}
               /\ jobStatus'[worker.job] = jobStatus[worker.job]
               /\ caseStatus'[worker.job] = caseStatus[worker.job]
               /\ attempts'[worker.job] = attempts[worker.job]
    BY <2>1, <1>o, <1>s, WorkersJob DEF IInv, TypeOK
  <2> QED BY <2>1, <1>s DEF IInv, WorkerInv, MayRetry
<1>3. AdminInv'
  <2>3. jobStatus'[c] = "queued" /\ \A d \in Cases \ {c} : /\ jobStatus'[d] = jobStatus[d]
                                                       /\ caseStatus'[d] = caseStatus[d]
    BY <1>h, <1>s DEF IInv, TypeOK
  <2>4. \A b \in Admins \ {a} : admin[b].pc # "idle" =>
           /\ admin[b].job \in Cases \ {c}
           /\ dlq'[admin[b].job] = dlq[admin[b].job]
           /\ jobStatus'[admin[b].job] = jobStatus[admin[b].job]
           /\ caseStatus'[admin[b].job] = caseStatus[admin[b].job]
    BY <2>3, <1>h, <1>d, AdminJob
  <2>1. ASSUME NEW b \in Admins PROVE AdminCallInv(b)'
    <3>1. CASE b = a
      BY <2>3, <3>1, <1>b, <1>c, <1>h, <1>s DEF AdminCallInv, Holds
    <3>2. CASE b # a
      BY <2>4, <3>2, <1>b, <1>s DEF IInv, AdminInv, AdminCallInv, Holds
    <3> QED BY <3>1, <3>2
  <2> QED BY <2>1, <1>b, <1>c DEF IInv, AdminInv, Holds
<1>4. DispatchInv'
  BY <1>h, <1>o, <1>s, QueueSame DEF IInv, TypeOK, DispatchInv, ABSENT
<1>5. EntryInv'
  <2> SUFFICES ASSUME NEW d \in Cases
               PROVE  /\ \A i \in DOMAIN dlq'[d] :
                           dlq'[d][i].resolution = INVESTIGATING =>
                             /\ i = Len(dlq'[d])
                             /\ caseStatus'[d] \in {DLQ_INVESTIGATION, CLOSED}
                             /\ jobStatus'[d] = "failed"
                      /\ caseStatus'[d] = DLQ_INVESTIGATION => jobStatus'[d] = "failed"
    BY DEF EntryInv
  <2>1. CASE d = c
    BY <2>1, <1>d, <1>h, <1>s DEF IInv, TypeOK, EntryInv, QUEUED, DLQ_INVESTIGATION
  <2>2. CASE d # c
    BY <2>2, <1>d, <1>s DEF IInv, TypeOK, EntryInv
  <2> QED BY <2>1, <2>2
<1>6. AttemptsInv'
  BY <1>h, <1>s, JobQueueAssumption DEF IInv, TypeOK, AttemptsInv, ABSENT
<1>7. SingleDispatch'
  <2>1. \A d \in Cases : InOnePlace(d)'
    BY <1>o, <1>r, <1>s, QueueSame DEF IInv, SingleDispatch, InOnePlace
  <2> QED BY <2>1, <1>r, <1>s, QueueSame DEF IInv, SingleDispatch
<1>8. StatusesAgree'
  <2>1. /\ jobStatus'[c] = "queued" /\ caseStatus'[c] = QUEUED
        /\ \A d \in Cases \ {c} : /\ jobStatus'[d] = jobStatus[d]
                                 /\ caseStatus'[d] = caseStatus[d]
    BY <1>h, <1>s DEF IInv, TypeOK
  <2>2. \A i \in DOMAIN dlq'[c] : dlq'[c][i].resolution # RESOLVED_CLOSED
    BY <1>d, <1>h DEF IInv, StatusesAgree, DLQ_INVESTIGATION, CLOSED, REDRIVEN,
       RESOLVED_CLOSED
  <2>3. StatusesAgree
    BY DEF IInv
  <2> QED BY <1>d, <2>1, <2>2, <2>3 DEF StatusesAgree, LastEntry, QUEUED, ABSENT
<1>9. OneResult'
  BY <1>h, <1>s DEF IInv, TypeOK, OneResult
<1>10. RetryBudget'
  <2> SUFFICES ASSUME NEW d \in Cases
               PROVE  /\ attempts'[d] <= MaxAttempts
                      /\ \A i \in DOMAIN dlq'[d] :
                           /\ dlq'[d][i].attempts \in 1..MaxAttempts
                           /\ dlq'[d][i].category \in RETRYABLE_CATEGORIES
                                => dlq'[d][i].attempts = MaxAttempts
    BY DEF RetryBudget
  <2>1. attempts'[d] <= MaxAttempts
    BY <1>s, JobQueueAssumption DEF IInv, TypeOK, RetryBudget
  <2>2. \A i \in DOMAIN dlq'[d] : /\ dlq'[d][i].attempts = dlq[d][i].attempts
                                  /\ dlq'[d][i].category = dlq[d][i].category
                                  /\ i \in DOMAIN dlq[d]
    BY <1>d
  <2> QED BY <2>1, <2>2 DEF IInv, RetryBudget
<1>11. ReviewInv'
  <2>1. /\ \A r \in Reviewers : Reviews(r) =>
               proc = "up" /\ reviews[r].case \in Cases \ {c}
        /\ \A d \in Cases \ {c} : caseStatus'[d] = caseStatus[d]
    BY <1>h, <1>s DEF IInv, TypeOK, ReviewInv, Reviews, Holds, c
  <2>2. \A b \in Admins : Holds(b)' => Holds(b) /\ admin'[b].job = admin[b].job
    BY <1>b, <1>c DEF Holds
  <2> QED BY <1>s, <2>1, <2>2, ReviewInvKept
<1> QED BY <1>1, <1>2, <1>3, <1>4, <1>5, <1>6, <1>7, <1>8, <1>9, <1>10, <1>11 DEF IInv

(* The commit of close_dlq_entry_as_invalid.                                 *)
LEMMA CloseCommitStep ==
  ASSUME IInv, NEW a \in Admins, CloseCommit(a)
  PROVE  IInv'
<1> DEFINE c == admin[a].job
           e == admin[a].entry
<1>h. /\ admin[a].pc = "loaded"
      /\ c \in Cases /\ e \in DOMAIN dlq[c] /\ e = Len(dlq[c]) /\ proc = "up"
      /\ jobStatus[c] = "failed" /\ caseStatus[c] = DLQ_INVESTIGATION
      /\ \A b \in Admins \ {a} : admin[b].pc # "idle" => admin[b].job # c
  BY HeldEntry, HeldAlone DEF CloseCommit, Holds
<1>s. /\ caseStatus' = [caseStatus EXCEPT ![c] = CLOSED]
      /\ dlq' = [dlq EXCEPT ![c][e].resolution = RESOLVED_CLOSED]
      /\ admin' = [admin EXCEPT ![a] = IdleAdmin]
      /\ UNCHANGED <<jobStatus, attempts, results, proc, queue, timers, worker, gauge,
                     submit, reviews, crashes, faults>>
  BY DEF CloseCommit, bounds
<1>d. /\ dlq' \in [Cases -> Seq(DLQEntries)]
      /\ \A d \in Cases : /\ DOMAIN dlq'[d] = DOMAIN dlq[d]
                          /\ Len(dlq'[d]) = Len(dlq[d])
                          /\ dlq'[d] = << >> <=> dlq[d] = << >>
      /\ \A d \in Cases \ {c} : dlq'[d] = dlq[d]
      /\ \A i \in DOMAIN dlq[c] \ {e} : dlq'[c][i] = dlq[c][i]
      /\ dlq'[c][e].resolution = RESOLVED_CLOSED /\ RESOLVED_CLOSED # INVESTIGATING
      /\ dlq'[c][e].category = dlq[c][e].category
      /\ dlq'[c][e].attempts = dlq[c][e].attempts
  <2> HIDE DEF c, e
  <2>1. TypeOK /\ RESOLVED_CLOSED \in {REDRIVEN, RESOLVED_CLOSED}
    BY DEF IInv
  <2>2. c \in Cases /\ e \in DOMAIN dlq[c] /\ dlq' = [dlq EXCEPT ![c][e].resolution = RESOLVED_CLOSED]
    BY <1>h, <1>s
  <2> QED BY <2>1, <2>2, ResolveEntry, Zenon
<1>o. worker.job # c
  BY <1>h, Dispatched, WorkersJob DEF PROCESSING_FAILED, DLQ_INVESTIGATION
<1>b. /\ admin' \in [Admins -> AdminCalls] /\ RedrivenOnce'
      /\ \A d \in Cases : BeingRedriven(d)' => BeingRedriven(d)
      /\ admin'[a].pc = "idle"
      /\ \A b \in Admins \ {a} : admin'[b] = admin[b]
  BY <1>s, AdminEnds
<1> HIDE DEF c, e
<1>1. TypeOK'
  BY <1>b, <1>d, <1>s DEF IInv, TypeOK, ALL_STATUSES, TRANSITIONS, CLOSED
<1>2. WorkerInv'
  BY <1>o, <1>s DEF IInv, TypeOK, WorkerInv, MayRetry
<1>3. AdminInv'
  BY <1>b, <1>d, <1>h, <1>s, AdminJob, AdminEndsInv
<1>4. DispatchInv'
  BY <1>s, QueueSame DEF IInv, DispatchInv
<1>5. EntryInv'
  <2> SUFFICES ASSUME NEW d \in Cases
               PROVE  /\ \A i \in DOMAIN dlq'[d] :
                           dlq'[d][i].resolution = INVESTIGATING =>
                             /\ i = Len(dlq'[d])
                             /\ caseStatus'[d] \in {DLQ_INVESTIGATION, CLOSED}
                             /\ jobStatus'[d] = "failed"
                      /\ caseStatus'[d] = DLQ_INVESTIGATION => jobStatus'[d] = "failed"
    BY DEF EntryInv
  <2>1. CASE d = c
    BY <2>1, <1>d, <1>h, <1>s DEF IInv, TypeOK, EntryInv, CLOSED, DLQ_INVESTIGATION
  <2>2. CASE d # c
    BY <2>2, <1>d, <1>s DEF IInv, TypeOK, EntryInv
  <2> QED BY <2>1, <2>2
<1>6. AttemptsInv'
  BY <1>s DEF IInv, AttemptsInv
<1>7. SingleDispatch'
  <2>1. \A d \in Cases : InOnePlace(d)'
    BY <1>b, <1>s, QueueSame DEF IInv, SingleDispatch, InOnePlace
  <2> QED BY <2>1, <1>b, <1>s, QueueSame DEF IInv, SingleDispatch
<1>8. StatusesAgree'
  <2>1. /\ jobStatus'[c] = "failed" /\ caseStatus'[c] = CLOSED /\ dlq'[c] # << >>
        /\ dlq'[c][Len(dlq'[c])].resolution = RESOLVED_CLOSED
        /\ \A d \in Cases \ {c} : caseStatus'[d] = caseStatus[d]
    BY <1>d, <1>h, <1>s, EmptySeq DEF IInv, TypeOK
  <2>2. \A i \in DOMAIN dlq'[c] : dlq'[c][i].resolution = RESOLVED_CLOSED => i = Len(dlq'[c])
    BY <1>d, <1>h DEF IInv, StatusesAgree, DLQ_INVESTIGATION, CLOSED
  <2>3. StatusesAgree /\ RESOLVED_CLOSED # REDRIVEN
    BY DEF IInv, RESOLVED_CLOSED, REDRIVEN
  <2> QED BY <1>d, <1>s, <2>1, <2>2, <2>3 DEF StatusesAgree, LastEntry, CLOSED, ABSENT
<1>9. OneResult'
  BY <1>s DEF IInv, OneResult
<1>10. RetryBudget'
  <2> SUFFICES ASSUME NEW d \in Cases
               PROVE  /\ attempts'[d] <= MaxAttempts
                      /\ \A i \in DOMAIN dlq'[d] :
                           /\ dlq'[d][i].attempts \in 1..MaxAttempts
                           /\ dlq'[d][i].category \in RETRYABLE_CATEGORIES
                                => dlq'[d][i].attempts = MaxAttempts
    BY DEF RetryBudget
  <2>1. \A i \in DOMAIN dlq'[d] : /\ dlq'[d][i].attempts = dlq[d][i].attempts
                                  /\ dlq'[d][i].category = dlq[d][i].category
                                  /\ i \in DOMAIN dlq[d]
    BY <1>d
  <2> QED BY <2>1, <1>s DEF IInv, RetryBudget
<1>11. ReviewInv'
  <2>1. /\ \A r \in Reviewers : Reviews(r) =>
               proc = "up" /\ reviews[r].case \in Cases \ {c}
        /\ \A d \in Cases \ {c} : caseStatus'[d] = caseStatus[d]
    BY <1>h, <1>s DEF IInv, TypeOK, ReviewInv, Reviews, Holds, c
  <2>2. \A b \in Admins : Holds(b)' => Holds(b) /\ admin'[b].job = admin[b].job
    BY <1>b DEF Holds
  <2> QED BY <1>s, <2>1, <2>2, ReviewInvKept
<1> QED BY <1>1, <1>2, <1>3, <1>4, <1>5, <1>6, <1>7, <1>8, <1>9, <1>10, <1>11 DEF IInv

-------------------------------------------------------------------------------
(* submit_decision                                                           *)

(* Which statuses have an edge a decision may take.                          *)
LEMMA DecisionEdges ==
  ASSUME NEW status \in ALL_STATUSES, NEW new \in Decided,
         IsValidTransition(status, new)
  PROVE  \/ status = UNDER_REVIEW
         \/ new = CLOSED /\ status \in {VALIDATION_FAILED, DLQ_INVESTIGATION}
  BY DEF ALL_STATUSES, TRANSITIONS, IsValidTransition, Decided, SUBMITTED, VALIDATING, PRIVACY_PROCESSING,
         QUEUED, ANALYZING, READY_FOR_REVIEW, UNDER_REVIEW, REFERRED, CLOSED,
         MORE_INFO_REQUIRED, VALIDATION_FAILED, PROCESSING_FAILED, DLQ_INVESTIGATION

(* Where a decision leaves the case: a valid path of one status changes      *)
(* nothing, a longer one ends under review or decided.                       *)
LEMMA DecisionMoves ==
  ASSUME NEW status \in ALL_STATUSES, NEW decision_type \in DECISION_TYPES,
         NEW path, path = StatusPath(status, decision_type),
         IsValidPath(path), Len(path) # 1
  PROVE  LET new == path[Len(path)]
         IN  \/ status = READY_FOR_REVIEW /\ new \in {UNDER_REVIEW} \cup Decided
             \/ status = UNDER_REVIEW /\ new \in Decided
             \/ status \in {VALIDATION_FAILED, DLQ_INVESTIGATION} /\ new = CLOSED
<1> DEFINE X == STATUS_BY_DECISION[decision_type]
<1>s. READY_FOR_REVIEW \in ALL_STATUSES /\ UNDER_REVIEW \in ALL_STATUSES
  BY DEF ALL_STATUSES, TRANSITIONS, READY_FOR_REVIEW, UNDER_REVIEW
<1>x. decision_type # "monitor" => X \in Decided
  BY DEF DECISION_TYPES, STATUS_BY_DECISION, Decided
<1>1. CASE decision_type = "monitor" /\ status = READY_FOR_REVIEW
  <2>1. path = << status, UNDER_REVIEW >>
    BY <1>1 DEF StatusPath
  <2> QED BY <1>1, <2>1
<1>2. CASE decision_type = "monitor" /\ status # READY_FOR_REVIEW
  <2>1. path = << status >>
    BY <1>2 DEF StatusPath
  <2> QED BY <2>1
<1>3. CASE decision_type # "monitor" /\ status = READY_FOR_REVIEW
  <2>1. path = Append(<< status, UNDER_REVIEW >>, X)
    BY <1>3 DEF StatusPath
  <2> HIDE DEF X
  <2>2. Len(path) = 3 /\ path[3] = X
    BY <2>1
  <2> QED BY <1>3, <1>x, <2>2
<1>4. CASE decision_type # "monitor" /\ status # READY_FOR_REVIEW
  <2>1. path = Append(<< status >>, X)
    BY <1>4 DEF StatusPath
  <2> HIDE DEF X
  <2>2. Len(path) = 2 /\ path[1] = status /\ path[2] = X
    BY <2>1
  <2>3. IsValidTransition(status, X)
    BY <2>2 DEF IsValidPath
  <2> QED BY <1>4, <1>x, <2>2, <2>3, DecisionEdges
<1> QED BY <1>1, <1>2, <1>3, <1>4

(* What a reviewer's commit writes: nothing, or the edges of a decision on   *)
(* the case's own status.                                                    *)
LEMMA DecisionWrites ==
  ASSUME IInv, NEW r \in Reviewers, NEW decision_type \in DECISION_TYPES,
         ReviewCommit(r, decision_type)
  PROVE  LET c == reviews[r].case IN
         /\ c \in Cases /\ Reviews(r) /\ proc = "up"
         /\ \A a \in Admins : Holds(a) => admin[a].job # c
         /\ UNCHANGED <<jobStatus, attempts, results, dlq, proc, queue, timers, worker,
                        gauge, submit, admin, crashes, faults>>
         /\ reviews' = [reviews EXCEPT ![r] = NoReview]
         /\ \/ caseStatus' = caseStatus
            \/ \E new \in {UNDER_REVIEW} \cup Decided :
                 /\ caseStatus' = [caseStatus EXCEPT ![c] = new]
                 /\ \/ /\ caseStatus[c] \in {READY_FOR_REVIEW, UNDER_REVIEW}
                       /\ jobStatus[c] = "succeeded"
                       /\ new # UNDER_REVIEW \/ caseStatus[c] = READY_FOR_REVIEW
                    \/ /\ caseStatus[c] = DLQ_INVESTIGATION
                       /\ jobStatus[c] = "failed"
                       /\ new = CLOSED
<1> DEFINE c == reviews[r].case
           path == StatusPath(reviews[r].seen, decision_type)
           new == path[Len(path)]
<1>1. /\ c \in Cases /\ Reviews(r) /\ proc = "up"
      /\ reviews[r].seen = caseStatus[c] /\ caseStatus[c] # ABSENT
      /\ \A a \in Admins : Holds(a) => admin[a].job # c
  BY DEF ReviewCommit, Reviews, IInv, ReviewInv
<1>2. /\ caseStatus[c] \in ALL_STATUSES
      /\ jobStatus[c] \in JobStatuses
      /\ caseStatus \in [Cases -> ALL_STATUSES \cup {ABSENT}]
  BY <1>1 DEF IInv, TypeOK, StatusesAgree
<1>3. /\ IsValidPath(path)
      /\ caseStatus' = [caseStatus EXCEPT ![c] = IF Len(path) = 1 THEN @ ELSE new]
      /\ UNCHANGED <<jobStatus, attempts, results, dlq, proc, queue, timers, worker,
                     gauge, submit, admin, crashes, faults>>
      /\ reviews' = [reviews EXCEPT ![r] = NoReview]
  BY DEF ReviewCommit, bounds
<1>4. CASE Len(path) = 1
  <2>1. caseStatus' = caseStatus
    BY <1>2, <1>3, <1>4
  <2> QED BY <1>1, <1>3, <2>1
<1>5. CASE Len(path) # 1
  <2>1. \/ caseStatus[c] = READY_FOR_REVIEW /\ new \in {UNDER_REVIEW} \cup Decided
        \/ caseStatus[c] = UNDER_REVIEW /\ new \in Decided
        \/ caseStatus[c] \in {VALIDATION_FAILED, DLQ_INVESTIGATION} /\ new = CLOSED
    <3> HIDE DEF path
    <3>1. path = StatusPath(caseStatus[c], decision_type)
      BY <1>1 DEF path
    <3> QED BY <1>2, <1>3, <1>5, <3>1, DecisionMoves
  <2> HIDE DEF path, new
  <2>2. caseStatus' = [caseStatus EXCEPT ![c] = new]
    BY <1>3, <1>5
  <2>3. /\ caseStatus[c] # VALIDATION_FAILED
        /\ caseStatus[c] \in {READY_FOR_REVIEW, UNDER_REVIEW} => jobStatus[c] = "succeeded"
        /\ caseStatus[c] = DLQ_INVESTIGATION => jobStatus[c] = "failed"
    BY <1>1, <1>2 DEF IInv, StatusesAgree, JobStatuses, Decided, QUEUED, ANALYZING,
         READY_FOR_REVIEW, UNDER_REVIEW, REFERRED, CLOSED, MORE_INFO_REQUIRED,
         PROCESSING_FAILED, DLQ_INVESTIGATION, VALIDATION_FAILED
  <2>4. new \in {UNDER_REVIEW} \cup Decided
    BY <2>1 DEF Decided
  <2>5. UNDER_REVIEW \notin Decided /\ CLOSED # UNDER_REVIEW
    BY DEF Decided, UNDER_REVIEW, REFERRED, CLOSED, MORE_INFO_REQUIRED
  <2>6. \/ /\ caseStatus[c] \in {READY_FOR_REVIEW, UNDER_REVIEW}
           /\ jobStatus[c] = "succeeded"
           /\ new # UNDER_REVIEW \/ caseStatus[c] = READY_FOR_REVIEW
        \/ /\ caseStatus[c] = DLQ_INVESTIGATION
           /\ jobStatus[c] = "failed"
           /\ new = CLOSED
    BY <2>1, <2>3, <2>5
  <2> QED BY <1>1, <1>3, <2>2, <2>4, <2>6
<1> QED BY <1>4, <1>5

(* A reviewer that begins, or ends, changes no row.                          *)
LEMMA ReviewMemoryStep ==
  ASSUME IInv, UNCHANGED <<rows, proc, queue, timers, worker, gauge, submit, admin, bounds>>,
         reviews' \in [Reviewers -> ReviewCalls], ReviewInv'
  PROVE  IInv'
<1> USE DEF rows, bounds
<1>1. TypeOK'
  BY DEF IInv, TypeOK
<1>2. DispatchInv'
  BY QueueSame DEF IInv, DispatchInv
<1>3. SingleDispatch'
  <2>1. \A d \in Cases : InOnePlace(d)'
    BY QueueSame, AdminSame DEF IInv, SingleDispatch, InOnePlace
  <2> QED BY <2>1, QueueSame, AdminSame DEF IInv, SingleDispatch
<1> QED BY <1>1, <1>2, <1>3, RowsSame, AdminInvSame, WorkerInvSame DEF IInv

(* A reviewer reads a case FOR UPDATE: nobody else's transaction is at it.   *)
LEMMA ReviewLoadStep ==
  ASSUME RowLocks, IInv, NEW r \in Reviewers, NEW c \in Cases, ReviewLoad(r, c)
  PROVE  IInv'
<1> DEFINE call == [pc |-> "loaded", case |-> c, seen |-> caseStatus[c]]
<1>1. /\ reviews \in [Reviewers -> ReviewCalls]
      /\ reviews' = [reviews EXCEPT ![r] = call]
      /\ UNCHANGED <<rows, proc, queue, timers, worker, gauge, submit, admin, bounds>>
      /\ proc = "up" /\ caseStatus[c] # ABSENT
  BY DEF ReviewLoad, IInv, TypeOK
<1>2. call \in ReviewCalls /\ call.pc = "loaded" /\ call.case = c /\ call.seen = caseStatus[c]
  BY DEF ReviewCalls, IInv, TypeOK
<1> HIDE DEF call
<1>3. /\ reviews' \in [Reviewers -> ReviewCalls]
      /\ reviews'[r] = call /\ \A q \in Reviewers \ {r} : reviews'[q] = reviews[q]
  BY <1>1, <1>2
<1>4. /\ \A a \in Admins : Holds(a) => admin[a].job # c
      /\ \A q \in Reviewers : Reviews(q) => reviews[q].case # c
  BY DEF ReviewLoad, CaseUnlocked, Locks, ReviewLocks, Holds, Reviews
<1>5. ReviewInv'
  <2>1. \A a \in Admins : Holds(a)' <=> Holds(a)
    BY <1>1 DEF Holds
  <2>2. \A q \in Reviewers \ {r} : Reviews(q)' <=> Reviews(q)
    BY <1>3 DEF Reviews
  <2> QED BY <1>1, <1>2, <1>3, <1>4, <2>1, <2>2 DEF IInv, ReviewInv, rows
<1> QED BY <1>1, <1>3, <1>5, ReviewMemoryStep

(* When a reviewer ends, what the others have read stays true.               *)
LEMMA ReviewEndsInv ==
  ASSUME IInv, NEW r \in Reviewers, reviews' = [reviews EXCEPT ![r] = NoReview],
         UNCHANGED <<proc, admin>>,
         \A d \in Cases \ {reviews[r].case} : caseStatus'[d] = caseStatus[d],
         Reviews(r)
  PROVE  reviews' \in [Reviewers -> ReviewCalls] /\ ReviewInv'
<1>1. /\ reviews \in [Reviewers -> ReviewCalls]
      /\ NoReview \in ReviewCalls /\ NoReview.pc = "idle"
  BY DEF IInv, TypeOK, NoReview, ReviewCalls
<1>2. /\ reviews' \in [Reviewers -> ReviewCalls]
      /\ ~Reviews(r)' /\ \A q \in Reviewers \ {r} : reviews'[q] = reviews[q]
  BY <1>1 DEF Reviews
<1>3. \A a \in Admins : Holds(a)' <=> Holds(a)
  BY DEF Holds
<1>4. \A q \in Reviewers : Reviews(q)' =>
        /\ q # r /\ Reviews(q)
        /\ reviews[q].case \in Cases \ {reviews[r].case}
  BY <1>2 DEF IInv, ReviewInv, Reviews
<1> QED BY <1>2, <1>3, <1>4 DEF IInv, ReviewInv

(* submit_decision ends without a commit.                                    *)
LEMMA ReviewEndsStep ==
  ASSUME IInv, NEW r \in Reviewers, ReviewEnds(r)
  PROVE  IInv'
<1>1. /\ reviews' = [reviews EXCEPT ![r] = NoReview] /\ Reviews(r)
      /\ UNCHANGED <<rows, proc, queue, timers, worker, gauge, submit, admin, bounds>>
  BY DEF ReviewEnds, Reviews
<1>2. UNCHANGED <<caseStatus, proc, admin>>
  BY <1>1 DEF rows
<1> QED BY <1>1, <1>2, ReviewEndsInv, ReviewMemoryStep

(* The commit of submit_decision.                                            *)
LEMMA ReviewCommitStep ==
  ASSUME IInv, NEW r \in Reviewers, NEW decision_type \in DECISION_TYPES,
         ReviewCommit(r, decision_type)
  PROVE  IInv'
<1> DEFINE c == reviews[r].case
<1>w. /\ c \in Cases /\ Reviews(r) /\ proc = "up"
      /\ \A a \in Admins : Holds(a) => admin[a].job # c
      /\ UNCHANGED <<jobStatus, attempts, results, dlq, proc, queue, timers, worker,
                     gauge, submit, admin, crashes, faults>>
      /\ reviews' = [reviews EXCEPT ![r] = NoReview]
      /\ \/ caseStatus' = caseStatus
         \/ \E new \in {UNDER_REVIEW} \cup Decided :
              /\ caseStatus' = [caseStatus EXCEPT ![c] = new]
              /\ \/ /\ caseStatus[c] \in {READY_FOR_REVIEW, UNDER_REVIEW}
                    /\ jobStatus[c] = "succeeded"
                    /\ new # UNDER_REVIEW \/ caseStatus[c] = READY_FOR_REVIEW
                 \/ /\ caseStatus[c] = DLQ_INVESTIGATION
                    /\ jobStatus[c] = "failed"
                    /\ new = CLOSED
  BY DecisionWrites
<1> HIDE DEF c
<1>1. CASE caseStatus' = caseStatus
  <2>1. reviews' \in [Reviewers -> ReviewCalls] /\ ReviewInv'
    BY <1>w, <1>1, ReviewEndsInv
  <2> QED BY <1>w, <1>1, <2>1, ReviewMemoryStep DEF rows, bounds
<1>2. ASSUME NEW new \in {UNDER_REVIEW} \cup Decided,
             caseStatus' = [caseStatus EXCEPT ![c] = new],
             \/ /\ caseStatus[c] \in {READY_FOR_REVIEW, UNDER_REVIEW}
                /\ jobStatus[c] = "succeeded"
             \/ /\ caseStatus[c] = DLQ_INVESTIGATION
                /\ jobStatus[c] = "failed"
                /\ new = CLOSED
      PROVE  IInv'
  <2>s. /\ caseStatus \in [Cases -> ALL_STATUSES \cup {ABSENT}]
        /\ new \in ALL_STATUSES
    BY DEF IInv, TypeOK, Decided, ALL_STATUSES, TRANSITIONS, UNDER_REVIEW, REFERRED, CLOSED,
           MORE_INFO_REQUIRED
  <2>c. /\ caseStatus' \in [Cases -> ALL_STATUSES \cup {ABSENT}]
        /\ caseStatus'[c] = new
        /\ \A d \in Cases \ {c} : caseStatus'[d] = caseStatus[d]
    BY <1>w, <1>2, <2>s
  <2>11. reviews' \in [Reviewers -> ReviewCalls] /\ ReviewInv'
    BY <1>w, <2>c, ReviewEndsInv DEF c
  <2>1. TypeOK'
    BY <1>w, <2>c, <2>11 DEF IInv, TypeOK
  <2>2. WorkerInv'
    <3>1. worker.pc = "failing" => worker.job # c
      BY <1>2, WorkersJob DEF READY_FOR_REVIEW, UNDER_REVIEW, DLQ_INVESTIGATION,
                              PROCESSING_FAILED
    <3> QED BY <1>w, <2>c, <3>1 DEF IInv, WorkerInv, MayRetry
  <2>3. AdminInv'
    <3>1. ASSUME NEW a \in Admins PROVE AdminCallInv(a)'
      BY <1>w, <2>c DEF IInv, AdminInv, AdminCallInv, Holds
    <3> QED BY <1>w, <3>1 DEF IInv, AdminInv, Holds
  <2>4. DispatchInv'
    BY <1>w, QueueSame DEF IInv, DispatchInv
  <2>5. EntryInv'
    BY <1>w, <1>2, <2>c DEF IInv, EntryInv, Decided, UNDER_REVIEW, READY_FOR_REVIEW,
       DLQ_INVESTIGATION, CLOSED, REFERRED, MORE_INFO_REQUIRED
  <2>6. AttemptsInv'
    BY <1>w DEF IInv, AttemptsInv
  <2>7. SingleDispatch'
    <3>1. \A d \in Cases : InOnePlace(d)'
      BY <1>w, QueueSame, AdminSame DEF IInv, SingleDispatch, InOnePlace
    <3> QED BY <1>w, <3>1, QueueSame, AdminSame DEF IInv, SingleDispatch
  <2>8. StatusesAgree'
    <3>1. /\ new # ABSENT /\ caseStatus[c] # ABSENT /\ caseStatus[c] # CLOSED
          /\ CLOSED # PROCESSING_FAILED
          /\ INVESTIGATING # REDRIVEN
          /\ caseStatus[c] = DLQ_INVESTIGATION =>
               caseStatus[c] # PROCESSING_FAILED
      BY <1>2, <2>s DEF ABSENT, ALL_STATUSES, TRANSITIONS, READY_FOR_REVIEW, UNDER_REVIEW,
           DLQ_INVESTIGATION, CLOSED, PROCESSING_FAILED, INVESTIGATING, REDRIVEN
    <3>2. \A e \in DOMAIN dlq[c] : dlq[c][e].resolution # RESOLVED_CLOSED
      BY <1>w, <3>1 DEF IInv, StatusesAgree
    <3>3. jobStatus[c] = "failed" => /\ dlq[c] # << >> /\ new = CLOSED
                                     /\ LastEntry(c).resolution # REDRIVEN
      BY <1>w, <1>2, <3>1 DEF IInv, StatusesAgree
    <3>4. jobStatus[c] \in {"succeeded", "failed"}
      BY <1>2
    <3>5. \A d \in Cases : LastEntry(d)' = LastEntry(d)
      BY <1>w DEF LastEntry
    <3> QED BY <1>w, <2>c, <3>1, <3>2, <3>3, <3>4, <3>5 DEF IInv, StatusesAgree, ABSENT
  <2>9. OneResult'
    BY <1>w DEF IInv, OneResult
  <2>10. RetryBudget'
    BY <1>w DEF IInv, RetryBudget
  <2> QED BY <2>1, <2>2, <2>3, <2>4, <2>5, <2>6, <2>7, <2>8, <2>9, <2>10, <2>11 DEF IInv
<1> QED BY <1>w, <1>1, <1>2

-------------------------------------------------------------------------------
(* The inductive invariant, and what follows from it                         *)

(* The empty database and the idle process satisfy IInv.                     *)
LEMMA InitIInv == Init => IInv
<1> SUFFICES ASSUME Init PROVE IInv
  OBVIOUS
<1> USE DEF Init
<1>0. \A c \in Cases : ~InQueue(c) /\ ~BeingRedriven(c)
  BY DEF InQueue, BeingRedriven, IdleAdmin
<1>1. TypeOK
  <2>1. IdleWorker \in WorkerCalls /\ IdleAdmin \in AdminCalls /\ NoReview \in ReviewCalls
    BY DEF IdleWorker, WorkerCalls, IdleAdmin, AdminCalls, ErrorCategories, NoReview, ReviewCalls
  <2> QED BY <2>1, JobQueueAssumption DEF TypeOK, SubmitPhases
<1>2. WorkerInv
  BY DEF WorkerInv, IdleWorker
<1>3. AdminInv
  BY DEF AdminInv, AdminCallInv, Holds, IdleAdmin
<1>4. DispatchInv
  BY <1>0 DEF DispatchInv, ABSENT
<1>5. EntryInv /\ AttemptsInv
  BY JobQueueAssumption DEF EntryInv, AttemptsInv, ABSENT, DLQ_INVESTIGATION
<1>6. SingleDispatch
  <2>1. \A c \in Cases : InOnePlace(c)
    BY <1>0, JobQueueAssumption DEF InOnePlace, IdleWorker
  <2> QED BY <2>1 DEF SingleDispatch, QueuedOnce, RedrivenOnce, IdleAdmin
<1>7. StatusesAgree
  BY DEF StatusesAgree, ABSENT
<1>8. OneResult /\ RetryBudget
  BY JobQueueAssumption DEF OneResult, RetryBudget, ABSENT
<1>9. ReviewInv
  BY DEF ReviewInv, Reviews, NoReview
<1> QED BY <1>1, <1>2, <1>3, <1>4, <1>5, <1>6, <1>7, <1>8, <1>9 DEF IInv

(* Every step preserves IInv.                                                *)
LEMMA NextIInv ==
  ASSUME RowLocks, IInv, [Next]_vars
  PROVE  IInv'
<1>1. ASSUME NEW c \in Cases, SubmitAcquire(c) \/ SubmitStep(c) \/ TimerFires(c)
      PROVE  IInv'
  BY <1>1, SubmitAcquireStep, SubmitCommitStep, SubmitFailStep, SubmitEnqueueStep,
     TimerFiresStep DEF SubmitStep
<1>2. CASE WorkerStep
  BY <1>2, WorkerSkipStep, WorkerStartStep, WorkerSucceedStep, WorkerRetryStep,
     WorkerGiveUpStep, DLQEntryStep, WorkerLeavesStep DEF WorkerStep
<1>3. ASSUME NEW a \in Admins, NEW op \in {"redrive", "close"}, NEW c \in Cases,
             NEW e \in DOMAIN dlq[c], AdminOpen(a, op, c, e)
      PROVE  IInv'
  BY <1>3, AdminOpenStep
<1>4. ASSUME NEW a \in Admins, AdminStep(a) PROVE IInv'
  BY <1>4, AdminLoadStep, AdminAbortsStep, RedriveCommitStep, RedriveEnqueueStep,
     CloseCommitStep DEF AdminStep
<1>5. CASE Crash
  BY <1>5, CrashStep
<1>6. CASE StartupStep
  BY <1>6, RestartStep, RecoverRequeueStep, RecoverGiveUpStep, StartupLeavesStep,
     ReplayStep DEF StartupStep
<1>7. CASE FaultStep
  BY <1>7, SubmitFaultStep, WorkerStartFaultStep, WorkerSucceedStep, WorkerRetryStep,
     DLQEntryStep, WorkerLeavesStep, RedriveFaultStep, StartupLeavesStep
     DEF FaultStep
<1>8. CASE UNCHANGED vars
  <2> USE <1>8 DEF vars, rows, bounds
  <2>1. TypeOK'       BY DEF IInv, TypeOK
  <2>2. DispatchInv'  BY QueueSame DEF IInv, DispatchInv
  <2>3. SingleDispatch'
    <3>1. \A d \in Cases : InOnePlace(d)'
      BY QueueSame, AdminSame DEF IInv, SingleDispatch, InOnePlace
    <3> QED BY <3>1, QueueSame, AdminSame DEF IInv, SingleDispatch
  <2> QED BY <2>1, <2>2, <2>3, RowsSame, AdminInvSame, ReviewInvSame,
     WorkerInvSame DEF IInv
<1>9. ASSUME NEW r \in Reviewers, NEW c \in Cases, ReviewLoad(r, c) PROVE IInv'
  BY <1>9, ReviewLoadStep
<1>10. ASSUME NEW r \in Reviewers, ReviewStep(r) PROVE IInv'
  BY <1>10, ReviewEndsStep, ReviewCommitStep DEF ReviewStep
<1> QED BY <1>1, <1>2, <1>3, <1>4, <1>5, <1>6, <1>7, <1>8, <1>9, <1>10 DEF Next

(* Where rows are locked (FOR UPDATE on Postgres), IInv holds of every state *)
(* that any number of cases, analysts, administrators and reviewers, any     *)
(* crashes and any refused commits can reach.                                *)
THEOREM Invariance ==
  ASSUME RowLocks
  PROVE  Spec => []IInv
<1>1. Init => IInv
  BY InitIInv
<1>2. IInv /\ [Next]_vars => IInv'
  BY NextIInv
<1> QED BY <1>1, <1>2, PTL DEF Spec

(* Every variable keeps its type.                                            *)
THEOREM TypeCorrect ==
  ASSUME RowLocks
  PROVE  Spec => []TypeOK
<1>1. IInv => TypeOK
  BY DEF IInv
<1> QED BY <1>1, Invariance, PTL

(* No job is dispatched in two places.                                       *)
(* No job is ever in two of: the asyncio queue, a retry timer, the worker, a *)
(* handler about to enqueue it (AnalysisJobQueue and its callers).           *)
THEOREM DispatchedOnce ==
  ASSUME RowLocks
  PROVE  Spec => []SingleDispatch
<1>1. IInv => SingleDispatch
  BY DEF IInv
<1> QED BY <1>1, Invariance, PTL

(* Case.status, AnalysisJob.status and the dead-letter rows always agree,    *)
(* whatever transactions of submit_case, process_job_once, the startup       *)
(* replay, the dead-letter endpoints and submit_decision interleave.         *)
THEOREM Agreement ==
  ASSUME RowLocks
  PROVE  Spec => []StatusesAgree
<1>1. IInv => StatusesAgree
  BY DEF IInv
<1> QED BY <1>1, Invariance, PTL

(* An entry under investigation is the last one of its case, and its job is  *)
(* failed: redrive_dlq_entry never dispatches a job that is going.           *)
THEOREM OpenEntries ==
  ASSUME RowLocks
  PROVE  Spec => []OpenEntryIsLast
<1>1. IInv => OpenEntryIsLast
  BY DEF IInv, EntryInv, OpenEntryIsLast
<1> QED BY <1>1, Invariance, PTL

(* A case has exactly one result once its job has succeeded and none before  *)
(* (process_job_once is the only writer of Result).                          *)
THEOREM Results ==
  ASSUME RowLocks
  PROVE  Spec => []OneResult
<1>1. IInv => OneResult
  BY DEF IInv
<1> QED BY <1>1, Invariance, PTL

(* No job exceeds max_job_attempts, and a retryable failure reaches the      *)
(* dead-letter queue only when they are used up.                             *)
THEOREM Budget ==
  ASSUME RowLocks
  PROVE  Spec => []RetryBudget
<1>1. IInv => RetryBudget
  BY DEF IInv
<1> QED BY <1>1, Invariance, PTL

(* replay_unfinished_jobs never meets a running job whose case it cannot     *)
(* move: the startup cannot fail for ever.                                   *)
THEOREM Recovery ==
  ASSUME RowLocks
  PROVE  Spec => []StartupRecovers
<1>1. IInv => StartupRecovers
  <2>1. IsValidTransition(ANALYZING, PROCESSING_FAILED)
    BY DEF IsValidTransition, TRANSITIONS, ANALYZING, PROCESSING_FAILED
  <2> QED BY <2>1 DEF IInv, StatusesAgree, StartupRecovers
<1> QED BY <1>1, Invariance, PTL

(* A step touches the status of at most one case, takes it along one edge,   *)
(* and stores a result only with the edge that shows it.                     *)
Edges == {<<ABSENT, QUEUED>>, <<QUEUED, ANALYZING>>, <<ANALYZING, QUEUED>>,
          <<ANALYZING, PROCESSING_FAILED>>, <<PROCESSING_FAILED, DLQ_INVESTIGATION>>,
          <<DLQ_INVESTIGATION, QUEUED>>, <<DLQ_INVESTIGATION, CLOSED>>,
          <<READY_FOR_REVIEW, UNDER_REVIEW>>}
         \cup {READY_FOR_REVIEW, UNDER_REVIEW} \X Decided

CaseMoves(c, status) ==
  /\ caseStatus' = [caseStatus EXCEPT ![c] = status]
  /\ \/ <<caseStatus[c], status>> \in Edges /\ results' = results
     \/ /\ caseStatus[c] = ANALYZING /\ status = READY_FOR_REVIEW
        /\ results[c] = 0 /\ results' = [results EXCEPT ![c] = @ + 1]

(* Every step either leaves the status and the results of all the cases      *)
(* alone, or moves one case along one edge.                                  *)
LEMMA StepMovesACase ==
  ASSUME IInv, [Next]_vars
  PROVE  \/ UNCHANGED <<caseStatus, results>>
         \/ \E c \in Cases, status \in ALL_STATUSES : CaseMoves(c, status)
<1> USE DEF rows, bounds
<1>s. {QUEUED, ANALYZING, PROCESSING_FAILED, DLQ_INVESTIGATION, CLOSED,
       READY_FOR_REVIEW} \subseteq ALL_STATUSES
  BY DEF ALL_STATUSES, TRANSITIONS, QUEUED, ANALYZING, PROCESSING_FAILED,
         DLQ_INVESTIGATION, CLOSED, READY_FOR_REVIEW
<1>1. ASSUME NEW c \in Cases, SubmitAcquire(c) \/ SubmitStep(c) \/ TimerFires(c)
      PROVE  UNCHANGED <<caseStatus, results>> \/ CaseMoves(c, QUEUED)
  <2>1. CASE SubmitCommit(c)
    <3>1. caseStatus[c] = ABSENT
      BY <2>1 DEF SubmitCommit, IInv, DispatchInv, StatusesAgree
    <3> QED BY <2>1, <3>1 DEF SubmitCommit, CaseMoves, Edges
  <2>2. CASE ~SubmitCommit(c)
    BY <1>1, <2>2 DEF SubmitAcquire, SubmitStep, SubmitFail, SubmitEnqueue, TimerFires
  <2> QED BY <2>1, <2>2
<1>2. ASSUME NEW c \in Cases, WorkerSkip(c) \/ WorkerStart(c) \/ WorkerStartFault(c)
      PROVE  UNCHANGED <<caseStatus, results>> \/ CaseMoves(c, ANALYZING)
  <2>1. CASE WorkerStart(c)
    <3>1. InQueue(c)
      BY <2>1, QueueTail DEF WorkerStart, WorkerTakes, IInv, TypeOK, SingleDispatch
    <3>2. caseStatus[c] = QUEUED
      BY <3>1, Dispatched DEF IInv, StatusesAgree
    <3>3. IsValidTransition(QUEUED, ANALYZING)
      BY DEF IsValidTransition, TRANSITIONS, QUEUED, ANALYZING
    <3> QED BY <2>1, <3>2, <3>3 DEF WorkerStart, CaseMoves, Edges
  <2>2. CASE ~WorkerStart(c)
    BY <1>2, <2>2 DEF WorkerSkip, WorkerStartFault
  <2> QED BY <2>1, <2>2
<1>3. CASE WorkerSucceed \/ WorkerSucceedFault
  <2>1. worker.job \in Cases /\ caseStatus[worker.job] = ANALYZING /\ results[worker.job] = 0
    BY <1>3, WorkersJob DEF WorkerSucceed, WorkerSucceedFault, IInv, OneResult
  <2>2. CaseMoves(worker.job, READY_FOR_REVIEW)
    BY <1>3, <2>1 DEF WorkerSucceed, WorkerSucceedFault, CaseMoves
  <2> QED BY <1>s, <2>1, <2>2
<1>4. ASSUME NEW category \in FailureCategories,
             WorkerRetry(category) \/ WorkerRetryFault(category) \/ WorkerGiveUp(category)
      PROVE  \E status \in ALL_STATUSES : CaseMoves(worker.job, status) /\ worker.job \in Cases
  <2>1. worker.job \in Cases /\ caseStatus[worker.job] = ANALYZING
    BY <1>4, WorkersJob DEF WorkerRetry, WorkerRetryFault, WorkerGiveUp
  <2>2. CaseMoves(worker.job, QUEUED) \/ CaseMoves(worker.job, PROCESSING_FAILED)
    BY <1>4, <2>1 DEF WorkerRetry, WorkerRetryFault, WorkerGiveUp, CaseMoves, Edges
  <2> QED BY <1>s, <2>1, <2>2
<1>5. CASE CreateDLQEntry \/ AlertFault
  <2>1. worker.job \in Cases /\ caseStatus[worker.job] = PROCESSING_FAILED
    BY <1>5, WorkersJob DEF CreateDLQEntry, AlertFault
  <2>2. CaseMoves(worker.job, DLQ_INVESTIGATION)
    BY <1>5, <2>1 DEF CreateDLQEntry, AlertFault, CaseMoves, Edges
  <2> QED BY <1>s, <2>1, <2>2
<1>6. ASSUME NEW a \in Admins, AdminStep(a)
      PROVE  \/ UNCHANGED <<caseStatus, results>>
             \/ \E status \in ALL_STATUSES :
                  CaseMoves(admin[a].job, status) /\ admin[a].job \in Cases
  <2>1. CASE RedriveCommit(a) \/ CloseCommit(a)
    <3>1. admin[a].job \in Cases /\ caseStatus[admin[a].job] = DLQ_INVESTIGATION
      BY <2>1, HeldEntry DEF RedriveCommit, CloseCommit, Holds
    <3>2. CaseMoves(admin[a].job, QUEUED) \/ CaseMoves(admin[a].job, CLOSED)
      BY <2>1, <3>1 DEF RedriveCommit, CloseCommit, CaseMoves, Edges
    <3> QED BY <1>s, <3>1, <3>2
  <2>2. CASE ~(RedriveCommit(a) \/ CloseCommit(a))
    BY <1>6, <2>2 DEF AdminStep, AdminLoad, AdminAborts, RedriveEnqueue
  <2> QED BY <2>1, <2>2
<1>7. ASSUME NEW c \in Cases, RecoverRequeue(c) \/ RecoverGiveUp(c)
      PROVE  CaseMoves(c, QUEUED) \/ CaseMoves(c, PROCESSING_FAILED)
  <2>1. caseStatus[c] = ANALYZING
    BY <1>7 DEF RecoverRequeue, RecoverGiveUp, Interrupted, IInv, StatusesAgree
  <2> QED BY <1>7, <2>1 DEF RecoverRequeue, RecoverGiveUp, CaseMoves, Edges
<1>11. ASSUME NEW r \in Reviewers, ReviewStep(r)
       PROVE  \/ UNCHANGED <<caseStatus, results>>
              \/ \E c \in Cases, status \in ALL_STATUSES : CaseMoves(c, status)
  <2>1. ASSUME NEW decision_type \in DECISION_TYPES, ReviewCommit(r, decision_type),
               ~UNCHANGED <<caseStatus, results>>
        PROVE  \E c \in Cases, status \in ALL_STATUSES : CaseMoves(c, status)
    <3>1. PICK c \in Cases : c = reviews[r].case
      BY <2>1, DecisionWrites
    <3>2. PICK new \in {UNDER_REVIEW} \cup Decided :
             /\ results' = results
             /\ caseStatus' = [caseStatus EXCEPT ![c] = new]
             /\ \/ /\ caseStatus[c] \in {READY_FOR_REVIEW, UNDER_REVIEW}
                   /\ new # UNDER_REVIEW \/ caseStatus[c] = READY_FOR_REVIEW
                \/ caseStatus[c] = DLQ_INVESTIGATION /\ new = CLOSED
      BY <2>1, <3>1, DecisionWrites
    <3>3. <<caseStatus[c], new>> \in Edges
      BY <3>2 DEF Edges
    <3>4. new \in ALL_STATUSES
      BY DEF Decided, ALL_STATUSES, TRANSITIONS, UNDER_REVIEW, REFERRED, CLOSED,
             MORE_INFO_REQUIRED
    <3> QED BY <3>2, <3>3, <3>4 DEF CaseMoves
  <2>2. ReviewEnds(r) => UNCHANGED <<caseStatus, results>>
    BY DEF ReviewEnds
  <2> QED BY <1>11, <2>1, <2>2 DEF ReviewStep
<1>8. ASSUME \/ WorkerRaises \/ WorkerFault \/ Crash \/ Restart \/ Replay \/ StartupFault
             \/ \E c \in Cases : StartupFails(c) \/ SubmitFault(c)
             \/ \E a \in Admins : RedriveFault(a)
             \/ \E a \in Admins, op \in {"redrive", "close"}, c \in Cases :
                  \E e \in DOMAIN dlq[c] : AdminOpen(a, op, c, e)
             \/ \E r \in Reviewers, c \in Cases : ReviewLoad(r, c)
             \/ UNCHANGED vars
      PROVE  UNCHANGED <<caseStatus, results>>
  BY <1>8 DEF WorkerRaises, WorkerFault, Crash, Restart, Replay, StartupFault,
              StartupFails, SubmitFault, RedriveFault, AdminOpen, ReviewLoad, vars
<1>9. CASE WorkerStep
  BY <1>s, <1>2, <1>3, <1>4, <1>5, <1>8, <1>9 DEF WorkerStep
<1>10. CASE StartupStep \/ FaultStep
  BY <1>s, <1>2, <1>3, <1>4, <1>5, <1>7, <1>8, <1>10 DEF StartupStep, FaultStep
<1> QED BY <1>s, <1>1, <1>6, <1>8, <1>9, <1>10, <1>11 DEF Next

(* A case that close_dlq_entry_as_invalid or a reviewer has closed is never  *)
(* queued, analysed or given a result again.                                 *)
THEOREM ClosedStaysClosed ==
  ASSUME RowLocks
  PROVE  Spec => ClosedIsFinal
<1>1. IInv /\ [Next]_vars =>
        [\A c \in Cases : caseStatus[c] = CLOSED =>
           caseStatus'[c] = CLOSED /\ results'[c] = results[c]]_vars
  <2> SUFFICES ASSUME IInv, [Next]_vars, NEW c \in Cases, caseStatus[c] = CLOSED
               PROVE  caseStatus'[c] = CLOSED /\ results'[c] = results[c]
    OBVIOUS
  <2>1. CASE UNCHANGED <<caseStatus, results>>
    BY <2>1
  <2>2. ASSUME NEW d \in Cases, NEW status \in ALL_STATUSES, CaseMoves(d, status)
        PROVE  caseStatus'[c] = CLOSED /\ results'[c] = results[c]
    <3>1. d # c
      BY <2>2 DEF CaseMoves, Edges, Decided, ABSENT, QUEUED, ANALYZING, PROCESSING_FAILED,
                  DLQ_INVESTIGATION, READY_FOR_REVIEW, UNDER_REVIEW, CLOSED
    <3> QED BY <2>2, <3>1 DEF CaseMoves, IInv, TypeOK
  <2> QED BY <2>1, <2>2, StepMovesACase
<1> QED BY <1>1, Invariance, PTL DEF Spec, ClosedIsFinal

(* A dead-letter entry that was redriven or closed is never changed again    *)
(* (DLQEntryAlreadyResolvedError).                                           *)
THEOREM ResolvedStaysResolved ==
  ASSUME RowLocks
  PROVE  Spec => ResolutionIsFinal
<1>1. IInv /\ [Next]_vars =>
        [\A c \in Cases : \A e \in DOMAIN dlq[c] :
           dlq[c][e].resolution # INVESTIGATING => dlq'[c][e] = dlq[c][e]]_vars
  <2> SUFFICES ASSUME IInv, [Next]_vars, NEW c \in Cases, NEW e \in DOMAIN dlq[c],
                      dlq[c][e].resolution # INVESTIGATING
               PROVE  dlq'[c][e] = dlq[c][e]
    OBVIOUS
  <2>1. CASE dlq' = dlq
    BY <2>1
  <2>2. CASE CreateDLQEntry \/ AlertFault
    <3>1. dlq' = [dlq EXCEPT ![worker.job] = Append(@, EntryOf(worker.job))]
      BY <2>2 DEF CreateDLQEntry, AlertFault
    <3>2. /\ dlq[c] \in Seq(DLQEntries) /\ e \in 1..Len(dlq[c])
          /\ dlq'[c] \in {dlq[c], Append(dlq[c], EntryOf(worker.job))}
      BY <3>1, LenProperties DEF IInv, TypeOK
    <3>3. EntryOf(worker.job) \in DLQEntries
      BY <2>2, WorkersJob DEF CreateDLQEntry, AlertFault, EntryOf, DLQEntries, IInv, TypeOK,
                              WorkerCalls
    <3> QED BY <3>2, <3>3, AppendProperties
  <2>3. ASSUME NEW a \in Admins, RedriveCommit(a) \/ CloseCommit(a)
        PROVE  dlq'[c][e] = dlq[c][e]
    <3>1. PICK r \in {REDRIVEN, RESOLVED_CLOSED} :
            dlq' = [dlq EXCEPT ![admin[a].job][admin[a].entry].resolution = r]
      BY <2>3 DEF RedriveCommit, CloseCommit
    <3>2. /\ admin[a].job \in Cases /\ admin[a].entry \in DOMAIN dlq[admin[a].job]
          /\ dlq[admin[a].job][admin[a].entry].resolution = INVESTIGATING
      BY <2>3, HeldEntry DEF RedriveCommit, CloseCommit, Holds
    <3>3. ~(c = admin[a].job /\ e = admin[a].entry)
      BY <3>2
    <3> QED BY <3>1, <3>2, <3>3 DEF IInv, TypeOK
  <2>4. dlq' = dlq \/ CreateDLQEntry \/ AlertFault
          \/ \E a \in Admins : RedriveCommit(a) \/ CloseCommit(a)
    BY DEF Next, vars, rows, SubmitStep, WorkerStep, AdminStep, StartupStep, FaultStep,
           SubmitAcquire, SubmitCommit, SubmitFail, SubmitEnqueue, TimerFires, WorkerSkip,
           WorkerStart, WorkerSucceed, WorkerRetry, WorkerGiveUp, WorkerRaises, AdminOpen,
           AdminLoad, AdminAborts, RedriveEnqueue, ReviewLoad, ReviewStep, ReviewEnds,
           ReviewCommit, Crash, Restart, RecoverRequeue,
           RecoverGiveUp, StartupFails, Replay, SubmitFault, WorkerStartFault,
           WorkerSucceedFault, WorkerRetryFault, WorkerFault, RedriveFault, StartupFault
  <2> QED BY <2>1, <2>2, <2>3, <2>4
<1> QED BY <1>1, Invariance, PTL DEF Spec, ResolutionIsFinal

(* The phase of a case is that of its status, and its result tells a decided *)
(* case from a rejected one.                                                 *)
LEMMA DecidedHasResult ==
  ASSUME IInv, NEW c \in Cases
  PROVE  /\ caseStatus[c] \in {READY_FOR_REVIEW, UNDER_REVIEW} => (results[c] > 0) = TRUE
         /\ caseStatus[c] = DLQ_INVESTIGATION => (results[c] > 0) = FALSE
<1>1. caseStatus[c] \in {READY_FOR_REVIEW, UNDER_REVIEW} => jobStatus[c] = "succeeded"
  BY DEF IInv, TypeOK, JobStatuses, StatusesAgree, ABSENT, QUEUED, ANALYZING, READY_FOR_REVIEW,
         UNDER_REVIEW, CLOSED, PROCESSING_FAILED, DLQ_INVESTIGATION
<1>2. caseStatus[c] = DLQ_INVESTIGATION => jobStatus[c] = "failed"
  BY DEF IInv, EntryInv
<1>3. results[c] = IF jobStatus[c] = "succeeded" THEN 1 ELSE 0
  BY DEF IInv, OneResult
<1> QED BY <1>1, <1>2, <1>3

(* The queue, with its retries, crashes, restarts, refused commits,          *)
(* concurrent administrators and reviewers, implements the abstract          *)
(* AnalysisService: every transaction is one step of the service, or         *)
(* invisible.                                                                *)
THEOREM Implementation ==
  ASSUME RowLocks
  PROVE  Spec => ImplementsService
<1> DEFINE phase == [c \in Cases |-> PhaseOf(caseStatus[c], results[c] > 0)]
           published == [c \in Cases |-> results[c] > 0]
<1>1. Init => Service!Init
  <2>1. PhaseOf(ABSENT, FALSE) = "none"
    BY DEF PhaseOf, ABSENT, READY_FOR_REVIEW, UNDER_REVIEW, DLQ_INVESTIGATION, CLOSED,
           REFERRED, MORE_INFO_REQUIRED
  <2>2. Init => \A c \in Cases : caseStatus[c] = ABSENT /\ (results[c] > 0) = FALSE
    BY DEF Init
  <2> QED BY <2>1, <2>2 DEF Service!Init
<1>2. IInv /\ [Next]_vars => [Service!Next]_(Service!vars)
  <2> SUFFICES ASSUME IInv, [Next]_vars
               PROVE  Service!Next \/ UNCHANGED Service!vars
    OBVIOUS
  <2>1. CASE UNCHANGED <<caseStatus, results>>
    BY <2>1 DEF Service!vars
  <2>2. ASSUME NEW c \in Cases, NEW status \in ALL_STATUSES, CaseMoves(c, status)
        PROVE  Service!Next \/ UNCHANGED Service!vars
    <3>0. /\ caseStatus'[c] = status
          /\ \A d \in Cases \ {c} : caseStatus'[d] = caseStatus[d] /\ results'[d] = results[d]
      BY <2>2 DEF CaseMoves, IInv, TypeOK
    <3>1. /\ phase' = [phase EXCEPT ![c] = PhaseOf(status, results'[c] > 0)]
          /\ phase[c] = PhaseOf(caseStatus[c], results[c] > 0)
      BY <3>0, Zenon
    <3>2. CASE results' = results /\ <<caseStatus[c], status>> \in Edges
      <4>1. published' = published
        BY <3>2
      <4>2. \/ phase' = phase
            \/ Service!Move(c, "none", "pending")
            \/ Service!Move(c, "pending", "investigation")
            \/ Service!Move(c, "investigation", "pending")
            \/ Service!Move(c, "investigation", "rejected")
            \/ Service!Move(c, "ready", "decided")
        <5> DEFINE result == results[c] > 0
        <5>1. /\ caseStatus[c] \in {READY_FOR_REVIEW, UNDER_REVIEW} => result = TRUE
              /\ caseStatus[c] = DLQ_INVESTIGATION => result = FALSE
          BY DecidedHasResult
        <5>2. phase' = [phase EXCEPT ![c] = PhaseOf(status, result)]
              /\ phase[c] = PhaseOf(caseStatus[c], result)
          BY <3>1, <3>2
        <5> HIDE DEF result, phase
        <5>3. \/ PhaseOf(status, result) = PhaseOf(caseStatus[c], result)
              \/ <<PhaseOf(caseStatus[c], result), PhaseOf(status, result)>> \in
                   {<<"none", "pending">>, <<"pending", "investigation">>,
                    <<"investigation", "pending">>, <<"investigation", "rejected">>,
                    <<"ready", "decided">>}
          BY <3>2, <5>1 DEF Edges, Decided, PhaseOf, ABSENT, QUEUED, ANALYZING,
             PROCESSING_FAILED, DLQ_INVESTIGATION, READY_FOR_REVIEW, UNDER_REVIEW, REFERRED,
             CLOSED, MORE_INFO_REQUIRED
        <5> QED BY <5>2, <5>3 DEF Service!Move, phase
      <4> QED BY <4>1, <4>2 DEF Service!Next, Service!Accept, Service!Investigate,
             Service!Redrive, Service!Reject, Service!Decide, Service!vars
    <3>3. CASE /\ caseStatus[c] = ANALYZING /\ status = READY_FOR_REVIEW
               /\ results[c] = 0 /\ results' = [results EXCEPT ![c] = @ + 1]
      <4>1. published' = [published EXCEPT ![c] = TRUE] /\ ~published[c]
        <5>1. /\ results[c] = 0 /\ results'[c] = 1
              /\ \A d \in Cases \ {c} : results'[d] = results[d]
          BY <3>3 DEF IInv, TypeOK
        <5>2. (results'[c] > 0) = TRUE /\ (results[c] > 0) = FALSE
          BY <5>1
        <5>3. \A d \in Cases \ {c} : (results'[d] > 0) = (results[d] > 0)
          BY <5>1, Zenon
        <5> QED BY <5>2, <5>3, Zenon
      <4>2. /\ PhaseOf(ANALYZING, results[c] > 0) = "pending"
            /\ PhaseOf(READY_FOR_REVIEW, results'[c] > 0) = "ready"
        BY DEF PhaseOf, ABSENT, ANALYZING, DLQ_INVESTIGATION, CLOSED, READY_FOR_REVIEW,
               UNDER_REVIEW, REFERRED, MORE_INFO_REQUIRED
      <4>3. Service!Move(c, "pending", "ready")
        BY <3>1, <3>3, <4>2 DEF Service!Move
      <4> QED BY <4>1, <4>3 DEF Service!Next, Service!Publish
    <3> QED BY <2>2, <3>2, <3>3 DEF CaseMoves
  <2> QED BY <2>1, <2>2, StepMovesACase
<1> QED BY <1>1, <1>2, Invariance, PTL DEF Spec, ImplementsService, Service!Spec
===============================================================================
