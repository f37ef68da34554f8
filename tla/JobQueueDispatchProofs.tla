------------------------ MODULE JobQueueDispatchProofs ------------------------
(***************************************************************************)
(* Theorems about JobQueue on either database: what is lost when requests   *)
(* to the database are refused, and that nothing is lost otherwise.         *)
(*                                                                          *)
(* The argument: LossInv counts.  Each action keeps the set of stranded     *)
(* jobs, or adds one job and one fault; each action keeps every case that   *)
(* has a slot, or gives the slot of one case back, or costs one fault.  The *)
(* memory of the process (MemoryInv) says which case that is.  A reviewer   *)
(* takes no slot and no job with him: a decision moves only a case whose    *)
(* job has its outcome (OutcomeInv).  Where rows lock, the same count of    *)
(* abandoned jobs rests on IInv.                                            *)
(***************************************************************************)
EXTENDS JobQueueProofs

-------------------------------------------------------------------------------
(* Counting cases                                                           *)

LEMMA CasesAreFinite ==
  ASSUME NEW S \in SUBSET Cases
  PROVE  IsFiniteSet(S) /\ Cardinality(S) \in Nat
  BY JobQueueAssumption, FS_Subset, FS_CardinalityType

LEMMA CountGrows ==
  ASSUME NEW S \in SUBSET Cases, NEW T \in SUBSET Cases, S \subseteq T
  PROVE  Cardinality(S) <= Cardinality(T)
  BY CasesAreFinite, FS_Subset

(* A set that loses one case at most counts one less at most.               *)
LEMMA CountLosesOne ==
  ASSUME NEW S \in SUBSET Cases, NEW T \in SUBSET Cases, NEW c \in Cases,
         S \ {c} \subseteq T
  PROVE  Cardinality(S) <= Cardinality(T) + 1
<1>1. S \ {c} \in SUBSET Cases /\ Cardinality(S \ {c}) <= Cardinality(T)
  BY CountGrows
<1>2. Cardinality(S) <= Cardinality(S \ {c}) + 1
  BY CasesAreFinite, FS_RemoveElement
<1> QED BY <1>1, <1>2, CasesAreFinite

LEMMA CountGainsOne ==
  ASSUME NEW S \in SUBSET Cases, NEW T \in SUBSET Cases, NEW c \in T \ S,
         S \subseteq T
  PROVE  Cardinality(S) + 1 <= Cardinality(T)
<1>1. S \cup {c} \in SUBSET Cases
  OBVIOUS
<1>2. Cardinality(S \cup {c}) = Cardinality(S) + 1
  BY CasesAreFinite, FS_AddElement
<1> QED BY <1>1, <1>2, CountGrows

(* A job that is stranded after a step was stranded before.                 *)
LEMMA StrandedKept ==
  ASSUME TypeOK, StrandedJobsAreFaults, faults' \in Nat, faults' >= faults,
         proc' = "up" => proc = "up",
         proc' = "up" => \A d \in Cases :
           jobStatus'[d] = "queued" /\ ~OnItsWay(d)'
             => jobStatus[d] = "queued" /\ ~OnItsWay(d)
  PROVE  StrandedJobsAreFaults'
<1> SUFFICES ASSUME proc' = "up"
             PROVE  Cardinality(Stranded') <= faults'
  BY DEF StrandedJobsAreFaults
<1>1. Stranded \in SUBSET Cases /\ Stranded' \in SUBSET Cases
      /\ Stranded' \subseteq Stranded
  BY DEF Stranded
<1>2. Cardinality(Stranded) <= faults
  BY DEF StrandedJobsAreFaults
<1>3. faults \in Nat
  BY JobQueueAssumption DEF TypeOK
<1> QED BY <1>1, <1>2, <1>3, CountGrows, CasesAreFinite

(* A refused request strands one job.                                       *)
LEMMA StrandedByFault ==
  ASSUME TypeOK, StrandedJobsAreFaults, Fault, NEW c \in Cases,
         proc' = "up" => proc = "up",
         proc' = "up" => \A d \in Cases \ {c} :
           jobStatus'[d] = "queued" /\ ~OnItsWay(d)'
             => jobStatus[d] = "queued" /\ ~OnItsWay(d)
  PROVE  StrandedJobsAreFaults'
<1> SUFFICES ASSUME proc' = "up"
             PROVE  Cardinality(Stranded') <= faults'
  BY DEF StrandedJobsAreFaults
<1>1. Stranded \in SUBSET Cases /\ Stranded' \in SUBSET Cases
      /\ Stranded' \ {c} \subseteq Stranded
  BY DEF Stranded
<1>2. Cardinality(Stranded) <= faults
  BY DEF StrandedJobsAreFaults
<1>3. Cardinality(Stranded') <= Cardinality(Stranded) + 1
  BY <1>1, CountLosesOne
<1>4. faults \in Nat /\ faults' = faults + 1
  BY JobQueueAssumption DEF TypeOK, Fault
<1> QED BY <1>1, <1>2, <1>3, <1>4, CasesAreFinite

(* Every case that had a slot has it.                                       *)
LEMMA SlotsKept ==
  ASSUME TypeOK, SlotsAreHeld, gauge' = gauge, faults' \in Nat, faults' >= faults,
         \A d \in Cases : HasSlot(d) => HasSlot(d)'
  PROVE  SlotsAreHeld'
<1> SUFFICES ASSUME NEW a \in Analysts
             PROVE  gauge'[a] <= Cardinality(SlotsOf(a)') + faults'
  BY DEF SlotsAreHeld
<1>1. SlotsOf(a) \in SUBSET Cases /\ SlotsOf(a)' \in SUBSET Cases
      /\ SlotsOf(a) \subseteq SlotsOf(a)'
  BY DEF SlotsOf
<1>2. gauge[a] <= Cardinality(SlotsOf(a)) + faults
  BY DEF SlotsAreHeld
<1>3. gauge[a] \in Nat /\ faults \in Nat
  BY JobQueueAssumption DEF TypeOK
<1> QED BY <1>1, <1>2, <1>3, CountGrows, CasesAreFinite

(* One case gives its slot back.                                            *)
LEMMA SlotReleased ==
  ASSUME TypeOK, SlotsAreHeld, NEW c \in Cases, ReleaseSlot(c), faults' = faults,
         \A d \in Cases \ {c} : HasSlot(d) => HasSlot(d)'
  PROVE  SlotsAreHeld'
<1> SUFFICES ASSUME NEW a \in Analysts
             PROVE  gauge'[a] <= Cardinality(SlotsOf(a)') + faults'
  BY DEF SlotsAreHeld
<1>1. SlotsOf(a) \in SUBSET Cases /\ SlotsOf(a)' \in SUBSET Cases
      /\ SlotsOf(a) \ {c} \subseteq SlotsOf(a)'
      /\ (a # SubmittedBy[c] => SlotsOf(a) \subseteq SlotsOf(a)')
  BY DEF SlotsOf
<1>2. gauge[a] <= Cardinality(SlotsOf(a)) + faults
  BY DEF SlotsAreHeld
<1>3. gauge \in [Analysts -> Nat] /\ gauge[a] \in Nat /\ faults \in Nat
  BY JobQueueAssumption DEF TypeOK
<1>4. CASE a # SubmittedBy[c]
  <2>1. gauge'[a] = gauge[a]
    BY <1>3, <1>4 DEF ReleaseSlot
  <2>2. Cardinality(SlotsOf(a)) <= Cardinality(SlotsOf(a)')
    BY <1>1, <1>4, CountGrows
  <2> QED BY <1>1, <1>2, <1>3, <2>1, <2>2, CasesAreFinite
<1>5. CASE a = SubmittedBy[c]
  <2>1. gauge'[a] = IF gauge[a] > 0 THEN gauge[a] - 1 ELSE gauge[a]
    BY <1>3, <1>5 DEF ReleaseSlot
  <2>2. Cardinality(SlotsOf(a)) <= Cardinality(SlotsOf(a)') + 1
    BY <1>1, CountLosesOne
  <2> QED BY <1>1, <1>2, <1>3, <2>1, <2>2, CasesAreFinite
<1> QED BY <1>4, <1>5

(* A refused request costs the slot of one case.                            *)
LEMMA SlotLost ==
  ASSUME TypeOK, SlotsAreHeld, NEW c \in Cases, gauge' = gauge, Fault,
         \A d \in Cases \ {c} : HasSlot(d) => HasSlot(d)'
  PROVE  SlotsAreHeld'
<1> SUFFICES ASSUME NEW a \in Analysts
             PROVE  gauge'[a] <= Cardinality(SlotsOf(a)') + faults'
  BY DEF SlotsAreHeld
<1>1. SlotsOf(a) \in SUBSET Cases /\ SlotsOf(a)' \in SUBSET Cases
      /\ SlotsOf(a) \ {c} \subseteq SlotsOf(a)'
  BY DEF SlotsOf
<1>2. gauge[a] <= Cardinality(SlotsOf(a)) + faults
  BY DEF SlotsAreHeld
<1>3. gauge[a] \in Nat /\ faults \in Nat /\ faults' = faults + 1
  BY JobQueueAssumption DEF TypeOK, Fault
<1>4. Cardinality(SlotsOf(a)) <= Cardinality(SlotsOf(a)') + 1
  BY <1>1, CountLosesOne
<1> QED BY <1>1, <1>2, <1>3, <1>4, CasesAreFinite

(* A submission takes a slot.                                               *)
LEMMA SlotTaken ==
  ASSUME TypeOK, SlotsAreHeld, NEW c \in Cases, AcquireSlot(c), faults' = faults,
         ~HasSlot(c), HasSlot(c)',
         \A d \in Cases : HasSlot(d) => HasSlot(d)'
  PROVE  SlotsAreHeld'
<1> SUFFICES ASSUME NEW a \in Analysts
             PROVE  gauge'[a] <= Cardinality(SlotsOf(a)') + faults'
  BY DEF SlotsAreHeld
<1>1. SlotsOf(a) \in SUBSET Cases /\ SlotsOf(a)' \in SUBSET Cases
      /\ SlotsOf(a) \subseteq SlotsOf(a)'
      /\ (a = SubmittedBy[c] => c \in SlotsOf(a)' \ SlotsOf(a))
  BY DEF SlotsOf
<1>2. gauge[a] <= Cardinality(SlotsOf(a)) + faults
  BY DEF SlotsAreHeld
<1>3. gauge \in [Analysts -> Nat] /\ gauge[a] \in Nat /\ faults \in Nat
  BY JobQueueAssumption DEF TypeOK
<1>4. CASE a # SubmittedBy[c]
  <2>1. gauge'[a] = gauge[a]
    BY <1>3, <1>4 DEF AcquireSlot
  <2>2. Cardinality(SlotsOf(a)) <= Cardinality(SlotsOf(a)')
    BY <1>1, CountGrows
  <2> QED BY <1>1, <1>2, <1>3, <2>1, <2>2, CasesAreFinite
<1>5. CASE a = SubmittedBy[c]
  <2>1. gauge'[a] = gauge[a] + 1
    BY <1>3, <1>5 DEF AcquireSlot
  <2>2. Cardinality(SlotsOf(a)) + 1 <= Cardinality(SlotsOf(a)')
    BY <1>1, <1>5, CountGainsOne
  <2> QED BY <1>1, <1>2, <1>3, <2>1, <2>2, CasesAreFinite
<1> QED BY <1>4, <1>5

-------------------------------------------------------------------------------
(* The asyncio queue and the requests                                       *)

(* queue.get without QueuedOnce: the others stay in the queue.              *)
LEMMA QueueTakes ==
  ASSUME queue \in Seq(Cases), queue # << >>, queue' = Tail(queue)
  PROVE  /\ queue' \in Seq(Cases)
         /\ Head(queue) \in Cases /\ InQueue(Head(queue))
         /\ \A d \in Cases : InQueue(d)' => InQueue(d)
         /\ \A d \in Cases : InQueue(d) /\ d # Head(queue) => InQueue(d)'
<1>1. /\ DOMAIN queue = 1..Len(queue) /\ Len(queue) \in Nat \ {0}
      /\ DOMAIN queue' = 1..(Len(queue) - 1)
      /\ \A i \in DOMAIN queue' : queue'[i] = queue[i + 1]
      /\ Head(queue) = queue[1] /\ Head(queue) \in Cases
      /\ queue' \in Seq(Cases)
  BY HeadTailProperties, LenProperties, EmptySeq
<1>2. InQueue(Head(queue))
  BY <1>1 DEF InQueue
<1>3. ASSUME NEW d \in Cases, InQueue(d)' PROVE InQueue(d)
  BY <1>1, <1>3 DEF InQueue
<1>4. ASSUME NEW d \in Cases, InQueue(d), d # Head(queue) PROVE InQueue(d)'
  <2>1. PICK i \in DOMAIN queue : queue[i] = d
    BY <1>4 DEF InQueue
  <2>2. i - 1 \in DOMAIN queue' /\ queue'[i - 1] = d
    BY <2>1, <1>1, <1>4
  <2> QED BY <2>2 DEF InQueue
<1> QED BY <1>1, <1>2, <1>3, <1>4

(* The replay's order of a set of jobs has them all.                        *)
LEMMA OrderHasAll ==
  ASSUME NEW S \in SUBSET Cases, queue' \in Orders(S)
  PROVE  /\ queue' \in Seq(Cases)
         /\ \A d \in Cases : InQueue(d)' <=> d \in S
<1> DEFINE n == Cardinality(S)
<1>1. IsFiniteSet(S) /\ n \in Nat
  BY CasesAreFinite
<1>2. /\ queue' \in [1..n -> S]
      /\ \A i, j \in 1..n : queue'[i] = queue'[j] => i = j
  BY DEF Orders
<1>3. queue' \in Seq(Cases) /\ DOMAIN queue' = 1..n
  BY <1>1, <1>2, SeqDef
<1>4. /\ IsFiniteSet(1..n) /\ Cardinality(1..n) = n
      /\ queue' \in Injection(1..n, S)
  <2>1. IsFiniteSet(1..n) /\ Cardinality(1..n) = n
    <3>1. 1 \in Int /\ n \in Int
      BY <1>1
    <3>2. IsFiniteSet(1..n) /\ Cardinality(1..n) = IF 1 > n THEN 0 ELSE n - 1 + 1
      BY <3>1, FS_Interval, Zenon
    <3> QED BY <1>1, <3>2
  <2>2. queue' \in Injection(1..n, S)
    BY <1>2 DEF Injection, IsInjective
  <2> QED BY <2>1, <2>2
<1>5. queue' \in Surjection(1..n, S)
  BY <1>1, <1>4, FS_Injection
<1>6. \A d \in S : \E i \in 1..n : queue'[i] = d
  BY <1>5 DEF Surjection
<1>7. ASSUME NEW d \in Cases, d \in S PROVE InQueue(d)'
  BY <1>3, <1>6, <1>7 DEF InQueue
<1>8. ASSUME NEW d \in Cases, InQueue(d)' PROVE d \in S
  BY <1>2, <1>3, <1>8 DEF InQueue
<1> QED BY <1>3, <1>7, <1>8

LEMMA StatusesExist ==
  {QUEUED, ANALYZING, READY_FOR_REVIEW, PROCESSING_FAILED, DLQ_INVESTIGATION,
   CLOSED} \subseteq ALL_STATUSES
  BY DEF ALL_STATUSES, TRANSITIONS, QUEUED, ANALYZING, READY_FOR_REVIEW,
         PROCESSING_FAILED, DLQ_INVESTIGATION, CLOSED

(* The bound on faults holds after any step.                                *)
LEMMA FaultType ==
  ASSUME TypeOK, faults' = faults \/ Fault
  PROVE  faults \in Nat /\ faults' \in 0..MaxFaults /\ faults' \in Nat
         /\ faults' >= faults
  BY JobQueueAssumption DEF TypeOK, Fault

(* The worker's job was submitted and has a row.                            *)
LEMMA WorkerHasJob ==
  ASSUME TypeOK, MemoryInv, worker.pc # "idle"
  PROVE  /\ worker.job \in Cases
         /\ submit[worker.job] = "done"
         /\ jobStatus[worker.job] # ABSENT
<1>1. worker.job \in Cases
  BY DEF TypeOK, WorkerCalls, MemoryInv
<1> QED BY <1>1 DEF MemoryInv, SubmitInv

(* A dead-lettered case was submitted, and its job has a row.               *)
LEMMA DeadLettered ==
  ASSUME MemoryInv, NEW c \in Cases, dlq[c] # << >>
  PROVE  submit[c] = "done" /\ jobStatus[c] # ABSENT /\ ~HasSlot(c)
  BY DEF MemoryInv, SubmitInv, HasSlot

(* Dead-letter entries are never removed, so a request keeps its entry.     *)
LEMMA RequestKept ==
  ASSUME MemoryInv, admin' = admin,
         \A d \in Cases : /\ DOMAIN dlq[d] \subseteq DOMAIN dlq'[d]
                          /\ dlq[d] # << >> => dlq'[d] # << >>
  PROVE  \A a \in Admins : RequestInv(a)'
  BY DEF MemoryInv, RequestInv, Holds

(* A step that leaves the rows alone, and in which nobody else takes a job   *)
(* or a case, keeps what is known of the outcomes.                           *)
LEMMA OutcomeSame ==
  ASSUME OutcomeInv, UNCHANGED <<caseStatus, jobStatus, dlq>>,
         \A d \in Cases : worker'.job = d => worker.job = d,
         reviews' = reviews \/ \A r \in Reviewers :
                                 Reviews(r)' => Reviews(r) /\ reviews'[r] = reviews[r]
  PROVE  OutcomeInv'
  BY DEF OutcomeInv, HasOutcome, Reviews

(* A transaction on a case keeps what is known of the outcomes, if it makes  *)
(* no case decidable that has none and takes none away.                      *)
LEMMA OutcomeWrites ==
  ASSUME OutcomeInv, NEW c \in Cases, reviews' = reviews,
         \A d \in Cases \ {c} : /\ caseStatus'[d] = caseStatus[d]
                                /\ jobStatus'[d] = jobStatus[d]
                                /\ dlq'[d] = dlq[d]
                                /\ worker'.job = d => worker.job = d,
         HasOutcome(c) => HasOutcome(c)',
         Decidable(caseStatus'[c]) => Decidable(caseStatus[c]) \/ HasOutcome(c)',
         worker'.job = c => jobStatus'[c] # "succeeded"
  PROVE  OutcomeInv'
<1>1. \A d \in Cases \ {c} : HasOutcome(d)' <=> HasOutcome(d)
  BY DEF HasOutcome
<1>2. \A d \in Cases : /\ Decidable(caseStatus'[d]) => HasOutcome(d)'
                       /\ worker'.job = d => jobStatus'[d] # "succeeded"
  BY <1>1 DEF OutcomeInv
<1>3. \A r \in Reviewers :
        Reviews(r) => /\ reviews[r].case \in Cases
                      /\ reviews[r].seen # ABSENT
                      /\ Decidable(reviews[r].seen) => HasOutcome(reviews[r].case)
  BY DEF OutcomeInv
<1> QED BY <1>1, <1>2, <1>3 DEF OutcomeInv, Reviews, HasOutcome

(* No decision moves a case that waits for its job.                          *)
LEMMA NotDecidable ==
  ~Decidable(QUEUED) /\ ~Decidable(ANALYZING) /\ ~Decidable(PROCESSING_FAILED)
    /\ ~Decidable(ABSENT)
  BY DEF Decidable, Decided, ABSENT, QUEUED, ANALYZING, PROCESSING_FAILED, READY_FOR_REVIEW,
         UNDER_REVIEW, VALIDATION_FAILED, DLQ_INVESTIGATION, REFERRED, CLOSED,
         MORE_INFO_REQUIRED

-------------------------------------------------------------------------------
(* submit_case                                                              *)

LEMMA SubmitAcquireLoss ==
  ASSUME LossInv, NEW c \in Cases, SubmitAcquire(c)
  PROVE  LossInv'
<1> USE DEF SubmitAcquire, rows, bounds
<1>0. TypeOK /\ MemoryInv /\ StrandedJobsAreFaults /\ SlotsAreHeld
  BY DEF LossInv
<1>1. TypeOK'
  BY <1>0, SlotType DEF TypeOK, SubmitPhases
<1>2. MemoryInv'
  <2>1. \A a \in Admins : RequestInv(a)'
    BY <1>0, RequestKept
  <2>2. \A d \in Cases : SubmitInv(d)'
    BY <1>0, QueueSame DEF TypeOK, MemoryInv, SubmitInv
  <2> QED BY <1>0, <2>1, <2>2 DEF MemoryInv
<1>3. StrandedJobsAreFaults'
  <2>1. \A d \in Cases : OnItsWay(d) => OnItsWay(d)'
    BY <1>0, QueueSame, AdminSame DEF TypeOK, OnItsWay
  <2> QED BY <1>0, <2>1, FaultType, StrandedKept
<1>4. SlotsAreHeld'
  <2>1. ~HasSlot(c)
    BY <1>0 DEF MemoryInv, SubmitInv, HasSlot, InFlight, ABSENT
  <2>2. HasSlot(c)'
    BY <1>0 DEF TypeOK, MemoryInv, SubmitInv, HasSlot, InFlight
  <2>3. \A d \in Cases : HasSlot(d) => HasSlot(d)'
    BY <1>0, <2>1 DEF TypeOK, HasSlot, InFlight
  <2> QED BY <1>0, <2>1, <2>2, <2>3, SlotTaken
<1>5. OutcomeInv'
  BY OutcomeSame DEF LossInv
<1> QED BY <1>1, <1>2, <1>3, <1>4, <1>5 DEF LossInv

LEMMA SubmitCommitLoss ==
  ASSUME LossInv, NEW c \in Cases, SubmitCommit(c)
  PROVE  LossInv'
<1> USE DEF SubmitCommit, bounds
<1>0. TypeOK /\ MemoryInv /\ StrandedJobsAreFaults /\ SlotsAreHeld
  BY DEF LossInv
<1>1. TypeOK'
  BY <1>0, StatusesExist DEF TypeOK, SubmitPhases, JobStatuses
<1>2. MemoryInv'
  <2>1. \A a \in Admins : RequestInv(a)'
    BY <1>0, RequestKept
  <2>2. \A d \in Cases : SubmitInv(d)'
    BY <1>0, QueueSame DEF TypeOK, MemoryInv, SubmitInv, ABSENT
  <2> QED BY <1>0, <2>1, <2>2 DEF MemoryInv
<1>3. StrandedJobsAreFaults'
  <2>1. \A d \in Cases : OnItsWay(d) => OnItsWay(d)'
    BY <1>0, QueueSame, AdminSame DEF TypeOK, OnItsWay
  <2>2. OnItsWay(c)' /\ \A d \in Cases \ {c} : jobStatus'[d] = jobStatus[d]
    BY <1>0 DEF TypeOK, OnItsWay
  <2> QED BY <1>0, <2>1, <2>2, FaultType, StrandedKept
<1>4. SlotsAreHeld'
  <2>1. \A d \in Cases : HasSlot(d) => HasSlot(d)'
    BY <1>0 DEF TypeOK, HasSlot, InFlight
  <2> QED BY <1>0, <2>1, FaultType, SlotsKept
<1>5. OutcomeInv'
  <2>1. /\ caseStatus'[c] = QUEUED /\ jobStatus'[c] = "queued" /\ jobStatus[c] = ABSENT
        /\ \A d \in Cases \ {c} : caseStatus'[d] = caseStatus[d] /\ jobStatus'[d] = jobStatus[d]
    BY <1>0 DEF TypeOK, MemoryInv, SubmitInv
  <2>2. ~Decidable(QUEUED)
    BY NotDecidable
  <2> QED BY <2>1, <2>2, OutcomeWrites DEF LossInv, HasOutcome, ABSENT
<1> QED BY <1>1, <1>2, <1>3, <1>4, <1>5 DEF LossInv

LEMMA SubmitFailLoss ==
  ASSUME LossInv, NEW c \in Cases, SubmitFail(c)
  PROVE  LossInv'
<1> USE DEF SubmitFail, rows, bounds
<1>0. TypeOK /\ MemoryInv /\ StrandedJobsAreFaults /\ SlotsAreHeld
  BY DEF LossInv
<1>1. TypeOK'
  BY <1>0, SlotType DEF TypeOK, SubmitPhases
<1>2. MemoryInv'
  <2>1. \A a \in Admins : RequestInv(a)'
    BY <1>0, RequestKept
  <2>2. \A d \in Cases : SubmitInv(d)'
    BY <1>0, QueueSame DEF TypeOK, MemoryInv, SubmitInv
  <2> QED BY <1>0, <2>1, <2>2 DEF MemoryInv
<1>3. StrandedJobsAreFaults'
  <2>1. \A d \in Cases : OnItsWay(d) => OnItsWay(d)'
    BY <1>0, QueueSame, AdminSame DEF TypeOK, OnItsWay
  <2> QED BY <1>0, <2>1, FaultType, StrandedKept
<1>4. SlotsAreHeld'
  <2>1. \A d \in Cases \ {c} : HasSlot(d) => HasSlot(d)'
    BY <1>0 DEF TypeOK, HasSlot, InFlight
  <2> QED BY <1>0, <2>1, SlotReleased
<1>5. OutcomeInv'
  BY OutcomeSame DEF LossInv
<1> QED BY <1>1, <1>2, <1>3, <1>4, <1>5 DEF LossInv

LEMMA SubmitEnqueueLoss ==
  ASSUME LossInv, NEW c \in Cases, SubmitEnqueue(c)
  PROVE  LossInv'
<1> USE DEF SubmitEnqueue, rows, bounds
<1>0. TypeOK /\ MemoryInv /\ StrandedJobsAreFaults /\ SlotsAreHeld
  BY DEF LossInv
<1>q. /\ queue' \in Seq(Cases)
      /\ \A d \in Cases : InQueue(d)' <=> InQueue(d) \/ d = c
  BY <1>0, QueueAppend DEF TypeOK
<1>1. TypeOK'
  BY <1>0, <1>q DEF TypeOK, SubmitPhases
<1>2. MemoryInv'
  <2>1. \A a \in Admins : RequestInv(a)'
    BY <1>0, RequestKept
  <2>2. \A d \in Cases : SubmitInv(d)'
    BY <1>0, <1>q DEF TypeOK, MemoryInv, SubmitInv, ABSENT
  <2> QED BY <1>0, <2>1, <2>2 DEF MemoryInv
<1>3. StrandedJobsAreFaults'
  <2>1. \A d \in Cases : OnItsWay(d) => OnItsWay(d)'
    BY <1>0, <1>q, AdminSame DEF TypeOK, OnItsWay
  <2> QED BY <1>0, <2>1, FaultType, StrandedKept
<1>4. SlotsAreHeld'
  <2>1. jobStatus[c] = "queued"
    BY <1>0 DEF MemoryInv, SubmitInv
  <2>2. \A d \in Cases : HasSlot(d) => HasSlot(d)'
    BY <1>0, <2>1 DEF TypeOK, HasSlot, InFlight
  <2> QED BY <1>0, <2>2, FaultType, SlotsKept
<1>5. OutcomeInv'
  BY OutcomeSame DEF LossInv
<1> QED BY <1>1, <1>2, <1>3, <1>4, <1>5 DEF LossInv

LEMMA SubmitFaultLoss ==
  ASSUME LossInv, NEW c \in Cases, SubmitFault(c)
  PROVE  LossInv'
<1> USE DEF SubmitFault, rows
<1>0. TypeOK /\ MemoryInv /\ StrandedJobsAreFaults /\ SlotsAreHeld
      /\ crashes' = crashes
  BY DEF LossInv, Fault
<1>1. TypeOK'
  BY <1>0, FaultType DEF TypeOK, SubmitPhases
<1>2. MemoryInv'
  <2>1. \A a \in Admins : RequestInv(a)'
    BY <1>0, RequestKept
  <2>2. \A d \in Cases : SubmitInv(d)'
    BY <1>0, QueueSame DEF TypeOK, MemoryInv, SubmitInv, ABSENT
  <2> QED BY <1>0, <2>1, <2>2 DEF MemoryInv
<1>3. StrandedJobsAreFaults'
  <2>1. \A d \in Cases \ {c} : OnItsWay(d) => OnItsWay(d)'
    BY <1>0, QueueSame, AdminSame DEF TypeOK, OnItsWay
  <2> QED BY <1>0, <2>1, StrandedByFault
<1>4. SlotsAreHeld'
  <2>1. jobStatus[c] = "queued"
    BY <1>0 DEF MemoryInv, SubmitInv
  <2>2. \A d \in Cases : HasSlot(d) => HasSlot(d)'
    BY <1>0, <2>1 DEF TypeOK, HasSlot, InFlight
  <2> QED BY <1>0, <2>2, FaultType, SlotsKept
<1>5. OutcomeInv'
  BY OutcomeSame DEF LossInv
<1> QED BY <1>1, <1>2, <1>3, <1>4, <1>5 DEF LossInv

-------------------------------------------------------------------------------
(* The worker                                                               *)

(* The job at the head of the queue was submitted and has a row.            *)
LEMMA TakenJob ==
  ASSUME TypeOK, MemoryInv, NEW c \in Cases, WorkerTakes(c)
  PROVE  /\ queue' \in Seq(Cases)
         /\ InQueue(c) /\ submit[c] = "done" /\ jobStatus[c] # ABSENT
         /\ worker.job = None /\ proc = "up"
         /\ \A d \in Cases : InQueue(d)' => InQueue(d)
         /\ \A d \in Cases \ {c} : InQueue(d) => InQueue(d)'
<1>1. /\ queue' \in Seq(Cases) /\ InQueue(c)
      /\ \A d \in Cases : InQueue(d)' => InQueue(d)
      /\ \A d \in Cases \ {c} : InQueue(d) => InQueue(d)'
  BY QueueTakes DEF WorkerTakes, TypeOK
<1> QED BY <1>1 DEF WorkerTakes, MemoryInv, SubmitInv

LEMMA WorkerSkipLoss ==
  ASSUME LossInv, NEW c \in Cases, WorkerSkip(c)
  PROVE  LossInv'
<1> USE DEF WorkerSkip, rows, bounds
<1>0. TypeOK /\ MemoryInv /\ StrandedJobsAreFaults /\ SlotsAreHeld
  BY DEF LossInv
<1>q. /\ queue' \in Seq(Cases)
      /\ \A d \in Cases : InQueue(d)' => InQueue(d)
      /\ \A d \in Cases \ {c} : InQueue(d) => InQueue(d)'
  BY <1>0, TakenJob
<1>1. TypeOK'
  BY <1>0, <1>q DEF TypeOK
<1>2. MemoryInv'
  <2>1. \A a \in Admins : RequestInv(a)'
    BY <1>0, RequestKept
  <2>2. \A d \in Cases : SubmitInv(d)'
    BY <1>0, <1>q DEF MemoryInv, SubmitInv
  <2> QED BY <1>0, <2>1, <2>2 DEF MemoryInv
<1>3. StrandedJobsAreFaults'
  <2>1. \A d \in Cases \ {c} : OnItsWay(d) => OnItsWay(d)'
    BY <1>0, <1>q, AdminSame DEF OnItsWay
  <2> QED BY <1>0, <2>1, FaultType, StrandedKept
<1>4. SlotsAreHeld'
  <2>1. \A d \in Cases : HasSlot(d) => HasSlot(d)'
    BY <1>0 DEF HasSlot, InFlight
  <2> QED BY <1>0, <2>1, FaultType, SlotsKept
<1>5. OutcomeInv'
  BY OutcomeSame DEF LossInv
<1> QED BY <1>1, <1>2, <1>3, <1>4, <1>5 DEF LossInv

LEMMA WorkerStartLoss ==
  ASSUME LossInv, NEW c \in Cases, WorkerStart(c)
  PROVE  LossInv'
<1> DEFINE status == IF IsValidTransition(caseStatus[c], ANALYZING)
                     THEN ANALYZING ELSE caseStatus[c]
<1> USE DEF bounds
<1>0. TypeOK /\ MemoryInv /\ StrandedJobsAreFaults /\ SlotsAreHeld
  BY DEF LossInv
<1>s. /\ WorkerTakes(c)
      /\ jobStatus[c] # "succeeded"
      /\ jobStatus' = [jobStatus EXCEPT ![c] = "running"]
      /\ attempts' = [attempts EXCEPT ![c] = @ + 1]
      /\ caseStatus' = [caseStatus EXCEPT ![c] = status]
      /\ worker' = [pc |-> "analyzing", job |-> c, seen |-> status,
                    category |-> UNKNOWN]
      /\ UNCHANGED <<results, dlq, proc, timers, gauge, submit, admin, reviews,
                     bounds>>
  BY DEF WorkerStart
<1>t. status \in ALL_STATUSES \cup {ABSENT}
  BY <1>0, StatusesExist DEF TypeOK
<1> HIDE DEF status
<1>q. /\ queue' \in Seq(Cases)
      /\ submit[c] = "done" /\ jobStatus[c] # ABSENT /\ worker.job = None
      /\ proc = "up"
      /\ \A d \in Cases : InQueue(d)' => InQueue(d)
      /\ \A d \in Cases \ {c} : InQueue(d) => InQueue(d)'
  BY <1>0, <1>s, TakenJob
<1>1. TypeOK'
  <2>1. worker' \in WorkerCalls
    BY <1>s, <1>t, JobQueueAssumption DEF WorkerCalls
  <2> QED BY <1>0, <1>q, <1>s, <1>t, <2>1, SMTT(30) DEF TypeOK, JobStatuses
<1>2. MemoryInv'
  <2>1. \A a \in Admins : RequestInv(a)'
    BY <1>0, <1>s, RequestKept
  <2>2. \A d \in Cases : SubmitInv(d)'
    BY <1>0, <1>q, <1>s DEF TypeOK, MemoryInv, SubmitInv, ABSENT
  <2>3. (worker.pc = "idle" <=> worker.job = None)'
    BY <1>s, JobQueueAssumption
  <2> QED BY <2>1, <2>2, <2>3 DEF MemoryInv
<1>3. StrandedJobsAreFaults'
  <2>1. \A d \in Cases \ {c} : OnItsWay(d) => OnItsWay(d)'
    BY <1>q, <1>s, AdminSame DEF OnItsWay
  <2>2. jobStatus'[c] = "running"
        /\ \A d \in Cases \ {c} : jobStatus'[d] = jobStatus[d]
    BY <1>0, <1>s DEF TypeOK
  <2> QED BY <1>0, <1>s, <2>1, <2>2, FaultType, StrandedKept
<1>4. SlotsAreHeld'
  <2>1. \A d \in Cases : HasSlot(d) => HasSlot(d)'
    BY <1>0, <1>q, <1>s, JobQueueAssumption DEF TypeOK, HasSlot, InFlight
  <2> QED BY <1>0, <1>s, <2>1, FaultType, SlotsKept
<1>5. OutcomeInv'
  <2>1. /\ caseStatus'[c] = status /\ jobStatus'[c] = "running"
        /\ \A d \in Cases \ {c} : caseStatus'[d] = caseStatus[d] /\ jobStatus'[d] = jobStatus[d]
    BY <1>0, <1>s DEF TypeOK
  <2>2. Decidable(status) => Decidable(caseStatus[c])
    BY NotDecidable DEF status
  <2> QED BY <1>s, <2>1, <2>2, OutcomeWrites DEF LossInv, HasOutcome
<1> QED BY <1>1, <1>2, <1>3, <1>4, <1>5 DEF LossInv

LEMMA WorkerStartFaultLoss ==
  ASSUME LossInv, NEW c \in Cases, WorkerStartFault(c)
  PROVE  LossInv'
<1> USE DEF WorkerStartFault, rows
<1>0. TypeOK /\ MemoryInv /\ StrandedJobsAreFaults /\ SlotsAreHeld
      /\ crashes' = crashes
  BY DEF LossInv, Fault
<1>q. /\ queue' \in Seq(Cases)
      /\ \A d \in Cases : InQueue(d)' => InQueue(d)
      /\ \A d \in Cases \ {c} : InQueue(d) => InQueue(d)'
  BY <1>0, TakenJob
<1>1. TypeOK'
  BY <1>0, <1>q, FaultType DEF TypeOK
<1>2. MemoryInv'
  <2>1. \A a \in Admins : RequestInv(a)'
    BY <1>0, RequestKept
  <2>2. \A d \in Cases : SubmitInv(d)'
    BY <1>0, <1>q DEF MemoryInv, SubmitInv
  <2> QED BY <1>0, <2>1, <2>2 DEF MemoryInv
<1>3. StrandedJobsAreFaults'
  <2>1. \A d \in Cases \ {c} : OnItsWay(d) => OnItsWay(d)'
    BY <1>0, <1>q, AdminSame DEF OnItsWay
  <2> QED BY <1>0, <2>1, StrandedByFault
<1>4. SlotsAreHeld'
  <2>1. \A d \in Cases : HasSlot(d) => HasSlot(d)'
    BY <1>0 DEF HasSlot, InFlight
  <2> QED BY <1>0, <2>1, FaultType, SlotsKept
<1>5. OutcomeInv'
  BY OutcomeSame DEF LossInv
<1> QED BY <1>1, <1>2, <1>3, <1>4, <1>5 DEF LossInv

(* process_job_once ends, one way or the other.                             *)
LEMMA WorkerDone ==
  ASSUME TypeOK, MemoryInv, worker.pc # "idle", worker' = IdleWorker,
         UNCHANGED <<proc, queue, submit, admin>>,
         \A d \in Cases \ {worker.job} : /\ timers'[d] = timers[d]
                                         /\ jobStatus'[d] = jobStatus[d]
                                         /\ dlq'[d] = dlq[d],
         jobStatus'[worker.job] # ABSENT,
         DOMAIN dlq[worker.job] \subseteq DOMAIN dlq'[worker.job],
         dlq[worker.job] # << >> => dlq'[worker.job] # << >>
  PROVE  MemoryInv' /\ worker' \in WorkerCalls
<1>1. worker' \in WorkerCalls
  BY JobQueueAssumption DEF IdleWorker, WorkerCalls
<1>2. \A a \in Admins : RequestInv(a)'
  BY RequestKept
<1>3. ASSUME NEW d \in Cases PROVE SubmitInv(d)'
  <2>1. worker'.pc = "idle" /\ worker'.job # d
    BY JobQueueAssumption DEF IdleWorker
  <2>2. CASE d = worker.job
    BY <2>1, <2>2, WorkerHasJob DEF SubmitInv
  <2>3. CASE d # worker.job
    BY <2>1, <2>3, QueueSame DEF MemoryInv, SubmitInv
  <2> QED BY <2>2, <2>3
<1>4. (worker.pc = "idle" <=> worker.job = None)'
  BY DEF IdleWorker
<1> QED BY <1>1, <1>2, <1>3, <1>4 DEF MemoryInv

LEMMA WorkerSucceedLoss ==
  ASSUME LossInv, WorkerSucceed
  PROVE  LossInv'
<1> DEFINE c == worker.job
<1> USE DEF WorkerSucceed, bounds
<1>0. TypeOK /\ MemoryInv /\ StrandedJobsAreFaults /\ SlotsAreHeld
      /\ c \in Cases /\ ReleaseSlot(c)
  BY WorkerHasJob DEF LossInv
<1>j. /\ jobStatus'[c] = "succeeded" /\ jobStatus' \in [Cases -> JobStatuses \cup {ABSENT}]
      /\ \A d \in Cases \ {c} : jobStatus'[d] = jobStatus[d]
  BY <1>0 DEF TypeOK, JobStatuses
<1>2. MemoryInv' /\ worker' \in WorkerCalls
  BY <1>0, <1>j, WorkerDone DEF ABSENT
<1>1. TypeOK'
  <2>1. results' \in [Cases -> Nat]
    BY <1>0 DEF TypeOK
  <2>2. caseStatus' \in [Cases -> ALL_STATUSES \cup {ABSENT}]
    BY <1>0, StatusesExist DEF TypeOK
  <2>3. gauge' \in [Analysts -> Nat] /\ faults' \in 0..MaxFaults
    BY <1>0, SlotType DEF TypeOK
  <2> QED BY <1>0, <1>j, <1>2, <2>1, <2>2, <2>3 DEF TypeOK
<1>3. StrandedJobsAreFaults'
  <2>1. \A d \in Cases : OnItsWay(d) => OnItsWay(d)'
    BY QueueSame, AdminSame DEF OnItsWay
  <2> QED BY <1>0, <1>j, <2>1, FaultType, StrandedKept
<1>4. SlotsAreHeld'
  <2>1. \A d \in Cases \ {c} : HasSlot(d) => HasSlot(d)'
    BY <1>j DEF HasSlot, InFlight
  <2> QED BY <1>0, <2>1, SlotReleased
<1>5. OutcomeInv'
  <2>1. \A d \in Cases : worker'.job # d
    BY JobQueueAssumption DEF IdleWorker
  <2>2. \A d \in Cases \ {c} : caseStatus'[d] = caseStatus[d]
    BY <1>0 DEF TypeOK
  <2> QED BY <1>0, <1>j, <2>1, <2>2, OutcomeWrites DEF LossInv, HasOutcome
<1> QED BY <1>1, <1>2, <1>3, <1>4, <1>5 DEF LossInv

LEMMA WorkerSucceedFaultLoss ==
  ASSUME LossInv, WorkerSucceedFault
  PROVE  LossInv'
<1> DEFINE c == worker.job
<1> USE DEF WorkerSucceedFault
<1>0. TypeOK /\ MemoryInv /\ StrandedJobsAreFaults /\ SlotsAreHeld
      /\ c \in Cases /\ Fault /\ crashes' = crashes
  BY WorkerHasJob DEF LossInv, Fault
<1>j. /\ jobStatus'[c] = "succeeded" /\ jobStatus' \in [Cases -> JobStatuses \cup {ABSENT}]
      /\ \A d \in Cases \ {c} : jobStatus'[d] = jobStatus[d]
  BY <1>0 DEF TypeOK, JobStatuses
<1>2. MemoryInv' /\ worker' \in WorkerCalls
  BY <1>0, <1>j, WorkerDone DEF ABSENT
<1>1. TypeOK'
  <2>1. results' \in [Cases -> Nat]
    BY <1>0 DEF TypeOK
  <2>2. caseStatus' \in [Cases -> ALL_STATUSES \cup {ABSENT}]
    BY <1>0, StatusesExist DEF TypeOK
  <2>3. gauge' \in [Analysts -> Nat] /\ faults' \in 0..MaxFaults
    BY <1>0, FaultType DEF TypeOK
  <2> QED BY <1>0, <1>j, <1>2, <2>1, <2>2, <2>3 DEF TypeOK
<1>3. StrandedJobsAreFaults'
  <2>1. \A d \in Cases : OnItsWay(d) => OnItsWay(d)'
    BY QueueSame, AdminSame DEF OnItsWay
  <2> QED BY <1>0, <1>j, <2>1, FaultType, StrandedKept
<1>4. SlotsAreHeld'
  <2>1. \A d \in Cases \ {c} : HasSlot(d) => HasSlot(d)'
    BY <1>j DEF HasSlot, InFlight
  <2> QED BY <1>0, <2>1, SlotLost
<1>5. OutcomeInv'
  <2>1. \A d \in Cases : worker'.job # d
    BY JobQueueAssumption DEF IdleWorker
  <2>2. \A d \in Cases \ {c} : caseStatus'[d] = caseStatus[d]
    BY <1>0 DEF TypeOK
  <2> QED BY <1>0, <1>j, <2>1, <2>2, OutcomeWrites DEF LossInv, HasOutcome
<1> QED BY <1>1, <1>2, <1>3, <1>4, <1>5 DEF LossInv

LEMMA WorkerRetryLoss ==
  ASSUME LossInv, NEW category, WorkerRetry(category)
  PROVE  LossInv'
<1> DEFINE c == worker.job
<1> USE DEF WorkerRetry, bounds
<1>0. TypeOK /\ MemoryInv /\ StrandedJobsAreFaults /\ SlotsAreHeld
      /\ c \in Cases
  BY WorkerHasJob DEF LossInv
<1>j. /\ jobStatus'[c] = "queued" /\ jobStatus' \in [Cases -> JobStatuses \cup {ABSENT}]
      /\ \A d \in Cases \ {c} : jobStatus'[d] = jobStatus[d]
  BY <1>0 DEF TypeOK, JobStatuses
<1>t. /\ timers' \in [Cases -> Nat] /\ timers'[c] > 0
      /\ \A d \in Cases \ {c} : timers'[d] = timers[d]
  BY <1>0 DEF TypeOK
<1>2. MemoryInv' /\ worker' \in WorkerCalls
  BY <1>0, <1>j, <1>t, WorkerDone DEF ABSENT
<1>1. TypeOK'
  BY <1>0, <1>j, <1>t, <1>2, StatusesExist DEF TypeOK
<1>3. StrandedJobsAreFaults'
  <2>1. \A d \in Cases : OnItsWay(d) => OnItsWay(d)'
    BY <1>t, QueueSame, AdminSame DEF OnItsWay
  <2>2. \A d \in Cases : d = c => OnItsWay(d)'
    BY <1>t DEF OnItsWay
  <2> QED BY <1>0, <1>j, <2>1, <2>2, FaultType, StrandedKept
<1>4. SlotsAreHeld'
  <2>1. \A d \in Cases : HasSlot(d) => HasSlot(d)'
    BY <1>j DEF HasSlot, InFlight
  <2> QED BY <1>0, <2>1, FaultType, SlotsKept
<1>5. OutcomeInv'
  <2>1. \A d \in Cases : worker'.job # d
    BY JobQueueAssumption DEF IdleWorker
  <2>2. caseStatus'[c] = QUEUED /\ \A d \in Cases \ {c} : caseStatus'[d] = caseStatus[d]
    BY <1>0 DEF TypeOK
  <2>3. jobStatus[c] # "succeeded"
    BY <1>0 DEF LossInv, OutcomeInv
  <2> QED BY <1>0, <1>j, <2>1, <2>2, <2>3, NotDecidable, OutcomeWrites
          DEF LossInv, HasOutcome
<1> QED BY <1>1, <1>2, <1>3, <1>4, <1>5 DEF LossInv

LEMMA WorkerRetryFaultLoss ==
  ASSUME LossInv, NEW category, WorkerRetryFault(category)
  PROVE  LossInv'
<1> DEFINE c == worker.job
<1> USE DEF WorkerRetryFault
<1>0. TypeOK /\ MemoryInv /\ StrandedJobsAreFaults /\ SlotsAreHeld
      /\ c \in Cases /\ Fault /\ crashes' = crashes
  BY WorkerHasJob DEF LossInv, Fault
<1>j. /\ jobStatus'[c] = "queued" /\ jobStatus' \in [Cases -> JobStatuses \cup {ABSENT}]
      /\ \A d \in Cases \ {c} : jobStatus'[d] = jobStatus[d]
  BY <1>0 DEF TypeOK, JobStatuses
<1>2. MemoryInv' /\ worker' \in WorkerCalls
  BY <1>0, <1>j, WorkerDone DEF ABSENT
<1>1. TypeOK'
  <2>1. results' \in [Cases -> Nat]
    BY <1>0 DEF TypeOK
  <2>2. caseStatus' \in [Cases -> ALL_STATUSES \cup {ABSENT}]
    BY <1>0, StatusesExist DEF TypeOK
  <2>3. gauge' \in [Analysts -> Nat] /\ faults' \in 0..MaxFaults
    BY <1>0, FaultType DEF TypeOK
  <2> QED BY <1>0, <1>j, <1>2, <2>1, <2>2, <2>3 DEF TypeOK
<1>3. StrandedJobsAreFaults'
  <2>1. \A d \in Cases : OnItsWay(d) => OnItsWay(d)'
    BY QueueSame, AdminSame DEF OnItsWay
  <2> QED BY <1>0, <1>j, <2>1, StrandedByFault
<1>4. SlotsAreHeld'
  <2>1. \A d \in Cases : HasSlot(d) => HasSlot(d)'
    BY <1>j DEF HasSlot, InFlight
  <2> QED BY <1>0, <2>1, FaultType, SlotsKept
<1>5. OutcomeInv'
  <2>1. \A d \in Cases : worker'.job # d
    BY JobQueueAssumption DEF IdleWorker
  <2>2. caseStatus'[c] = QUEUED /\ \A d \in Cases \ {c} : caseStatus'[d] = caseStatus[d]
    BY <1>0 DEF TypeOK
  <2>3. jobStatus[c] # "succeeded"
    BY <1>0 DEF LossInv, OutcomeInv
  <2> QED BY <1>0, <1>j, <2>1, <2>2, <2>3, NotDecidable, OutcomeWrites
          DEF LossInv, HasOutcome
<1> QED BY <1>1, <1>2, <1>3, <1>4, <1>5 DEF LossInv

(* A job that fails for good while it is the worker's, or the startup's,    *)
(* keeps its slot until its dead-letter entry is written.                   *)
LEMMA GiveUp ==
  ASSUME LossInv, NEW c \in Cases, NEW category \in ErrorCategories,
         submit[c] = "done", jobStatus[c] # "succeeded",
         worker.job \in {c, None}, worker.pc # "failing",
         caseStatus' = [caseStatus EXCEPT ![c] = PROCESSING_FAILED],
         jobStatus' = [jobStatus EXCEPT ![c] = "failed"],
         worker' = [pc |-> "failing", job |-> c, seen |-> ABSENT,
                    category |-> category],
         UNCHANGED <<attempts, results, dlq, proc, queue, timers, gauge, submit,
                     admin, reviews, bounds>>
  PROVE  LossInv'
<1> USE DEF bounds
<1>0. TypeOK /\ MemoryInv /\ StrandedJobsAreFaults /\ SlotsAreHeld
  BY DEF LossInv
<1>j. /\ jobStatus'[c] = "failed" /\ jobStatus' \in [Cases -> JobStatuses \cup {ABSENT}]
      /\ \A d \in Cases \ {c} : jobStatus'[d] = jobStatus[d]
  BY <1>0 DEF TypeOK, JobStatuses
<1>w. worker' \in WorkerCalls /\ worker'.pc = "failing" /\ worker'.job = c
  BY DEF WorkerCalls
<1>1. TypeOK'
  BY <1>0, <1>j, <1>w, StatusesExist DEF TypeOK
<1>2. MemoryInv'
  <2>1. \A a \in Admins : RequestInv(a)'
    BY <1>0, RequestKept
  <2>2. \A d \in Cases : SubmitInv(d)'
    BY <1>0, <1>j, <1>w, QueueSame DEF TypeOK, MemoryInv, SubmitInv, ABSENT
  <2>3. (worker.pc = "idle" <=> worker.job = None)'
    BY <1>w, JobQueueAssumption
  <2> QED BY <2>1, <2>2, <2>3 DEF MemoryInv
<1>3. StrandedJobsAreFaults'
  <2>1. \A d \in Cases : OnItsWay(d) => OnItsWay(d)'
    BY QueueSame, AdminSame DEF OnItsWay
  <2> QED BY <1>0, <1>j, <2>1, FaultType, StrandedKept
<1>4. SlotsAreHeld'
  <2>1. \A d \in Cases : HasSlot(d) => HasSlot(d)'
    BY <1>j, <1>w DEF HasSlot, InFlight
  <2> QED BY <1>0, <2>1, FaultType, SlotsKept
<1>5. OutcomeInv'
  <2>1. /\ caseStatus'[c] = PROCESSING_FAILED
        /\ \A d \in Cases \ {c} : caseStatus'[d] = caseStatus[d]
    BY <1>0 DEF TypeOK
  <2>2. HasOutcome(c) => HasOutcome(c)'
    BY DEF HasOutcome
  <2> QED BY <1>j, <1>w, <2>1, <2>2, NotDecidable, OutcomeWrites DEF LossInv
<1> QED BY <1>1, <1>2, <1>3, <1>4, <1>5 DEF LossInv

LEMMA WorkerGiveUpLoss ==
  ASSUME LossInv, NEW category \in FailureCategories, WorkerGiveUp(category)
  PROVE  LossInv'
<1>1. worker.job \in Cases /\ submit[worker.job] = "done"
      /\ category \in ErrorCategories /\ jobStatus[worker.job] # "succeeded"
  BY WorkerHasJob, JobQueueAssumption DEF LossInv, OutcomeInv, WorkerGiveUp
<1> QED BY <1>1, GiveUp DEF WorkerGiveUp

(* The entry of a job that has failed for good is appended to its case's.   *)
LEMMA EntryAppended ==
  ASSUME TypeOK, NEW c \in Cases, worker \in WorkerCalls,
         dlq' = [dlq EXCEPT ![c] = Append(@, EntryOf(c))]
  PROVE  /\ dlq' \in [Cases -> Seq(DLQEntries)]
         /\ dlq'[c] # << >>
         /\ DOMAIN dlq[c] \subseteq DOMAIN dlq'[c]
         /\ \A d \in Cases \ {c} : dlq'[d] = dlq[d]
<1>1. EntryOf(c) \in DLQEntries
  BY DEF EntryOf, DLQEntries, TypeOK, WorkerCalls
<1>2. dlq[c] \in Seq(DLQEntries)
  BY DEF TypeOK
<1>3. /\ Append(dlq[c], EntryOf(c)) \in Seq(DLQEntries)
      /\ Len(Append(dlq[c], EntryOf(c))) = Len(dlq[c]) + 1
      /\ Len(dlq[c]) \in Nat
  BY <1>1, <1>2, AppendProperties
<1>4. dlq'[c] = Append(dlq[c], EntryOf(c))
      /\ \A d \in Cases \ {c} : dlq'[d] = dlq[d]
  BY DEF TypeOK
<1>5. DOMAIN dlq[c] = 1..Len(dlq[c])
      /\ DOMAIN dlq'[c] = 1..(Len(dlq[c]) + 1)
  BY <1>2, <1>3, <1>4, LenProperties
<1>6. dlq'[c] # << >>
  BY <1>3, <1>4, EmptySeq
<1>7. dlq' \in [Cases -> Seq(DLQEntries)]
  BY <1>3 DEF TypeOK
<1> QED BY <1>3, <1>4, <1>5, <1>6, <1>7

LEMMA CreateDLQEntryLoss ==
  ASSUME LossInv, CreateDLQEntry \/ AlertFault
  PROVE  LossInv'
<1> DEFINE c == worker.job
<1> USE DEF CreateDLQEntry, AlertFault, bounds
<1>0. TypeOK /\ MemoryInv /\ StrandedJobsAreFaults /\ SlotsAreHeld
      /\ c \in Cases /\ jobStatus[c] # ABSENT
  BY WorkerHasJob DEF LossInv
<1>s. /\ worker.pc = "failing" /\ worker' = IdleWorker
      /\ caseStatus' = [caseStatus EXCEPT ![c] = DLQ_INVESTIGATION]
      /\ dlq' = [dlq EXCEPT ![c] = Append(@, EntryOf(c))]
      /\ UNCHANGED <<jobStatus, attempts, results, proc, queue, timers, submit,
                     admin, reviews, crashes>>
  BY DEF Fault
<1>f. \/ ReleaseSlot(c) /\ faults' = faults
      \/ Fault /\ gauge' = gauge
  OBVIOUS
<1>d. /\ dlq' \in [Cases -> Seq(DLQEntries)]
      /\ dlq'[c] # << >>
      /\ DOMAIN dlq[c] \subseteq DOMAIN dlq'[c]
      /\ \A d \in Cases \ {c} : dlq'[d] = dlq[d]
  BY <1>0, <1>s, EntryAppended DEF TypeOK
<1>2. MemoryInv' /\ worker' \in WorkerCalls
  BY <1>0, <1>s, <1>d, WorkerDone
<1>1. TypeOK'
  <2>1. gauge' \in [Analysts -> Nat] /\ faults' \in 0..MaxFaults
    BY <1>0, <1>f, SlotType, FaultType DEF TypeOK
  <2> QED BY <1>0, <1>s, <1>d, <1>2, <2>1, StatusesExist DEF TypeOK
<1>3. StrandedJobsAreFaults'
  <2>1. \A d \in Cases : OnItsWay(d) => OnItsWay(d)'
    BY <1>s, QueueSame, AdminSame DEF OnItsWay
  <2> QED BY <1>0, <1>s, <1>f, <2>1, FaultType, StrandedKept
<1>4. SlotsAreHeld'
  <2>1. \A d \in Cases \ {c} : HasSlot(d) => HasSlot(d)'
    BY <1>s, <1>d DEF HasSlot, InFlight
  <2> QED BY <1>0, <1>f, <2>1, SlotReleased, SlotLost
<1>5. OutcomeInv'
  <2>1. \A d \in Cases : worker'.job # d
    BY <1>s, JobQueueAssumption DEF IdleWorker
  <2>2. \A d \in Cases \ {c} : caseStatus'[d] = caseStatus[d]
    BY <1>0, <1>s DEF TypeOK
  <2> QED BY <1>0, <1>s, <1>d, <2>1, <2>2, OutcomeWrites DEF LossInv, HasOutcome
<1> QED BY <1>1, <1>2, <1>3, <1>4, <1>5 DEF LossInv

(* An exception leaves the except block.  A job that has failed and has no   *)
(* entry is at a case that may be dead-lettered: that is not what raises.    *)
LEMMA WorkerRaisesLoss ==
  ASSUME LossInv, WorkerRaises
  PROVE  LossInv'
<1> DEFINE c == worker.job
<1> USE DEF WorkerRaises, rows, bounds
<1>0. TypeOK /\ MemoryInv /\ StrandedJobsAreFaults /\ SlotsAreHeld
      /\ c \in Cases /\ jobStatus[c] # ABSENT
  BY WorkerHasJob DEF LossInv
<1>2. MemoryInv' /\ worker' \in WorkerCalls
  BY <1>0, WorkerDone
<1>1. TypeOK'
  BY <1>0, <1>2 DEF TypeOK
<1>3. StrandedJobsAreFaults'
  <2>1. \A d \in Cases : OnItsWay(d) => OnItsWay(d)'
    BY QueueSame, AdminSame DEF OnItsWay
  <2> QED BY <1>0, <2>1, FaultType, StrandedKept
<1>4. SlotsAreHeld'
  <2>1. ASSUME worker.pc = "failing" PROVE dlq[c] # << >>
    <3>1. ~IsValidTransition(caseStatus[c], DLQ_INVESTIGATION)
      BY <2>1
    <3>2. caseStatus[c] # PROCESSING_FAILED
      BY <3>1 DEF IsValidTransition, TRANSITIONS, PROCESSING_FAILED
    <3> QED BY <1>0, <2>1, <3>2 DEF MemoryInv, SubmitInv
  <2>2. \A d \in Cases : HasSlot(d) => HasSlot(d)'
    BY <2>1 DEF HasSlot, InFlight
  <2> QED BY <1>0, <2>2, FaultType, SlotsKept
<1>5. OutcomeInv'
  <2>1. \A d \in Cases : worker'.job # d
    BY JobQueueAssumption DEF IdleWorker
  <2> QED BY <2>1, OutcomeSame DEF LossInv
<1> QED BY <1>1, <1>2, <1>3, <1>4, <1>5 DEF LossInv

LEMMA WorkerFaultLoss ==
  ASSUME LossInv, WorkerFault
  PROVE  LossInv'
<1> DEFINE c == worker.job
<1> USE DEF WorkerFault, rows
<1>0. TypeOK /\ MemoryInv /\ StrandedJobsAreFaults /\ SlotsAreHeld
      /\ c \in Cases /\ jobStatus[c] # ABSENT /\ crashes' = crashes
  BY WorkerHasJob DEF LossInv, Fault
<1>2. MemoryInv' /\ worker' \in WorkerCalls
  BY <1>0, WorkerDone
<1>1. TypeOK'
  BY <1>0, <1>2, FaultType DEF TypeOK
<1>3. StrandedJobsAreFaults'
  <2>1. \A d \in Cases : OnItsWay(d) => OnItsWay(d)'
    BY QueueSame, AdminSame DEF OnItsWay
  <2> QED BY <1>0, <2>1, FaultType, StrandedKept
<1>4. SlotsAreHeld'
  <2>1. \A d \in Cases \ {c} : HasSlot(d) => HasSlot(d)'
    BY DEF HasSlot, InFlight
  <2> QED BY <1>0, <2>1, SlotLost
<1>5. OutcomeInv'
  <2>1. \A d \in Cases : worker'.job # d
    BY JobQueueAssumption DEF IdleWorker
  <2> QED BY <2>1, OutcomeSame DEF LossInv
<1> QED BY <1>1, <1>2, <1>3, <1>4, <1>5 DEF LossInv

LEMMA TimerFiresLoss ==
  ASSUME LossInv, NEW c \in Cases, TimerFires(c)
  PROVE  LossInv'
<1> USE DEF TimerFires, rows, bounds
<1>0. TypeOK /\ MemoryInv /\ StrandedJobsAreFaults /\ SlotsAreHeld
  BY DEF LossInv
<1>q. /\ queue' \in Seq(Cases)
      /\ \A d \in Cases : InQueue(d)' <=> InQueue(d) \/ d = c
  BY <1>0, QueueAppend DEF TypeOK
<1>t. /\ timers' \in [Cases -> Nat]
      /\ \A d \in Cases \ {c} : timers'[d] = timers[d]
      /\ submit[c] = "done"
  BY <1>0 DEF TypeOK, MemoryInv, SubmitInv
<1>1. TypeOK'
  BY <1>0, <1>q, <1>t DEF TypeOK
<1>2. MemoryInv'
  <2>1. \A a \in Admins : RequestInv(a)'
    BY <1>0, RequestKept
  <2>2. \A d \in Cases : SubmitInv(d)'
    BY <1>0, <1>q, <1>t DEF MemoryInv, SubmitInv
  <2> QED BY <1>0, <2>1, <2>2 DEF MemoryInv
<1>3. StrandedJobsAreFaults'
  <2>1. \A d \in Cases : OnItsWay(d) => OnItsWay(d)'
    BY <1>q, <1>t, AdminSame DEF OnItsWay
  <2> QED BY <1>0, <2>1, FaultType, StrandedKept
<1>4. SlotsAreHeld'
  <2>1. \A d \in Cases : HasSlot(d) => HasSlot(d)'
    BY DEF HasSlot, InFlight
  <2> QED BY <1>0, <2>1, FaultType, SlotsKept
<1>5. OutcomeInv'
  BY OutcomeSame DEF LossInv
<1> QED BY <1>1, <1>2, <1>3, <1>4, <1>5 DEF LossInv

-------------------------------------------------------------------------------
(* The dead-letter endpoints                                                *)

(* A request that has not redriven anything, and does not now, changes no   *)
(* job's dispatch.                                                          *)
LEMMA RequestMoves ==
  ASSUME TypeOK, MemoryInv, NEW a \in Admins, NEW next \in AdminCalls,
         admin[a].pc # "redriven",
         admin' = [admin EXCEPT ![a] = next],
         next.pc # "idle" =>
           /\ next.job \in Cases
           /\ dlq'[next.job] # << >>
           /\ next.pc \in {"entry", "loaded"}
                => next.entry \in DOMAIN dlq'[next.job],
         \A d \in Cases : /\ DOMAIN dlq'[d] = DOMAIN dlq[d]
                          /\ dlq'[d] = << >> <=> dlq[d] = << >>
  PROVE  /\ admin' \in [Admins -> AdminCalls]
         /\ \A b \in Admins : RequestInv(b)'
         /\ \A d \in Cases : BeingRedriven(d) => BeingRedriven(d)'
<1>1. /\ admin' \in [Admins -> AdminCalls]
      /\ admin'[a] = next
      /\ \A b \in Admins \ {a} : admin'[b] = admin[b]
  BY DEF TypeOK
<1>2. ASSUME NEW b \in Admins PROVE RequestInv(b)'
  <2>1. CASE b = a
    BY <1>1, <2>1 DEF RequestInv, Holds
  <2>2. CASE b # a
    BY <1>1, <2>2 DEF MemoryInv, RequestInv, Holds
  <2> QED BY <2>1, <2>2
<1>3. \A d \in Cases : BeingRedriven(d) => BeingRedriven(d)'
  BY <1>1 DEF BeingRedriven
<1> QED BY <1>1, <1>2, <1>3

(* A request that writes nothing yet, or ends without a commit.             *)
LEMMA RequestReads ==
  ASSUME LossInv, NEW a \in Admins, NEW next \in AdminCalls,
         admin[a].pc # "redriven",
         admin' = [admin EXCEPT ![a] = next],
         next.pc # "idle" =>
           /\ next.job \in Cases
           /\ dlq[next.job] # << >>
           /\ next.pc \in {"entry", "loaded"}
                => next.entry \in DOMAIN dlq[next.job],
         UNCHANGED <<rows, proc, queue, timers, worker, gauge, submit, reviews,
                     bounds>>
  PROVE  LossInv'
<1> USE DEF rows, bounds
<1>0. TypeOK /\ MemoryInv /\ StrandedJobsAreFaults /\ SlotsAreHeld
  BY DEF LossInv
<1>a. /\ admin' \in [Admins -> AdminCalls]
      /\ \A b \in Admins : RequestInv(b)'
      /\ \A d \in Cases : BeingRedriven(d) => BeingRedriven(d)'
  BY <1>0, RequestMoves
<1>1. TypeOK'
  BY <1>0, <1>a DEF TypeOK
<1>2. MemoryInv'
  BY <1>0, <1>a, QueueSame DEF MemoryInv, SubmitInv
<1>3. StrandedJobsAreFaults'
  <2>1. \A d \in Cases : OnItsWay(d) => OnItsWay(d)'
    BY <1>a, QueueSame DEF OnItsWay
  <2> QED BY <1>0, <2>1, FaultType, StrandedKept
<1>4. SlotsAreHeld'
  <2>1. \A d \in Cases : HasSlot(d) => HasSlot(d)'
    BY DEF HasSlot, InFlight
  <2> QED BY <1>0, <2>1, FaultType, SlotsKept
<1>5. OutcomeInv'
  BY OutcomeSame DEF LossInv
<1> QED BY <1>1, <1>2, <1>3, <1>4, <1>5 DEF LossInv

LEMMA AdminOpenLoss ==
  ASSUME LossInv, NEW a \in Admins, NEW op \in {"redrive", "close"},
         NEW c \in Cases, NEW e \in DOMAIN dlq[c], AdminOpen(a, op, c, e)
  PROVE  LossInv'
<1> DEFINE next == [pc |-> "entry", op |-> op, job |-> c,
                    entry |-> e, seen |-> ABSENT, tries |-> 0]
<1>1. dlq[c] \in Seq(DLQEntries)
  BY DEF LossInv, TypeOK
<1>2. e \in Nat /\ dlq[c] # << >>
  BY <1>1, LenProperties, EmptySeq
<1>3. next \in AdminCalls
  BY <1>2 DEF AdminCalls
<1>4. next.pc = "entry" /\ next.job = c /\ next.entry = e
  OBVIOUS
<1>5. /\ admin[a].pc # "redriven"
      /\ admin' = [admin EXCEPT ![a] = next]
      /\ UNCHANGED <<rows, proc, queue, timers, worker, gauge, submit, reviews,
                     bounds>>
  BY DEF AdminOpen
<1> HIDE DEF next
<1> QED BY <1>2, <1>3, <1>4, <1>5, RequestReads

LEMMA AdminLoadLoss ==
  ASSUME LossInv, NEW a \in Admins, AdminLoad(a)
  PROVE  LossInv'
<1> DEFINE next == [pc |-> "loaded", op |-> admin[a].op, job |-> admin[a].job,
                    entry |-> admin[a].entry, seen |-> jobStatus[admin[a].job],
                    tries |-> attempts[admin[a].job]]
<1>1. admin[a] \in AdminCalls /\ admin[a].pc = "entry"
  BY DEF LossInv, TypeOK, AdminLoad
<1>2. /\ admin[a].job \in Cases
      /\ dlq[admin[a].job] # << >>
      /\ admin[a].entry \in DOMAIN dlq[admin[a].job]
  BY <1>1 DEF LossInv, MemoryInv, RequestInv, Holds
<1>3. next \in AdminCalls
  BY <1>1, <1>2 DEF AdminCalls, LossInv, TypeOK
<1>4. next.pc = "loaded" /\ next.job = admin[a].job /\ next.entry = admin[a].entry
  OBVIOUS
<1>5. /\ admin' = [admin EXCEPT ![a] = next]
      /\ UNCHANGED <<rows, proc, queue, timers, worker, gauge, submit, reviews,
                     bounds>>
  BY DEF AdminLoad, LossInv, TypeOK
<1> HIDE DEF next
<1> QED BY <1>1, <1>2, <1>3, <1>4, <1>5, RequestReads

LEMMA AdminAbortsLoss ==
  ASSUME LossInv, NEW a \in Admins, AdminAborts(a)
  PROVE  LossInv'
<1>1. IdleAdmin \in AdminCalls /\ IdleAdmin.pc = "idle"
  BY DEF IdleAdmin, AdminCalls
<1> QED BY <1>1, RequestReads DEF AdminAborts

LEMMA RedriveCommitLoss ==
  ASSUME LossInv, NEW a \in Admins, RedriveCommit(a)
  PROVE  LossInv'
<1> USE DEF RedriveCommit, bounds
<1>0. TypeOK /\ MemoryInv /\ StrandedJobsAreFaults /\ SlotsAreHeld
  BY DEF LossInv
<1>l. admin[a] \in AdminCalls /\ admin[a].pc = "loaded"
  BY <1>0 DEF TypeOK
<1>c. PICK c \in Cases : c = admin[a].job
  BY <1>0, <1>l DEF MemoryInv, RequestInv
<1>k. /\ dlq[c] # << >> /\ admin[a].entry \in DOMAIN dlq[c]
      /\ submit[c] = "done" /\ jobStatus[c] # ABSENT /\ ~HasSlot(c)
  BY <1>0, <1>l, <1>c, DeadLettered DEF MemoryInv, RequestInv, Holds
<1>d. /\ dlq' \in [Cases -> Seq(DLQEntries)]
      /\ \A d \in Cases : /\ DOMAIN dlq'[d] = DOMAIN dlq[d]
                          /\ dlq'[d] = << >> <=> dlq[d] = << >>
      /\ \A d \in Cases \ {c} : dlq'[d] = dlq[d]
  <2>1. dlq' = [dlq EXCEPT ![c][admin[a].entry].resolution = REDRIVEN]
    BY <1>c
  <2> QED BY <1>0, <1>k, <2>1, ResolveEntry
<1>j. /\ jobStatus' \in [Cases -> JobStatuses \cup {ABSENT}]
      /\ jobStatus'[c] # ABSENT
      /\ \A d \in Cases \ {c} : jobStatus'[d] = jobStatus[d]
  BY <1>0, <1>c, <1>k DEF TypeOK, JobStatuses, ABSENT
<1> DEFINE next == [pc |-> "redriven", op |-> "redrive", job |-> admin[a].job,
                    entry |-> 0, seen |-> ABSENT, tries |-> 0]
<1>n. next \in AdminCalls /\ next.pc = "redriven" /\ next.job = c
  BY <1>c DEF AdminCalls
<1>m. admin' = [admin EXCEPT ![a] = next]
  OBVIOUS
<1> HIDE DEF next
<1>a. /\ admin' \in [Admins -> AdminCalls]
      /\ \A b \in Admins : RequestInv(b)'
      /\ \A d \in Cases : BeingRedriven(d) => BeingRedriven(d)'
  BY <1>0, <1>l, <1>n, <1>m, <1>d, <1>k, RequestMoves
<1>b. BeingRedriven(c)'
  <2>1. admin'[a].pc = "redriven" /\ admin'[a].job = c
    BY <1>0, <1>m, <1>n DEF TypeOK
  <2> QED BY <2>1 DEF BeingRedriven
<1>1. TypeOK'
  <2>1. attempts' \in [Cases -> Nat]
    BY <1>0 DEF TypeOK
  <2>2. caseStatus' \in [Cases -> ALL_STATUSES \cup {ABSENT}]
    BY <1>0, StatusesExist DEF TypeOK
  <2> QED BY <1>0, <1>d, <1>j, <1>a, <2>1, <2>2 DEF TypeOK
<1>2. MemoryInv'
  <2>1. \A d \in Cases : SubmitInv(d)'
    <3>1. SubmitInv(c)'
      BY <1>0, <1>j, <1>k, <1>d, QueueSame DEF MemoryInv, SubmitInv
    <3>2. ASSUME NEW d \in Cases \ {c} PROVE SubmitInv(d)'
      <4>1. caseStatus'[d] = caseStatus[d]
        BY <1>0, <1>c DEF TypeOK
      <4>2. /\ UNCHANGED <<submit, timers, worker, proc>>
            /\ jobStatus'[d] = jobStatus[d] /\ dlq'[d] = dlq[d]
            /\ InQueue(d)' <=> InQueue(d)
        BY <1>j, <1>d, QueueSame
      <4> HIDE DEF RedriveCommit
      <4> QED BY <1>0, <4>1, <4>2 DEF MemoryInv, SubmitInv
    <3> QED BY <3>1, <3>2
  <2> QED BY <1>0, <1>a, <2>1 DEF MemoryInv
<1>3. StrandedJobsAreFaults'
  <2>1. \A d \in Cases : OnItsWay(d) => OnItsWay(d)'
    BY <1>a, QueueSame DEF OnItsWay
  <2>2. OnItsWay(c)'
    BY <1>b DEF OnItsWay
  <2> QED BY <1>0, <1>j, <2>1, <2>2, FaultType, StrandedKept
<1>4. SlotsAreHeld'
  <2>1. \A d \in Cases : HasSlot(d) => HasSlot(d)'
    BY <1>j, <1>d, <1>k DEF HasSlot, InFlight
  <2> QED BY <1>0, <2>1, FaultType, SlotsKept
<1>5. OutcomeInv'
  <2>1. /\ caseStatus'[c] = QUEUED
        /\ jobStatus'[c] \in {jobStatus[c], "queued"}
        /\ \A d \in Cases \ {c} : caseStatus'[d] = caseStatus[d]
    BY <1>0, <1>c DEF TypeOK
  <2>2. HasOutcome(c)'
    BY <1>d, <1>k DEF HasOutcome
  <2>3. worker.job = c => jobStatus'[c] # "succeeded"
    BY <2>1 DEF LossInv, OutcomeInv
  <2> QED BY <1>j, <1>d, <2>1, <2>2, <2>3, OutcomeWrites DEF LossInv
<1> QED BY <1>1, <1>2, <1>3, <1>4, <1>5 DEF LossInv

LEMMA CloseCommitLoss ==
  ASSUME LossInv, NEW a \in Admins, CloseCommit(a)
  PROVE  LossInv'
<1> USE DEF CloseCommit, bounds
<1>0. TypeOK /\ MemoryInv /\ StrandedJobsAreFaults /\ SlotsAreHeld
  BY DEF LossInv
<1>l. admin[a] \in AdminCalls /\ admin[a].pc = "loaded"
  BY <1>0 DEF TypeOK
<1>c. PICK c \in Cases : c = admin[a].job
  BY <1>0, <1>l DEF MemoryInv, RequestInv
<1>k. dlq[c] # << >> /\ admin[a].entry \in DOMAIN dlq[c]
  BY <1>0, <1>l, <1>c DEF MemoryInv, RequestInv, Holds
<1>d. /\ dlq' \in [Cases -> Seq(DLQEntries)]
      /\ \A d \in Cases : /\ DOMAIN dlq'[d] = DOMAIN dlq[d]
                          /\ dlq'[d] = << >> <=> dlq[d] = << >>
      /\ \A d \in Cases \ {c} : dlq'[d] = dlq[d]
  <2>1. dlq' = [dlq EXCEPT ![c][admin[a].entry].resolution = RESOLVED_CLOSED]
    BY <1>c
  <2> QED BY <1>0, <1>k, <2>1, ResolveEntry
<1>n. IdleAdmin \in AdminCalls /\ IdleAdmin.pc = "idle"
  BY DEF AdminCalls, IdleAdmin
<1>a. /\ admin' \in [Admins -> AdminCalls]
      /\ \A b \in Admins : RequestInv(b)'
      /\ \A d \in Cases : BeingRedriven(d) => BeingRedriven(d)'
  BY <1>0, <1>l, <1>n, <1>d, RequestMoves
<1>1. TypeOK'
  <2>1. caseStatus' \in [Cases -> ALL_STATUSES \cup {ABSENT}]
    BY <1>0, StatusesExist DEF TypeOK
  <2> QED BY <1>0, <1>d, <1>a, <2>1 DEF TypeOK
<1>2. MemoryInv'
  <2>1. \A d \in Cases : SubmitInv(d)'
    <3>1. SubmitInv(c)'
      BY <1>0, <1>k, <1>d, QueueSame DEF MemoryInv, SubmitInv
    <3>2. ASSUME NEW d \in Cases \ {c} PROVE SubmitInv(d)'
      <4>1. caseStatus'[d] = caseStatus[d]
        BY <1>0, <1>c DEF TypeOK
      <4> QED BY <1>0, <1>d, <4>1, QueueSame DEF MemoryInv, SubmitInv
    <3> QED BY <3>1, <3>2
  <2> QED BY <1>0, <1>a, <2>1 DEF MemoryInv
<1>3. StrandedJobsAreFaults'
  <2>1. \A d \in Cases : OnItsWay(d) => OnItsWay(d)'
    BY <1>a, QueueSame DEF OnItsWay
  <2> QED BY <1>0, <2>1, FaultType, StrandedKept
<1>4. SlotsAreHeld'
  <2>1. \A d \in Cases : HasSlot(d) => HasSlot(d)'
    BY <1>d DEF HasSlot, InFlight
  <2> QED BY <1>0, <2>1, FaultType, SlotsKept
<1>5. OutcomeInv'
  <2>1. \A d \in Cases \ {c} : caseStatus'[d] = caseStatus[d]
    BY <1>0, <1>c DEF TypeOK
  <2>2. HasOutcome(c)'
    BY <1>d, <1>k DEF HasOutcome
  <2>3. worker.job = c => jobStatus'[c] # "succeeded"
    BY DEF LossInv, OutcomeInv
  <2> QED BY <1>d, <2>1, <2>2, <2>3, OutcomeWrites DEF LossInv
<1> QED BY <1>1, <1>2, <1>3, <1>4, <1>5 DEF LossInv

(* The redriven job goes to the queue, or the query for its id is refused.  *)
LEMMA RedriveEndsLoss ==
  ASSUME LossInv, NEW a \in Admins, RedriveEnqueue(a) \/ RedriveFault(a)
  PROVE  LossInv'
<1> USE DEF RedriveEnqueue, RedriveFault, rows, bounds
<1>0. TypeOK /\ MemoryInv /\ StrandedJobsAreFaults /\ SlotsAreHeld
  BY DEF LossInv
<1>c. PICK c \in Cases : c = admin[a].job
  BY <1>0 DEF MemoryInv, RequestInv
<1>s. /\ admin[a].pc = "redriven"
      /\ admin' = [admin EXCEPT ![a] = IdleAdmin]
      /\ UNCHANGED <<rows, proc, timers, worker, gauge, submit, reviews,
                     crashes>>
  BY DEF Fault
<1>f. \/ queue' = Append(queue, c) /\ faults' = faults
      \/ queue' = queue /\ Fault
  BY <1>c
<1>k. dlq[c] # << >> /\ submit[c] = "done"
  BY <1>0, <1>c, <1>s, DeadLettered DEF MemoryInv, RequestInv
<1>q. /\ queue' \in Seq(Cases)
      /\ \A d \in Cases : InQueue(d)' => InQueue(d) \/ d = c
      /\ \A d \in Cases : InQueue(d) => InQueue(d)'
      /\ queue' = Append(queue, c) => InQueue(c)'
  BY <1>0, <1>f, QueueAppend, QueueSame DEF TypeOK
<1>a. /\ admin' \in [Admins -> AdminCalls]
      /\ \A b \in Admins : RequestInv(b)'
      /\ \A d \in Cases \ {c} : BeingRedriven(d) => BeingRedriven(d)'
  <2>1. IdleAdmin \in AdminCalls /\ IdleAdmin.pc = "idle"
    BY DEF AdminCalls, IdleAdmin
  <2>2. /\ admin' \in [Admins -> AdminCalls]
        /\ admin'[a].pc = "idle"
        /\ \A b \in Admins \ {a} : admin'[b] = admin[b]
    BY <1>0, <1>s, <2>1 DEF TypeOK
  <2>3. \A b \in Admins : RequestInv(b)'
    BY <1>0, <1>s, <2>2 DEF MemoryInv, RequestInv, Holds
  <2>4. \A d \in Cases \ {c} : BeingRedriven(d) => BeingRedriven(d)'
    BY <1>c, <2>2 DEF BeingRedriven
  <2> QED BY <2>2, <2>3, <2>4
<1>1. TypeOK'
  BY <1>0, <1>s, <1>f, <1>q, <1>a, FaultType DEF TypeOK
<1>2. MemoryInv'
  <2>1. \A d \in Cases : SubmitInv(d)'
    BY <1>0, <1>s, <1>q, <1>k DEF MemoryInv, SubmitInv
  <2> QED BY <1>0, <1>s, <1>a, <2>1 DEF MemoryInv
<1>3. StrandedJobsAreFaults'
  <2>1. \A d \in Cases \ {c} : OnItsWay(d) => OnItsWay(d)'
    BY <1>s, <1>q, <1>a DEF OnItsWay
  <2>2. CASE queue' = Append(queue, c) /\ faults' = faults
    <3>1. OnItsWay(c)'
      BY <1>q, <2>2 DEF OnItsWay
    <3> QED BY <1>0, <1>s, <2>1, <2>2, <3>1, FaultType, StrandedKept
  <2>3. CASE queue' = queue /\ Fault
    BY <1>0, <1>s, <2>1, <2>3, StrandedByFault
  <2> QED BY <1>f, <2>2, <2>3
<1>4. SlotsAreHeld'
  <2>1. \A d \in Cases : HasSlot(d) => HasSlot(d)'
    BY <1>s DEF HasSlot, InFlight
  <2> QED BY <1>0, <1>s, <1>f, <2>1, FaultType, SlotsKept
<1>5. OutcomeInv'
  BY <1>s, OutcomeSame DEF LossInv, rows
<1> QED BY <1>1, <1>2, <1>3, <1>4, <1>5 DEF LossInv

-------------------------------------------------------------------------------
(* submit_decision                                                          *)

(* A reviewer reads a case, or ends without a commit.                       *)
LEMMA ReviewReadsLoss ==
  ASSUME LossInv, NEW r \in Reviewers, NEW call \in ReviewCalls,
         reviews' = [reviews EXCEPT ![r] = call],
         call.pc = "loaded" => /\ call.case \in Cases
                               /\ call.seen = caseStatus[call.case]
                               /\ call.seen # ABSENT,
         UNCHANGED <<rows, proc, queue, timers, worker, gauge, submit, admin, bounds>>
  PROVE  LossInv'
<1> USE DEF rows, bounds
<1>0. TypeOK /\ MemoryInv /\ StrandedJobsAreFaults /\ SlotsAreHeld /\ OutcomeInv
  BY DEF LossInv
<1>r. /\ reviews' \in [Reviewers -> ReviewCalls] /\ reviews'[r] = call
      /\ \A q \in Reviewers \ {r} : reviews'[q] = reviews[q]
  BY <1>0 DEF TypeOK
<1>1. TypeOK'
  BY <1>0, <1>r DEF TypeOK
<1>2. MemoryInv'
  BY <1>0, QueueSame DEF MemoryInv, RequestInv, SubmitInv, Holds
<1>3. StrandedJobsAreFaults'
  <2>1. \A d \in Cases : OnItsWay(d) => OnItsWay(d)'
    BY QueueSame, AdminSame DEF OnItsWay
  <2> QED BY <1>0, <2>1, FaultType, StrandedKept
<1>4. SlotsAreHeld'
  <2>1. \A d \in Cases : HasSlot(d) => HasSlot(d)'
    BY DEF HasSlot, InFlight
  <2> QED BY <1>0, <2>1, FaultType, SlotsKept
<1>5. OutcomeInv'
  <2>1. \A d \in Cases : HasOutcome(d)' <=> HasOutcome(d)
    BY DEF HasOutcome
  <2>2. \A d \in Cases : /\ Decidable(caseStatus'[d]) => HasOutcome(d)'
                         /\ worker'.job = d => jobStatus'[d] # "succeeded"
    BY <1>0, <2>1 DEF OutcomeInv
  <2>3. ASSUME NEW q \in Reviewers, Reviews(q)'
        PROVE  /\ reviews'[q].case \in Cases
               /\ reviews'[q].seen # ABSENT
               /\ Decidable(reviews'[q].seen) => HasOutcome(reviews'[q].case)
    <3>1. CASE q = r
      BY <1>0, <1>r, <2>3, <3>1 DEF OutcomeInv, Reviews
    <3>2. CASE q # r
      BY <1>0, <1>r, <2>3, <3>2 DEF OutcomeInv, Reviews
    <3> QED BY <3>1, <3>2
  <2> QED BY <2>2, <2>3 DEF OutcomeInv, HasOutcome
<1> QED BY <1>1, <1>2, <1>3, <1>4, <1>5 DEF LossInv

LEMMA ReviewLoadLoss ==
  ASSUME LossInv, NEW r \in Reviewers, NEW c \in Cases, ReviewLoad(r, c)
  PROVE  LossInv'
<1> DEFINE call == [pc |-> "loaded", case |-> c, seen |-> caseStatus[c]]
<1>1. call \in ReviewCalls /\ call.case = c /\ call.seen = caseStatus[c]
  BY DEF ReviewCalls, LossInv, TypeOK
<1>2. /\ reviews' = [reviews EXCEPT ![r] = call] /\ caseStatus[c] # ABSENT
      /\ UNCHANGED <<rows, proc, queue, timers, worker, gauge, submit, admin, bounds>>
  BY DEF ReviewLoad
<1> HIDE DEF call
<1> QED BY <1>1, <1>2, ReviewReadsLoss

LEMMA ReviewEndsLoss ==
  ASSUME LossInv, NEW r \in Reviewers, ReviewEnds(r)
  PROVE  LossInv'
<1>1. NoReview \in ReviewCalls /\ NoReview.pc = "idle"
  BY DEF NoReview, ReviewCalls
<1> QED BY <1>1, ReviewReadsLoss DEF ReviewEnds

(* A decision moves only a case that has its outcome: it never takes a case  *)
(* from the worker before the failure is reported.                           *)
LEMMA ReviewCommitLoss ==
  ASSUME LossInv, NEW r \in Reviewers, NEW decision_type \in DECISION_TYPES,
         ReviewCommit(r, decision_type)
  PROVE  LossInv'
<1> DEFINE path == StatusPath(reviews[r].seen, decision_type)
<1>0. /\ TypeOK /\ MemoryInv /\ StrandedJobsAreFaults /\ SlotsAreHeld /\ OutcomeInv
      /\ Reviews(r)
  BY DEF LossInv, ReviewCommit, Reviews
<1>c. PICK c \in Cases : c = reviews[r].case
  BY <1>0 DEF OutcomeInv
<1>k. /\ reviews[r].seen \in ALL_STATUSES
      /\ Decidable(reviews[r].seen) => HasOutcome(c)
  BY <1>0, <1>c DEF OutcomeInv, TypeOK, ReviewCalls
<1>s. /\ IsValidPath(path)
      /\ caseStatus' = [caseStatus EXCEPT ![c] =
                           IF Len(path) = 1 THEN @ ELSE path[Len(path)]]
      /\ reviews' = [reviews EXCEPT ![r] = NoReview]
      /\ UNCHANGED <<jobStatus, attempts, results, dlq, proc, queue, timers,
                     worker, gauge, submit, admin, crashes, faults>>
  BY <1>c DEF ReviewCommit, bounds
<1>m. /\ caseStatus'[c] \in ALL_STATUSES \cup {ABSENT}
      /\ caseStatus'[c] = caseStatus[c] \/ HasOutcome(c)
      /\ \A d \in Cases \ {c} : caseStatus'[d] = caseStatus[d]
      /\ caseStatus' \in [Cases -> ALL_STATUSES \cup {ABSENT}]
  <2>1. CASE Len(path) = 1
    <3>1. caseStatus' = caseStatus
      BY <1>0, <1>s, <2>1 DEF TypeOK
    <3> QED BY <1>0, <3>1 DEF TypeOK
  <2>2. CASE Len(path) # 1
    <3> DEFINE new == path[Len(path)]
    <3>1. \/ /\ reviews[r].seen = READY_FOR_REVIEW
             /\ new \in {UNDER_REVIEW} \cup Decided
          \/ reviews[r].seen = UNDER_REVIEW /\ new \in Decided
          \/ reviews[r].seen \in {VALIDATION_FAILED, DLQ_INVESTIGATION} /\ new = CLOSED
      <4>1. path = StatusPath(reviews[r].seen, decision_type)
        OBVIOUS
      <4> HIDE DEF path
      <4> QED BY <1>k, <1>s, <2>2, <4>1, DecisionMoves
    <3> HIDE DEF path, new
    <3>2. caseStatus' = [caseStatus EXCEPT ![c] = new]
      BY <1>s, <2>2 DEF new
    <3>3. new \in ALL_STATUSES
      BY <3>1 DEF Decided, ALL_STATUSES, TRANSITIONS, UNDER_REVIEW, REFERRED, CLOSED,
                  MORE_INFO_REQUIRED
    <3>4. HasOutcome(c)
      BY <1>k, <3>1 DEF Decidable
    <3> QED BY <1>0, <3>2, <3>3, <3>4 DEF TypeOK
  <2> QED BY <2>1, <2>2
<1>r. /\ reviews' \in [Reviewers -> ReviewCalls]
      /\ reviews'[r].pc = "idle"
      /\ \A q \in Reviewers \ {r} : reviews'[q] = reviews[q]
  <2>1. NoReview \in ReviewCalls /\ NoReview.pc = "idle"
    BY DEF NoReview, ReviewCalls
  <2> QED BY <1>0, <1>s, <2>1 DEF TypeOK
<1> HIDE DEF path
<1>1. TypeOK'
  BY <1>0, <1>s, <1>m, <1>r DEF TypeOK
<1>2. MemoryInv'
  <2>1. \A a \in Admins : RequestInv(a)'
    BY <1>0, <1>s, RequestKept
  <2>2. ASSUME NEW d \in Cases PROVE SubmitInv(d)'
    <3>1. worker.job = c /\ HasOutcome(c) => dlq[c] # << >>
      BY <1>0 DEF OutcomeInv, HasOutcome
    <3>2. \/ caseStatus'[d] = caseStatus[d]
          \/ d = c /\ (worker.job = c => dlq[c] # << >>)
      BY <1>m, <3>1
    <3> QED BY <1>0, <1>s, <3>2, QueueSame DEF MemoryInv, SubmitInv
  <2> QED BY <1>0, <1>s, <2>1, <2>2 DEF MemoryInv
<1>3. StrandedJobsAreFaults'
  <2>1. \A d \in Cases : OnItsWay(d) => OnItsWay(d)'
    BY <1>s, QueueSame, AdminSame DEF OnItsWay
  <2> QED BY <1>0, <1>s, <2>1, FaultType, StrandedKept
<1>4. SlotsAreHeld'
  <2>1. \A d \in Cases : HasSlot(d) => HasSlot(d)'
    BY <1>s DEF HasSlot, InFlight
  <2> QED BY <1>0, <1>s, <2>1, FaultType, SlotsKept
<1>5. OutcomeInv'
  <2>1. \A d \in Cases : HasOutcome(d)' <=> HasOutcome(d)
    BY <1>s DEF HasOutcome
  <2>2. \A d \in Cases : Decidable(caseStatus'[d]) => HasOutcome(d)
    BY <1>0, <1>m DEF OutcomeInv
  <2>3. \A q \in Reviewers : Reviews(q)' => Reviews(q) /\ reviews'[q] = reviews[q]
    BY <1>r DEF Reviews
  <2> QED BY <1>0, <1>s, <2>1, <2>2, <2>3 DEF OutcomeInv
<1> QED BY <1>1, <1>2, <1>3, <1>4, <1>5 DEF LossInv

-------------------------------------------------------------------------------
(* Crash, restart and the startup replay                                    *)

LEMMA CrashLoss ==
  ASSUME LossInv, Crash
  PROVE  LossInv'
<1> USE DEF Crash, rows
<1>0. TypeOK /\ MemoryInv /\ StrandedJobsAreFaults /\ SlotsAreHeld
  BY DEF LossInv
<1>n. /\ IdleWorker \in WorkerCalls /\ IdleAdmin \in AdminCalls /\ NoReview \in ReviewCalls
      /\ crashes' \in 0..MaxCrashes
      /\ \A d \in Cases : ~InQueue(d)'
      /\ submit' \in [Cases -> SubmitPhases]
  BY <1>0, JobQueueAssumption
     DEF IdleWorker, WorkerCalls, IdleAdmin, AdminCalls, ErrorCategories, TypeOK,
         InQueue, SubmitPhases, NoReview, ReviewCalls
<1>1. TypeOK'
  BY <1>0, <1>n DEF TypeOK
<1>2. MemoryInv'
  <2>1. \A a \in Admins : RequestInv(a)'
    BY DEF RequestInv, IdleAdmin
  <2>2. ASSUME NEW d \in Cases PROVE SubmitInv(d)'
    <3>1. /\ ~InQueue(d)' /\ timers'[d] = 0 /\ worker'.job # d
          /\ worker'.pc = "idle"
      BY <1>n, JobQueueAssumption DEF IdleWorker
    <3>2. submit'[d] = IF submit[d] \in {"committed", "done"} THEN "done" ELSE "none"
      OBVIOUS
    <3>3. /\ SubmitInv(d)
          /\ submit[d] \in {"none", "acquired", "committed", "done"}
      BY <1>0 DEF MemoryInv, TypeOK, SubmitPhases
    <3> QED BY <3>1, <3>2, <3>3 DEF SubmitInv
  <2>3. (worker.pc = "idle" <=> worker.job = None)'
    BY DEF IdleWorker
  <2> QED BY <2>1, <2>2, <2>3 DEF MemoryInv
<1>3. StrandedJobsAreFaults'
  BY DEF StrandedJobsAreFaults
<1>4. SlotsAreHeld'
  <2>1. SUFFICES ASSUME NEW a \in Analysts
                 PROVE  gauge'[a] <= Cardinality(SlotsOf(a)') + faults'
    BY DEF SlotsAreHeld
  <2>2. SlotsOf(a)' \in SUBSET Cases
    BY DEF SlotsOf
  <2> QED BY <1>0, <2>2, FaultType, CasesAreFinite
<1>5. OutcomeInv'
  <2>1. /\ \A d \in Cases : worker'.job # d
        /\ \A r \in Reviewers : ~Reviews(r)'
    BY JobQueueAssumption DEF IdleWorker, Reviews, NoReview
  <2> QED BY <2>1, OutcomeSame DEF LossInv
<1> QED BY <1>1, <1>2, <1>3, <1>4, <1>5 DEF LossInv

(* The process starts, or the startup replay raises.                        *)
LEMMA StartupMovesLoss ==
  ASSUME LossInv, \/ Restart
                  \/ \E c \in Cases : StartupFails(c)
                  \/ StartupFault
  PROVE  LossInv'
<1>0. TypeOK /\ MemoryInv /\ StrandedJobsAreFaults /\ SlotsAreHeld
  BY DEF LossInv
<1>s. /\ UNCHANGED <<rows, queue, timers, gauge, submit, admin, reviews,
                     crashes>>
      /\ proc # "up" /\ proc' \in {"recovering", "down"}
      /\ \/ worker' = worker /\ faults' = faults
         \/ worker' = IdleWorker /\ Fault
  BY DEF Restart, StartupFails, StartupFault, Interrupted, Fault, bounds
<1>w. /\ worker' \in WorkerCalls
      /\ (worker.pc = "idle" <=> worker.job = None)'
      /\ \A d \in Cases : worker'.job = d => worker.job = d
      /\ worker'.pc = "failing" => worker' = worker
  <2>1. CASE worker' = worker
    BY <1>0, <2>1 DEF TypeOK, MemoryInv
  <2>2. CASE worker' = IdleWorker
    BY <2>2, JobQueueAssumption DEF IdleWorker, WorkerCalls
  <2> QED BY <1>s, <2>1, <2>2
<1>1. TypeOK'
  BY <1>0, <1>s, <1>w, FaultType DEF TypeOK, rows
<1>2. MemoryInv'
  <2>1. \A a \in Admins : RequestInv(a)'
    BY <1>0, <1>s, RequestKept DEF rows
  <2>2. \A d \in Cases : SubmitInv(d)'
    BY <1>0, <1>s, <1>w, QueueSame DEF MemoryInv, SubmitInv, rows
  <2> QED BY <1>w, <2>1, <2>2 DEF MemoryInv
<1>3. StrandedJobsAreFaults'
  BY <1>s DEF StrandedJobsAreFaults
<1>4. SlotsAreHeld'
  <2>1. CASE worker' = worker /\ faults' = faults
    <3>1. \A d \in Cases : HasSlot(d) => HasSlot(d)'
      BY <1>s, <2>1 DEF HasSlot, InFlight, rows
    <3> QED BY <1>0, <1>s, <2>1, <3>1, FaultType, SlotsKept
  <2>2. CASE worker' = IdleWorker /\ Fault
    <3>1. \A d \in Cases : worker.job # d => (HasSlot(d) => HasSlot(d)')
      BY <1>s DEF HasSlot, InFlight, rows
    <3>2. CASE worker.job \in Cases
      BY <1>0, <1>s, <2>2, <3>1, <3>2, SlotLost
    <3>3. CASE worker.job \notin Cases
      BY <1>0, <1>s, <2>2, <3>1, <3>3, FaultType, SlotsKept
    <3> QED BY <3>2, <3>3
  <2> QED BY <1>s, <2>1, <2>2
<1>5. OutcomeInv'
  BY <1>s, <1>w, OutcomeSame DEF LossInv, rows
<1> QED BY <1>1, <1>2, <1>3, <1>4, <1>5 DEF LossInv

LEMMA RecoverRequeueLoss ==
  ASSUME LossInv, NEW c \in Cases, RecoverRequeue(c)
  PROVE  LossInv'
<1> USE DEF RecoverRequeue, Interrupted, bounds
<1>0. TypeOK /\ MemoryInv /\ StrandedJobsAreFaults /\ SlotsAreHeld
  BY DEF LossInv
<1>j. /\ jobStatus'[c] = "queued" /\ jobStatus' \in [Cases -> JobStatuses \cup {ABSENT}]
      /\ \A d \in Cases \ {c} : jobStatus'[d] = jobStatus[d]
  BY <1>0 DEF TypeOK, JobStatuses
<1>1. TypeOK'
  BY <1>0, <1>j, StatusesExist DEF TypeOK
<1>2. MemoryInv'
  <2>1. \A a \in Admins : RequestInv(a)'
    BY <1>0, RequestKept
  <2>2. \A d \in Cases : SubmitInv(d)'
    BY <1>0, <1>j, QueueSame DEF MemoryInv, SubmitInv, ABSENT
  <2> QED BY <1>0, <2>1, <2>2 DEF MemoryInv
<1>3. StrandedJobsAreFaults'
  BY DEF StrandedJobsAreFaults
<1>4. SlotsAreHeld'
  <2>1. \A d \in Cases : HasSlot(d) => HasSlot(d)'
    BY <1>j DEF HasSlot, InFlight
  <2> QED BY <1>0, <2>1, FaultType, SlotsKept
<1>5. OutcomeInv'
  <2>1. caseStatus'[c] = QUEUED /\ \A d \in Cases \ {c} : caseStatus'[d] = caseStatus[d]
    BY <1>0 DEF TypeOK
  <2>2. HasOutcome(c) => HasOutcome(c)'
    BY DEF HasOutcome
  <2> QED BY <1>j, <2>1, <2>2, NotDecidable, OutcomeWrites DEF LossInv
<1> QED BY <1>1, <1>2, <1>3, <1>4, <1>5 DEF LossInv

LEMMA RecoverGiveUpLoss ==
  ASSUME LossInv, NEW c \in Cases, RecoverGiveUp(c)
  PROVE  LossInv'
<1>1. /\ UNKNOWN \in ErrorCategories
      /\ worker.pc = "idle" /\ worker.job = None
      /\ proc = "recovering" /\ jobStatus[c] = "running"
  BY DEF RecoverGiveUp, Interrupted, LossInv, MemoryInv, ErrorCategories
<1>2. submit[c] = "done"
  BY <1>1 DEF LossInv, MemoryInv, SubmitInv, ABSENT
<1> QED BY <1>1, <1>2, GiveUp DEF RecoverGiveUp

LEMMA ReplayLoss ==
  ASSUME LossInv, Replay
  PROVE  LossInv'
<1> DEFINE S == {c \in Cases : jobStatus[c] = "queued"}
<1> USE DEF Replay, rows, bounds
<1>0. TypeOK /\ MemoryInv /\ StrandedJobsAreFaults /\ SlotsAreHeld
  BY DEF LossInv
<1>q. /\ queue' \in Seq(Cases)
      /\ \A d \in Cases : InQueue(d)' <=> jobStatus[d] = "queued"
  <2>1. S \in SUBSET Cases /\ queue' \in Orders(S)
    OBVIOUS
  <2> QED BY <2>1, OrderHasAll
<1>1. TypeOK'
  BY <1>0, <1>q DEF TypeOK
<1>2. MemoryInv'
  <2>1. \A a \in Admins : RequestInv(a)'
    BY <1>0, RequestKept
  <2>2. \A d \in Cases : SubmitInv(d)'
    BY <1>0, <1>q DEF MemoryInv, SubmitInv, ABSENT
  <2> QED BY <1>0, <2>1, <2>2 DEF MemoryInv
<1>3. StrandedJobsAreFaults'
  <2>1. Stranded' = {}
    BY <1>q DEF Stranded, OnItsWay
  <2>2. Cardinality(Stranded') = 0
    BY <2>1, FS_EmptySet
  <2> QED BY <1>0, <2>2, FaultType DEF StrandedJobsAreFaults
<1>4. SlotsAreHeld'
  <2>1. \A d \in Cases : HasSlot(d) => HasSlot(d)'
    BY DEF HasSlot, InFlight
  <2> QED BY <1>0, <2>1, FaultType, SlotsKept
<1>5. OutcomeInv'
  BY OutcomeSame DEF LossInv
<1> QED BY <1>1, <1>2, <1>3, <1>4, <1>5 DEF LossInv

-------------------------------------------------------------------------------
(* The inductive invariant, and what follows from it                        *)

LEMMA InitLoss == Init => LossInv
<1> SUFFICES ASSUME Init PROVE LossInv
  OBVIOUS
<1> USE DEF Init
<1>1. TypeOK
  BY InitIInv DEF IInv
<1>2. MemoryInv
  <2>1. \A c \in Cases : ~InQueue(c)
    BY DEF InQueue
  <2>2. \A c \in Cases : SubmitInv(c)
    BY <2>1, JobQueueAssumption DEF SubmitInv, IdleWorker
  <2> QED BY <2>2 DEF MemoryInv, RequestInv, IdleWorker, IdleAdmin
<1>3. StrandedJobsAreFaults
  <2>1. Stranded = {}
    BY DEF Stranded, ABSENT
  <2> QED BY <2>1, FS_EmptySet DEF StrandedJobsAreFaults
<1>4. SlotsAreHeld
  <2>1. \A a \in Analysts : SlotsOf(a) \in SUBSET Cases
    BY DEF SlotsOf
  <2> QED BY <2>1, CasesAreFinite DEF SlotsAreHeld
<1>5. OutcomeInv
  BY NotDecidable, JobQueueAssumption DEF OutcomeInv, ABSENT, IdleWorker, Reviews, NoReview
<1> QED BY <1>1, <1>2, <1>3, <1>4, <1>5 DEF LossInv

(* Every step preserves LossInv, on either database.                        *)
LEMMA NextLoss ==
  ASSUME LossInv, [Next]_vars
  PROVE  LossInv'
<1>1. ASSUME NEW c \in Cases, SubmitAcquire(c) \/ SubmitStep(c) \/ TimerFires(c)
      PROVE  LossInv'
  BY <1>1, SubmitAcquireLoss, SubmitCommitLoss, SubmitFailLoss, SubmitEnqueueLoss,
     TimerFiresLoss DEF SubmitStep
<1>2. CASE WorkerStep
  BY <1>2, WorkerSkipLoss, WorkerStartLoss, WorkerSucceedLoss, WorkerRetryLoss,
     WorkerGiveUpLoss, CreateDLQEntryLoss, WorkerRaisesLoss DEF WorkerStep
<1>3. ASSUME NEW a \in Admins, NEW op \in {"redrive", "close"}, NEW c \in Cases,
             NEW e \in DOMAIN dlq[c], AdminOpen(a, op, c, e)
      PROVE  LossInv'
  BY <1>3, AdminOpenLoss
<1>4. ASSUME NEW a \in Admins, AdminStep(a) PROVE LossInv'
  BY <1>4, AdminLoadLoss, AdminAbortsLoss, RedriveCommitLoss, RedriveEndsLoss,
     CloseCommitLoss DEF AdminStep
<1>5. CASE Crash
  BY <1>5, CrashLoss
<1>6. CASE StartupStep
  BY <1>6, RecoverRequeueLoss, RecoverGiveUpLoss, StartupMovesLoss, ReplayLoss
     DEF StartupStep
<1>7. CASE FaultStep
  BY <1>7, SubmitFaultLoss, WorkerStartFaultLoss, WorkerSucceedFaultLoss,
     WorkerRetryFaultLoss, CreateDLQEntryLoss, WorkerFaultLoss, RedriveEndsLoss,
     StartupMovesLoss DEF FaultStep
<1>9. ASSUME NEW r \in Reviewers, ReviewStep(r) \/ \E c \in Cases : ReviewLoad(r, c)
      PROVE  LossInv'
  BY <1>9, ReviewLoadLoss, ReviewEndsLoss, ReviewCommitLoss DEF ReviewStep
<1>8. CASE UNCHANGED vars
  <2> USE <1>8 DEF vars, rows, bounds
  <2>0. TypeOK /\ MemoryInv /\ StrandedJobsAreFaults /\ SlotsAreHeld
    BY DEF LossInv
  <2>1. TypeOK'
    BY <2>0 DEF TypeOK
  <2>2. MemoryInv'
    BY <2>0, QueueSame DEF MemoryInv, RequestInv, SubmitInv, Holds
  <2>3. StrandedJobsAreFaults'
    <3>1. \A d \in Cases : OnItsWay(d) => OnItsWay(d)'
      BY QueueSame, AdminSame DEF OnItsWay
    <3> QED BY <2>0, <3>1, FaultType, StrandedKept
  <2>4. SlotsAreHeld'
    <3>1. \A d \in Cases : HasSlot(d) => HasSlot(d)'
      BY DEF HasSlot, InFlight
    <3> QED BY <2>0, <3>1, FaultType, SlotsKept
  <2>5. OutcomeInv'
    BY OutcomeSame DEF LossInv
  <2> QED BY <2>1, <2>2, <2>3, <2>4, <2>5 DEF LossInv
<1> QED BY <1>1, <1>2, <1>3, <1>4, <1>5, <1>6, <1>7, <1>8, <1>9 DEF Next

(* On either database, with any crashes and refused requests, a lost job or *)
(* slot has a refused request of its own.                                   *)
THEOREM LossInvariance == Spec => []LossInv
<1>1. Init => LossInv
  BY InitLoss
<1>2. LossInv /\ [Next]_vars => LossInv'
  BY NextLoss
<1> QED BY <1>1, <1>2, PTL DEF Spec

(* Every variable keeps its type where two administrators may race for an   *)
(* entry, too.                                                              *)
THEOREM TypeCorrectAnywhere == Spec => []TypeOK
<1>1. LossInv => TypeOK
  BY DEF LossInv
<1> QED BY <1>1, LossInvariance, PTL

(* No more jobs wait for a restart than the database refused requests: a    *)
(* job is lost to the worker by a refused read after a commit only.         *)
THEOREM StrandedByFaultsOnly == Spec => []StrandedJobsAreFaults
<1>1. LossInv => StrandedJobsAreFaults
  BY DEF LossInv
<1> QED BY <1>1, LossInvariance, PTL

(* Where the database refuses nothing, every queued job of a running        *)
(* process is on its way to the worker: the asyncio queue, the timers and   *)
(* the handlers hold what the rows say (queue.py, module docstring).        *)
THEOREM QueuedJobsDispatched ==
  ASSUME MaxFaults = 0
  PROVE  Spec => []QueuedIsDispatched
<1>1. LossInv => QueuedIsDispatched
  <2> SUFFICES ASSUME LossInv, proc = "up", NEW c \in Cases, jobStatus[c] = "queued",
                      ~OnItsWay(c)
               PROVE  FALSE
    BY DEF QueuedIsDispatched, OnItsWay
  <2>1. faults = 0
    BY DEF LossInv, TypeOK
  <2>2. Stranded \in SUBSET Cases /\ c \in Stranded
    BY DEF Stranded
  <2>3. Cardinality(Stranded) = 0
    BY <2>1, <2>2, CasesAreFinite DEF LossInv, StrandedJobsAreFaults
  <2>4. Stranded = {}
    BY <2>2, <2>3, CasesAreFinite, FS_EmptySet
  <2> QED BY <2>2, <2>4
<1> QED BY <1>1, LossInvariance, PTL

(* An analyst is never refused for more slots than jobs in flight and       *)
(* refused requests of the database together: acquire and release balance   *)
(* on every path of submit_case, process_job_once and _recover_running_job. *)
THEOREM SlotsLostByFaultsOnly == Spec => []LostSlotsAreFaults
<1>1. LossInv => LostSlotsAreFaults
  <2> SUFFICES ASSUME LossInv, NEW a \in Analysts
               PROVE  gauge[a] <= Cardinality(InFlightOf(a)) + faults
    BY DEF LostSlotsAreFaults
  <2>1. /\ SlotsOf(a) \in SUBSET Cases /\ InFlightOf(a) \in SUBSET Cases
        /\ SlotsOf(a) \subseteq InFlightOf(a)
    BY DEF SlotsOf, InFlightOf, HasSlot
  <2>2. gauge[a] <= Cardinality(SlotsOf(a)) + faults
    BY DEF LossInv, SlotsAreHeld
  <2>3. gauge[a] \in Nat /\ faults \in Nat
    BY JobQueueAssumption DEF LossInv, TypeOK
  <2> QED BY <2>1, <2>2, <2>3, CountGrows, CasesAreFinite
<1> QED BY <1>1, LossInvariance, PTL

(* Where the database refuses nothing no slot leaks at all.                 *)
THEOREM NoSlotLeaks ==
  ASSUME MaxFaults = 0
  PROVE  Spec => []NoSlotLeak
<1>1. LossInv /\ LostSlotsAreFaults => NoSlotLeak
  <2> SUFFICES ASSUME LossInv, LostSlotsAreFaults, NEW a \in Analysts
               PROVE  gauge[a] <= Cardinality(InFlightOf(a))
    BY DEF NoSlotLeak
  <2>1. faults = 0
    BY DEF LossInv, TypeOK
  <2>2. InFlightOf(a) \in SUBSET Cases
    BY DEF InFlightOf
  <2> QED BY <2>1, <2>2, CasesAreFinite DEF LostSlotsAreFaults
<1> QED BY <1>1, LossInvariance, SlotsLostByFaultsOnly, PTL

-------------------------------------------------------------------------------
(* Running jobs, where rows lock                                            *)

(* A job that nobody works on after a step was so before.                   *)
LEMMA AbandonedKept ==
  ASSUME TypeOK, AbandonedJobsAreFaults, faults' = faults \/ Fault,
         proc' = "up" => proc = "up",
         proc' = "up" => \A d \in Cases :
           jobStatus'[d] = "running" /\ worker'.job # d
             => jobStatus[d] = "running" /\ worker.job # d
  PROVE  AbandonedJobsAreFaults'
<1> SUFFICES ASSUME proc' = "up"
             PROVE  Cardinality(Abandoned') <= faults'
  BY DEF AbandonedJobsAreFaults
<1>1. Abandoned \in SUBSET Cases /\ Abandoned' \in SUBSET Cases
      /\ Abandoned' \subseteq Abandoned
  BY DEF Abandoned
<1>2. Cardinality(Abandoned) <= faults
  BY DEF AbandonedJobsAreFaults
<1> QED BY <1>1, <1>2, CountGrows, CasesAreFinite, FaultType

(* The worker's commit of the except block is refused: its job is abandoned. *)
LEMMA AbandonedByFault ==
  ASSUME IInv, AbandonedJobsAreFaults, WorkerFault
  PROVE  AbandonedJobsAreFaults'
<1> DEFINE c == worker.job
<1>1. Abandoned \in SUBSET Cases /\ Abandoned' \in SUBSET Cases
      /\ Abandoned' \ {c} \subseteq Abandoned /\ c \in Cases
  BY WorkersJob DEF Abandoned, WorkerFault, rows
<1>2. Cardinality(Abandoned) <= faults
  BY DEF AbandonedJobsAreFaults, WorkerFault
<1>3. Cardinality(Abandoned') <= Cardinality(Abandoned) + 1
  <2> HIDE DEF c
  <2> QED BY <1>1, CountLosesOne
<1>4. faults \in Nat /\ faults' = faults + 1
  BY FaultType DEF WorkerFault, Fault, IInv
<1>5. Cardinality(Abandoned') <= faults'
  BY <1>1, <1>2, <1>3, <1>4, CasesAreFinite
<1> QED BY <1>5 DEF AbandonedJobsAreFaults

(* The worker finishes its job in every other way: it is not running any     *)
(* more, or the worker still has it.                                         *)
LEMMA AbandonedByWorker ==
  ASSUME IInv, AbandonedJobsAreFaults,
         \/ WorkerSucceed \/ WorkerSucceedFault
         \/ \E category \in FailureCategories :
              \/ WorkerRetry(category) \/ WorkerRetryFault(category)
              \/ WorkerGiveUp(category)
         \/ CreateDLQEntry \/ AlertFault \/ WorkerRaises
  PROVE  AbandonedJobsAreFaults'
<1>0. PICK c \in Cases : c = worker.job
  BY WorkersJob DEF WorkerSucceed, WorkerSucceedFault, WorkerRetry, WorkerRetryFault,
                    WorkerGiveUp, CreateDLQEntry, AlertFault, WorkerRaises
<1>1. /\ jobStatus'[c] # "running"
      /\ \A d \in Cases \ {c} : jobStatus'[d] = jobStatus[d]
      /\ proc' = proc
      /\ faults' = faults \/ Fault
  <2>1. CASE WorkerSucceed \/ WorkerSucceedFault
    BY <1>0, <2>1 DEF WorkerSucceed, WorkerSucceedFault, IInv, TypeOK, bounds
  <2>2. ASSUME NEW category \in FailureCategories,
               \/ WorkerRetry(category) \/ WorkerRetryFault(category)
               \/ WorkerGiveUp(category)
        PROVE  /\ jobStatus'[c] # "running"
               /\ \A d \in Cases \ {c} : jobStatus'[d] = jobStatus[d]
               /\ proc' = proc
               /\ faults' = faults \/ Fault
    BY <1>0, <2>2 DEF WorkerRetry, WorkerRetryFault, WorkerGiveUp, IInv, TypeOK, bounds
  <2>3. CASE CreateDLQEntry \/ AlertFault
    <3>1. jobStatus[c] = "failed"
      BY <1>0, <2>3, WorkersJob DEF CreateDLQEntry, AlertFault
    <3> QED BY <2>3, <3>1 DEF CreateDLQEntry, AlertFault, bounds
  <2>4. CASE WorkerRaises
    <3>1. worker.pc # "analyzing"
      <4>1. IsValidTransition(ANALYZING, PROCESSING_FAILED)
        BY DEF IsValidTransition, TRANSITIONS, ANALYZING, PROCESSING_FAILED
      <4> QED BY <1>0, <2>4, <4>1, WorkersJob DEF WorkerRaises
    <3>2. jobStatus[c] = "failed"
      BY <1>0, <2>4, <3>1, WorkersJob DEF WorkerRaises
    <3> QED BY <2>4, <3>2 DEF WorkerRaises, rows, bounds
  <2> QED BY <2>1, <2>2, <2>3, <2>4
<1> QED BY <1>0, <1>1, AbandonedKept DEF IInv

(* Every step of a system that locks rows keeps the count.                   *)
LEMMA NextAbandoned ==
  ASSUME IInv, AbandonedJobsAreFaults, [Next]_vars
  PROVE  AbandonedJobsAreFaults'
<1>0. TypeOK
  BY DEF IInv
<1>1. ASSUME UNCHANGED <<jobStatus, worker, proc>>, faults' = faults \/ Fault
      PROVE  AbandonedJobsAreFaults'
  BY <1>0, <1>1, AbandonedKept
<1>2. ASSUME NEW c \in Cases, SubmitAcquire(c) \/ SubmitStep(c) \/ TimerFires(c)
      PROVE  AbandonedJobsAreFaults'
  <2>1. CASE SubmitCommit(c)
    <3>1. /\ \A d \in Cases : jobStatus'[d] = "running" => jobStatus[d] = "running"
          /\ UNCHANGED <<worker, proc, faults>>
      BY <1>0, <2>1 DEF SubmitCommit, TypeOK, bounds
    <3> QED BY <1>0, <3>1, AbandonedKept
  <2>2. CASE SubmitAcquire(c) \/ SubmitFail(c) \/ SubmitEnqueue(c) \/ TimerFires(c)
    BY <1>1, <2>2 DEF SubmitAcquire, SubmitFail, SubmitEnqueue, TimerFires, rows, bounds
  <2> QED BY <1>2, <2>1, <2>2 DEF SubmitStep
<1>3. ASSUME NEW c \in Cases, WorkerStart(c)
      PROVE  AbandonedJobsAreFaults'
  <2>1. /\ worker'.job = c /\ worker.job = None /\ UNCHANGED <<proc, faults>>
        /\ \A d \in Cases \ {c} : jobStatus'[d] = jobStatus[d]
    BY <1>0, <1>3 DEF WorkerStart, WorkerTakes, TypeOK, IInv, WorkerInv, IdleWorker, bounds
  <2> QED BY <1>0, <2>1, AbandonedKept, JobQueueAssumption
<1>4. CASE WorkerStep
  <2>1. ASSUME NEW c \in Cases, WorkerSkip(c)
        PROVE  AbandonedJobsAreFaults'
    BY <1>1, <2>1 DEF WorkerSkip, rows, bounds
  <2> QED BY <1>3, <1>4, <2>1, AbandonedByWorker DEF WorkerStep
<1>5. ASSUME NEW a \in Admins, NEW op \in {"redrive", "close"}, NEW c \in Cases,
             NEW e \in DOMAIN dlq[c], AdminOpen(a, op, c, e)
      PROVE  AbandonedJobsAreFaults'
  BY <1>1, <1>5 DEF AdminOpen, rows, bounds
<1>6. ASSUME NEW a \in Admins, AdminStep(a)
      PROVE  AbandonedJobsAreFaults'
  <2>1. CASE RedriveCommit(a)
    <3>1. /\ \A d \in Cases : jobStatus'[d] = "running" => jobStatus[d] = "running"
          /\ UNCHANGED <<worker, proc, faults>>
      BY <1>0, <2>1 DEF RedriveCommit, TypeOK, bounds
    <3> QED BY <1>0, <3>1, AbandonedKept
  <2>2. CASE AdminLoad(a) \/ AdminAborts(a) \/ RedriveEnqueue(a) \/ CloseCommit(a)
    BY <1>1, <2>2 DEF AdminLoad, AdminAborts, RedriveEnqueue, CloseCommit, rows, bounds
  <2> QED BY <1>6, <2>1, <2>2 DEF AdminStep
<1>11. ASSUME NEW r \in Reviewers, ReviewStep(r) \/ \E c \in Cases : ReviewLoad(r, c)
       PROVE  AbandonedJobsAreFaults'
  BY <1>1, <1>11 DEF ReviewStep, ReviewLoad, ReviewCommit, ReviewEnds, rows, bounds
<1>7. CASE Crash
  BY <1>7 DEF Crash, AbandonedJobsAreFaults
<1>8. CASE StartupStep
  <2>1. CASE Replay
    <3>1. Abandoned' = {}
      BY <2>1 DEF Replay, Abandoned, rows
    <3>2. Cardinality(Abandoned') = 0
      BY <3>1, FS_EmptySet
    <3> QED BY <1>0, <2>1, <3>2, FaultType DEF AbandonedJobsAreFaults, Replay, bounds
  <2>2. CASE \/ Restart
             \/ \E c \in Cases : RecoverRequeue(c) \/ RecoverGiveUp(c) \/ StartupFails(c)
    BY <2>2 DEF Restart, RecoverRequeue, RecoverGiveUp, StartupFails, Interrupted,
                AbandonedJobsAreFaults
  <2> QED BY <1>8, <2>1, <2>2 DEF StartupStep
<1>9. CASE FaultStep
  <2>1. ASSUME \/ \E c \in Cases : SubmitFault(c) \/ WorkerStartFault(c)
               \/ \E a \in Admins : RedriveFault(a)
        PROVE  AbandonedJobsAreFaults'
    BY <1>1, <2>1 DEF SubmitFault, WorkerStartFault, RedriveFault, rows
  <2>2. CASE StartupFault
    BY <2>2 DEF StartupFault, AbandonedJobsAreFaults
  <2>3. CASE WorkerFault
    BY <2>3, AbandonedByFault
  <2> QED BY <1>9, <2>1, <2>2, <2>3, AbandonedByWorker DEF FaultStep
<1>10. CASE UNCHANGED vars
  BY <1>1, <1>10 DEF vars, rows, bounds
<1> QED BY <1>2, <1>4, <1>5, <1>6, <1>7, <1>8, <1>9, <1>10, <1>11 DEF Next

(* Where rows lock, no more jobs are left running without a worker than the  *)
(* database refused requests.                                                *)
THEOREM AbandonedByFaultsOnly ==
  ASSUME RowLocks
  PROVE  Spec => []AbandonedJobsAreFaults
<1>1. Init => AbandonedJobsAreFaults
  <2> SUFFICES ASSUME Init PROVE AbandonedJobsAreFaults
    OBVIOUS
  <2>1. Abandoned = {}
    BY DEF Init, Abandoned, ABSENT
  <2> QED BY <2>1, FS_EmptySet DEF Init, AbandonedJobsAreFaults
<1>2. IInv /\ AbandonedJobsAreFaults /\ [Next]_vars => AbandonedJobsAreFaults'
  BY NextAbandoned
<1> QED BY <1>1, <1>2, Invariance, PTL DEF Spec

(* Where rows lock and the database refuses nothing, a running job is the    *)
(* worker's: what _recover_running_job finds was interrupted by a crash.     *)
THEOREM RunningJobsInterrupted ==
  ASSUME RowLocks, MaxFaults = 0
  PROVE  Spec => []RunningMeansInterrupted
<1>1. TypeOK /\ AbandonedJobsAreFaults => RunningMeansInterrupted
  <2> SUFFICES ASSUME TypeOK, AbandonedJobsAreFaults, proc = "up", NEW c \in Cases,
                      jobStatus[c] = "running", worker.job # c
               PROVE  FALSE
    BY DEF RunningMeansInterrupted
  <2>1. faults = 0
    BY DEF TypeOK
  <2>2. Abandoned \in SUBSET Cases /\ c \in Abandoned
    BY DEF Abandoned
  <2>3. Cardinality(Abandoned) = 0
    BY <2>1, <2>2, CasesAreFinite DEF AbandonedJobsAreFaults
  <2>4. Abandoned = {}
    BY <2>2, <2>3, CasesAreFinite, FS_EmptySet
  <2> QED BY <2>2, <2>4
<1> QED BY <1>1, TypeCorrectAnywhere, AbandonedByFaultsOnly, PTL
===============================================================================
