------------------------------- MODULE JobQueue -------------------------------
(***************************************************************************)
(* The durable job queue of backend/jobs/queue.py with the handlers that    *)
(* feed it: submit_case (api/routers/cases.py), the dead-letter endpoints   *)
(* redrive and close (api/routers/admin.py, jobs/dlq.py), the analysts'     *)
(* decisions (submit_decision, api/routers/review.py) as far as they write  *)
(* the case's status, the per-analyst concurrency gauge                     *)
(* (rate_limit/limiter.py) and the startup replay.                          *)
(*                                                                          *)
(* Each case has exactly one analysis job, so a job is named by its case.   *)
(* Rows of the database survive a crash; the asyncio queue, the retry       *)
(* timers, the worker, the request handlers and the gauge do not.           *)
(*                                                                          *)
(* One action is one transaction (up to its commit) together with the       *)
(* in-memory effects that follow it before the next transaction.            *)
(***************************************************************************)
EXTENDS CaseStates, FiniteSets

CONSTANTS
  Cases,             \* the cases analysts may submit
  Analysts,          \* the submitting users
  SubmittedBy,       \* [Cases -> Analysts], Case.submitted_by
  Admins,            \* concurrent requests to the dead-letter endpoints
  Reviewers,         \* concurrent requests to submit_decision
  FailureCategories, \* the categories an attempt's exception may be given
  MaxAttempts,       \* settings.max_job_attempts
  SlotLimit,         \* settings.rate_limit_concurrent_jobs_per_analyst
  RowLocks,          \* TRUE: FOR UPDATE locks rows (Postgres); FALSE: SQLite
  MaxRedrives,       \* bound: entries of one case that are opened to redrive
  MaxCrashes,        \* bound: crashes of the process
  MaxFaults,         \* bound: commits (or queries) the database refuses
  None               \* no case

(* classify_exception's categories (jobs/dlq.py). *)
TRANSIENT == "transient"
PERMANENT == "permanent"
RESOURCE  == "resource"
UNKNOWN   == "unknown"
ErrorCategories     == {TRANSIENT, PERMANENT, RESOURCE, UNKNOWN}
RETRYABLE_CATEGORIES == {TRANSIENT, RESOURCE}

(* DLQErrorMetadata.resolution_status. *)
INVESTIGATING   == "investigating"
REDRIVEN        == "redriven"
RESOLVED_CLOSED == "closed"

(* An error of the database or of the state machine itself is UNKNOWN to    *)
(* classify_exception, so UNKNOWN is always among the possible categories.  *)
ASSUME JobQueueAssumption ==
  /\ IsFiniteSet(Cases)
  /\ SubmittedBy \in [Cases -> Analysts]
  /\ FailureCategories \subseteq ErrorCategories
  /\ UNKNOWN \in FailureCategories
  /\ MaxAttempts \in Nat \ {0}
  /\ SlotLimit \in Nat \ {0}
  /\ RowLocks \in BOOLEAN
  /\ MaxRedrives \in Nat
  /\ MaxCrashes \in Nat
  /\ MaxFaults \in Nat
  /\ None \notin Cases

VARIABLES
  \* rows of the database
  caseStatus, \* [Cases -> status], Case.status
  jobStatus,  \* [Cases -> status], AnalysisJob.status
  attempts,   \* [Cases -> Nat], AnalysisJob.attempt_count
  results,    \* [Cases -> Nat], the number of Result rows of the case
  dlq,        \* [Cases -> Seq(entry)], the case's DLQErrorMetadata rows
  \* the memory of the process
  proc,       \* "up", "down" or "recovering" (inside the startup replay)
  queue,      \* AnalysisJobQueue._queue
  timers,     \* [Cases -> Nat], pending _delayed_requeue tasks
  worker,     \* process_job_once's call, or _recover_running_job's
  gauge,      \* [Analysts -> Nat], _ConcurrencyGauge._counts
  submit,     \* [Cases -> phase], submit_case's call
  admin,      \* [Admins -> call], redrive's or close_as_invalid's call
  reviews,    \* [Reviewers -> call], submit_decision's call
  \* the bounds' counters
  crashes, faults

rows   == <<caseStatus, jobStatus, attempts, results, dlq>>
bounds == <<crashes, faults>>
vars   == <<rows, proc, queue, timers, worker, gauge, submit, admin, reviews,
          bounds>>

ABSENT == "absent"   \* the row does not exist
JobStatuses  == {"queued", "running", "succeeded", "failed"}
DLQEntries   == [resolution : {INVESTIGATING, REDRIVEN, RESOLVED_CLOSED},
                 category   : ErrorCategories,
                 attempts   : Nat]
SubmitPhases == {"none", "acquired", "committed", "done"}

(* pc "analyzing": between the commit that starts an attempt and the one    *)
(* that ends it; "failing": between the commit of the failed job and that   *)
(* of its dead-letter entry.  seen is the status the session has loaded.    *)
WorkerCalls == [pc       : {"idle", "analyzing", "failing"},
                job      : Cases \cup {None},
                seen     : ALL_STATUSES \cup {ABSENT},
                category : ErrorCategories]
IdleWorker  == [pc |-> "idle", job |-> None, seen |-> ABSENT,
                category |-> UNKNOWN]

(* pc "entry": the entry was read as investigating; "loaded": the case and  *)
(* the job were read too; "redriven": committed, not yet enqueued.          *)
AdminCalls == [pc    : {"idle", "entry", "loaded", "redriven"},
               op    : {"redrive", "close"},
               job   : Cases \cup {None},
               entry : Nat,
               seen  : JobStatuses \cup {ABSENT},
               tries : Nat]
IdleAdmin  == [pc |-> "idle", op |-> "close", job |-> None, entry |-> 0,
               seen |-> ABSENT, tries |-> 0]

(* pc "loaded": the case was read, with the status seen.                     *)
ReviewCalls == [pc   : {"idle", "loaded"},
                case : Cases \cup {None},
                seen : ALL_STATUSES \cup {ABSENT}]
NoReview    == [pc |-> "idle", case |-> None, seen |-> ABSENT]

TypeOK ==
  /\ caseStatus \in [Cases -> ALL_STATUSES \cup {ABSENT}]
  /\ jobStatus \in [Cases -> JobStatuses \cup {ABSENT}]
  /\ attempts \in [Cases -> Nat]
  /\ results \in [Cases -> Nat]
  /\ dlq \in [Cases -> Seq(DLQEntries)]
  /\ proc \in {"up", "down", "recovering"}
  /\ queue \in Seq(Cases)
  /\ timers \in [Cases -> Nat]
  /\ worker \in WorkerCalls
  /\ gauge \in [Analysts -> Nat]
  /\ submit \in [Cases -> SubmitPhases]
  /\ admin \in [Admins -> AdminCalls]
  /\ reviews \in [Reviewers -> ReviewCalls]
  /\ crashes \in 0..MaxCrashes
  /\ faults \in 0..MaxFaults

Init ==
  /\ caseStatus = [c \in Cases |-> ABSENT]
  /\ jobStatus = [c \in Cases |-> ABSENT]
  /\ attempts = [c \in Cases |-> 0]
  /\ results = [c \in Cases |-> 0]
  /\ dlq = [c \in Cases |-> << >>]
  /\ proc = "up"
  /\ queue = << >>
  /\ timers = [c \in Cases |-> 0]
  /\ worker = IdleWorker
  /\ gauge = [a \in Analysts |-> 0]
  /\ submit = [c \in Cases |-> "none"]
  /\ admin = [a \in Admins |-> IdleAdmin]
  /\ reviews = [r \in Reviewers |-> NoReview]
  /\ crashes = 0
  /\ faults = 0

-------------------------------------------------------------------------------
(* Helpers *)

(* Mutant: the gauge is decremented below zero.                             *)
ReleaseSlotNoFloor(c) ==
  gauge' = [gauge EXCEPT ![SubmittedBy[c]] = @ - 1]

(* _ConcurrencyGauge.acquire and release on the analyst of case c.          *)
AcquireSlot(c) ==
  /\ gauge[SubmittedBy[c]] < SlotLimit
  /\ gauge' = [gauge EXCEPT ![SubmittedBy[c]] = @ + 1]

ReleaseSlot(c) ==
  gauge' = [gauge EXCEPT ![SubmittedBy[c]] = IF @ > 0 THEN @ - 1 ELSE @]

Fault == faults < MaxFaults /\ faults' = faults + 1 /\ UNCHANGED crashes

(* Mutants: the rows are read without FOR UPDATE.                           *)
LocksNothing(a, c) == FALSE

ReviewLocksNothing(r, c) == FALSE

(* FOR UPDATE locks every row the query reads until the transaction ends:   *)
(* the administrator's join a dead-letter entry and its case, the           *)
(* reviewer's query the case.                                               *)
Locks(a, c) == admin[a].pc \in {"entry", "loaded"} /\ admin[a].job = c

ReviewLocks(r, c) == reviews[r].pc = "loaded" /\ reviews[r].case = c

(* Who reads the case for an update, or writes it, waits for those locks.   *)
CaseUnlocked(c) ==
  RowLocks => /\ \A a \in Admins : ~Locks(a, c)
              /\ \A r \in Reviewers : ~ReviewLocks(r, c)

(* Every order in which SELECT ... may return the jobs of S (no ORDER BY).  *)
Orders(S) == {f \in [1..Cardinality(S) -> S] :
                \A i, j \in DOMAIN f : f[i] = f[j] => i = j}

-------------------------------------------------------------------------------
(* submit_case                                                              *)

SubmitAcquire(c) ==
  /\ proc = "up"
  /\ submit[c] = "none"
  /\ AcquireSlot(c)
  /\ submit' = [submit EXCEPT ![c] = "acquired"]
  /\ UNCHANGED <<rows, proc, queue, timers, worker, admin, reviews, bounds>>

(* One transaction inserts the case, takes it along its first three edges,  *)
(* inserts its messages and its job, and commits.                           *)
SubmitCommit(c) ==
  /\ submit[c] = "acquired"
  /\ IsValidPath(<<SUBMITTED, VALIDATING, PRIVACY_PROCESSING, QUEUED>>)
  /\ caseStatus' = [caseStatus EXCEPT ![c] = QUEUED]
  /\ jobStatus' = [jobStatus EXCEPT ![c] = "queued"]
  /\ submit' = [submit EXCEPT ![c] = "committed"]
  /\ UNCHANGED <<attempts, results, dlq, proc, queue, timers, worker, gauge,
                 admin, reviews, bounds>>

(* Mutant: the slot is not given back when the submission is refused.       *)
SubmitFailKeepsSlot(c) ==
  /\ submit[c] = "acquired"
  /\ submit' = [submit EXCEPT ![c] = "none"]
  /\ UNCHANGED <<rows, proc, queue, timers, worker, gauge, admin, reviews,
                 bounds>>

(* Any exception before the commit: nothing is stored, the slot goes back.  *)
SubmitFail(c) ==
  /\ submit[c] = "acquired"
  /\ ReleaseSlot(c)
  /\ submit' = [submit EXCEPT ![c] = "none"]
  /\ UNCHANGED <<rows, proc, queue, timers, worker, admin, reviews, bounds>>

SubmitEnqueue(c) ==
  /\ submit[c] = "committed"
  /\ queue' = Append(queue, c)
  /\ submit' = [submit EXCEPT ![c] = "done"]
  /\ UNCHANGED <<rows, proc, timers, worker, gauge, admin, reviews, bounds>>

(* After the commit the session reads job.job_id again, outside the try: if  *)
(* that query is refused the job is stored but not dispatched.               *)
SubmitFault(c) ==
  /\ submit[c] = "committed"
  /\ Fault
  /\ submit' = [submit EXCEPT ![c] = "done"]
  /\ UNCHANGED <<rows, proc, queue, timers, worker, gauge, admin, reviews>>

-------------------------------------------------------------------------------
(* The worker: _run takes the jobs of the queue one at a time, in order, and *)
(* process_job_once makes one attempt at each.                               *)

WorkerTakes(c) ==
  /\ proc = "up"
  /\ worker.pc = "idle"
  /\ queue # << >>
  /\ c = Head(queue)
  /\ queue' = Tail(queue)

(* A job that has succeeded is not run again.                               *)
WorkerSkip(c) ==
  /\ WorkerTakes(c)
  /\ jobStatus[c] = "succeeded"
  /\ UNCHANGED <<rows, proc, timers, worker, gauge, submit, admin, reviews,
                 bounds>>

(* The attempt starts: its count and its status are committed.  A status    *)
(* from which ANALYZING cannot be reached is left as it is.                 *)
WorkerStart(c) ==
  LET status == IF IsValidTransition(caseStatus[c], ANALYZING)
                THEN ANALYZING ELSE caseStatus[c]
  IN /\ WorkerTakes(c)
     /\ jobStatus[c] # "succeeded"
     /\ CaseUnlocked(c)
     /\ jobStatus' = [jobStatus EXCEPT ![c] = "running"]
     /\ attempts' = [attempts EXCEPT ![c] = @ + 1]
     /\ caseStatus' = [caseStatus EXCEPT ![c] = status]
     /\ worker' = [pc |-> "analyzing", job |-> c, seen |-> status,
                   category |-> UNKNOWN]
     /\ UNCHANGED <<results, dlq, proc, timers, gauge, submit, admin, reviews,
                    bounds>>

(* That first commit is refused: it is outside process_job_once's try, so    *)
(* _run logs the exception and forgets the job.                              *)
WorkerStartFault(c) ==
  /\ WorkerTakes(c)
  /\ jobStatus[c] # "succeeded"
  /\ Fault
  /\ UNCHANGED <<rows, proc, timers, worker, gauge, submit, admin, reviews>>

(* Mutant: the job is left running when its result is stored.                *)
WorkerSucceedLeavesJob ==
  LET c == worker.job
  IN /\ worker.pc = "analyzing"
     /\ CaseUnlocked(c)
     /\ IsValidTransition(worker.seen, READY_FOR_REVIEW)
     /\ results' = [results EXCEPT ![c] = @ + 1]
     /\ caseStatus' = [caseStatus EXCEPT ![c] = READY_FOR_REVIEW]
     /\ ReleaseSlot(c)
     /\ worker' = IdleWorker
     /\ UNCHANGED <<jobStatus, attempts, dlq, proc, queue, timers, submit,
                    admin, reviews, bounds>>

(* Mutant: the case is shown for review without its result.                  *)
WorkerSucceedNoResult ==
  LET c == worker.job
  IN /\ worker.pc = "analyzing"
     /\ CaseUnlocked(c)
     /\ IsValidTransition(worker.seen, READY_FOR_REVIEW)
     /\ jobStatus' = [jobStatus EXCEPT ![c] = "succeeded"]
     /\ caseStatus' = [caseStatus EXCEPT ![c] = READY_FOR_REVIEW]
     /\ ReleaseSlot(c)
     /\ worker' = IdleWorker
     /\ UNCHANGED <<attempts, results, dlq, proc, queue, timers, submit, admin,
                    reviews, bounds>>

(* Mutant: one attempt too many.                                             *)
MayRetryOnceMore(c, category) ==
  category \in RETRYABLE_CATEGORIES /\ attempts[c] <= MaxAttempts

(* The analysis went through: the result, the job, the case and the audit    *)
(* event are committed together and the slot is released.  The edge is       *)
(* checked against the status the session loaded when the attempt started.   *)
WorkerSucceed ==
  LET c == worker.job
  IN /\ worker.pc = "analyzing"
     /\ CaseUnlocked(c)
     /\ IsValidTransition(worker.seen, READY_FOR_REVIEW)
     /\ results' = [results EXCEPT ![c] = @ + 1]
     /\ jobStatus' = [jobStatus EXCEPT ![c] = "succeeded"]
     /\ caseStatus' = [caseStatus EXCEPT ![c] = READY_FOR_REVIEW]
     /\ ReleaseSlot(c)
     /\ worker' = IdleWorker
     /\ UNCHANGED <<attempts, dlq, proc, queue, timers, submit, admin, reviews,
                    bounds>>

(* The result is committed and the query for case.submitted_by is refused:   *)
(* the except block finds a case it cannot fail and raises; no slot is       *)
(* released.                                                                 *)
WorkerSucceedFault ==
  LET c == worker.job
  IN /\ worker.pc = "analyzing"
     /\ CaseUnlocked(c)
     /\ IsValidTransition(worker.seen, READY_FOR_REVIEW)
     /\ ~IsValidTransition(READY_FOR_REVIEW, PROCESSING_FAILED)
     /\ results' = [results EXCEPT ![c] = @ + 1]
     /\ jobStatus' = [jobStatus EXCEPT ![c] = "succeeded"]
     /\ caseStatus' = [caseStatus EXCEPT ![c] = READY_FOR_REVIEW]
     /\ Fault
     /\ worker' = IdleWorker
     /\ UNCHANGED <<attempts, dlq, proc, queue, timers, gauge, submit, admin,
                    reviews>>

MayRetry(c, category) ==
  category \in RETRYABLE_CATEGORIES /\ attempts[c] < MaxAttempts

(* Mutant: the retry is committed but never scheduled.                       *)
WorkerRetryNoTimer(category) ==
  LET c == worker.job
  IN /\ worker.pc = "analyzing"
     /\ CaseUnlocked(c)
     /\ MayRetry(c, category)
     /\ IsValidPath(<<caseStatus[c], PROCESSING_FAILED, QUEUED>>)
     /\ caseStatus' = [caseStatus EXCEPT ![c] = QUEUED]
     /\ jobStatus' = [jobStatus EXCEPT ![c] = "queued"]
     /\ worker' = IdleWorker
     /\ UNCHANGED <<attempts, results, dlq, proc, queue, timers, gauge, submit,
                    admin, reviews, bounds>>

(* The attempt failed, and another one is scheduled after the backoff.       *)
WorkerRetry(category) ==
  LET c == worker.job
  IN /\ worker.pc = "analyzing"
     /\ CaseUnlocked(c)
     /\ MayRetry(c, category)
     /\ IsValidPath(<<caseStatus[c], PROCESSING_FAILED, QUEUED>>)
     /\ caseStatus' = [caseStatus EXCEPT ![c] = QUEUED]
     /\ jobStatus' = [jobStatus EXCEPT ![c] = "queued"]
     /\ timers' = [timers EXCEPT ![c] = @ + 1]
     /\ worker' = IdleWorker
     /\ UNCHANGED <<attempts, results, dlq, proc, queue, gauge, submit, admin,
                    reviews, bounds>>

(* The retry is committed and the query for its attempt count, from which    *)
(* the backoff is computed, is refused: no timer is started.                 *)
WorkerRetryFault(category) ==
  LET c == worker.job
  IN /\ worker.pc = "analyzing"
     /\ CaseUnlocked(c)
     /\ MayRetry(c, category)
     /\ IsValidPath(<<caseStatus[c], PROCESSING_FAILED, QUEUED>>)
     /\ caseStatus' = [caseStatus EXCEPT ![c] = QUEUED]
     /\ jobStatus' = [jobStatus EXCEPT ![c] = "queued"]
     /\ Fault
     /\ worker' = IdleWorker
     /\ UNCHANGED <<attempts, results, dlq, proc, queue, timers, gauge, submit,
                    admin, reviews>>

(* The attempt failed for good: first of the two commits of this path.       *)
WorkerGiveUp(category) ==
  LET c == worker.job
  IN /\ worker.pc = "analyzing"
     /\ CaseUnlocked(c)
     /\ ~MayRetry(c, category)
     /\ IsValidTransition(caseStatus[c], PROCESSING_FAILED)
     /\ caseStatus' = [caseStatus EXCEPT ![c] = PROCESSING_FAILED]
     /\ jobStatus' = [jobStatus EXCEPT ![c] = "failed"]
     /\ worker' = [pc |-> "failing", job |-> c, seen |-> ABSENT,
                   category |-> category]
     /\ UNCHANGED <<attempts, results, dlq, proc, queue, timers, gauge, submit,
                    admin, reviews, bounds>>

EntryOf(c) == [resolution |-> INVESTIGATING, category |-> worker.category,
               attempts |-> attempts[c]]

(* Second commit: the dead-letter entry, its audit event and the case's      *)
(* status; then the slot is released.  Also the end of the startup's         *)
(* recovery of a job that has no attempt left.                               *)
CreateDLQEntry ==
  LET c == worker.job
  IN /\ worker.pc = "failing"
     /\ CaseUnlocked(c)
     /\ IsValidTransition(caseStatus[c], DLQ_INVESTIGATION)
     /\ caseStatus' = [caseStatus EXCEPT ![c] = DLQ_INVESTIGATION]
     /\ dlq' = [dlq EXCEPT ![c] = Append(@, EntryOf(c))]
     /\ ReleaseSlot(c)
     /\ worker' = IdleWorker
     /\ UNCHANGED <<jobStatus, attempts, results, proc, queue, timers, submit,
                    admin, reviews, bounds>>

(* The entry is committed and the depth query of the alert fails: the        *)
(* exception leaves process_job_once before the slot is released.            *)
AlertFault ==
  LET c == worker.job
  IN /\ proc = "up"
     /\ worker.pc = "failing"
     /\ CaseUnlocked(c)
     /\ IsValidTransition(caseStatus[c], DLQ_INVESTIGATION)
     /\ caseStatus' = [caseStatus EXCEPT ![c] = DLQ_INVESTIGATION]
     /\ dlq' = [dlq EXCEPT ![c] = Append(@, EntryOf(c))]
     /\ Fault
     /\ worker' = IdleWorker
     /\ UNCHANGED <<jobStatus, attempts, results, proc, queue, timers, gauge,
                    submit, admin, reviews>>

(* An exception raised inside the except block leaves process_job_once: the  *)
(* case's status does not allow PROCESSING_FAILED or DLQ_INVESTIGATION.      *)
WorkerRaises ==
  LET c == worker.job
  IN /\ proc = "up"
     /\ \/ worker.pc = "analyzing"
             /\ ~IsValidTransition(caseStatus[c], PROCESSING_FAILED)
        \/ worker.pc = "failing"
             /\ ~IsValidTransition(caseStatus[c], DLQ_INVESTIGATION)
     /\ worker' = IdleWorker
     /\ UNCHANGED <<rows, proc, queue, timers, gauge, submit, admin, reviews,
                    bounds>>

(* The same when the database refuses a commit of the except block.  (A      *)
(* commit refused in the try block is one more failure of the attempt.)      *)
WorkerFault ==
  /\ proc = "up"
  /\ worker.pc # "idle"
  /\ Fault
  /\ worker' = IdleWorker
  /\ UNCHANGED <<rows, proc, queue, timers, gauge, submit, admin, reviews>>

TimerFires(c) ==
  /\ timers[c] > 0
  /\ timers' = [timers EXCEPT ![c] = @ - 1]
  /\ queue' = Append(queue, c)
  /\ UNCHANGED <<rows, proc, worker, gauge, submit, admin, reviews, bounds>>

-------------------------------------------------------------------------------
(* The dead-letter endpoints                                                 *)

Target(op) == IF op = "redrive" THEN QUEUED ELSE CLOSED

(* Mutant: no guard against an entry that is already resolved.               *)
AdminOpenAny(a, op, c, e) ==
  /\ proc = "up"
  /\ admin[a].pc = "idle"
  /\ CaseUnlocked(c)
  /\ op = "redrive" => e <= MaxRedrives
  /\ admin' = [admin EXCEPT ![a] = [pc |-> "entry", op |-> op, job |-> c,
                                    entry |-> e, seen |-> ABSENT, tries |-> 0]]
  /\ UNCHANGED <<rows, proc, queue, timers, worker, gauge, submit, reviews,
                 bounds>>

(* _get_org_scoped_dlq_entry and the guard against a resolved entry (which   *)
(* answers 409 and changes nothing).                                         *)
AdminOpen(a, op, c, e) ==
  /\ proc = "up"
  /\ admin[a].pc = "idle"
  /\ dlq[c][e].resolution = INVESTIGATING
  /\ CaseUnlocked(c)
  /\ op = "redrive" => e <= MaxRedrives
  /\ admin' = [admin EXCEPT ![a] = [pc |-> "entry", op |-> op, job |-> c,
                                    entry |-> e, seen |-> ABSENT, tries |-> 0]]
  /\ UNCHANGED <<rows, proc, queue, timers, worker, gauge, submit, reviews,
                 bounds>>

(* The case and the job are read; the edge is checked on the status read.    *)
AdminLoad(a) ==
  LET c == admin[a].job
  IN /\ admin[a].pc = "entry"
     /\ IsValidTransition(caseStatus[c], Target(admin[a].op))
     /\ admin' = [admin EXCEPT ![a] =
                     [pc |-> "loaded", op |-> @.op, job |-> c, entry |-> @.entry,
                      seen |-> jobStatus[c], tries |-> attempts[c]]]
     /\ UNCHANGED <<rows, proc, queue, timers, worker, gauge, submit, reviews,
                    bounds>>

(* The request ends without a commit: a refused edge, a database error.      *)
AdminAborts(a) ==
  /\ admin[a].pc \in {"entry", "loaded"}
  /\ admin' = [admin EXCEPT ![a] = IdleAdmin]
  /\ UNCHANGED <<rows, proc, queue, timers, worker, gauge, submit, reviews,
                 bounds>>

(* Mutant: the entry stays under investigation when its job is redriven.     *)
RedriveCommitLeavesEntry(a) ==
  LET c == admin[a].job
  IN /\ admin[a].pc = "loaded"
     /\ admin[a].op = "redrive"
     /\ caseStatus' = [caseStatus EXCEPT ![c] = QUEUED]
     /\ jobStatus' = [jobStatus EXCEPT ![c] =
                        IF admin[a].seen = "queued" THEN @ ELSE "queued"]
     /\ attempts' = [attempts EXCEPT ![c] = IF admin[a].tries = 0 THEN @ ELSE 0]
     /\ admin' = [admin EXCEPT ![a] =
                     [pc |-> "redriven", op |-> "redrive", job |-> c,
                      entry |-> 0, seen |-> ABSENT, tries |-> 0]]
     /\ UNCHANGED <<results, dlq, proc, queue, timers, worker, gauge, submit,
                    reviews, bounds>>

(* Mutant: the redriven job is not put on the queue.                         *)
RedriveEnqueueNothing(a) ==
  /\ admin[a].pc = "redriven"
  /\ admin' = [admin EXCEPT ![a] = IdleAdmin]
  /\ UNCHANGED <<rows, proc, queue, timers, worker, gauge, submit, reviews,
                 bounds>>

(* redrive_dlq_entry.  The session writes only the columns whose value       *)
(* differs from the one it loaded.                                           *)
RedriveCommit(a) ==
  LET c == admin[a].job
  IN /\ admin[a].pc = "loaded"
     /\ admin[a].op = "redrive"
     /\ caseStatus' = [caseStatus EXCEPT ![c] = QUEUED]
     /\ jobStatus' = [jobStatus EXCEPT ![c] =
                        IF admin[a].seen = "queued" THEN @ ELSE "queued"]
     /\ attempts' = [attempts EXCEPT ![c] = IF admin[a].tries = 0 THEN @ ELSE 0]
     /\ dlq' = [dlq EXCEPT ![c][admin[a].entry].resolution = REDRIVEN]
     /\ admin' = [admin EXCEPT ![a] =
                     [pc |-> "redriven", op |-> "redrive", job |-> c,
                      entry |-> 0, seen |-> ABSENT, tries |-> 0]]
     /\ UNCHANGED <<results, proc, queue, timers, worker, gauge, submit,
                    reviews, bounds>>

RedriveEnqueue(a) ==
  /\ admin[a].pc = "redriven"
  /\ queue' = Append(queue, admin[a].job)
  /\ admin' = [admin EXCEPT ![a] = IdleAdmin]
  /\ UNCHANGED <<rows, proc, timers, worker, gauge, submit, reviews, bounds>>

(* The query for the committed job's id is refused: it is not enqueued.      *)
RedriveFault(a) ==
  /\ admin[a].pc = "redriven"
  /\ Fault
  /\ admin' = [admin EXCEPT ![a] = IdleAdmin]
  /\ UNCHANGED <<rows, proc, queue, timers, worker, gauge, submit, reviews>>

(* Mutant: the entry is resolved and its case left under investigation.      *)
CloseCommitLeavesCase(a) ==
  LET c == admin[a].job
  IN /\ admin[a].pc = "loaded"
     /\ admin[a].op = "close"
     /\ dlq' = [dlq EXCEPT ![c][admin[a].entry].resolution = RESOLVED_CLOSED]
     /\ admin' = [admin EXCEPT ![a] = IdleAdmin]
     /\ UNCHANGED <<caseStatus, jobStatus, attempts, results, proc, queue,
                    timers, worker, gauge, submit, reviews, bounds>>

(* close_dlq_entry_as_invalid: the job stays failed.                         *)
CloseCommit(a) ==
  LET c == admin[a].job
  IN /\ admin[a].pc = "loaded"
     /\ admin[a].op = "close"
     /\ caseStatus' = [caseStatus EXCEPT ![c] = CLOSED]
     /\ dlq' = [dlq EXCEPT ![c][admin[a].entry].resolution = RESOLVED_CLOSED]
     /\ admin' = [admin EXCEPT ![a] = IdleAdmin]
     /\ UNCHANGED <<jobStatus, attempts, results, proc, queue, timers, worker,
                    gauge, submit, reviews, bounds>>

-------------------------------------------------------------------------------
(* submit_decision: an analyst who may act on the case decides on it, in     *)
(* whatever status it is.  Only the status is kept here; who may act, the    *)
(* decisions and the retention sweep are CaseReview's.                       *)

(* get_case_for_org reads the case FOR UPDATE.                               *)
ReviewLoad(r, c) ==
  /\ proc = "up"
  /\ reviews[r].pc = "idle"
  /\ caseStatus[c] # ABSENT
  /\ CaseUnlocked(c)
  /\ reviews' = [reviews EXCEPT ![r] = [pc |-> "loaded", case |-> c,
                                       seen |-> caseStatus[c]]]
  /\ UNCHANGED <<rows, proc, queue, timers, worker, gauge, submit, admin,
                 bounds>>

(* The decision and the status it leads to are committed.  The dead-letter   *)
(* entry of a case closed under investigation stays as it is.                *)
ReviewCommit(r, decision_type) ==
  LET c    == reviews[r].case
      path == StatusPath(reviews[r].seen, decision_type)
  IN /\ reviews[r].pc = "loaded"
     /\ IsValidPath(path)
     /\ caseStatus' = [caseStatus EXCEPT ![c] =
                         IF Len(path) = 1 THEN @ ELSE path[Len(path)]]
     /\ reviews' = [reviews EXCEPT ![r] = NoReview]
     /\ UNCHANGED <<jobStatus, attempts, results, dlq, proc, queue, timers,
                    worker, gauge, submit, admin, bounds>>

(* The request ends without a commit: not authorized, a refused edge (409),  *)
(* an error.                                                                 *)
ReviewEnds(r) ==
  /\ reviews[r].pc = "loaded"
  /\ reviews' = [reviews EXCEPT ![r] = NoReview]
  /\ UNCHANGED <<rows, proc, queue, timers, worker, gauge, submit, admin,
                 bounds>>

-------------------------------------------------------------------------------
(* Crash, restart and the startup replay                                     *)

(* The process dies: its memory is gone, uncommitted transactions roll back. *)
Crash ==
  /\ proc # "down"
  /\ crashes < MaxCrashes
  /\ crashes' = crashes + 1
  /\ proc' = "down"
  /\ queue' = << >>
  /\ timers' = [c \in Cases |-> 0]
  /\ worker' = IdleWorker
  /\ gauge' = [a \in Analysts |-> 0]
  /\ submit' = [c \in Cases |-> IF submit[c] \in {"committed", "done"}
                                THEN "done" ELSE "none"]
  /\ admin' = [a \in Admins |-> IdleAdmin]
  /\ reviews' = [r \in Reviewers |-> NoReview]
  /\ UNCHANGED <<rows, faults>>

(* main.lifespan runs replay_unfinished_jobs before the first request.       *)
Restart ==
  /\ proc = "down"
  /\ proc' = "recovering"
  /\ UNCHANGED <<rows, queue, timers, worker, gauge, submit, admin, reviews,
                 bounds>>

Interrupted(c) ==
  proc = "recovering" /\ worker.pc = "idle" /\ jobStatus[c] = "running"

(* _recover_running_job with attempts left: back to the queue.               *)
RecoverRequeue(c) ==
  /\ Interrupted(c)
  /\ attempts[c] < MaxAttempts
  /\ IsValidPath(<<caseStatus[c], PROCESSING_FAILED, QUEUED>>)
  /\ caseStatus' = [caseStatus EXCEPT ![c] = QUEUED]
  /\ jobStatus' = [jobStatus EXCEPT ![c] = "queued"]
  /\ UNCHANGED <<attempts, results, dlq, proc, queue, timers, worker, gauge,
                 submit, admin, reviews, bounds>>

(* _recover_running_job with no attempt left: first commit; CreateDLQEntry   *)
(* is the second.                                                            *)
RecoverGiveUp(c) ==
  /\ Interrupted(c)
  /\ attempts[c] >= MaxAttempts
  /\ IsValidTransition(caseStatus[c], PROCESSING_FAILED)
  /\ caseStatus' = [caseStatus EXCEPT ![c] = PROCESSING_FAILED]
  /\ jobStatus' = [jobStatus EXCEPT ![c] = "failed"]
  /\ worker' = [pc |-> "failing", job |-> c, seen |-> ABSENT,
                category |-> UNKNOWN]
  /\ UNCHANGED <<attempts, results, dlq, proc, queue, timers, gauge, submit,
                 admin, reviews, bounds>>

(* The replay raises: the startup fails and the process exits.               *)
StartupFails(c) ==
  /\ Interrupted(c)
  /\ ~IsValidTransition(caseStatus[c], PROCESSING_FAILED)
  /\ proc' = "down"
  /\ UNCHANGED <<rows, queue, timers, worker, gauge, submit, admin, reviews,
                 bounds>>

StartupFault ==
  /\ proc = "recovering"
  /\ Fault
  /\ proc' = "down"
  /\ worker' = IdleWorker
  /\ UNCHANGED <<rows, queue, timers, gauge, submit, admin, reviews>>

(* Mutant: the replay does not wait for the running jobs' recovery.          *)
ReplayEarly ==
  /\ proc = "recovering"
  /\ worker.pc = "idle"
  /\ queue' \in Orders({c \in Cases : jobStatus[c] = "queued"})
  /\ proc' = "up"
  /\ UNCHANGED <<rows, timers, worker, gauge, submit, admin, reviews, bounds>>


(* Every job that is queued now is put on the queue, in the database's order. *)
Replay ==
  /\ proc = "recovering"
  /\ worker.pc = "idle"
  /\ \A c \in Cases : jobStatus[c] # "running"
  /\ queue' \in Orders({c \in Cases : jobStatus[c] = "queued"})
  /\ proc' = "up"
  /\ UNCHANGED <<rows, timers, worker, gauge, submit, admin, reviews, bounds>>

-------------------------------------------------------------------------------
SubmitStep(c) == SubmitCommit(c) \/ SubmitFail(c) \/ SubmitEnqueue(c)

WorkerStep ==
  \/ \E c \in Cases : WorkerSkip(c) \/ WorkerStart(c)
  \/ WorkerSucceed
  \/ \E category \in FailureCategories :
       WorkerRetry(category) \/ WorkerGiveUp(category)
  \/ CreateDLQEntry
  \/ WorkerRaises

AdminStep(a) ==
  AdminLoad(a) \/ AdminAborts(a) \/ RedriveCommit(a) \/ RedriveEnqueue(a)
               \/ CloseCommit(a)

ReviewStep(r) ==
  ReviewEnds(r) \/ \E decision_type \in DECISION_TYPES :
                     ReviewCommit(r, decision_type)

StartupStep ==
  \/ Restart
  \/ \E c \in Cases : RecoverRequeue(c) \/ RecoverGiveUp(c) \/ StartupFails(c)
  \/ Replay

FaultStep ==
  \/ \E c \in Cases : SubmitFault(c) \/ WorkerStartFault(c)
  \/ WorkerSucceedFault
  \/ \E category \in FailureCategories : WorkerRetryFault(category)
  \/ AlertFault
  \/ WorkerFault
  \/ \E a \in Admins : RedriveFault(a)
  \/ StartupFault

Next ==
  \/ \E c \in Cases : SubmitAcquire(c) \/ SubmitStep(c) \/ TimerFires(c)
  \/ WorkerStep
  \/ \E a \in Admins, op \in {"redrive", "close"}, c \in Cases :
       \E e \in DOMAIN dlq[c] : AdminOpen(a, op, c, e)
  \/ \E a \in Admins : AdminStep(a)
  \/ \E r \in Reviewers, c \in Cases : ReviewLoad(r, c)
  \/ \E r \in Reviewers : ReviewStep(r)
  \/ Crash
  \/ StartupStep
  \/ FaultStep

Spec == Init /\ [][Next]_vars

(* What the process's threads guarantee: the event loop runs a callback that *)
(* is ready, the worker loop never stops taking jobs and an analysis ends,   *)
(* a handler that has begun ends, and a supervisor restarts the process.     *)
(* Reviewers may lock the worker's case again and again; the database gives  *)
(* a row to those who wait for it in their order, so the worker gets it.     *)
Fairness ==
  /\ \A c \in Cases : WF_vars(SubmitStep(c)) /\ WF_vars(TimerFires(c))
  /\ SF_vars(WorkerStep)
  /\ \A a \in Admins : WF_vars(AdminStep(a))
  /\ \A r \in Reviewers : WF_vars(ReviewStep(r))
  /\ WF_vars(StartupStep)

FairSpec == Spec /\ Fairness

-------------------------------------------------------------------------------
(* Properties *)

InQueue(c) == \E i \in DOMAIN queue : queue[i] = c

BeingRedriven(c) ==
  \E a \in Admins : admin[a].pc = "redriven" /\ admin[a].job = c

QueuedOnce == \A i, j \in DOMAIN queue : queue[i] = queue[j] => i = j

RedrivenOnce ==
  \A a, b \in Admins :
    /\ admin[a].pc = "redriven"
    /\ admin[b].pc = "redriven"
    /\ admin[a].job = admin[b].job
    => a = b

InOnePlace(c) ==
  /\ timers[c] <= 1
  /\ InQueue(c) => /\ timers[c] = 0
                   /\ worker.job # c
                   /\ submit[c] # "committed"
                   /\ ~BeingRedriven(c)
  /\ timers[c] = 1 => /\ worker.job # c
                      /\ submit[c] # "committed"
                      /\ ~BeingRedriven(c)
  /\ worker.job = c => submit[c] # "committed" /\ ~BeingRedriven(c)
  /\ submit[c] = "committed" => ~BeingRedriven(c)

(* A job is dispatched in at most one place: once in the queue, or waiting   *)
(* for its retry timer, or in the worker, or about to be enqueued by the     *)
(* request that submitted or redrove it.  A job dispatched twice would be    *)
(* analysed twice (queue.py has no other guard than the succeeded status).   *)
SingleDispatch ==
  /\ QueuedOnce
  /\ RedrivenOnce
  /\ \A c \in Cases : InOnePlace(c)

(* While the process is up, a job that the database calls queued is on its   *)
(* way to the worker (queue.py: the rows are the source of truth, the        *)
(* asyncio queue only dispatches them): none waits for the next restart.     *)
QueuedIsDispatched ==
  proc = "up" =>
    \A c \in Cases : jobStatus[c] = "queued" => \/ InQueue(c)
                                                \/ timers[c] > 0
                                                \/ worker.job = c
                                                \/ submit[c] = "committed"
                                                \/ BeingRedriven(c)

(* A job found running at startup was interrupted in the middle of an        *)
(* attempt (docstring of _recover_running_job): while the process is up, a   *)
(* running job is the one the worker is working on.                          *)
RunningMeansInterrupted ==
  proc = "up" =>
    \A c \in Cases : jobStatus[c] = "running" => worker.job = c

(* A job leaves the dispatch only when the database refuses something after  *)
(* a commit (queue.py:138, the reads of job.job_id in submit_case and in     *)
(* redrive, queue.py:83), and each refusal costs one job: while the process  *)
(* is up, no more jobs wait for the next restart than it refused requests.   *)
OnItsWay(c) ==
  InQueue(c) \/ timers[c] > 0 \/ submit[c] = "committed" \/ BeingRedriven(c)

Stranded == {c \in Cases : jobStatus[c] = "queued" /\ ~OnItsWay(c)}

StrandedJobsAreFaults == proc = "up" => Cardinality(Stranded) <= faults

(* In the same way a job is left running, with nobody working on it, only by *)
(* a commit refused in the except block, one job for each.                   *)
Abandoned == {c \in Cases : jobStatus[c] = "running" /\ worker.job # c}

AbandonedJobsAreFaults == proc = "up" => Cardinality(Abandoned) <= faults

LastEntry(c) == dlq[c][Len(dlq[c])]

Decided == {REFERRED, CLOSED, MORE_INFO_REQUIRED}

(* The case's status, its job's and its dead-letter entries tell the same    *)
(* story although transactions of the worker, of administrators and of       *)
(* reviewers write them: what the review queue, the admin's list and the     *)
(* replay each read agree.  A case is under review or decided when its job   *)
(* has succeeded.  A failed job whose case is still processing_failed is     *)
(* between the two commits of the failure path (or was, when the process     *)
(* died).  A dead-lettered case leaves the investigation by a close, of its  *)
(* entry or of the case alone: an analyst's decision closes the case and     *)
(* leaves the entry investigating for ever (submit_decision, review.py).     *)
(* An administrator's close resolves the entry, the case's last, with the    *)
(* case.                                                                     *)
StatusesAgree ==
  \A c \in Cases :
    /\ jobStatus[c] = ABSENT <=> caseStatus[c] = ABSENT
    /\ jobStatus[c] = "queued" => caseStatus[c] = QUEUED
    /\ jobStatus[c] = "running" => caseStatus[c] = ANALYZING
    /\ jobStatus[c] = "succeeded" =>
         caseStatus[c] \in {READY_FOR_REVIEW, UNDER_REVIEW} \cup Decided
    /\ jobStatus[c] = "failed" =>
         \/ caseStatus[c] = PROCESSING_FAILED
         \/ /\ caseStatus[c] = DLQ_INVESTIGATION
            /\ dlq[c] # << >> /\ LastEntry(c).resolution = INVESTIGATING
         \/ /\ caseStatus[c] = CLOSED
            /\ dlq[c] # << >> /\ LastEntry(c).resolution # REDRIVEN
    /\ \A e \in DOMAIN dlq[c] :
         dlq[c][e].resolution = RESOLVED_CLOSED =>
           e = Len(dlq[c]) /\ caseStatus[c] = CLOSED /\ jobStatus[c] = "failed"

(* A dead-letter entry under investigation is the case's last one, and its   *)
(* job is failed: redriving it cannot dispatch a job that is already going.  *)
OpenEntryIsLast ==
  \A c \in Cases : \A e \in DOMAIN dlq[c] :
    dlq[c][e].resolution = INVESTIGATING =>
      e = Len(dlq[c]) /\ jobStatus[c] = "failed"

(* A case has one result exactly when its job has succeeded: no attempt is   *)
(* published twice, none is lost after it was reported.                      *)
OneResult ==
  \A c \in Cases : results[c] = IF jobStatus[c] = "succeeded" THEN 1 ELSE 0

(* Section 8.1: a job goes to the dead-letter queue on a retryable failure   *)
(* only when its attempts are used up, and no job starts more attempts than  *)
(* it is allowed to (crashes, retries and redrives included).                *)
RetryBudget ==
  \A c \in Cases :
    /\ attempts[c] <= MaxAttempts
    /\ \A e \in DOMAIN dlq[c] :
         /\ dlq[c][e].attempts \in 1..MaxAttempts
         /\ dlq[c][e].category \in RETRYABLE_CATEGORIES
              => dlq[c][e].attempts = MaxAttempts

(* The startup replay never finds a job it cannot recover: it would raise,   *)
(* and the process would fail to start for as long as the row stays as it is. *)
StartupRecovers ==
  \A c \in Cases :
    jobStatus[c] = "running" => IsValidTransition(caseStatus[c], PROCESSING_FAILED)

InFlight(c) ==
  \/ submit[c] \in {"acquired", "committed"}
  \/ jobStatus[c] \in {"queued", "running"}
  \/ worker.pc = "failing" /\ worker.job = c

InFlightOf(a) == {c \in Cases : SubmittedBy[c] = a /\ InFlight(c)}

(* No slot leaks: an analyst is never refused on account of jobs that are    *)
(* over (comment of submit_case: a leaked slot locks the analyst out).       *)
NoSlotLeak ==
  \A a \in Analysts : gauge[a] <= Cardinality(InFlightOf(a))

(* Each slot that leaks has a refused request of the database to blame, one  *)
(* for each: an analyst is locked out by nothing else.                       *)
LostSlotsAreFaults ==
  \A a \in Analysts : gauge[a] <= Cardinality(InFlightOf(a)) + faults

(* The slot of a job is held from submission until the job succeeds or       *)
(* reaches the dead-letter queue (docstring of acquire_concurrent_job_slot), *)
(* so no analyst has more jobs in flight than the limit.                     *)
SlotLimitHolds ==
  \A a \in Analysts : Cardinality(InFlightOf(a)) <= SlotLimit

(* A failed job is in the dead-letter queue, unless the worker or the        *)
(* startup is on its way to put it there (dlq.py: failures that are not      *)
(* retried go straight to the DLQ).                                          *)
FailedIsInDLQ ==
  \A c \in Cases :
    jobStatus[c] = "failed" => dlq[c] # << >> \/ worker.job = c \/ proc # "up"

(* DLQEntryAlreadyResolvedError: an entry that is redriven or closed is      *)
(* never redriven or closed again.                                           *)
ResolutionIsFinal ==
  [][\A c \in Cases : \A e \in DOMAIN dlq[c] :
       dlq[c][e].resolution # INVESTIGATING => dlq'[c][e] = dlq[c][e]]_vars

(* CLOSED has no way out (TRANSITIONS): a closed case is never queued,       *)
(* analysed or given a result again.                                         *)
ClosedIsFinal ==
  [][\A c \in Cases : caseStatus[c] = CLOSED =>
       caseStatus'[c] = CLOSED /\ results'[c] = results[c]]_vars


(* The abstract service, as the rows show it: a case is closed by a decision *)
(* on its result, or rejected without one.                                   *)
PhaseOf(status, result) ==
  CASE status = ABSENT                                -> "none"
    [] status \in {READY_FOR_REVIEW, UNDER_REVIEW}    -> "ready"
    [] status = DLQ_INVESTIGATION                     -> "investigation"
    [] status = CLOSED /\ ~result                     -> "rejected"
    [] status \in {REFERRED, MORE_INFO_REQUIRED}      -> "decided"
    [] status = CLOSED /\ result                      -> "decided"
    [] OTHER                                          -> "pending"

Service == INSTANCE AnalysisService
             WITH phase     <- [c \in Cases |-> PhaseOf(caseStatus[c], results[c] > 0)],
                  published <- [c \in Cases |-> results[c] > 0]

(* Queueing, retries, crashes, restarts, concurrent administrators and       *)
(* reviewers show nothing but the steps of the service: each transaction     *)
(* moves one case along one of its edges, or is invisible.                   *)
ImplementsService == Service!Spec

-------------------------------------------------------------------------------
(* The inductive invariant of the instances whose database locks rows.  It   *)
(* says who may hold what in each state of a job; the properties above       *)
(* follow from it (module JobQueueProofs).                                   *)

WorkerInv ==
  /\ worker.pc = "idle" => worker = IdleWorker
  /\ worker.pc = "analyzing" =>
       /\ proc = "up"
       /\ worker.job \in Cases
       /\ worker.seen = ANALYZING
       /\ jobStatus[worker.job] = "running"
  /\ worker.pc = "failing" =>
       /\ proc # "down"
       /\ worker.job \in Cases
       /\ jobStatus[worker.job] = "failed"
       /\ caseStatus[worker.job] = PROCESSING_FAILED
       /\ MayRetry(worker.job, worker.category) = FALSE

Holds(a) == admin[a].pc \in {"entry", "loaded"}

AdminCallInv(a) ==
  /\ admin[a].pc # "idle" => proc = "up" /\ admin[a].job \in Cases
  /\ Holds(a) =>
       /\ admin[a].entry \in DOMAIN dlq[admin[a].job]
       /\ dlq[admin[a].job][admin[a].entry].resolution = INVESTIGATING
  /\ admin[a].pc = "loaded" =>
       /\ caseStatus[admin[a].job] = DLQ_INVESTIGATION
       /\ admin[a].seen = "failed"
       /\ admin[a].tries > 0
  /\ admin[a].pc = "redriven" => jobStatus[admin[a].job] = "queued"

AdminInv ==
  /\ \A a \in Admins : AdminCallInv(a)
  /\ \A a, b \in Admins :
       Holds(a) /\ Holds(b) /\ a # b => admin[a].job # admin[b].job

(* A reviewer's case has the status the reviewer read, and nobody else's     *)
(* transaction is at it.                                                     *)
Reviews(r) == reviews[r].pc = "loaded"

ReviewInv ==
  /\ \A r \in Reviewers : Reviews(r) =>
       /\ proc = "up"
       /\ reviews[r].case \in Cases
       /\ reviews[r].seen = caseStatus[reviews[r].case]
       /\ reviews[r].seen # ABSENT
       /\ \A a \in Admins : Holds(a) => admin[a].job # reviews[r].case
  /\ \A r, s \in Reviewers :
       Reviews(r) /\ Reviews(s) /\ r # s => reviews[r].case # reviews[s].case

(* Whoever is about to hand a job to the worker has a queued job.            *)
DispatchInv ==
  /\ proc # "up" => queue = << >>
  /\ \A c \in Cases :
       /\ InQueue(c) \/ timers[c] > 0 \/ submit[c] = "committed"
            => proc = "up" /\ jobStatus[c] = "queued"
       /\ submit[c] = "acquired" => proc = "up"
       /\ submit[c] \in {"none", "acquired"} <=> jobStatus[c] = ABSENT

EntryInv ==
  \A c \in Cases :
    /\ \A e \in DOMAIN dlq[c] :
         dlq[c][e].resolution = INVESTIGATING =>
           /\ e = Len(dlq[c])
           /\ caseStatus[c] \in {DLQ_INVESTIGATION, CLOSED}
           /\ jobStatus[c] = "failed"
    /\ caseStatus[c] = DLQ_INVESTIGATION => jobStatus[c] = "failed"

AttemptsInv ==
  \A c \in Cases :
    /\ jobStatus[c] \in {ABSENT, "queued"} => attempts[c] < MaxAttempts
    /\ jobStatus[c] \in {"running", "failed"} => attempts[c] > 0

IInv ==
  /\ TypeOK
  /\ WorkerInv
  /\ AdminInv
  /\ ReviewInv
  /\ DispatchInv
  /\ EntryInv
  /\ AttemptsInv
  /\ SingleDispatch
  /\ StatusesAgree
  /\ OneResult
  /\ RetryBudget

-------------------------------------------------------------------------------
(* The inductive invariant of every database, whether it locks rows or not   *)
(* (module JobQueueDispatchProofs).  It knows no more of the statuses than   *)
(* racing administrators and reviewers leave true.                           *)

(* A request that has an entry in its hands, or has just redriven one, is at *)
(* a case that was dead-lettered.                                            *)
RequestInv(a) ==
  admin[a].pc # "idle" =>
    /\ admin[a].job \in Cases
    /\ dlq[admin[a].job] # << >>
    /\ Holds(a) => admin[a].entry \in DOMAIN dlq[admin[a].job]

(* submit_case is done with a job before anybody else has it.                *)
SubmitInv(c) ==
  /\ InQueue(c) \/ timers[c] > 0 \/ worker.job = c \/ dlq[c] # << >>
       => submit[c] = "done"
  /\ proc # "up" => submit[c] \in {"none", "done"}
  /\ submit[c] \in {"none", "acquired"} <=> jobStatus[c] = ABSENT
  /\ submit[c] = "committed" => jobStatus[c] = "queued"
  /\ worker.pc = "failing" /\ worker.job = c /\ dlq[c] = << >>
       => caseStatus[c] = PROCESSING_FAILED

(* A reviewer's decision can move a case only after its job has succeeded or *)
(* was dead-lettered: a job that has its first failure still to report is    *)
(* not disturbed.                                                            *)
Decidable(status) ==
  status \in {READY_FOR_REVIEW, UNDER_REVIEW, VALIDATION_FAILED,
              DLQ_INVESTIGATION} \cup Decided

HasOutcome(c) == jobStatus[c] = "succeeded" \/ dlq[c] # << >>

OutcomeInv ==
  /\ \A c \in Cases : /\ Decidable(caseStatus[c]) => HasOutcome(c)
                      /\ worker.job = c => jobStatus[c] # "succeeded"
  /\ \A r \in Reviewers :
       Reviews(r) => /\ reviews[r].case \in Cases
                     /\ reviews[r].seen # ABSENT
                     /\ Decidable(reviews[r].seen)
                          => HasOutcome(reviews[r].case)

MemoryInv ==
  /\ worker.pc = "idle" <=> worker.job = None
  /\ \A a \in Admins : RequestInv(a)
  /\ \A c \in Cases : SubmitInv(c)

(* The slot taken for a submission is given back when the job succeeds or is *)
(* dead-lettered for the first time; a redriven job has none.                *)
HasSlot(c) == InFlight(c) /\ dlq[c] = << >>

SlotsOf(a) == {c \in Cases : SubmittedBy[c] = a /\ HasSlot(c)}

SlotsAreHeld ==
  \A a \in Analysts : gauge[a] <= Cardinality(SlotsOf(a)) + faults

LossInv ==
  /\ TypeOK
  /\ MemoryInv
  /\ OutcomeInv
  /\ StrandedJobsAreFaults
  /\ SlotsAreHeld
===============================================================================
