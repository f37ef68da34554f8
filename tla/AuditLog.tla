------------------------------- MODULE AuditLog -------------------------------
(***************************************************************************)
(* The hash-chained audit log of backend/audit/service.py and the locks its *)
(* callers meet in it.  record_audit_event holds the _lock of its process   *)
(* from the read of the last row to the commit; most callers come to it     *)
(* with database locks of their own, which they keep while they wait.       *)
(*                                                                          *)
(* A call is one transaction of a handler, of the worker or of the seed     *)
(* script that ends in record_audit_event; a retention sweep makes one such *)
(* transaction per case.  The lock a call holds follows from how far it is, *)
(* so locks have no variable of their own.  On SQLite (SingleWriter) a      *)
(* writer excludes every other and a call waits for it only so long; on the *)
(* documented PostgreSQL deployment calls wait for each other's rows.       *)
(***************************************************************************)
EXTENDS Naturals, Sequences

CONSTANTS
  Calls,        \* the calls, each made at most once
  Processes,    \* the processes that share the database
  Cases,
  Kind,         \* [Calls -> Kinds], what each call is
  ProcessOf,    \* [Calls -> Processes]
  CaseOf,       \* [Calls -> Cases], for the calls that concern a case
  SweepSize,    \* the expired cases a retention sweep finds
  SingleWriter, \* TRUE: SQLite, FALSE: PostgreSQL
  MaxRefusals,  \* bound: statements the database refuses
  MaxCrashes    \* bound: crashes of a process

(* The callers: login (api/routers/auth.py), submit_case (cases.py),         *)
(* submit_decision (review.py), the success and the failure path of         *)
(* process_job_once (jobs/queue.py; its recovery at startup records like    *)
(* the one or the other), run_retention_sweep and seed.                     *)
Kinds == {"login", "submission", "decision", "completion", "dead_letter",
          "sweep", "seed"}

(* What a call does before record_audit_event: flush rows of its own (a new *)
(* case at cases.py:88, a dead-letter entry at dlq.py:79, the demo users),  *)
(* or lock its case's row (review.py:46).  The other calls' writes are      *)
(* flushed by record_audit_event itself: sessions have autoflush off.       *)
FlushesFirst == {"submission", "dead_letter", "seed"}
LocksCase    == {"decision"}

(* The calls that write the row of their case.                              *)
WritesCase   == {"decision", "completion", "dead_letter"}

ASSUME AuditLogAssumption ==
  /\ Kind \in [Calls -> Kinds]
  /\ ProcessOf \in [Calls -> Processes]
  /\ CaseOf \in [Calls -> Cases]
  /\ SweepSize \in Nat \ {0}
  /\ SingleWriter \in BOOLEAN
  /\ MaxRefusals \in Nat
  /\ MaxCrashes \in Nat

VARIABLES
  log,       \* the committed AuditLog rows, in the order they were committed
  call,      \* [Calls -> call]
  refusals, crashes

vars == <<log, call, refusals, crashes>>

(* Mutant: the digest covers the event, not the rows before it.             *)
DigestOfEvent(previous, event) == <<event>>

(* An event is named by its call and the number of events that call has     *)
(* still to record.  The digest covers the event and the previous digest:   *)
(* _hash_row is taken as injective, so a digest is the list of the events   *)
(* it covers and no digest (None) is the empty list.                        *)
Events  == [call : Calls, left : Nat]
Digests == Seq(Events)
Digest(previous, event) == Append(previous, event)
Rows    == [seq : Nat, previous : Digests, hash : Digests, event : Events]

(* pc "ready": about to call record_audit_event; "flush": the last row was  *)
(* read under _lock; "commit": the row is flushed, not yet committed.       *)
CallStates == [pc       : {"idle", "ready", "flush", "commit", "done", "failed"},
               seq      : Nat,
               previous : Digests,
               left     : 0..SweepSize]

TypeOK ==
  /\ log \in Seq(Rows)
  /\ call \in [Calls -> CallStates]
  /\ refusals \in 0..MaxRefusals
  /\ crashes \in 0..MaxCrashes

Init ==
  /\ log = << >>
  /\ call = [c \in Calls |->
               [pc |-> "idle", seq |-> 0, previous |-> << >>,
                left |-> IF Kind[c] = "sweep" THEN SweepSize ELSE 1]]
  /\ refusals = 0
  /\ crashes = 0

-------------------------------------------------------------------------------
(* Locks *)

(* Mutant: _lock is released between the flush and the commit.              *)
HoldsLockToFlush(c) == call[c].pc = "flush"

(* Mutant: an exception leaves _lock held.                                  *)
HoldsLockPastFailure(c) == call[c].pc \in {"flush", "commit", "failed"}

(* The _lock of the call's process.                                         *)
HoldsLock(c) == call[c].pc \in {"flush", "commit"}

(* The write lock of SQLite: from a transaction's first write to its end.   *)
HoldsWrite(c) ==
  \/ call[c].pc = "commit"
  \/ call[c].pc \in {"ready", "flush"} /\ Kind[c] \in FlushesFirst

(* The lock on the row of the call's case.                                  *)
HoldsRow(c) ==
  \/ call[c].pc = "commit" /\ Kind[c] \in WritesCase
  \/ /\ call[c].pc \in {"ready", "flush"}
     /\ Kind[c] \in LocksCase \cup (FlushesFirst \cap WritesCase)

(* The database lets c write: nobody holds the locks its rows need.         *)
MayWrite(c) ==
  \A d \in Calls \ {c} :
    IF SingleWriter
    THEN ~HoldsWrite(d)
    ELSE Kind[c] \in WritesCase /\ CaseOf[d] = CaseOf[c] => ~HoldsRow(d)

-------------------------------------------------------------------------------
(* Mutant: the rows are read in ascending order.                            *)
LastAscending(rows) == rows[CHOOSE i \in DOMAIN rows :
                              \A j \in DOMAIN rows : rows[i].seq <= rows[j].seq]

(* The last row by sequence number, and the numbers in use.                 *)
Last(rows) == rows[CHOOSE i \in DOMAIN rows :
                     \A j \in DOMAIN rows : rows[j].seq <= rows[i].seq]

Numbers(rows) == {rows[i].seq : i \in DOMAIN rows}

End(c, pc) == call' = [call EXCEPT ![c].pc = pc]

(* A call arrives and does what it does before record_audit_event.  On      *)
(* SQLite FOR UPDATE is accepted and locks nothing.                         *)
Begin(c) ==
  /\ call[c].pc = "idle"
  /\ Kind[c] \in FlushesFirst => MayWrite(c)
  /\ Kind[c] \in LocksCase /\ ~SingleWriter => MayWrite(c)
  /\ End(c, "ready")
  /\ UNCHANGED <<log, refusals, crashes>>

(* record_audit_event takes _lock and derives the new row from the last one. *)
Record(c) ==
  /\ call[c].pc = "ready"
  /\ \A d \in Calls : ProcessOf[d] = ProcessOf[c] => ~HoldsLock(d)
  /\ call' = [call EXCEPT
                ![c].pc       = "flush",
                ![c].seq      = IF log = << >> THEN 0 ELSE Last(log).seq + 1,
                ![c].previous = IF log = << >> THEN << >> ELSE Last(log).hash]
  /\ UNCHANGED <<log, refusals, crashes>>

(* Mutant: sequence_number is not unique.                                   *)
FlushAnyNumber(c) ==
  /\ call[c].pc = "flush"
  /\ MayWrite(c)
  /\ End(c, "commit")
  /\ UNCHANGED <<log, refusals, crashes>>

(* The UNIQUE index on sequence_number: an insert waits for an uncommitted  *)
(* row with its number, and is refused when a committed one has it.         *)
NumberIsSettled(c) ==
  \A d \in Calls : call[d].pc = "commit" => call[d].seq # call[c].seq

Flush(c) ==
  /\ call[c].pc = "flush"
  /\ MayWrite(c)
  /\ NumberIsSettled(c)
  /\ call[c].seq \notin Numbers(log)
  /\ End(c, "commit")
  /\ UNCHANGED <<log, refusals, crashes>>

Collide(c) ==
  /\ call[c].pc = "flush"
  /\ MayWrite(c)
  /\ NumberIsSettled(c)
  /\ call[c].seq \in Numbers(log)
  /\ End(c, "failed")
  /\ UNCHANGED <<log, refusals, crashes>>

Row(c) ==
  LET event == [call |-> c, left |-> call[c].left]
  IN [seq |-> call[c].seq, previous |-> call[c].previous,
      hash |-> Digest(call[c].previous, event), event |-> event]

(* Mutant: the sweep does not stop at its last case.                        *)
CommitAgain(c) ==
  /\ call[c].pc = "commit"
  /\ log' = Append(log, Row(c))
  /\ call' = [call EXCEPT ![c].pc = "ready", ![c].left = @ - 1]
  /\ UNCHANGED <<refusals, crashes>>

(* The row and the caller's own writes are committed and _lock is released; *)
(* a sweep goes on with its next case.                                      *)
Commit(c) ==
  /\ call[c].pc = "commit"
  /\ log' = Append(log, Row(c))
  /\ call' = [call EXCEPT ![c].pc = IF call[c].left > 1 THEN "ready" ELSE "done",
                          ![c].left = @ - 1]
  /\ UNCHANGED <<refusals, crashes>>

(* SQLite's busy timeout: OperationalError, the transaction rolls back.     *)
TimeOut(c) ==
  /\ SingleWriter
  /\ \/ call[c].pc = "flush"
     \/ call[c].pc = "idle" /\ Kind[c] \in FlushesFirst
  /\ ~MayWrite(c)
  /\ End(c, "failed")
  /\ UNCHANGED <<log, refusals, crashes>>

(* The database refuses the flush or the commit: _lock is released by the   *)
(* with statement, the session is rolled back, nothing is recorded.         *)
Refuse(c) ==
  /\ HoldsLock(c)
  /\ refusals < MaxRefusals
  /\ refusals' = refusals + 1
  /\ End(c, "failed")
  /\ UNCHANGED <<log, crashes>>

(* A process dies: its calls end, their transactions roll back.             *)
Crash(p) ==
  LET lost == {c \in Calls : ProcessOf[c] = p
                             /\ call[c].pc \in {"ready", "flush", "commit"}}
  IN /\ lost # {}
     /\ crashes < MaxCrashes
     /\ crashes' = crashes + 1
     /\ call' = [c \in Calls |-> IF c \in lost
                                 THEN [call[c] EXCEPT !.pc = "failed"]
                                 ELSE call[c]]
     /\ UNCHANGED <<log, refusals>>

-------------------------------------------------------------------------------
Step(c) == Record(c) \/ Flush(c) \/ Collide(c) \/ Commit(c) \/ TimeOut(c)

Next ==
  \/ \E c \in Calls : Begin(c) \/ Step(c) \/ Refuse(c)
  \/ \E p \in Processes : Crash(p)

Spec == Init /\ [][Next]_vars

(* A thread that can go on does; a statement that waits too long times out. *)
Fairness == \A c \in Calls : WF_vars(Step(c))

FairSpec == Spec /\ Fairness

-------------------------------------------------------------------------------
(* Properties *)

(* verify_chain: in the order of the sequence numbers each row refers to    *)
(* the digest of the row before it and its own digest can be recomputed.    *)
verify_chain(rows) ==
  \A i \in DOMAIN rows :
    LET before == {j \in DOMAIN rows : rows[j].seq < rows[i].seq}
        expected == IF before = {} THEN << >>
                    ELSE rows[CHOOSE j \in before :
                                \A k \in before : rows[k].seq <= rows[j].seq].hash
    IN /\ rows[i].previous = expected
       /\ rows[i].hash = Digest(rows[i].previous, rows[i].event)

(* The chain is never forked and has no gap: whatever processes record at   *)
(* once, verify_chain succeeds and the sequence numbers count the rows.     *)
ChainIsLinear ==
  /\ verify_chain(log)
  /\ \A i \in DOMAIN log : log[i].seq = i - 1

(* What _lock is for (module docstring): a call whose number was taken      *)
(* since it read the last row lost a race against another process, never    *)
(* against a thread of its own.                                             *)
CollisionsAreForeign ==
  \A c \in Calls : HoldsLock(c) /\ call[c].seq < Len(log) =>
    \E i \in (call[c].seq + 1)..Len(log) :
      ProcessOf[log[i].event.call] # ProcessOf[c]

(* On SQLite a call that has written before it records (a submission, a     *)
(* dead letter) reads the last row with the write lock in its hands: no     *)
(* process can take its number, whatever the docstring gives up about two   *)
(* writer processes.                                                        *)
EarlyWritersAreFresh ==
  SingleWriter =>
    \A c \in Calls : HoldsLock(c) /\ Kind[c] \in FlushesFirst =>
      call[c].seq = Len(log)

(* On SQLite no call waits for ever: a thread that holds _lock and waits    *)
(* for the write lock of a thread that waits for _lock is timed out.        *)
EveryCallEnds ==
  \A c \in Calls :
    call[c].pc \in {"ready", "flush", "commit"}
      ~> call[c].pc \in {"done", "failed"}

(* Section 4.3, quoted in login: all authentication events are written to   *)
(* the audit log.  Where the database refuses nothing and no process dies,  *)
(* a login whose password was checked is recorded.                          *)
LoginsAreRecorded ==
  \A c \in Calls :
    Kind[c] = "login" /\ call[c].pc = "ready" ~> call[c].pc = "done"

Covered == IF log = << >> THEN << >> ELSE Last(log).hash

Status(pc) == IF pc \in {"done", "failed"} THEN pc ELSE "open"

Trail == INSTANCE AuditTrail
           WITH Size   <- [c \in Calls |-> IF Kind[c] = "sweep" THEN SweepSize ELSE 1],
                trail  <- Covered,
                left   <- [c \in Calls |-> call[c].left],
                status <- [c \in Calls |-> Status(call[c].pc)]

(* What the last digest covers is the whole trail, whatever calls race for  *)
(* its end: who knows that one digest can tell any event that was changed,  *)
(* left out or put in later, of every call that was told it is done.        *)
ImplementsTrail == Trail!Spec

-------------------------------------------------------------------------------
(* The inductive invariant (module AuditLogProofs). *)

(* The log is a list in which each row continues the one before it.         *)
Linked ==
  \A i \in DOMAIN log :
    /\ log[i].seq = i - 1
    /\ log[i].previous = IF i = 1 THEN << >> ELSE log[i - 1].hash
    /\ log[i].hash = Digest(log[i].previous, log[i].event)

(* A call that holds _lock has read the log as it was at some length.       *)
ReadsAPrefix ==
  \A c \in Calls : HoldsLock(c) =>
    /\ call[c].seq \in 0..Len(log)
    /\ call[c].previous = IF call[c].seq = 0 THEN << >>
                          ELSE log[call[c].seq].hash

LockIsExclusive ==
  \A c, d \in Calls :
    HoldsLock(c) /\ HoldsLock(d) /\ ProcessOf[c] = ProcessOf[d] => c = d

(* At most one row waits to be committed, and it continues the log.         *)
OnePending ==
  /\ \A c \in Calls : call[c].pc = "commit" => call[c].seq = Len(log)
  /\ \A c, d \in Calls : call[c].pc = "commit" /\ call[d].pc = "commit" => c = d

WriteIsExclusive ==
  SingleWriter => \A c, d \in Calls : HoldsWrite(c) /\ HoldsWrite(d) => c = d

Unfinished ==
  \A c \in Calls :
    call[c].pc \in {"idle", "ready", "flush", "commit"} => call[c].left > 0

AuditInv ==
  /\ TypeOK
  /\ Linked
  /\ ReadsAPrefix
  /\ LockIsExclusive
  /\ OnePending
  /\ WriteIsExclusive
  /\ Unfinished
  /\ CollisionsAreForeign
  /\ EarlyWritersAreFresh
===============================================================================
