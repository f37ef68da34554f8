------------------------------ MODULE CaseReview ------------------------------
(***************************************************************************)
(* Cases between the worker, the reviewers and the retention sweep:         *)
(* submit_decision (api/routers/review.py), get_case (api/routers/cases.py),*)
(* the roles (auth/roles.py), run_retention_sweep (retention/deletion.py)   *)
(* and of the worker (jobs/queue.py) what these can see: when it changes    *)
(* the case's status, when it reads the messages and when it publishes.     *)
(* Attempts, retries and dead letters are JobQueue's subject.               *)
(*                                                                          *)
(* record_audit_event commits its caller's transaction, so the sweep        *)
(* commits case by case.                                                    *)
(***************************************************************************)
EXTENDS CaseStates, FiniteSets, SequencesExt

CONSTANTS
  Cases, Users, None,
  Role,         \* [Users -> a role]
  SubmittedBy,  \* [Cases -> Users]
  AssignedTo,   \* [Cases -> Users or None]; nothing in the code assigns
  RowLocks,     \* FOR UPDATE locks the row (PostgreSQL); SQLite ignores it
  Reviewers,    \* threads of submit_decision
  Readers,      \* threads of get_case
  MaxDecisions  \* bound on the decisions of a case

VARIABLES
  held,       \* cases with hold_status; no request sets it
  caseStatus, \* [Cases -> Case.status]
  decisions,  \* [Cases -> Seq of decision_type], the analyst_decisions rows
  messages,   \* [Cases -> whether the case_messages rows are there]
  evidence,   \* [Cases -> "none" before a result, its evidence_json "shown" or "cleared"]
  deleted,    \* cases with a retention_deletion_completed event
  expired,    \* cases whose retention_until has come
  overtaken,  \* cases whose result the last sweep of them could not see
  worker, reviews, reads, sweep

reviewVars == <<held, caseStatus, decisions, messages, evidence, deleted, expired, overtaken,
                worker, reviews, reads, sweep>>

-------------------------------------------------------------------------------
(* Roles *)

ROLE_PERMISSIONS ==
  [analyst                 |-> {"view_assigned_cases", "submit_case", "submit_decision"},
   senior_reviewer         |-> {"view_assigned_cases", "view_all_org_cases",
                                "view_high_risk_cases", "submit_case", "submit_decision",
                                "override_decision"},
   safeguarding_specialist |-> {"view_assigned_cases", "access_referral_data",
                                "record_safeguarding_outcome", "submit_decision"},
   organization_admin      |-> {"manage_org_members"},
   system_admin            |-> {"maintain_platform"},
   auditor                 |-> {"read_audit_log"}]

ASSUME ReviewAssumption ==
  /\ Role \in [Users -> DOMAIN ROLE_PERMISSIONS]
  /\ SubmittedBy \in [Cases -> Users]
  /\ AssignedTo \in [Cases -> Users \cup {None}]
  /\ None \notin Users \cup Cases
  /\ RowLocks \in BOOLEAN
  /\ MaxDecisions \in Nat

HasPermission(user, permission) == permission \in ROLE_PERMISSIONS[Role[user]]

CanAccessCase(user, c, is_referred) ==
  \/ HasPermission(user, "view_all_org_cases")
  \/ /\ HasPermission(user, "view_assigned_cases")
     /\ AssignedTo[c] = user \/ SubmittedBy[c] = user
  \/ HasPermission(user, "access_referral_data") /\ is_referred

-------------------------------------------------------------------------------
(* State *)

(* any(d.decision_type == "refer" for d in case.decisions)                  *)
IsReferred(c) == \E i \in DOMAIN decisions[c] : decisions[c][i] = "refer"

NoReview == [pc |-> "idle", case |-> None, decision_type |-> None, status |-> None]
NoRead   == [pc |-> "idle", left |-> << >>, case |-> None, evidence |-> "none",
             messages |-> FALSE]
NoSweep  == [pc |-> "idle", todo |-> {}, case |-> None, results |-> FALSE]
NoJob    == [pc |-> "idle", case |-> None, messages |-> FALSE]

ReviewTypeOK ==
  /\ held \subseteq Cases
  /\ caseStatus \in [Cases -> ALL_STATUSES]
  /\ decisions \in [Cases -> Seq(DECISION_TYPES)]
  /\ messages \in [Cases -> BOOLEAN]
  /\ evidence \in [Cases -> {"none", "shown", "cleared"}]
  /\ deleted \subseteq Cases
  /\ expired \subseteq Cases
  /\ overtaken \subseteq Cases
  /\ worker \in [pc : {"idle", "started", "loaded", "failing"}, case : Cases \cup {None},
                 messages : BOOLEAN]
  /\ reviews \in [Reviewers ->
                    [pc : {"idle", "loaded"}, case : Cases \cup {None},
                     decision_type : DECISION_TYPES \cup {None},
                     status : ALL_STATUSES \cup {None}]]
  /\ reads \in [Readers ->
                  [pc : {"idle", "reading"}, left : Seq({"results", "messages"}),
                   case : Cases \cup {None}, evidence : {"none", "shown", "cleared"}, messages : BOOLEAN]]
  /\ sweep \in [pc : {"idle", "sweeping", "read"}, todo : SUBSET Cases,
                case : Cases \cup {None}, results : BOOLEAN]

(* Submitted cases wait for the worker.                                     *)
ReviewInit ==
  /\ held \in SUBSET Cases
  /\ caseStatus = [c \in Cases |-> QUEUED]
  /\ decisions = [c \in Cases |-> << >>]
  /\ messages = [c \in Cases |-> TRUE]
  /\ evidence = [c \in Cases |-> "none"]
  /\ deleted = {}
  /\ expired = {}
  /\ overtaken = {}
  /\ worker = NoJob
  /\ reviews = [r \in Reviewers |-> NoReview]
  /\ reads = [r \in Readers |-> NoRead]
  /\ sweep = NoSweep

rows    == <<held, caseStatus, decisions, messages, evidence, deleted, overtaken>>
threads == <<worker, reviews, reads, sweep>>

(* No transaction holds the case's row: a row lock makes the update of      *)
(* another session, or its FOR UPDATE, wait.                                *)
Unlocked(c) ==
  RowLocks => \A r \in Reviewers : ~(reviews[r].pc = "loaded" /\ reviews[r].case = c)

-------------------------------------------------------------------------------
(* submit_decision *)

(* require_permission(SUBMIT_DECISION) and can_access_case: who fails them  *)
(* leaves no trace.                                                         *)
MayDecide(user, c) ==
  /\ HasPermission(user, "submit_decision")
  /\ CanAccessCase(user, c, IsReferred(c))

(* The thread's copy of the case.                                           *)
Loaded(c, decision_type) ==
  [pc |-> "loaded", case |-> c, decision_type |-> decision_type, status |-> caseStatus[c]]

(* Mutant: the case is loaded without for_update=True.                      *)
LoadUnlocked(r, user, c, decision_type) ==
  /\ reviews[r].pc = "idle"
  /\ MayDecide(user, c)
  /\ reviews' = [reviews EXCEPT ![r] = Loaded(c, decision_type)]
  /\ UNCHANGED <<rows, expired, worker, reads, sweep>>

(* get_case_for_org(for_update=True), then the case's decisions.            *)
LoadCase(r, user, c, decision_type) ==
  /\ reviews[r].pc = "idle"
  /\ Unlocked(c)
  /\ MayDecide(user, c)
  /\ reviews' = [reviews EXCEPT ![r] = Loaded(c, decision_type)]
  /\ UNCHANGED <<rows, expired, worker, reads, sweep>>

RecordDecision(r) ==
  LET c    == reviews[r].case
      path == StatusPath(reviews[r].status, reviews[r].decision_type)
  IN
  /\ reviews[r].pc = "loaded"
  /\ IsValidPath(path)
  /\ Len(decisions[c]) < MaxDecisions
  /\ caseStatus' = [caseStatus EXCEPT ![c] = IF Len(path) = 1 THEN @ ELSE Last(path)]
  /\ decisions' = [decisions EXCEPT ![c] =
       Append(@, reviews[r].decision_type)]
  /\ reviews' = [reviews EXCEPT ![r] = NoReview]
  /\ UNCHANGED <<held, messages, evidence, deleted, overtaken, expired, worker, reads, sweep>>

(* 409, or an exception: the transaction is rolled back.                    *)
RefuseDecision(r) ==
  /\ reviews[r].pc # "idle"
  /\ reviews' = [reviews EXCEPT ![r] = NoReview]
  /\ UNCHANGED <<rows, expired, worker, reads, sweep>>

-------------------------------------------------------------------------------
(* get_case                                                                 *)

(* Mutant: the messages are read before the results.                        *)
MessagesFirst == <<"messages", "results">>

(* What the response reads after the case and its decisions, each by a      *)
(* statement of its own.                                                    *)
ResponseOrder == <<"results", "messages">>

(* A new request replaces an answer.                                        *)
ReadCase(r, user, c) ==
  /\ reads[r].left = << >>
  /\ HasPermission(user, "view_assigned_cases")
  /\ CanAccessCase(user, c, IsReferred(c))
  /\ reads' = [reads EXCEPT ![r] =
       [NoRead EXCEPT !.pc = "reading", !.left = ResponseOrder, !.case = c]]
  /\ UNCHANGED <<rows, expired, worker, reviews, sweep>>

ReadResults(r) ==
  /\ reads[r].left # << >> /\ Head(reads[r].left) = "results"
  /\ reads' = [reads EXCEPT ![r].left = Tail(@), ![r].evidence = evidence[reads[r].case]]
  /\ UNCHANGED <<rows, expired, worker, reviews, sweep>>

ReadMessages(r) ==
  /\ reads[r].left # << >> /\ Head(reads[r].left) = "messages"
  /\ reads' = [reads EXCEPT ![r].left = Tail(@), ![r].messages = messages[reads[r].case]]
  /\ UNCHANGED <<rows, expired, worker, reviews, sweep>>

-------------------------------------------------------------------------------
(* process_job_once *)

StartJob(c) ==
  /\ worker.pc = "idle"
  /\ caseStatus[c] = QUEUED
  /\ Unlocked(c)
  /\ caseStatus' = [caseStatus EXCEPT ![c] = ANALYZING]
  /\ worker' = [NoJob EXCEPT !.pc = "started", !.case = c]
  /\ UNCHANGED <<held, decisions, messages, evidence, deleted, overtaken, expired, reviews, reads, sweep>>

LoadMessages ==
  /\ worker.pc = "started"
  /\ worker' = [worker EXCEPT !.pc = "loaded", !.messages = messages[worker.case]]
  /\ UNCHANGED <<rows, expired, reviews, reads, sweep>>

(* An analysis of no messages raises.                                       *)
Publish ==
  LET c == worker.case IN
  /\ worker.pc = "loaded"
  /\ worker.messages
  /\ Unlocked(c)
  /\ caseStatus' = [caseStatus EXCEPT ![c] = READY_FOR_REVIEW]
  /\ evidence' = [evidence EXCEPT ![c] = "shown"]
  /\ overtaken' = IF c \in deleted \/ sweep.case = c THEN overtaken \cup {c} ELSE overtaken
  /\ worker' = NoJob
  /\ UNCHANGED <<held, decisions, messages, deleted, expired, reviews, reads, sweep>>

(* A retry is one commit; the attempt that gives up commits the failure and *)
(* then the dead letter.                                                    *)
FailJob ==
  /\ worker.pc \in {"started", "loaded"}
  /\ Unlocked(worker.case)
  /\ \/ /\ caseStatus' = [caseStatus EXCEPT ![worker.case] = QUEUED]
        /\ worker' = NoJob
     \/ /\ caseStatus' = [caseStatus EXCEPT ![worker.case] = PROCESSING_FAILED]
        /\ worker' = [worker EXCEPT !.pc = "failing"]
  /\ UNCHANGED <<held, decisions, messages, evidence, deleted, overtaken, expired, reviews, reads, sweep>>

(* A commit the database refuses leaves the case as the first left it.      *)
DeadLetter ==
  /\ worker.pc = "failing"
  /\ Unlocked(worker.case)
  /\ \E status \in {PROCESSING_FAILED, DLQ_INVESTIGATION} :
       caseStatus' = [caseStatus EXCEPT ![worker.case] = status]
  /\ worker' = NoJob
  /\ UNCHANGED <<held, decisions, messages, evidence, deleted, overtaken, expired, reviews, reads, sweep>>

(* An administrator redrives the dead letter or closes the case.            *)
ResolveDLQEntry(c) ==
  /\ caseStatus[c] = DLQ_INVESTIGATION
  /\ Unlocked(c)
  /\ \E status \in {QUEUED, CLOSED} : caseStatus' = [caseStatus EXCEPT ![c] = status]
  /\ UNCHANGED <<held, decisions, messages, evidence, deleted, overtaken, expired, threads>>

-------------------------------------------------------------------------------
(* run_retention_sweep *)

Expire(c) ==
  /\ c \notin expired
  /\ expired' = expired \cup {c}
  /\ UNCHANGED <<rows, threads>>

BeginSweep ==
  /\ sweep.pc = "idle"
  /\ expired # {}
  /\ sweep' = [NoSweep EXCEPT !.pc = "sweeping", !.todo = expired]
  /\ UNCHANGED <<rows, expired, worker, reviews, reads>>

(* A case on hold: only the deferral is recorded.                           *)
SweepDefer(c) ==
  /\ sweep.pc = "sweeping"
  /\ c \in sweep.todo \cap held
  /\ sweep' = [sweep EXCEPT !.todo = @ \ {c}]
  /\ UNCHANGED <<rows, expired, worker, reviews, reads>>

(* The case's messages and results are selected.                            *)
SweepSelect(c) ==
  /\ sweep.pc = "sweeping"
  /\ c \in sweep.todo \ held
  /\ sweep' = [sweep EXCEPT !.pc = "read", !.case = c, !.results = (evidence[c] # "none")]
  /\ UNCHANGED <<rows, expired, worker, reviews, reads>>

(* Mutant: the messages go, the snippets in the results stay.               *)
SweepMessagesOnly ==
  LET c == sweep.case IN
  /\ sweep.pc = "read"
  /\ messages' = [messages EXCEPT ![c] = FALSE]
  /\ deleted' = deleted \cup {c}
  /\ sweep' = [sweep EXCEPT !.pc = "sweeping", !.todo = @ \ {c}, !.case = None,
                            !.results = FALSE]
  /\ UNCHANGED <<held, caseStatus, decisions, evidence, overtaken, expired, worker, reviews, reads>>

(* The deletion event commits what was selected.                            *)
SweepCommit ==
  LET c == sweep.case IN
  /\ sweep.pc = "read"
  /\ messages' = [messages EXCEPT ![c] = FALSE]
  /\ IF sweep.results
     THEN evidence' = [evidence EXCEPT ![c] = "cleared"] /\ overtaken' = overtaken \ {c}
     ELSE UNCHANGED <<evidence, overtaken>>
  /\ deleted' = deleted \cup {c}
  /\ sweep' = [sweep EXCEPT !.pc = "sweeping", !.todo = @ \ {c}, !.case = None,
                            !.results = FALSE]
  /\ UNCHANGED <<held, caseStatus, decisions, expired, worker, reviews, reads>>

(* All cases are done, or the database refuses: what was committed stays.   *)
EndSweep ==
  /\ sweep.pc # "idle"
  /\ sweep' = NoSweep
  /\ UNCHANGED <<rows, expired, worker, reviews, reads>>

(* The process dies and restarts; the job that was running is queued again  *)
(* or fails (_recover_running_job, which may die between its two commits);  *)
(* a job that had failed is left.                                           *)
Crash ==
  /\ worker' = NoJob
  /\ reviews' = [r \in Reviewers |-> NoReview]
  /\ reads' = [r \in Readers |-> NoRead]
  /\ sweep' = NoSweep
  /\ IF worker.pc \in {"idle", "failing"} THEN UNCHANGED caseStatus
     ELSE \E status \in {QUEUED, PROCESSING_FAILED, DLQ_INVESTIGATION} :
            caseStatus' = [caseStatus EXCEPT ![worker.case] = status]
  /\ UNCHANGED <<held, decisions, messages, evidence, deleted, overtaken, expired>>

ReviewNext ==
  \/ \E r \in Reviewers, user \in Users, c \in Cases, decision_type \in DECISION_TYPES :
       LoadCase(r, user, c, decision_type)
  \/ \E r \in Reviewers : RecordDecision(r) \/ RefuseDecision(r)
  \/ \E r \in Readers, user \in Users, c \in Cases : ReadCase(r, user, c)
  \/ \E r \in Readers : ReadResults(r) \/ ReadMessages(r)
  \/ \E c \in Cases : StartJob(c) \/ ResolveDLQEntry(c)
  \/ LoadMessages
  \/ Publish
  \/ FailJob
  \/ DeadLetter
  \/ \E c \in Cases : Expire(c) \/ SweepDefer(c) \/ SweepSelect(c)
  \/ BeginSweep
  \/ SweepCommit
  \/ EndSweep
  \/ Crash

ReviewSpec == ReviewInit /\ [][ReviewNext]_reviewVars

-------------------------------------------------------------------------------
(* Properties *)

FinalDecisions(c) == {i \in DOMAIN decisions[c] : decisions[c][i] # "monitor"}

(***************************************************************************)
(* Where rows lock, reviewers deciding on a case at once cannot both end    *)
(* its review (get_case_for_org: a second decision re-reads the status):    *)
(* a case has at most one decision other than monitor, its status is that   *)
(* decision's, and a case is under review only after a monitor decision.    *)
(* A case no decision ended is referred, in want of information or closed   *)
(* never, but for the dead letters an administrator closes.                 *)
(***************************************************************************)
OneFinalDecision ==
  RowLocks => \A c \in Cases :
    /\ \A i, j \in FinalDecisions(c) : i = j
    /\ \A i \in FinalDecisions(c) :
         caseStatus[c] = STATUS_BY_DECISION[decisions[c][i]]
    /\ caseStatus[c] \in {REFERRED, MORE_INFO_REQUIRED} => FinalDecisions(c) # {}
    /\ caseStatus[c] = CLOSED => FinalDecisions(c) # {} \/ evidence[c] = "none"
    /\ caseStatus[c] = UNDER_REVIEW => decisions[c] # << >>

(***************************************************************************)
(* Through crashes, failures and results published meanwhile, content and   *)
(* its deletion event go together: messages are missing exactly from the    *)
(* cases with an event, which had expired and had no hold; and no evidence  *)
(* of such a case is shown unless its result came after the sweep looked.   *)
(***************************************************************************)
DeletionIsComplete ==
  \A c \in Cases :
    /\ ~messages[c] <=> c \in deleted
    /\ c \in deleted => c \in expired /\ c \notin held
    /\ c \in deleted /\ evidence[c] = "shown" => c \in overtaken

(***************************************************************************)
(* An answer of get_case, put together from several reads while a sweep     *)
(* commits, never shows the messages of a case whose evidence it shows as   *)
(* cleared.                                                                 *)
(***************************************************************************)
AnswersAreConsistent ==
  \A r \in Readers :
    reads[r].left = << >> /\ reads[r].evidence = "cleared" => ~reads[r].messages
===============================================================================
