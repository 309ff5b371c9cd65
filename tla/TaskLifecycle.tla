---------------------------- MODULE TaskLifecycle ----------------------------
(***************************************************************************)
(* One task of the board: its row, the decomposition attempts started for  *)
(* it, the provider calls in flight, its pending change request, its       *)
(* latest completion review, its archive row and the newest status log.    *)
(*                                                                         *)
(* Every handler of TaskWorkflowService and TaskDecompositionService is    *)
(* one database transaction that locks the task row and compares           *)
(* task_version, so a handler is one atomic action; a request that carries *)
(* another version changes nothing and is a stuttering step.  The one      *)
(* exception is execute(): it commits, calls the AI provider outside any   *)
(* transaction, and settles the attempt in a later transaction of its own. *)
(*                                                                         *)
(* Nodes and issues appear only as what the handlers here ask of them:     *)
(*   plan    "none" no node, "open" some node unfinished, "done" all done  *)
(*   issues  "none" all closed, "blocker" an open or processing blocker,   *)
(*           "unclosed" something not closed but no active blocker         *)
(***************************************************************************)
EXTENDS Naturals, Sequences, TaskStatus

CONSTANTS
  Assignees,    \* the users a task may be given to
  Nobody,       \* main_assignee_employee_no is null
  Periods,      \* the reporting periods of the task
  NoPeriod,     \* a report that fulfils none of them
  MaxVersion,   \* bound: users write only below this task_version
  MaxAttempts   \* bound: decomposition attempts started for the task

ASSUME AssigneesNonEmpty == Assignees # {}
ASSUME NobodyIsNoAssignee == Nobody \notin Assignees
ASSUME NoPeriodIsNoPeriod == NoPeriod \notin Periods
ASSUME BoundsAreNat == MaxVersion \in Nat /\ MaxAttempts \in Nat

VARIABLES
  task,      \* the row of tasks, and the periods its progress reports fulfil
  attempts,  \* the rows of task_decompositions, oldest first
  calls,     \* execute() calls between their first and last transaction
  change,    \* the pending row of task_change_requests, if any
  review,    \* the newest row of task_completion_reviews
  plan,      \* the nodes, seen from the task
  issues,    \* the issues, seen from the task
  archive,   \* a row of task_archives exists
  log        \* the newest row of task_status_logs

vars == << task, attempts, calls, change, review, plan, issues, archive, log >>

-----------------------------------------------------------------------------
(* Rows *)

Task ==
  [ status        : Status,
    version       : Nat,
    assignee      : Assignees \cup {Nobody},
    ready         : BOOLEAN,  \* every other field required for sending is filled
    fulfilled     : SUBSET Periods,
    effective     : BOOLEAN,  \* effective_at is set
    decomposition : { "none", "pending", "running", "succeeded", "failed",
                      "invalidated" },
    latest        : Nat ]     \* latest_decomposition_id, 0 when null

Attempt ==
  [ status  : { "pending", "running", "succeeded", "failed", "invalidated" },
    version : Nat,
    by      : Assignees ]

Call == [ attempt : Nat, actor : Assignees, phase : { "calling", "failing" } ]

Change == [ pending : BOOLEAN, base : Nat ]

NoChange == [ pending |-> FALSE, base |-> 0 ]

Review ==
  [ status  : { "none", "submitted", "approved", "rejected" },
    version : Nat,    \* submitted_task_version
    rework  : { "none", "wanted", "reopened" } ]

Log == [ to : Status, version : Nat ]

TypeOK ==
  /\ task \in Task
  /\ attempts \in Seq(Attempt)
  /\ calls \subseteq Call
  /\ change \in Change
  /\ review \in Review
  /\ plan \in { "none", "open", "done" }
  /\ issues \in { "none", "unclosed", "blocker" }
  /\ archive \in BOOLEAN
  /\ log \in Log

-----------------------------------------------------------------------------
(* Helpers *)

ActiveStatus == { "pending", "running" }

Active(a) == attempts[a].status \in ActiveStatus

NoActiveAttempt == \A a \in DOMAIN attempts : ~Active(a)

\* Mutant: the lifecycle handler forgets the attempt in flight.
AttemptForgotten == attempts' = attempts

\* invalidate_active: mark the attempt in flight, inside the caller's transaction.
InvalidateActive ==
  attempts' = [ a \in DOMAIN attempts |->
                  IF Active(a) THEN [ attempts[a] EXCEPT !.status = "invalidated" ]
                  ELSE attempts[a] ]

\* Mutant: the handler forgets task_version += 1.
CommitSameVersion(row) ==
  /\ task.version < MaxVersion
  /\ task' = row
  /\ log' = [ to |-> row.status, version |-> task.version ]

\* A user's write: store the row with the next version and log its status.
Commit(row) ==
  /\ task.version < MaxVersion
  /\ task' = [ row EXCEPT !.version = task.version + 1 ]
  /\ log' = [ to |-> row.status, version |-> task.version + 1 ]

CancelPendingChange == change' = NoChange

-----------------------------------------------------------------------------
(* Creation and sending *)

\* create_task_draft: version 1.  A draft may be created with nodes and without assignee.
Init ==
  /\ \E a \in Assignees \cup {Nobody}, r \in BOOLEAN :
       task = [ status |-> "draft", version |-> 1, assignee |-> a, ready |-> r,
                fulfilled |-> {}, effective |-> FALSE, decomposition |-> "none",
                latest |-> 0 ]
  /\ attempts = << >>
  /\ calls = {}
  /\ change = NoChange
  /\ review = [ status |-> "none", version |-> 0, rework |-> "none" ]
  /\ plan \in { "none", "open" }
  /\ issues = "none"
  /\ archive = FALSE
  /\ log = [ to |-> "draft", version |-> 1 ]

\* A person may be named or cleared, but not replaced by another in one edit: a flush
\* inserts rows before it deletes any, and the index on the primary assignee refuses that.
MayName(a) == Nobody \in { a, task.assignee } \/ a = task.assignee

\* The creator edits the draft: any field, the assignee, with his participant row, included.
UpdateDraft(a, r) ==
  /\ task.status \in EditableStatus
  /\ MayName(a)
  /\ Commit([ task EXCEPT !.assignee = a, !.ready = r,
                          !.status = IF @ = "pending_confirmation" THEN "draft" ELSE @ ])
  /\ UNCHANGED << attempts, calls, change, review, plan, issues, archive >>

\* _primary_assignee_participant: the participant row comes and goes with the column.
Assigned == task.assignee # Nobody

\* _validate_send_ready_task: all fields there, and neither node nor dependency.
SendReady == Assigned /\ task.ready /\ plan = "none"

SubmitForConfirmation ==
  /\ task.status = "draft"
  /\ SendReady
  /\ Commit([ task EXCEPT !.status = "pending_confirmation" ])
  /\ UNCHANGED << attempts, calls, change, review, plan, issues, archive >>

\* confirm_and_send, and confirm_self_assigned when the creator is the assignee.
ConfirmAndSend ==
  /\ task.status = "pending_confirmation"
  /\ SendReady
  /\ Commit([ task EXCEPT !.status = "pending_acceptance" ])
  /\ UNCHANGED << attempts, calls, change, review, plan, issues, archive >>

\* What a handler requires of the task has a name of its own where the menu repeats it; the
\* bounds, in Commit and StartAttempt, are no refusals.
MayReturn == task.status = "pending_acceptance" /\ Assigned

ReturnTask ==
  /\ MayReturn
  /\ Commit([ task EXCEPT !.status = "returned" ])
  /\ UNCHANGED << attempts, calls, change, review, plan, issues, archive >>

\* Mutant: whoever answered the offer is not looked for.
MayResendToNobody == task.status = "returned"

MayResend == task.status = "returned" /\ Assigned

\* resend_task does not validate the other fields again.
ResendTask ==
  /\ MayResend
  /\ Commit([ task EXCEPT !.status = "pending_acceptance" ])
  /\ UNCHANGED << attempts, calls, change, review, plan, issues, archive >>

-----------------------------------------------------------------------------
(* Acceptance and decomposition *)

\* Common to accept_task and retry: a new pending attempt for the next version.
StartAttempt ==
  /\ Len(attempts) < MaxAttempts
  /\ Commit([ task EXCEPT !.status = "decomposing", !.decomposition = "pending",
                          !.effective = FALSE, !.latest = Len(attempts) + 1 ])
  /\ attempts' = Append(attempts, [ status |-> "pending", version |-> task.version + 1,
                                    by |-> task.assignee ])

MayAccept == task.status = "pending_acceptance" /\ NoActiveAttempt /\ Assigned

AcceptTask ==
  /\ MayAccept
  /\ StartAttempt
  /\ UNCHANGED << calls, change, review, plan, issues, archive >>

RetryDecomposition ==
  /\ task.status = "decomposition_failed"
  /\ NoActiveAttempt
  /\ Assigned
  /\ StartAttempt
  /\ UNCHANGED << calls, change, review, plan, issues, archive >>

\* Mutant: only the latest decomposition id is compared.
LatestAttempt(a) == task.latest = a

\* _require_current_attempt
CurrentAttempt(a) ==
  /\ attempts[a].status # "invalidated"
  /\ task.latest = a
  /\ task.status = "decomposing"
  /\ task.version = attempts[a].version

\* execute, first transaction: claim the attempt.  The version stays.
Execute(a, u) ==
  /\ u = task.assignee
  /\ CurrentAttempt(a)
  /\ attempts[a].status = "pending"
  /\ attempts' = [ attempts EXCEPT ![a].status = "running" ]
  /\ task' = [ task EXCEPT !.decomposition = "running" ]
  /\ calls' = calls \cup { [ attempt |-> a, actor |-> u, phase |-> "calling" ] }
  /\ UNCHANGED << change, review, plan, issues, archive, log >>

\* The provider raised, its result is invalid, or complete_result refused it.
CallRaises(c) ==
  /\ c.phase = "calling"
  /\ calls' = (calls \ {c}) \cup { [ c EXCEPT !.phase = "failing" ] }
  /\ UNCHANGED << task, attempts, change, review, plan, issues, archive, log >>

\* The settling transactions commit whatever MaxVersion says: the bound is on users.
Settle(c, outcome, row) ==
  /\ attempts' = [ attempts EXCEPT ![c.attempt].status = outcome ]
  /\ task' = [ row EXCEPT !.decomposition = outcome, !.version = @ + 1 ]
  /\ log' = [ to |-> row.status, version |-> row.version + 1 ]
  /\ calls' = calls \ {c}

\* complete_result: the nodes, the dependencies and effective_at in one transaction.
CompleteResult(c) ==
  /\ c.phase = "calling"
  /\ c.actor = task.assignee
  /\ CurrentAttempt(c.attempt)
  /\ Active(c.attempt)
  /\ Settle(c, "succeeded", [ task EXCEPT !.status = "in_progress", !.effective = TRUE ])
  /\ plan' = "open"
  /\ UNCHANGED << change, review, issues, archive >>

\* Mutant: an attempt that is already running is not failed.
FailUnstarted(c) ==
  /\ c.phase = "failing"
  /\ attempts[c.attempt].status = "pending"
  /\ Settle(c, "failed", [ task EXCEPT !.status = "decomposition_failed" ])
  /\ UNCHANGED << change, review, plan, issues, archive >>

\* fail_attempt checks the attempt as complete_result does, its own status excepted.
FailAttempt(c) ==
  /\ c.phase = "failing"
  /\ c.actor = task.assignee
  /\ CurrentAttempt(c.attempt)
  /\ Settle(c, "failed", [ task EXCEPT !.status = "decomposition_failed",
                                       !.effective = FALSE ])
  /\ UNCHANGED << change, review, plan, issues, archive >>

\* fail_attempt raises: the late failure is dropped.
FailRefused(c) ==
  /\ c.phase = "failing"
  /\ ~(c.actor = task.assignee /\ CurrentAttempt(c.attempt))
  /\ calls' = calls \ {c}
  /\ UNCHANGED << task, attempts, change, review, plan, issues, archive, log >>

\* The server process dies between the transactions of execute.
WorkerCrash(c) ==
  /\ calls' = calls \ {c}
  /\ UNCHANGED << task, attempts, change, review, plan, issues, archive, log >>

-----------------------------------------------------------------------------
(* Change requests *)

MayRequestChange == task.status \in ExecutionStatus /\ ~change.pending

\* create_change_request: recorded at the current version, which does not move.
CreateChange ==
  /\ MayRequestChange
  /\ change' = [ pending |-> TRUE, base |-> task.version ]
  /\ log' = [ to |-> task.status, version |-> task.version ]
  /\ UNCHANGED << task, attempts, calls, review, plan, issues, archive >>

\* Mutant: the version the request was written for is not compared.
PendingOnAnyVersion == change.pending

\* _require_pending_change_request: a request based on an older version is refused.
PendingOnCurrentVersion == change.pending /\ change.base = task.version

\* approve_change_request: p and r are the plan and the fields the patch leaves.
ApproveChange(p, r) ==
  /\ PendingOnCurrentVersion
  /\ p = "none" => plan = "none"
  /\ Commit([ task EXCEPT !.ready = r ])
  /\ plan' = p
  /\ change' = NoChange
  /\ UNCHANGED << attempts, calls, review, issues, archive >>

\* reject_change_request by the creator, cancel_change_request by the requester.
DropChange ==
  /\ PendingOnCurrentVersion
  /\ change' = NoChange
  /\ log' = [ to |-> task.status, version |-> task.version ]
  /\ UNCHANGED << task, attempts, calls, review, plan, issues, archive >>

-----------------------------------------------------------------------------
(* Execution: what nodes, reports and issues do to the task *)

\* start_node, update_node_progress, complete_node: logged as in_progress even while
\* the task is blocked.
NodeWrite(p) ==
  /\ task.status \in ExecutionStatus
  /\ plan = "open"
  /\ task.version < MaxVersion
  /\ task' = [ task EXCEPT !.version = @ + 1 ]
  /\ log' = [ to |-> "in_progress", version |-> task.version + 1 ]
  /\ plan' = p
  /\ UNCHANGED << attempts, calls, change, review, issues, archive >>

\* accept_node_assignment, reject_node_assignment: logged with the task's own status.
AnswerAssignment ==
  /\ task.status \in ExecutionStatus
  /\ plan # "none"
  /\ Commit(task)
  /\ UNCHANGED << attempts, calls, change, review, plan, issues, archive >>

\* reopen_node: once per rejected review, for its rework node.
ReopenNode ==
  /\ task.status = "in_progress"
  /\ review.status = "rejected" /\ review.rework = "wanted"
  /\ Commit(task)
  /\ plan' = "open"
  /\ review' = [ review EXCEPT !.rework = "reopened" ]
  /\ UNCHANGED << attempts, calls, change, issues, archive >>

\* confirm_task_plan replaces nodes none of which was started.
ConfirmTaskPlan ==
  /\ task.status = "in_progress"
  /\ plan \in { "none", "open" }
  /\ Commit(task)
  /\ plan' = "open"
  /\ UNCHANGED << attempts, calls, change, review, issues, archive >>

\* One report fulfils a period, whoever filed it.
MayReport(p) == task.status \in ExecutionStatus /\ p \notin task.fulfilled

\* submit a progress report in the period the cycle, the acceptance and the clock give; none
\* if there is no cycle, and a correction of a report fulfils none either.  The status
\* follows has_issue alone.
ReportProgress(p, hasIssue) ==
  /\ MayReport(p)
  /\ Commit([ task EXCEPT !.status = IF hasIssue THEN "blocked" ELSE "in_progress",
                          !.fulfilled = @ \cup ({p} \cap Periods) ])
  /\ issues' = IF hasIssue THEN "blocker" ELSE issues
  /\ UNCHANGED << attempts, calls, change, review, plan, archive >>

MayRaiseIssue == task.status \in ExecutionStatus

CreateIssue(isBlocker) ==
  /\ MayRaiseIssue
  /\ Commit([ task EXCEPT !.status = IF isBlocker THEN "blocked" ELSE @ ])
  /\ issues' = IF isBlocker THEN "blocker"
               ELSE IF issues = "none" THEN "unclosed" ELSE issues
  /\ UNCHANGED << attempts, calls, change, review, plan, archive >>

\* One issue takes one step; settling is any step but "start processing".
IssueStep ==
  { << "blocker", "blocker" >>, << "blocker", "unclosed" >>,
    << "unclosed", "unclosed" >>, << "unclosed", "none" >> }

\* The blocker that is just being settled is still active for the query that decides
\* whether to release the task: the session does not flush before a query.
TransitionIssue(after, settles) ==
  /\ task.status \in ExecutionStatus
  /\ << issues, after >> \in IssueStep
  /\ after # issues => settles
  /\ Commit([ task EXCEPT !.status =
                IF @ = "blocked" /\ settles /\ issues # "blocker" THEN "in_progress" ELSE @ ])
  /\ issues' = after
  /\ UNCHANGED << attempts, calls, change, review, plan, archive >>

-----------------------------------------------------------------------------
(* Completion review *)

\* The partial unique index admits one submitted row per task.
MaySubmit ==
  /\ task.status \in ExecutionStatus
  /\ plan = "done"
  /\ issues = "none"
  /\ ~(review.status = "rejected" /\ review.rework = "wanted")
  /\ review.status # "submitted"

\* submit_completion
SubmitCompletion ==
  /\ MaySubmit
  /\ Commit([ task EXCEPT !.status = "pending_review" ])
  /\ review' = [ status |-> "submitted", version |-> task.version + 1, rework |-> "none" ]
  /\ UNCHANGED << attempts, calls, change, plan, issues, archive >>

\* _lock_submitted_review
SubmittedReview == review.status = "submitted" /\ review.version = task.version

MayApprove ==
  /\ task.status = "pending_review"
  /\ SubmittedReview
  /\ plan = "done"
  /\ issues = "none"
  /\ ~archive

\* approve_completion: completed and archived in one transaction, two versions on.
ApproveCompletion ==
  /\ MayApprove
  /\ task.version + 1 < MaxVersion
  /\ task' = [ task EXCEPT !.status = "archived", !.version = @ + 2 ]
  /\ log' = [ to |-> "archived", version |-> task.version + 2 ]
  /\ review' = [ review EXCEPT !.status = "approved" ]
  /\ archive' = TRUE
  /\ UNCHANGED << attempts, calls, change, plan, issues >>

MayReject == task.status = "pending_review" /\ SubmittedReview

RejectCompletion(rework) ==
  /\ MayReject
  /\ Commit([ task EXCEPT !.status = "in_progress" ])
  /\ review' = [ review EXCEPT !.status = "rejected", !.rework = rework ]
  /\ UNCHANGED << attempts, calls, change, plan, issues, archive >>

-----------------------------------------------------------------------------
(* Lifecycle *)

MayLeave(from) == task.status \in from

\* _lifecycle_transition: cancel, withdraw, close and archive.
LifecycleTransition(from, to) ==
  /\ MayLeave(from)
  /\ IF task.status = "decomposing"
       THEN /\ InvalidateActive
            /\ Commit([ task EXCEPT !.status = to, !.effective = FALSE,
                                    !.decomposition = "invalidated" ])
       ELSE /\ Commit([ task EXCEPT !.status = to ])
            /\ UNCHANGED attempts
  /\ CancelPendingChange
  /\ UNCHANGED << calls, review, plan, issues, archive >>

CancelTask == LifecycleTransition(CancellableFrom, "cancelled")

WithdrawTask == LifecycleTransition(WithdrawableFrom, "withdrawn")

\* close_task asks for closed issues besides.
NoOpenIssues == issues = "none"

CloseTask == NoOpenIssues /\ LifecycleTransition(ClosableFrom, "closed")

ArchiveTask == LifecycleTransition({ "completed" }, "archived")

\* It moves the primary participant row, which a task nobody holds has not.
MayReassign(a) == task.status \in ReassignableFrom /\ a # task.assignee /\ Assigned

\* reassign_task: back to pending_acceptance under another assignee; nodes stay.
ReassignTask(a) ==
  /\ MayReassign(a)
  /\ IF task.status = "decomposing" THEN InvalidateActive ELSE UNCHANGED attempts
  /\ Commit([ task EXCEPT !.status = "pending_acceptance", !.assignee = a,
                          !.effective = FALSE, !.decomposition = "none", !.latest = 0 ])
  /\ CancelPendingChange
  /\ UNCHANGED << calls, review, plan, issues, archive >>

MayRestore == task.status \in DOMAIN RestoreTo

RestoreTask ==
  /\ MayRestore
  /\ Commit([ task EXCEPT !.status = RestoreTo[task.status] ])
  /\ UNCHANGED << attempts, calls, change, review, plan, issues, archive >>

MayMerge == task.status \notin UnmergeableStatus

\* merge_task, the source side.  It leaves a decomposition attempt as it is.
MergeTask ==
  /\ MayMerge
  /\ Commit([ task EXCEPT !.status = "merged" ])
  /\ CancelPendingChange
  /\ UNCHANGED << attempts, calls, review, plan, issues, archive >>

-----------------------------------------------------------------------------
(* Specifications *)

UserStep ==
  \/ \E a \in Assignees \cup {Nobody}, r \in BOOLEAN : UpdateDraft(a, r)
  \/ SubmitForConfirmation
  \/ ConfirmAndSend
  \/ ReturnTask
  \/ ResendTask
  \/ AcceptTask
  \/ RetryDecomposition
  \/ CreateChange
  \/ \E p \in { "none", "open", "done" }, r \in BOOLEAN : ApproveChange(p, r)
  \/ DropChange
  \/ \E p \in { "open", "done" } : NodeWrite(p)
  \/ AnswerAssignment
  \/ ReopenNode
  \/ ConfirmTaskPlan
  \/ \E p \in Periods \cup {NoPeriod}, hasIssue \in BOOLEAN : ReportProgress(p, hasIssue)
  \/ \E isBlocker \in BOOLEAN : CreateIssue(isBlocker)
  \/ \E after \in { "none", "unclosed", "blocker" }, settles \in BOOLEAN :
       TransitionIssue(after, settles)
  \/ SubmitCompletion
  \/ ApproveCompletion
  \/ \E rework \in { "none", "wanted" } : RejectCompletion(rework)
  \/ CancelTask
  \/ WithdrawTask
  \/ CloseTask
  \/ ArchiveTask
  \/ \E a \in Assignees : ReassignTask(a)
  \/ RestoreTask
  \/ MergeTask

ExecuteStep == \E a \in DOMAIN attempts, u \in Assignees : Execute(a, u)

\* What a call in flight does by itself.
Continue(c) == CallRaises(c) \/ CompleteResult(c) \/ FailAttempt(c) \/ FailRefused(c)

CallStep == \E c \in calls : Continue(c)

CrashStep == \E c \in calls : WorkerCrash(c)

Next == UserStep \/ ExecuteStep \/ CallStep \/ CrashStep

\* The workflow and decomposition services.
Spec == Init /\ [][Next]_vars

\* The provider answers or times out, and the code after it runs unless the process dies.
FairSpec ==
  /\ Spec
  /\ \A a \in 1..MaxAttempts : WF_vars(\E c \in calls : c.attempt = a /\ Continue(c))

-----------------------------------------------------------------------------
(* Safety *)

\* A task never has two decomposition attempts in flight: the guard on the
\* attempts and the partial unique index agree with every way to end an attempt.
OneActiveAttempt ==
  \A a, b \in DOMAIN attempts : Active(a) /\ Active(b) => a = b

\* While a task is decomposing its latest attempt is in flight and carries the
\* task's own version, so the answer, when it comes, is not refused as stale.
DecomposingHasCurrentAttempt ==
  task.status = "decomposing" =>
    /\ task.latest \in DOMAIN attempts
    /\ Active(task.latest)
    /\ CurrentAttempt(task.latest)
    /\ attempts[task.latest].by = task.assignee

\* An attempt outlives "decomposing" only on a merged task, where nothing reads it.
NoAttemptOutlivesDecomposing ==
  ~NoActiveAttempt => task.status \in { "decomposing", "merged" }

\* A task is executed only while effective, with nodes, and on the strength of the
\* successful attempt of the person who accepted it and still holds it.
ExecutionIsEffective ==
  task.status \in ExecutionStatus \cup { "pending_review" } =>
    /\ task.effective
    /\ plan # "none"
    /\ task.latest \in DOMAIN attempts
    /\ attempts[task.latest].status = "succeeded"
    /\ attempts[task.latest].by = task.assignee

\* A task on offer or being decomposed is not effective, whatever it was before a
\* reassignment, a cancellation and a restore.
OfferedIsIneffective == task.status \in OfferedStatus => ~task.effective

\* The decomposition status on the task is the status of its latest attempt.
ProjectionMatchesAttempt ==
  task.latest # 0 => task.decomposition = attempts[task.latest].status

\* The handlers, the calls in flight and the unique index agree on the attempts, so that
\* a decomposing task is always served and no other one is.
AttemptsAreServed ==
  /\ OneActiveAttempt
  /\ DecomposingHasCurrentAttempt
  /\ NoAttemptOutlivesDecomposing
  /\ ProjectionMatchesAttempt

\* Effectiveness is what a delivered attempt gave and a new offer takes away.
RestsOnDelivery == ExecutionIsEffective /\ OfferedIsIneffective

\* A task waiting for review always has the submitted round the reviewer decides,
\* at the version the reviewer sees, and no archive row stands in the way.
ReviewIsDecidable ==
  task.status = "pending_review" =>
    SubmittedReview /\ plan = "done" /\ issues = "none" /\ ~archive

\* No submitted round is left over while the task is executed, so the unique index
\* on submitted reviews never refuses a submission.
NoSubmittedRoundInExecution ==
  task.status \in ExecutionStatus => review.status # "submitted"

\* A completed or archived task was approved, with every node done, every issue
\* closed and an archive row, however it got there.
CompletionWasApproved ==
  task.status \in { "completed", "archived" } =>
    /\ review.status = "approved"
    /\ plan = "done"
    /\ issues = "none"
    /\ archive

\* A review can be decided whenever it is asked for, and nothing but its approval, with
\* all work done, completes a task.
ReviewIsSound == ReviewIsDecidable /\ NoSubmittedRoundInExecution /\ CompletionWasApproved

\* A change request can be decided only while the task is executed, although no
\* decision tests the status: the version it was written for is gone by then.
ChangeDecidedInExecution == PendingOnCurrentVersion => task.status \in ExecutionStatus

\* What transition means to keep by releasing the task when a blocker is resolved or
\* rejected: a blocked task has an active blocker.
BlockedHasBlocker == task.status = "blocked" => issues = "blocker"

-----------------------------------------------------------------------------
(* Action properties *)

\* A settled attempt keeps its outcome: a late, repeated or stale answer is ignored.
SettledAttemptStays ==
  [][ \A a \in DOMAIN attempts : ~Active(a) => attempts'[a] = attempts[a] ]_vars

\* Nodes come from decomposition only through the attempt in flight of a task still
\* decomposing for the assignee who started it.
LateResultIgnored ==
  [][ (~task.effective /\ task'.effective) \/ (plan = "none" /\ plan' # "none") =>
        /\ task.status = "decomposing"
        /\ attempts[task.latest].status = "running"
        /\ attempts'[task.latest].status = "succeeded"
        /\ attempts[task.latest].by = task'.assignee ]_vars

\* Whatever a client decides upon, the status, the holder, the nodes or the review,
\* moves only together with task_version.
VersionGuardsEveryDecision ==
  [][ task'.version = task.version =>
        /\ task'.status = task.status
        /\ task'.assignee = task.assignee
        /\ task'.effective = task.effective
        /\ << plan, issues, review >>' = << plan, issues, review >> ]_vars

\* Every change of status writes its row of task_status_logs in the same transaction.
StatusChangeIsLogged ==
  [][ task'.status # task.status =>
        log' = [ to |-> task'.status, version |-> task'.version ] ]_vars

\* Clients and readers of the log see every decision: it has a version of its own, and
\* a log row when it moves the status.
DecisionsAreVisible == VersionGuardsEveryDecision /\ StatusChangeIsLogged

-----------------------------------------------------------------------------
(* Refinement *)

Activation ==
  INSTANCE ActivationContract WITH
    lease     <- IF task.status = "decomposing" THEN task.latest ELSE 0,
    issued    <- Len(attempts),
    delivered <- { a \in DOMAIN attempts : attempts[a].status = "succeeded" },
    effective <- task.effective

\* Sending, accepting, executing, retrying, reassigning and every lifecycle handler
\* together keep the contract of the decomposition.
ImplementsActivation == Activation!Spec

-----------------------------------------------------------------------------
(* Liveness *)

Served(a) == \E c \in calls : c.attempt = a

\* A claimed attempt does not hold its task in "decomposing" for ever: it succeeds, it
\* fails, a user takes the task out of it, or the process serving the call died, and
\* then nothing but a user ends it (a running attempt is neither executed nor retried).
DecompositionEnds ==
  \A a \in 1..MaxAttempts :
    (task.status = "decomposing" /\ task.latest = a /\ task.decomposition = "running")
      ~> (task.status # "decomposing" \/ task.latest # a \/ ~Served(a))

=============================================================================
