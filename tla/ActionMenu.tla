----------------------------- MODULE ActionMenu -----------------------------
(***************************************************************************)
(* available-actions: what TaskBoardQueryService tells a person he can do  *)
(* with a task, next to what the handlers of TaskLifecycle accept.         *)
(*                                                                         *)
(* The menu is computed by conditions of its own, from rows read outside   *)
(* any lock; it repeats the guards of the handlers in other words.         *)
(* A person who holds several roles gets the actions of all of them.       *)
(***************************************************************************)
EXTENDS TaskLifecycle

Roles == { "creator", "assignee", "reviewer" }

-----------------------------------------------------------------------------
(* The menu *)

\* completion_review_allowed_actions
CompletionReviewActions(role) ==
  { a \in { "approve_completion", "reject_completion" } :
      task.status = "pending_review" /\ review.status = "submitted"
        /\ role \in { "creator", "reviewer" } }

\* _review_context: the latest round asks for rework that was not reopened.
AwaitsRework == review.status = "rejected" /\ review.rework = "wanted"

ExecutionActions(role) ==
  IF task.status \notin ExecutionStatus \/ role # "assignee" THEN {}
  ELSE { "submit_progress_report", "report_task_issue" }
         \cup { a \in { "submit_completion" } :
                  plan = "done" /\ issues = "none" /\ ~AwaitsRework }

SendingActions(role) ==
  CASE role = "creator"  /\ task.status = "draft" -> { a \in { "submit_for_confirmation" } :
                                                         task.assignee # Nobody }
    [] role = "creator"  /\ task.status = "pending_confirmation" -> { "confirm_and_send" }
    [] role = "creator"  /\ task.status = "returned"             -> { "resend" }
    [] role = "assignee" /\ task.status = "pending_acceptance"   -> { "accept", "return" }
    [] OTHER                                                     -> {}

\* A pending request is offered whatever version it was written for.
ChangeActions(role) ==
  { a \in { "submit_change_request" } :
      role = "assignee" /\ task.status \in ExecutionStatus /\ ~change.pending }
  \cup
  { a \in { "cancel_change_request" } :
      role = "assignee" /\ task.status \in ExecutionStatus /\ change.pending }
  \cup
  { a \in { "approve_change_request", "reject_change_request" } :
      role = "creator" /\ change.pending }

MenuCancellable == OfferedStatus \cup ExecutionStatus \cup
  { "draft", "pending_confirmation", "returned", "pending_review" }

MenuMovable == OfferedStatus \cup ExecutionStatus \cup { "returned" }

MenuClosable ==
  task.status \in { "in_progress", "pending_review", "completed" } /\ issues = "none"

LifecycleActions(role) ==
  IF role # "creator" THEN {}
  ELSE { a \in { "cancel_task" } : task.status \in MenuCancellable }
    \cup { a \in { "reassign_task", "withdraw_task" } : task.status \in MenuMovable }
    \cup { a \in { "close_task" } : MenuClosable }
    \cup { a \in { "archive_task" } : task.status = "completed" }
    \cup { a \in { "restore_task" } :
             task.status \in { "cancelled", "closed", "withdrawn", "archived" } }
    \cup { a \in { "merge_task" } :
             task.status \notin { "archived", "cancelled", "withdrawn", "merged" } }

\* _task_actions
AllowedActions(role) ==
  SendingActions(role) \cup ExecutionActions(role) \cup CompletionReviewActions(role)
    \cup ChangeActions(role) \cup LifecycleActions(role)

-----------------------------------------------------------------------------
(* What the handlers say *)

ChangeVerdicts ==
  { "cancel_change_request", "approve_change_request", "reject_change_request" }

\* The handler's own condition; a reassignment is to whoever else is named, and a report
\* in a period not fulfilled yet, which no menu can promise to be the current one.
Accepted(a) ==
  CASE a = "submit_for_confirmation" -> task.status = "draft" /\ SendReady
    [] a = "confirm_and_send"        -> task.status = "pending_confirmation" /\ SendReady
    [] a = "resend"                  -> MayResend
    [] a = "accept"                  -> MayAccept
    [] a = "return"                  -> MayReturn
    [] a = "submit_progress_report"  ->
         \A p \in (Periods \cup {NoPeriod}) \ task.fulfilled : MayReport(p)
    [] a = "report_task_issue"       -> MayRaiseIssue
    [] a = "submit_completion"       -> MaySubmit
    [] a = "approve_completion"      -> MayApprove
    [] a = "reject_completion"       -> MayReject
    [] a = "submit_change_request"   -> MayRequestChange
    [] a \in ChangeVerdicts          -> PendingOnCurrentVersion
    [] a = "cancel_task"             -> MayLeave(CancellableFrom)
    [] a = "reassign_task"           -> \A u \in Assignees \ {task.assignee} : MayReassign(u)
    [] a = "withdraw_task"           -> MayLeave(WithdrawableFrom)
    [] a = "close_task"              -> NoOpenIssues /\ MayLeave(ClosableFrom)
    [] a = "archive_task"            -> MayLeave({ "completed" })
    [] a = "restore_task"            -> MayRestore
    [] a = "merge_task"              -> MayMerge

-----------------------------------------------------------------------------
(* Properties *)

\* What the menu offers without looking at the draft: a sending that may lack a field, and
\* a returned task whose assignee was cleared meanwhile.  Nowhere else.
Premature(a) ==
  \/ a \in { "submit_for_confirmation", "confirm_and_send" } /\ ~SendReady
  \/ a \in { "resend", "reassign_task" } /\ task.status = "returned" /\ ~Assigned

\* What available-actions offers, the handler does: the menu's own conditions, together
\* with what the handlers keep true of the assignee, nodes, issues, reviews and attempts,
\* imply the guards they repeat; but for what is premature, and a second report.
OfferIsAccepted ==
  \A role \in Roles : \A a \in AllowedActions(role) \ ChangeVerdicts :
    Premature(a) \/ Accepted(a)

\* "available-actions projects only what the current user can do now", of the verdicts
\* on a pending change request.
ChangeOfferIsAccepted ==
  \A role \in Roles : \A a \in AllowedActions(role) \cap ChangeVerdicts : Accepted(a)

=============================================================================
