----------------------------- MODULE TaskStatus -----------------------------
(***************************************************************************)
(* The status column of a task and the status sets the handlers test.      *)
(* Every module of this project that writes a task's status extends it.    *)
(***************************************************************************)

\* The statuses app/services ever stores.  "pending_report" is only tested,
\* never stored, so it is left out of every set.
Status ==
  { "draft", "pending_confirmation", "pending_acceptance", "returned",
    "decomposing", "decomposition_failed", "in_progress", "blocked",
    "pending_review", "completed", "archived", "cancelled", "withdrawn",
    "merged", "closed" }

\* Nodes, reports, issues and change requests are accepted only here.
ExecutionStatus == { "in_progress", "blocked" }

\* Sent to an assignee, not yet effective.
OfferedStatus ==
  { "pending_acceptance", "returned", "decomposing", "decomposition_failed" }

CancellableFrom ==
  { "draft", "pending_confirmation", "pending_review" }
    \cup OfferedStatus \cup ExecutionStatus

WithdrawableFrom == { "pending_review" } \cup OfferedStatus \cup ExecutionStatus

\* Mutant: a task under review may be given to somebody else.
ReassignableUnderReview == { "pending_review" } \cup OfferedStatus \cup ExecutionStatus

ReassignableFrom == OfferedStatus \cup ExecutionStatus

ClosableFrom == { "completed", "in_progress", "pending_review" }

EditableStatus == { "draft", "pending_confirmation", "returned" }

\* A task in one of these is no longer merged, neither as source nor as target.
UnmergeableStatus == { "archived", "cancelled", "withdrawn", "merged" }

\* The archive-snapshot endpoint leaves the status of these alone, "completed" excepted.
TerminalStatus ==
  { "completed", "archived", "cancelled", "withdrawn", "merged", "closed" }

\* Mutant: a withdrawn task resumes its execution.
RestoreToExecution ==
  [ s \in { "cancelled", "closed", "withdrawn", "archived" } |->
      CASE s = "archived" -> "completed"
        [] s = "withdrawn" -> "in_progress"
        [] OTHER -> "pending_confirmation" ]

\* Mutant: the development plan's name of the status, which no handler tests.
RestoreToPlannedName ==
  [ s \in { "cancelled", "closed", "withdrawn", "archived" } |->
      IF s = "archived" THEN "completed" ELSE "pending_confirm" ]

\* restore_task: where a restored task continues.
RestoreTo ==
  [ s \in { "cancelled", "closed", "withdrawn", "archived" } |->
      IF s = "archived" THEN "completed" ELSE "pending_confirmation" ]

=============================================================================
