---------------------------- MODULE ExecutedTask ----------------------------
(***************************************************************************)
(* The execution of a task seen from the board.  NodeExecution keeps the   *)
(* rows of nodes and issues and leaves the version out; TaskLifecycle      *)
(* keeps the version and sees the rows as "plan" and "issues".  Here the   *)
(* handlers of NodeExecution write what they leave out there, and each of  *)
(* their steps is one that TaskLifecycle allows.                           *)
(***************************************************************************)
EXTENDS NodeExecution

CONSTANTS
  Accepted,    \* the version at which the delivered attempt was started
  MaxVersion   \* bound: users write only below this task_version

VARIABLES
  version,  \* tasks.task_version
  base,     \* the version the pending change request was written for
  review,   \* the newest row of task_completion_reviews
  log       \* the newest row of task_status_logs

rowVars == << version, base, review, log >>

-----------------------------------------------------------------------------
(* What a handler writes besides *)

\* The next version, and a log row with the status the handler names.
WriteLog(to) ==
  /\ version < MaxVersion
  /\ version' = version + 1
  /\ log' = [ to |-> to, version |-> version + 1 ]

\* A decision about a change request that leaves the task as it is.
LogOnly ==
  /\ version' = version
  /\ log' = [ to |-> status, version |-> version ]

BoardInit ==
  /\ Init
  /\ version = Accepted + 1
  /\ base = 0
  /\ review = [ status |-> "none", version |-> 0, rework |-> "none" ]
  /\ log = [ to |-> "in_progress", version |-> Accepted + 1 ]

PlanWrite ==
  \/ /\ \E N \in SUBSET Nodes : \E owner \in [ N -> People ], edges \in SUBSET (N \X N) :
          ConfirmTaskPlan(N, owner, edges)
     /\ WriteLog(status')
     /\ UNCHANGED << base, review >>
  \/ /\ CreateChange
     /\ LogOnly
     /\ base' = version
     /\ UNCHANGED review
  \/ /\ DropChange
     /\ LogOnly
     /\ UNCHANGED << base, review >>
  \/ /\ \/ \E n \in Nodes : \E row \in PatchedRow(n) :
             LET rows == [ nodes EXCEPT ![n] = row ]
             IN  ApproveChange(rows, EdgesWithin({ m \in Nodes : rows[m].state # "absent" }))
        \/ \E edges \in SUBSET (Planned \X Planned) : ApproveChange(nodes, edges)
     /\ WriteLog(status')
     /\ UNCHANGED << base, review >>

\* start_node, update_node_progress and complete_node log in_progress whatever the status.
NodeWrite ==
  \E n \in Nodes :
    \/ /\ \/ StartNode(n)
          \/ \E q \in 0..Full : UpdateNodeProgress(n, q)
          \/ CompleteNode(n)
       /\ WriteLog("in_progress")
       /\ UNCHANGED << base, review >>
    \/ /\ \E answer \in { "accepted", "rejected" } : AnswerAssignment(n, answer)
       /\ WriteLog(status')
       /\ UNCHANGED << base, review >>
    \/ /\ ReopenNode(n)
       /\ WriteLog(status')
       /\ review' = [ review EXCEPT !.rework = "reopened" ]
       /\ UNCHANGED base

IssueWrite ==
  /\ IssueTrack
  /\ WriteLog(status')
  /\ UNCHANGED << base, review >>

ReviewWrite ==
  \/ /\ SubmitCompletion
     /\ WriteLog(status')
     /\ review' = [ status |-> "submitted", version |-> version + 1, rework |-> "none" ]
     /\ UNCHANGED base
  \/ /\ ApproveCompletion
     /\ version + 1 < MaxVersion
     /\ version' = version + 2
     /\ log' = [ to |-> "archived", version |-> version + 2 ]
     /\ review' = [ review EXCEPT !.status = "approved" ]
     /\ UNCHANGED base
  \/ \E n \in Nodes \cup {None} :
       /\ RejectCompletion(n)
       /\ WriteLog(status')
       /\ review' = [ review EXCEPT !.status = "rejected",
                                    !.rework = IF n = None THEN "none" ELSE "wanted" ]
       /\ UNCHANGED base

BoardNext ==
  \/ PlanWrite
  \/ NodeWrite
  \/ IssueWrite
  \/ ReviewWrite
  \/ (\E n \in Nodes : RemindOfNode(n)) /\ UNCHANGED rowVars

boardVars == << vars, rowVars >>

BoardSpec == BoardInit /\ [][BoardNext]_boardVars

-----------------------------------------------------------------------------
(* Refinement *)

\* What TaskLifecycle calls the plan and the issues.
PlanSeen == IF Planned = {} THEN "none" ELSE IF AllCompleted THEN "done" ELSE "open"

IssuesSeen ==
  IF \E i \in Issues : ActiveBlocker(i) THEN "blocker"
  ELSE IF \E i \in Issues : Unclosed(i) THEN "unclosed"
  ELSE "none"

\* The row of a delivered task, without a report cycle; what execution never writes stands
\* still.
RowAt(s, v) ==
  [ status |-> s, version |-> v, assignee |-> Main, ready |-> TRUE, fulfilled |-> {},
    effective |-> TRUE, decomposition |-> "succeeded", latest |-> 1 ]

TaskRow == RowAt(status, version)

ChangeRow == [ pending |-> change # "none", base |-> IF change = "none" THEN 0 ELSE base ]

Board ==
  INSTANCE TaskLifecycle WITH
    Assignees   <- People,
    Nobody      <- CHOOSE x : x \notin People,
    Periods     <- {},
    NoPeriod    <- None,
    MaxAttempts <- 1,
    task        <- TaskRow,
    attempts    <- << [ status |-> "succeeded", version |-> Accepted, by |-> Main ] >>,
    calls       <- {},
    change      <- ChangeRow,
    plan        <- PlanSeen,
    issues      <- IssuesSeen,
    archive     <- status = "archived"

\* Row by row, the handlers of execution do to the task what TaskLifecycle says they do.
StepsOfTheBoard == [][Board!UserStep]_(Board!vars)

=============================================================================
