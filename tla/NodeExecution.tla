---------------------------- MODULE NodeExecution ----------------------------
(***************************************************************************)
(* The execution of one effective task, from the delivery of its nodes to  *)
(* its approval: nodes, dependencies, assignments, issues, reports, the    *)
(* plan changes and the completion review, row by row.  TaskLifecycle sees *)
(* the same rows only as "plan" and "issues".                              *)
(*                                                                         *)
(* Every handler locks the task and compares task_version, so each is one  *)
(* atomic action; the version itself is left out, except that a pending    *)
(* change request is stale as soon as a handler advances it.               *)
(***************************************************************************)
EXTENDS TaskStatus, PlanGraph

CONSTANTS
  Nodes,   \* the node ids that are ever used
  Issues,  \* bound: the issues that are ever filed
  People,  \* who may own nodes
  Main,    \* the main assignee, one of them
  Full,    \* the progress that stands for 100 percent
  None     \* no node

ASSUME MainIsAPerson == Main \in People
ASSUME FullIsPositive == Full \in Nat \ {0}
ASSUME NoneIsNoNode == None \notin Nodes

VARIABLES
  status,   \* tasks.status
  nodes,    \* the rows of task_nodes
  deps,     \* the rows of task_node_dependencies, as edges
  issues,   \* the rows of task_issues
  change,   \* the pending change request: "none", "current" or "stale"
  rework,   \* rework_node_id of the latest rejected review
  reopened, \* a node_reopened log refers to that review
  cited,    \* the nodes that rows of other tables refer to
  patched   \* history: a change request that edits the plan was approved

vars == << status, nodes, deps, issues, change, rework, reopened, cited, patched >>

-----------------------------------------------------------------------------
(* Rows *)

NodeState == { "absent", "pending", "in_progress", "completed" }

Node ==
  [ state      : NodeState,
    progress   : 0..Full,
    owner      : People,
    assignment : { "pending", "accepted", "rejected" } ]

NoRow == [ state |-> "absent", progress |-> 0, owner |-> Main, assignment |-> "accepted" ]

IssueStatus == { "open", "processing", "resolved", "rejected", "closed" }

Issue ==
  [ status  : { "unfiled" } \cup IssueStatus,
    blocker : BOOLEAN,
    node    : Nodes \cup {None} ]

Unfiled == [ status |-> "unfiled", blocker |-> FALSE, node |-> None ]

TypeOK ==
  /\ status \in { "in_progress", "blocked", "pending_review", "archived" }
  /\ nodes \in [ Nodes -> Node ]
  /\ deps \subseteq Nodes \X Nodes
  /\ issues \in [ Issues -> Issue ]
  /\ change \in { "none", "current", "stale" }
  /\ rework \in Nodes \cup {None}
  /\ reopened \in BOOLEAN
  /\ cited \subseteq Nodes
  /\ patched \in BOOLEAN

-----------------------------------------------------------------------------
(* Helpers *)

Planned == { n \in Nodes : nodes[n].state # "absent" }

Executing == status \in ExecutionStatus

\* Mutant: only the ends of the edges are validated.
ValidEnds(N, edges) == N # {} /\ edges \subseteq N \X N

\* A plan has a node, and a dependency graph.
ValidPlan(N, edges) == N # {} /\ Acyclic(N, edges)

\* Whatever commits advances task_version and leaves a pending change request behind.
Advance == change' = IF change = "current" THEN "stale" ELSE change

\* _require_node_actor: the owner executes, a collaborator only once accepted.
MayExecute(n) == nodes[n].owner = Main \/ nodes[n].assignment = "accepted"

\* Mutant: only the direct predecessors that are not started are waited for.
StartedPredecessors(n) == \A p \in Nodes : << p, n >> \in deps => nodes[p].state # "pending"

\* _require_dependencies_completed
PredecessorsCompleted(n) ==
  \A p \in Nodes : << p, n >> \in deps => nodes[p].state = "completed"

ActiveBlocker(i) == issues[i].blocker /\ issues[i].status \in { "open", "processing" }

\* has_non_closed
Unclosed(i) == issues[i].status \notin { "unfiled", "closed" }

\* Mutant: the progress of a completed node is not looked at.
AllCompletedStates == Planned # {} /\ \A n \in Planned : nodes[n].state = "completed"

\* _require_completed_nodes on the nodes of the task.
AllCompleted ==
  /\ Planned # {}
  /\ \A n \in Planned : nodes[n].state = "completed" /\ nodes[n].progress = Full

-----------------------------------------------------------------------------
(* Delivery and plan *)

\* complete_result: the delivered nodes, pending; collaborators are still to accept.  The
\* rule that announces an assignment refers to its node, those of other nodes depend on
\* their planned times.
Init ==
  /\ status = "in_progress"
  /\ \E N \in (SUBSET Nodes) \ { {} }, owner \in [ Nodes -> People ] :
       /\ nodes = [ n \in Nodes |->
                      IF n \in N
                        THEN [ state |-> "pending", progress |-> 0, owner |-> owner[n],
                               assignment |-> IF owner[n] = Main THEN "accepted"
                                              ELSE "pending" ]
                        ELSE NoRow ]
       /\ deps \in SUBSET (N \X N)
       /\ Acyclic(N, deps)
       /\ cited \in { c \in SUBSET N : \A n \in N : owner[n] # Main => n \in c }
  /\ issues = [ i \in Issues |-> Unfiled ]
  /\ change = "none"
  /\ rework = None /\ reopened = FALSE
  /\ patched = FALSE

\* confirm_task_plan: the main assignee replaces a plan nobody started.  Nodes that stay
\* keep assignment_status, new ones get the column's default.
ConfirmTaskPlan(N, owner, edges) ==
  /\ status = "in_progress"
  /\ \A n \in Planned : nodes[n].state = "pending" /\ nodes[n].progress = 0
  /\ ValidPlan(N, edges)
  /\ Planned \cap cited \subseteq N
  /\ nodes' = [ n \in Nodes |->
                  IF n \in N
                    THEN [ state |-> "pending", progress |-> 0, owner |-> owner[n],
                           assignment |-> nodes[n].assignment ]
                    ELSE NoRow ]
  /\ deps' = edges
  /\ Advance
  /\ UNCHANGED << status, issues, rework, reopened, cited, patched >>

CreateChange ==
  /\ Executing
  /\ change = "none"
  /\ change' = "current"
  /\ UNCHANGED << status, nodes, deps, issues, rework, reopened, cited, patched >>

\* reject_change_request, cancel_change_request
DropChange ==
  /\ change = "current"
  /\ change' = "none"
  /\ UNCHANGED << status, nodes, deps, issues, rework, reopened, cited, patched >>

\* Mutant: completed nodes may be patched like the others.
AnyNodes(rows) == TRUE

\* _validate_candidate_structure: completed nodes stay, completed at 100 percent.
CompletedNodesStay(rows) ==
  \A n \in Nodes :
    nodes[n].state = "completed" =>
      rows[n].state = "completed" /\ rows[n].progress = Full

\* Rows of reviews, issues and reminders restrict the deletion of the node they refer to.
DeletesUncited(rows) == \A n \in cited : rows[n].state # "absent"

\* approve_change_request: task fields only, or the nodes and dependencies as patched.
\* A patch may write any column of a node; here it edits one node, or the edges.
ApproveChange(rows, edges) ==
  /\ change = "current"
  /\ change' = "none"
  /\ rows # nodes =>
       /\ CompletedNodesStay(rows)
       /\ DeletesUncited(rows)
  /\ ValidPlan({ n \in Nodes : rows[n].state # "absent" }, edges)
  /\ nodes' = rows
  /\ deps' = edges
  /\ patched' = (patched \/ rows # nodes \/ edges # deps)
  /\ UNCHANGED << status, issues, rework, reopened, cited >>

\* The patches of one node: drop it, give it away, add it or set its state and progress.
PatchedRow(n) ==
  {NoRow}
    \cup { row \in Node :
             /\ row.state # "absent"
             /\ row.assignment = nodes[n].assignment
             /\ \/ row.owner = nodes[n].owner
                \/ row.state = nodes[n].state /\ row.progress = nodes[n].progress }

EdgesWithin(N) == { e \in deps : e[1] \in N /\ e[2] \in N }

-----------------------------------------------------------------------------
(* Nodes *)

\* What a handler requires has a name of its own: it is also what its caller may count on.
MayStart(n) ==
  /\ Executing
  /\ nodes[n].state = "pending"
  /\ MayExecute(n)
  /\ PredecessorsCompleted(n)

StartNode(n) ==
  /\ MayStart(n)
  /\ nodes' = [ nodes EXCEPT ![n].state = "in_progress" ]
  /\ Advance
  /\ UNCHANGED << status, deps, issues, rework, reopened, cited, patched >>

MayUpdate(n, q) ==
  /\ Executing
  /\ nodes[n].state = "in_progress"
  /\ MayExecute(n)
  /\ q >= nodes[n].progress

UpdateNodeProgress(n, q) ==
  /\ MayUpdate(n, q)
  /\ nodes' = [ nodes EXCEPT ![n].progress = q ]
  /\ Advance
  /\ UNCHANGED << status, deps, issues, rework, reopened, cited, patched >>

MayComplete(n) ==
  /\ Executing
  /\ nodes[n].state = "in_progress"
  /\ MayExecute(n)
  /\ PredecessorsCompleted(n)
  /\ ~ \E i \in Issues : ActiveBlocker(i) /\ issues[i].node = n

\* Mutant: the state is stored under a name that no other handler tests.
CompleteNodeDone(n) ==
  /\ MayComplete(n)
  /\ nodes' = [ nodes EXCEPT ![n].state = "done", ![n].progress = Full ]
  /\ Advance
  /\ UNCHANGED << status, deps, issues, rework, reopened, cited, patched >>

CompleteNode(n) ==
  /\ MayComplete(n)
  /\ nodes' = [ nodes EXCEPT ![n].state = "completed", ![n].progress = Full ]
  /\ Advance
  /\ UNCHANGED << status, deps, issues, rework, reopened, cited, patched >>

\* accept_node_assignment, reject_node_assignment, by the owner.
AnswerAssignment(n, answer) ==
  /\ Executing
  /\ nodes[n].state # "absent"
  /\ nodes[n].owner # Main
  /\ nodes[n].assignment = "pending"
  /\ nodes' = [ nodes EXCEPT ![n].assignment = answer ]
  /\ Advance
  /\ UNCHANGED << status, deps, issues, rework, reopened, cited, patched >>

MayReopen(n) ==
  /\ status = "in_progress"
  /\ rework = n
  /\ ~reopened
  /\ nodes[n].state = "completed"

\* reopen_node: by the reviewer, once, the node the latest rejection names.
ReopenNode(n) ==
  /\ MayReopen(n)
  /\ nodes' = [ nodes EXCEPT ![n].state = "in_progress", ![n].progress = 0 ]
  /\ reopened' = TRUE
  /\ Advance
  /\ UNCHANGED << status, deps, issues, rework, cited, patched >>

\* scan_reminders: a rule for an overdue node.  No task_version is involved.
RemindOfNode(n) ==
  /\ Executing
  /\ nodes[n].state \in { "pending", "in_progress" }
  /\ nodes[n].assignment = "accepted"
  /\ cited' = cited \cup {n}
  /\ UNCHANGED << status, nodes, deps, issues, change, rework, reopened, patched >>

-----------------------------------------------------------------------------
(* Reports and issues *)

File(i, blocker, n) ==
  /\ issues[i].status = "unfiled"
  /\ issues' = [ issues EXCEPT ![i] = [ status |-> "open", blocker |-> blocker, node |-> n ] ]
  /\ cited' = cited \cup ({n} \ {None})

\* submit: a report with an issue files a blocker on the task.
ReportProblem(i) ==
  /\ Executing
  /\ File(i, TRUE, None)
  /\ status' = "blocked"
  /\ Advance
  /\ UNCHANGED << nodes, deps, rework, reopened, patched >>

\* submit: a report without one takes the task to in_progress, whatever blocks it.
ReportProgress ==
  /\ Executing
  /\ status' = "in_progress"
  /\ Advance
  /\ UNCHANGED << nodes, deps, issues, rework, reopened, cited, patched >>

CreateIssue(i, blocker, n) ==
  /\ Executing
  /\ n \in Planned \cup {None}
  /\ File(i, blocker, n)
  /\ status' = IF blocker THEN "blocked" ELSE status
  /\ Advance
  /\ UNCHANGED << nodes, deps, rework, reopened, patched >>

\* ISSUE_TRANSITIONS
IssueMayBecome(from, to) ==
  \/ to = "processing" /\ from = "open"
  \/ to \in { "resolved", "rejected" } /\ from \in { "open", "processing" }
  \/ to = "closed" /\ from \in { "resolved", "rejected" }

\* Mutant: the release is only tried when an active blocker is settled.
ReleasedByBlocker(i, to) ==
  status = "blocked" /\ to \in { "resolved", "rejected" } /\ ~ \E j \in Issues : ActiveBlocker(j)

\* transition asks the database before its own change is flushed.
Released(i, to) ==
  /\ status = "blocked"
  /\ to \in { "resolved", "rejected", "closed" }
  /\ ~ \E j \in Issues : ActiveBlocker(j)

MayTransition(i, to) == Executing /\ IssueMayBecome(issues[i].status, to)

TransitionIssue(i, to) ==
  /\ MayTransition(i, to)
  /\ issues' = [ issues EXCEPT ![i].status = to ]
  /\ status' = IF Released(i, to) THEN "in_progress" ELSE status
  /\ Advance
  /\ UNCHANGED << nodes, deps, rework, reopened, cited, patched >>

-----------------------------------------------------------------------------
(* Completion review *)

\* Mutant: the rejected node need not be reopened.
NothingToReopen == TRUE

ReworkDone ==
  rework # None =>
    /\ reopened
    /\ nodes[rework].state = "completed" /\ nodes[rework].progress = Full

MaySubmit == Executing /\ AllCompleted /\ ~ (\E i \in Issues : Unclosed(i)) /\ ReworkDone

SubmitCompletion ==
  /\ MaySubmit
  /\ status' = "pending_review"
  /\ Advance
  /\ UNCHANGED << nodes, deps, issues, rework, reopened, cited, patched >>

MayApprove == status = "pending_review" /\ AllCompleted /\ ~ \E i \in Issues : Unclosed(i)

ApproveCompletion ==
  /\ MayApprove
  /\ status' = "archived"
  /\ Advance
  /\ UNCHANGED << nodes, deps, issues, rework, reopened, cited, patched >>

MayReject(n) == status = "pending_review" /\ (n # None => nodes[n].state = "completed")

\* reject_completion, with or without a node to rework.
RejectCompletion(n) ==
  /\ MayReject(n)
  /\ status' = "in_progress"
  /\ rework' = n
  /\ reopened' = FALSE
  /\ cited' = cited \cup ({n} \ {None})
  /\ Advance
  /\ UNCHANGED << nodes, deps, issues, patched >>

-----------------------------------------------------------------------------
(* Specification *)

PlanStep ==
  \/ \E N \in SUBSET Nodes : \E owner \in [ N -> People ], edges \in SUBSET (N \X N) :
       ConfirmTaskPlan(N, owner, edges)
  \/ CreateChange
  \/ DropChange
  \/ \E n \in Nodes : \E row \in PatchedRow(n) :
       LET rows == [ nodes EXCEPT ![n] = row ]
       IN  ApproveChange(rows, EdgesWithin({ m \in Nodes : rows[m].state # "absent" }))
  \/ \E edges \in SUBSET (Planned \X Planned) : ApproveChange(nodes, edges)

NodeStep ==
  \E n \in Nodes :
    \/ StartNode(n)
    \/ \E q \in 0..Full : UpdateNodeProgress(n, q)
    \/ CompleteNode(n)
    \/ \E answer \in { "accepted", "rejected" } : AnswerAssignment(n, answer)
    \/ ReopenNode(n)

IssueTrack ==
  \/ ReportProgress
  \/ \E i \in Issues :
       \/ ReportProblem(i)
       \/ \E blocker \in BOOLEAN, n \in Nodes \cup {None} : CreateIssue(i, blocker, n)
       \/ \E to \in IssueStatus : TransitionIssue(i, to)

ReviewStep ==
  \/ SubmitCompletion
  \/ ApproveCompletion
  \/ \E n \in Nodes \cup {None} : RejectCompletion(n)

HandlerStep == PlanStep \/ NodeStep \/ IssueTrack \/ ReviewStep

Next ==
  \/ HandlerStep
  \/ \E n \in Nodes : RemindOfNode(n)

Spec == Init /\ [][Next]_vars

-----------------------------------------------------------------------------
(* Safety *)

\* What a reviewer decides on, and what he approved, is complete: every node done at
\* 100 percent and every issue closed, from the submission on.
ReviewedIsComplete ==
  status \in { "pending_review", "archived" } =>
    /\ Planned # {}
    /\ \A n \in Planned : nodes[n].state = "completed" /\ nodes[n].progress = Full
    /\ \A i \in Issues : issues[i].status \in { "unfiled", "closed" }

\* The node a rejection names can be reopened until it is: neither a new plan nor a
\* change request can take it away or undo its completion, so the task is not stuck.
ReworkNodeStays ==
  rework # None =>
    /\ nodes[rework].state # "absent"
    /\ ~reopened => nodes[rework].state = "completed"

\* However plans, change requests and deletions follow one another, the edges are
\* between nodes of the plan and some node can always be started first.
DependenciesAreAcyclic == Acyclic(Planned, deps)

\* Work follows the dependencies.  Only a change request that edits the plan puts a
\* started node after an unfinished one, and the rework of the predecessor itself.
StartedInOrder ==
  ~patched =>
    \A e \in deps :
      nodes[e[2]].state # "pending" =>
        nodes[e[1]].state = "completed" \/ (rework = e[1] /\ reopened)

\* A blocked task has an issue somebody can still move, and moving issues to the end
\* releases it.
BlockedHasOpenIssue ==
  status = "blocked" => \E i \in Issues : issues[i].status \notin { "unfiled", "closed" }

-----------------------------------------------------------------------------
(* Refinement *)

Stage ==
  CASE status = "pending_review" -> "reviewing"
    [] status = "archived" -> "accepted"
    [] OTHER -> "working"

Finished == { n \in Nodes : nodes[n].state = "completed" }

\* A rework that is not reopened yet.
Owed == IF rework = None \/ reopened THEN {} ELSE {rework}

Contract ==
  INSTANCE ExecutionContract
    WITH stage <- Stage, planned <- Planned, finished <- Finished, owed <- Owed

\* Nodes, plan changes and review together keep what the execution of a task promises.
ImplementsContract == Contract!Spec

=============================================================================
