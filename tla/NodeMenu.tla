------------------------------ MODULE NodeMenu ------------------------------
(***************************************************************************)
(* What the inbox asks of people while a task is executed and reviewed:    *)
(* the items of list_inbox, next to what the handlers of NodeExecution     *)
(* accept from those it asks.                                              *)
(*                                                                         *)
(* The periodic report, which only reminds, and the verdicts on a change   *)
(* request, which are always offered and seldom accepted, are left out.    *)
(***************************************************************************)
EXTENDS NodeExecution

\* The reviewer of the task, and the owner and the reporter of an issue, may be anybody.
Item(who, action, what) == [ who |-> who, action |-> action, what |-> what ]

-----------------------------------------------------------------------------
(* The node menu *)

\* _node_can_execute: the assignment of a collaborator is not looked at.
CanExecute(p, n) == p \in { Main, nodes[n].owner }

\* _can_reopen_node, for the reviewer.
CanReopen(n) ==
  status = "in_progress" /\ nodes[n].state = "completed" /\ rework = n /\ ~reopened

\* _node_actions, for those who execute.
NodeActions(n) ==
  { a \in { "start_node" } : nodes[n].state = "pending" /\ PredecessorsCompleted(n) }
    \cup { a \in { "update_node" } : nodes[n].state = "in_progress" }
    \cup { a \in { "complete_node" } :
             /\ nodes[n].state = "in_progress"
             /\ ~ \E i \in Issues : ActiveBlocker(i) /\ issues[i].node = n }

-----------------------------------------------------------------------------
(* The inbox *)

NodeItems(n) ==
  { Item(p, a, n) : p \in { q \in People : CanExecute(q, n) }, a \in NodeActions(n) }
    \cup { Item("reviewer", a, n) : a \in { b \in { "reopen_node" } : CanReopen(n) } }

SubmissionItems ==
  { Item(Main, a, None) : a \in { b \in { "submit_completion" } :
      /\ AllCompleted
      /\ ~ \E i \in Issues : Unclosed(i)
      /\ ~(rework # None /\ ~reopened) } }

\* Mutant: the reporter is not asked to close what was settled.
ActiveIssueItems(i) ==
  CASE issues[i].status = "open" ->
         { Item("issue owner", a, i) : a \in { "processing", "resolved", "rejected" } }
    [] issues[i].status = "processing" ->
         { Item("issue owner", a, i) : a \in { "resolved", "rejected" } }
    [] OTHER -> {}

\* list_actionable_for and issue_allowed_actions, whatever the status of the task.
IssueItems(i) ==
  CASE issues[i].status = "open" ->
         { Item("issue owner", a, i) : a \in { "processing", "resolved", "rejected" } }
    [] issues[i].status = "processing" ->
         { Item("issue owner", a, i) : a \in { "resolved", "rejected" } }
    [] issues[i].status \in { "resolved", "rejected" } -> { Item("issue reporter", "closed", i) }
    [] OTHER -> {}

ReviewItems ==
  { Item("reviewer", a, None) : a \in { "approve_completion", "reject_completion" } }

\* list_inbox: a blocked task asks for its issues only.
Inbox ==
  (CASE status = "in_progress"    -> SubmissionItems \cup UNION { NodeItems(n) : n \in Planned }
     [] status = "pending_review" -> ReviewItems
     [] OTHER                     -> {})
  \cup UNION { IssueItems(i) : i \in Issues }

-----------------------------------------------------------------------------
(* What the handlers say to those who are asked *)

\* The handler's own condition, and that it takes the caller for the owner of the node.
Served(item) ==
  CASE item.action = "start_node" ->
         nodes[item.what].owner = item.who /\ MayStart(item.what)
    [] item.action = "update_node" ->
         nodes[item.what].owner = item.who /\ \E q \in 0..Full : MayUpdate(item.what, q)
    [] item.action = "complete_node" ->
         nodes[item.what].owner = item.who /\ MayComplete(item.what)
    [] item.action = "reopen_node"        -> MayReopen(item.what)
    [] item.action = "submit_completion"  -> MaySubmit
    [] item.action = "approve_completion" -> MayApprove
    [] item.action = "reject_completion"  -> MayReject(None)
    [] OTHER                              -> MayTransition(item.what, item.action)

-----------------------------------------------------------------------------
(* Properties *)

\* A change request may write a completed node at less than 100 percent; a collaborator may
\* keep his assignment waiting or refuse it.  Both leave the task to another plan.
Workable ==
  \A n \in Planned :
    /\ nodes[n].state = "completed" => nodes[n].progress = Full
    /\ MayExecute(n)

\* Until a task is approved, the inbox of somebody holds an action, of which the handler
\* says yes to that person: dependencies, rework, blockers and open issues never leave
\* everyone waiting for everyone else.
SomebodyIsAsked ==
  status # "archived" /\ Workable => \E item \in Inbox : Served(item)

=============================================================================
