------------------------- MODULE NodeExecutionProofs -------------------------
(***************************************************************************)
(* What holds of the execution of a task for any nodes, issues and people. *)
(***************************************************************************)
EXTENDS NodeMenu, ExecutedTask, NaturalsInduction, WellFoundedInduction, TLAPS

-----------------------------------------------------------------------------
(* Types *)

\* A row with another state and progress is a row.
LEMMA RowTyped ==
  ASSUME NEW r \in Node, NEW s \in NodeState, NEW q \in 0..Full
  PROVE  [ r EXCEPT !.state = s, !.progress = q ] \in Node
BY DEF Node

\* A new row is one; so is the absent one.
LEMMA NewRowTyped ==
  /\ NoRow \in Node
  /\ \A p \in People, a \in { "pending", "accepted", "rejected" } :
       [ state |-> "pending", progress |-> 0, owner |-> p, assignment |-> a ] \in Node
  /\ 0 \in 0..Full /\ Full \in 0..Full
<1>1. 0 \in 0..Full /\ Full \in 0..Full
  BY FullIsPositive
<1> QED
  BY <1>1, MainIsAPerson DEF Node, NodeState, NoRow

\* One issue filed or moved.
LEMMA IssueTyped ==
  ASSUME issues \in [ Issues -> Issue ], NEW i \in Issues, NEW to \in IssueStatus,
         NEW blocker \in BOOLEAN, NEW n \in Nodes \cup {None}
  PROVE  /\ [ issues EXCEPT ![i].status = to ] \in [ Issues -> Issue ]
         /\ [ issues EXCEPT ![i] = [ status |-> "open", blocker |-> blocker, node |-> n ] ]
              \in [ Issues -> Issue ]
<1>1. [ issues[i] EXCEPT !.status = to ] \in Issue
  BY DEF Issue
<1>2. [ status |-> "open", blocker |-> blocker, node |-> n ] \in Issue
  BY DEF Issue, IssueStatus
<1> QED
  BY <1>1, <1>2

LEMMA InitTyped == Init => TypeOK
<1> SUFFICES ASSUME Init
             PROVE  TypeOK
  OBVIOUS
<1>1. PICK N \in (SUBSET Nodes) \ { {} }, owner \in [ Nodes -> People ] :
        /\ nodes = [ n \in Nodes |->
                       IF n \in N
                         THEN [ state |-> "pending", progress |-> 0, owner |-> owner[n],
                                assignment |-> IF owner[n] = Main THEN "accepted"
                                               ELSE "pending" ]
                         ELSE NoRow ]
        /\ deps \in SUBSET (N \X N)
  BY DEF Init
<1>2. nodes \in [ Nodes -> Node ]
  BY <1>1, NewRowTyped
<1>3. deps \subseteq Nodes \X Nodes
  BY <1>1
<1>4. issues \in [ Issues -> Issue ]
  BY DEF Init, Issue, Unfiled
<1> QED
  BY <1>2, <1>3, <1>4 DEF Init, TypeOK

\* The nodes and edges that plans and change requests write are typed.
LEMMA PlanTyped == TypeOK /\ PlanStep => TypeOK'
<1> SUFFICES ASSUME TypeOK, PlanStep
             PROVE  TypeOK'
  OBVIOUS
<1>1. ASSUME NEW N \in SUBSET Nodes, NEW owner \in [ N -> People ],
             NEW edges \in SUBSET (N \X N), ConfirmTaskPlan(N, owner, edges)
      PROVE  TypeOK'
  <2>1. \A n \in N : [ state |-> "pending", progress |-> 0, owner |-> owner[n],
                       assignment |-> nodes[n].assignment ] \in Node
    BY NewRowTyped DEF TypeOK, Node
  <2>2. nodes' \in [ Nodes -> Node ]
    BY <1>1, <2>1, NewRowTyped DEF ConfirmTaskPlan
  <2>3. deps' \subseteq Nodes \X Nodes
    BY <1>1 DEF ConfirmTaskPlan
  <2> QED
    BY <1>1, <2>2, <2>3 DEF ConfirmTaskPlan, Advance, TypeOK
<1>2. CASE CreateChange \/ DropChange
  BY <1>2 DEF CreateChange, DropChange, TypeOK
<1>3. ASSUME NEW rows \in [ Nodes -> Node ], NEW edges \in SUBSET (Nodes \X Nodes),
             ApproveChange(rows, edges)
      PROVE  TypeOK'
  <2>1. nodes' \in [ Nodes -> Node ] /\ deps' \subseteq Nodes \X Nodes
    BY <1>3 DEF ApproveChange
  <2>2. patched' \in BOOLEAN
    BY <1>3 DEF ApproveChange, TypeOK
  <2> QED
    BY <1>3, <2>1, <2>2 DEF ApproveChange, TypeOK
<1>4. ASSUME NEW n \in Nodes, NEW row \in PatchedRow(n)
      PROVE  [ nodes EXCEPT ![n] = row ] \in [ Nodes -> Node ]
  <2>1. row \in Node
    BY NewRowTyped DEF PatchedRow
  <2> QED
    BY <2>1 DEF TypeOK
<1>5. \A N \in SUBSET Nodes : EdgesWithin(N) \in SUBSET (Nodes \X Nodes)
  BY DEF EdgesWithin, TypeOK
<1>6. CASE \E n \in Nodes : \E row \in PatchedRow(n) :
             LET rows == [ nodes EXCEPT ![n] = row ]
             IN  ApproveChange(rows, EdgesWithin({ m \in Nodes : rows[m].state # "absent" }))
  BY <1>3, <1>4, <1>5, <1>6
<1>7. CASE \E edges \in SUBSET (Planned \X Planned) : ApproveChange(nodes, edges)
  BY <1>3, <1>7 DEF Planned, TypeOK
<1> QED
  BY <1>1, <1>2, <1>6, <1>7 DEF PlanStep

LEMMA NodeStepTyped == TypeOK /\ NodeStep => TypeOK'
<1> SUFFICES ASSUME TypeOK, NEW n \in Nodes,
                    \/ StartNode(n)
                    \/ \E q \in 0..Full : UpdateNodeProgress(n, q)
                    \/ CompleteNode(n)
                    \/ \E answer \in { "accepted", "rejected" } : AnswerAssignment(n, answer)
                    \/ ReopenNode(n)
             PROVE  TypeOK'
  BY DEF NodeStep
<1>1. nodes \in [ Nodes -> Node ] /\ nodes[n] \in Node
  BY DEF TypeOK
<1>2. nodes' \in [ Nodes -> Node ]
  <2>1. CASE StartNode(n)
    <3>1. [ nodes[n] EXCEPT !.state = "in_progress" ] \in Node
      BY <1>1 DEF Node, NodeState
    <3> QED
      BY <1>1, <2>1, <3>1 DEF StartNode
  <2>2. CASE \E q \in 0..Full : UpdateNodeProgress(n, q)
    <3>1. \A q \in 0..Full : [ nodes[n] EXCEPT !.progress = q ] \in Node
      BY <1>1 DEF Node
    <3> QED
      BY <1>1, <2>2, <3>1 DEF UpdateNodeProgress
  <2>3. CASE CompleteNode(n)
    <3>1. [ nodes[n] EXCEPT !.state = "completed", !.progress = Full ] \in Node
      BY <1>1, NewRowTyped, RowTyped DEF NodeState
    <3> QED
      BY <1>1, <2>3, <3>1 DEF CompleteNode
  <2>4. CASE \E answer \in { "accepted", "rejected" } : AnswerAssignment(n, answer)
    <3>1. \A answer \in { "accepted", "rejected" } :
            [ nodes[n] EXCEPT !.assignment = answer ] \in Node
      BY <1>1 DEF Node
    <3> QED
      BY <1>1, <2>4, <3>1 DEF AnswerAssignment
  <2>5. CASE ReopenNode(n)
    <3>1. [ nodes[n] EXCEPT !.state = "in_progress", !.progress = 0 ] \in Node
      BY <1>1, NewRowTyped, RowTyped DEF NodeState
    <3> QED
      BY <1>1, <2>5, <3>1 DEF ReopenNode
  <2> QED
    BY <2>1, <2>2, <2>3, <2>4, <2>5
<1> QED
  BY <1>2 DEF TypeOK, StartNode, UpdateNodeProgress, CompleteNode, AnswerAssignment, ReopenNode,
     Advance

LEMMA IssueTrackTyped == TypeOK /\ IssueTrack => TypeOK'
<1> SUFFICES ASSUME TypeOK, IssueTrack
             PROVE  TypeOK'
  OBVIOUS
<1>1. CASE ReportProgress
  BY <1>1 DEF ReportProgress, Advance, TypeOK
<1>2. ASSUME NEW i \in Issues, ReportProblem(i)
      PROVE  TypeOK'
  BY <1>2, IssueTyped DEF ReportProblem, File, Advance, TypeOK, IssueStatus
<1>3. ASSUME NEW i \in Issues, NEW blocker \in BOOLEAN, NEW n \in Nodes \cup {None},
             CreateIssue(i, blocker, n)
      PROVE  TypeOK'
  BY <1>3, IssueTyped DEF CreateIssue, File, Advance, TypeOK, IssueStatus
<1>4. ASSUME NEW i \in Issues, NEW to \in IssueStatus, TransitionIssue(i, to)
      PROVE  TypeOK'
  BY <1>4, IssueTyped DEF TransitionIssue, Advance, TypeOK
<1> QED
  BY <1>1, <1>2, <1>3, <1>4 DEF IssueTrack

LEMMA ReviewStepTyped == TypeOK /\ ReviewStep => TypeOK'
BY DEF ReviewStep, SubmitCompletion, ApproveCompletion, RejectCompletion, Advance, TypeOK

LEMMA HandlerStepTyped == TypeOK /\ HandlerStep => TypeOK'
BY PlanTyped, NodeStepTyped, IssueTrackTyped, ReviewStepTyped DEF HandlerStep

LEMMA RemindTyped == ASSUME TypeOK, NEW n \in Nodes, RemindOfNode(n) PROVE TypeOK'
BY DEF RemindOfNode, TypeOK

LEMMA StepTyped == TypeOK /\ [Next]_vars => TypeOK'
<1>1. TypeOK /\ UNCHANGED vars => TypeOK'
  BY DEF TypeOK, vars
<1> QED
  BY <1>1, HandlerStepTyped, RemindTyped DEF Next

\* Every handler of the execution keeps the rows typed.
THEOREM TypeCorrect == Spec => []TypeOK
BY InitTyped, StepTyped, PTL DEF Spec

-----------------------------------------------------------------------------
(* The inductive invariant *)

\* A change request is current only while nobody advanced the version, hence the status.
ChangeInv == change = "current" => Executing

\* The node to rework is cited by the review that names it, so it cannot be deleted.
ReworkInv == ReworkNodeStays /\ (rework # None => rework \in cited)

\* A plan is never emptied.
HasPlan == Planned # {}

IInv ==
  /\ TypeOK
  /\ HasPlan
  /\ ChangeInv
  /\ ReviewedIsComplete
  /\ ReworkInv
  /\ DependenciesAreAcyclic
  /\ StartedInOrder
  /\ BlockedHasOpenIssue

\* The delivered nodes and edges.
LEMMA InitDelivered ==
  ASSUME Init
  PROVE  /\ Planned # {}
         /\ Acyclic(Planned, deps)
         /\ \A n \in Nodes : nodes[n].state \in { "pending", "absent" }
<1>1. PICK N \in (SUBSET Nodes) \ { {} }, owner \in [ Nodes -> People ] :
        /\ nodes = [ n \in Nodes |->
                       IF n \in N
                         THEN [ state |-> "pending", progress |-> 0, owner |-> owner[n],
                                assignment |-> IF owner[n] = Main THEN "accepted"
                                               ELSE "pending" ]
                         ELSE NoRow ]
        /\ Acyclic(N, deps)
  BY DEF Init
<1>2. \A n \in Nodes : nodes[n].state = IF n \in N THEN "pending" ELSE "absent"
  BY <1>1 DEF NoRow
<1>3. N \subseteq Nodes /\ N # {}
  BY <1>1
<1>4. Planned = N
  BY <1>2, <1>3 DEF Planned
<1>5. Acyclic(Planned, deps)
  BY <1>1, <1>4
<1> QED
  BY <1>2, <1>3, <1>4, <1>5

LEMMA InitIInv == Init => IInv
<1> SUFFICES ASSUME Init
             PROVE  IInv
  OBVIOUS
<1>1. TypeOK
  BY InitTyped
<1>2. \A e \in deps : nodes[e[2]].state = "pending"
  <2>1. deps \subseteq Planned \X Planned
    BY InitDelivered DEF Acyclic
  <2> QED
    BY <2>1, InitDelivered DEF Planned
<1>3. ChangeInv /\ ReviewedIsComplete /\ ReworkInv /\ BlockedHasOpenIssue
  BY DEF Init, ChangeInv, ReviewedIsComplete, ReworkInv, ReworkNodeStays, BlockedHasOpenIssue
<1>4. DependenciesAreAcyclic
  BY InitDelivered DEF DependenciesAreAcyclic
<1> QED
  BY InitDelivered, <1>1, <1>2, <1>3, <1>4 DEF IInv, HasPlan, StartedInOrder

-----------------------------------------------------------------------------
(* What the steps are *)

\* A change request is applied to rows and edges of the tables' types.
LEMMA PlanStepKinds ==
  ASSUME TypeOK, PlanStep
  PROVE  \/ \E N \in SUBSET Nodes : \E owner \in [ N -> People ], edges \in SUBSET (N \X N) :
              ConfirmTaskPlan(N, owner, edges)
         \/ CreateChange
         \/ DropChange
         \/ \E rows \in [ Nodes -> Node ], edges \in SUBSET (Nodes \X Nodes) :
              ApproveChange(rows, edges)
<1>1. CASE \E n \in Nodes : \E row \in PatchedRow(n) :
             LET rows == [ nodes EXCEPT ![n] = row ]
             IN  ApproveChange(rows, EdgesWithin({ m \in Nodes : rows[m].state # "absent" }))
  <2>0. PICK n \in Nodes :
          \E row \in PatchedRow(n) :
            LET rows == [ nodes EXCEPT ![n] = row ]
            IN  ApproveChange(rows, EdgesWithin({ m \in Nodes : rows[m].state # "absent" }))
    BY <1>1
  <2>1. PICK row \in PatchedRow(n) :
          LET rows == [ nodes EXCEPT ![n] = row ]
          IN  ApproveChange(rows, EdgesWithin({ m \in Nodes : rows[m].state # "absent" }))
    BY <2>0
  <2>2. [ nodes EXCEPT ![n] = row ] \in [ Nodes -> Node ]
    BY NewRowTyped DEF PatchedRow, TypeOK
  <2>3. \A N \in SUBSET Nodes : EdgesWithin(N) \in SUBSET (Nodes \X Nodes)
    BY DEF EdgesWithin, TypeOK
  <2> QED
    BY <2>1, <2>2, <2>3
<1>2. CASE \E edges \in SUBSET (Planned \X Planned) : ApproveChange(nodes, edges)
  BY <1>2 DEF Planned, TypeOK
<1> QED
  BY <1>1, <1>2 DEF PlanStep

\* Work on a node is done in execution; no node appears or disappears by it, and none
\* goes back to pending.
LEMMA NodeStepFrame ==
  ASSUME TypeOK, NodeStep
  PROVE  /\ Executing
         /\ Planned' = Planned
         /\ Advance
         /\ UNCHANGED << status, deps, issues, rework, cited, patched >>
<1> PICK n \in Nodes :
      \/ StartNode(n)
      \/ \E q \in 0..Full : UpdateNodeProgress(n, q)
      \/ CompleteNode(n)
      \/ \E answer \in { "accepted", "rejected" } : AnswerAssignment(n, answer)
      \/ ReopenNode(n)
  BY DEF NodeStep
<1>1. /\ Executing
      /\ Advance
      /\ UNCHANGED << status, deps, issues, rework, cited, patched >>
  BY DEF StartNode, UpdateNodeProgress, CompleteNode, AnswerAssignment, ReopenNode, Executing,
     ExecutionStatus, MayStart, MayUpdate, MayComplete, MayReopen
<1>2. /\ nodes[n].state # "absent"
      /\ nodes'[n].state # "absent"
      /\ \A m \in Nodes \ {n} : nodes'[m] = nodes[m]
  <2> USE DEF TypeOK, Node
  <2>1. CASE StartNode(n)
    BY <2>1 DEF StartNode, MayStart
  <2>2. CASE \E q \in 0..Full : UpdateNodeProgress(n, q)
    BY <2>2 DEF UpdateNodeProgress, MayUpdate
  <2>3. CASE CompleteNode(n)
    BY <2>3 DEF CompleteNode, MayComplete
  <2>4. CASE \E answer \in { "accepted", "rejected" } : AnswerAssignment(n, answer)
    BY <2>4 DEF AnswerAssignment
  <2>5. CASE ReopenNode(n)
    BY <2>5 DEF ReopenNode, MayReopen
  <2> QED
    BY <2>1, <2>2, <2>3, <2>4, <2>5
<1>3. Planned' = Planned
  BY <1>2 DEF Planned
<1> QED
  BY <1>1, <1>3

\* Reports and issues move the task between the statuses of execution only.
LEMMA IssueTrackFrame ==
  ASSUME IssueTrack
  PROVE  /\ Executing
         /\ Executing'
         /\ Advance
         /\ cited \subseteq cited'
         /\ UNCHANGED << nodes, deps, rework, reopened, patched >>
BY DEF IssueTrack, ReportProgress, ReportProblem, CreateIssue, TransitionIssue, File, Executing,
   ExecutionStatus, MayTransition

\* A submission, a decision, or its rejection: nodes, edges and issues stay.
LEMMA ReviewStepFrame ==
  ASSUME ReviewStep
  PROVE  /\ Advance
         /\ cited \subseteq cited'
         /\ UNCHANGED << nodes, deps, issues, patched >>
BY DEF ReviewStep, SubmitCompletion, ApproveCompletion, RejectCompletion

-----------------------------------------------------------------------------
(* Each part is kept *)

LEMMA PlanKept == IInv /\ HandlerStep => HasPlan'
<1> SUFFICES ASSUME IInv, HandlerStep
             PROVE  HasPlan'
  OBVIOUS
<1>1. CASE PlanStep
  <2>1. ASSUME NEW N \in SUBSET Nodes, NEW owner, NEW edges, ConfirmTaskPlan(N, owner, edges)
        PROVE  HasPlan'
    BY <2>1 DEF ConfirmTaskPlan, ValidPlan, Planned, HasPlan
  <2>2. ASSUME NEW rows, NEW edges, ApproveChange(rows, edges)
        PROVE  HasPlan'
    BY <2>2 DEF ApproveChange, ValidPlan, Planned, HasPlan
  <2>3. CASE CreateChange \/ DropChange
    BY <2>3 DEF IInv, CreateChange, DropChange, Planned, HasPlan
  <2> QED
    BY <1>1, <2>1, <2>2, <2>3, PlanStepKinds DEF IInv
<1>2. CASE ~PlanStep
  <2>1. Planned' = Planned
    BY <1>2, NodeStepFrame, IssueTrackFrame, ReviewStepFrame DEF IInv, HandlerStep, Planned
  <2> QED
    BY <2>1 DEF IInv, HasPlan
<1> QED
  BY <1>1, <1>2

LEMMA ChangeKept == IInv /\ HandlerStep => ChangeInv'
<1> SUFFICES ASSUME IInv, HandlerStep
             PROVE  ChangeInv'
  OBVIOUS
<1>1. Advance => change' # "current"
  BY DEF Advance
<1>2. CASE PlanStep
  BY <1>1, <1>2, PlanStepKinds DEF IInv, ChangeInv, ConfirmTaskPlan, CreateChange, DropChange,
     ApproveChange, Executing
<1> QED
  BY <1>1, <1>2, NodeStepFrame, IssueTrackFrame, ReviewStepFrame DEF IInv, ChangeInv, HandlerStep

LEMMA ReviewedKept == IInv /\ HandlerStep => ReviewedIsComplete'
<1> SUFFICES ASSUME IInv, HandlerStep
             PROVE  ReviewedIsComplete'
  OBVIOUS
<1>1. Executing' => ReviewedIsComplete'
  BY DEF Executing, ExecutionStatus, ReviewedIsComplete
<1>2. CASE PlanStep
  <2>1. Executing' \/ UNCHANGED << status, nodes, issues >>
    BY <1>2, PlanStepKinds DEF IInv, ChangeInv, ConfirmTaskPlan, CreateChange, DropChange,
       ApproveChange, Executing, ExecutionStatus
  <2> QED
    BY <1>1, <2>1 DEF IInv, ReviewedIsComplete, Planned
<1>3. CASE NodeStep
  BY <1>1, <1>3, NodeStepFrame DEF IInv, Executing
<1>4. CASE IssueTrack
  BY <1>1, <1>4, IssueTrackFrame
<1>5. CASE ReviewStep
  <2>1. CASE SubmitCompletion
    BY <2>1 DEF SubmitCompletion, ReviewedIsComplete, AllCompleted, Unclosed, Planned, MaySubmit
  <2>2. CASE ApproveCompletion
    BY <2>2 DEF ApproveCompletion, ReviewedIsComplete, AllCompleted, Unclosed, Planned, MayApprove
  <2>3. CASE \E n \in Nodes \cup {None} : RejectCompletion(n)
    BY <1>1, <2>3 DEF RejectCompletion, Executing, ExecutionStatus
  <2> QED
    BY <1>5, <2>1, <2>2, <2>3 DEF ReviewStep
<1> QED
  BY <1>2, <1>3, <1>4, <1>5 DEF HandlerStep

LEMMA ReworkKept == IInv /\ HandlerStep => ReworkInv'
<1> SUFFICES ASSUME IInv, HandlerStep
             PROVE  ReworkInv'
  OBVIOUS
<1> USE DEF ReworkInv, ReworkNodeStays
<1>0. rework \in Nodes \cup {None} /\ cited \subseteq Nodes
  BY DEF IInv, TypeOK
<1>1. CASE PlanStep
  <2>1. ASSUME NEW N \in SUBSET Nodes, NEW owner, NEW edges, ConfirmTaskPlan(N, owner, edges)
        PROVE  ReworkInv'
    \* A plan is confirmed only while no node is completed, and keeps the cited ones.
    <3>1. rework # None => reopened /\ rework \in N
      BY <1>0, <2>1 DEF IInv, ConfirmTaskPlan, Planned
    <3>2. \A n \in N : nodes'[n].state = "pending"
      BY <2>1 DEF ConfirmTaskPlan
    <3> QED
      BY <2>1, <3>1, <3>2 DEF IInv, ConfirmTaskPlan
  <2>2. ASSUME NEW rows, NEW edges, ApproveChange(rows, edges)
        PROVE  ReworkInv'
    BY <1>0, <2>2, NoneIsNoNode DEF IInv, ApproveChange, CompletedNodesStay, DeletesUncited
  <2>3. CASE CreateChange \/ DropChange
    BY <2>3 DEF IInv, CreateChange, DropChange
  <2> QED
    BY <1>1, <2>1, <2>2, <2>3, PlanStepKinds DEF IInv
<1>2. CASE NodeStep
  <2> PICK n \in Nodes :
        \/ StartNode(n)
        \/ \E q \in 0..Full : UpdateNodeProgress(n, q)
        \/ CompleteNode(n)
        \/ \E answer \in { "accepted", "rejected" } : AnswerAssignment(n, answer)
        \/ ReopenNode(n)
    BY <1>2 DEF NodeStep
  <2>1. rework # None => rework \in Planned'
    BY <1>0, <1>2, NodeStepFrame DEF IInv, Planned
  <2>2. ~reopened' /\ rework # None => nodes'[rework].state = "completed"
    <3> USE <1>0 DEF IInv, TypeOK, Node
    <3>1. CASE StartNode(n)
      BY <3>1 DEF StartNode, MayStart
    <3>2. CASE \E q \in 0..Full : UpdateNodeProgress(n, q)
      BY <3>2 DEF UpdateNodeProgress
    <3>3. CASE CompleteNode(n)
      BY <3>3 DEF CompleteNode
    <3>4. CASE \E answer \in { "accepted", "rejected" } : AnswerAssignment(n, answer)
      BY <3>4 DEF AnswerAssignment
    <3>5. CASE ReopenNode(n)
      BY <3>5 DEF ReopenNode
    <3> QED
      BY <3>1, <3>2, <3>3, <3>4, <3>5
  <2> QED
    BY <1>2, <2>1, <2>2, NodeStepFrame DEF IInv, Planned
<1>3. CASE IssueTrack
  BY <1>3, IssueTrackFrame DEF IInv
<1>4. CASE ReviewStep
  <2>1. CASE SubmitCompletion \/ ApproveCompletion
    BY <2>1 DEF IInv, SubmitCompletion, ApproveCompletion
  <2>2. CASE \E n \in Nodes \cup {None} : RejectCompletion(n)
    BY <2>2 DEF RejectCompletion, MayReject
  <2> QED
    BY <1>4, <2>1, <2>2 DEF ReviewStep
<1> QED
  BY <1>1, <1>2, <1>3, <1>4 DEF HandlerStep

LEMMA AcyclicKept == IInv /\ HandlerStep => DependenciesAreAcyclic'
<1> SUFFICES ASSUME IInv, HandlerStep
             PROVE  DependenciesAreAcyclic'
  OBVIOUS
<1>1. Planned' = Planned /\ deps' = deps => DependenciesAreAcyclic'
  BY DEF IInv, DependenciesAreAcyclic
<1>2. nodes' = nodes => Planned' = Planned
  BY DEF Planned
<1>3. CASE PlanStep
  <2>1. ASSUME NEW N \in SUBSET Nodes, NEW owner, NEW edges, ConfirmTaskPlan(N, owner, edges)
        PROVE  DependenciesAreAcyclic'
    <3>1. Planned' = N
      BY <2>1 DEF ConfirmTaskPlan, Planned, NoRow
    <3> QED
      BY <2>1, <3>1 DEF ConfirmTaskPlan, ValidPlan, DependenciesAreAcyclic
  <2>2. ASSUME NEW rows, NEW edges, ApproveChange(rows, edges)
        PROVE  DependenciesAreAcyclic'
    <3>1. Planned' = { n \in Nodes : rows[n].state # "absent" }
      BY <2>2 DEF ApproveChange, Planned
    <3> QED
      BY <2>2, <3>1 DEF ApproveChange, ValidPlan, DependenciesAreAcyclic
  <2>3. CASE CreateChange \/ DropChange
    BY <1>1, <1>2, <2>3 DEF CreateChange, DropChange
  <2> QED
    BY <1>3, <2>1, <2>2, <2>3, PlanStepKinds DEF IInv
<1>4. CASE NodeStep \/ IssueTrack \/ ReviewStep
  BY <1>1, <1>2, <1>4, NodeStepFrame, IssueTrackFrame, ReviewStepFrame DEF IInv
<1> QED
  BY <1>3, <1>4 DEF HandlerStep

LEMMA OrderKept == IInv /\ HandlerStep => StartedInOrder'
<1> SUFFICES ASSUME IInv, HandlerStep, ~patched',
                    NEW e \in deps', nodes'[e[2]].state # "pending"
             PROVE  nodes'[e[1]].state = "completed" \/ (rework' = e[1] /\ reopened')
  BY DEF StartedInOrder
<1>1. CASE PlanStep
  <2>1. ASSUME NEW N \in SUBSET Nodes, NEW owner, NEW edges \in SUBSET (N \X N),
               ConfirmTaskPlan(N, owner, edges)
        PROVE  FALSE
    BY <2>1 DEF ConfirmTaskPlan
  <2>2. ASSUME NEW rows, NEW edges, ApproveChange(rows, edges)
        PROVE  ~patched /\ UNCHANGED << nodes, deps, rework, reopened >>
    BY <2>2 DEF ApproveChange
  <2>3. CASE CreateChange \/ DropChange
    BY <2>3 DEF IInv, StartedInOrder, CreateChange, DropChange
  <2> QED
    BY <1>1, <2>1, <2>2, <2>3, PlanStepKinds DEF IInv, StartedInOrder
<1>2. CASE NodeStep
  <2>1. /\ e \in deps
        /\ e[1] \in Nodes /\ e[2] \in Nodes /\ e = << e[1], e[2] >>
        /\ ~patched
        /\ rework' = rework
    BY <1>2, NodeStepFrame DEF IInv, TypeOK
  <2>2. nodes[e[2]].state # "pending" =>
          nodes[e[1]].state = "completed" \/ (rework = e[1] /\ reopened)
    BY <2>1 DEF IInv, StartedInOrder
  <2> PICK n \in Nodes :
        \/ StartNode(n)
        \/ \E q \in 0..Full : UpdateNodeProgress(n, q)
        \/ CompleteNode(n)
        \/ \E answer \in { "accepted", "rejected" } : AnswerAssignment(n, answer)
        \/ ReopenNode(n)
    BY <1>2 DEF NodeStep
  <2> USE <2>1, <2>2 DEF IInv, TypeOK, Node
  <2>3. CASE StartNode(n)
    BY <2>3 DEF StartNode, PredecessorsCompleted, MayStart
  <2>4. CASE \E q \in 0..Full : UpdateNodeProgress(n, q)
    BY <2>4 DEF UpdateNodeProgress
  <2>5. CASE CompleteNode(n)
    BY <2>5 DEF CompleteNode, MayComplete
  <2>6. CASE \E answer \in { "accepted", "rejected" } : AnswerAssignment(n, answer)
    BY <2>6 DEF AnswerAssignment
  <2>7. CASE ReopenNode(n)
    BY <2>7 DEF ReopenNode, MayReopen
  <2> QED
    BY <2>3, <2>4, <2>5, <2>6, <2>7
<1>3. CASE IssueTrack
  BY <1>3, IssueTrackFrame DEF IInv, StartedInOrder
<1>4. CASE ReviewStep
  <2>1. CASE SubmitCompletion \/ ApproveCompletion
    BY <2>1 DEF IInv, StartedInOrder, SubmitCompletion, ApproveCompletion
  <2>2. CASE \E n \in Nodes \cup {None} : RejectCompletion(n)
    \* What is reviewed is complete: the predecessor was done again by then.
    <3>1. e[1] \in Planned
      BY <1>4, ReviewStepFrame DEF IInv, DependenciesAreAcyclic, Acyclic
    <3> QED
      BY <2>2, <3>1 DEF IInv, ReviewedIsComplete, RejectCompletion, MayReject
  <2> QED
    BY <1>4, <2>1, <2>2 DEF ReviewStep
<1> QED
  BY <1>1, <1>2, <1>3, <1>4 DEF HandlerStep

LEMMA BlockedKept == IInv /\ HandlerStep => BlockedHasOpenIssue'
<1> SUFFICES ASSUME IInv, HandlerStep
             PROVE  BlockedHasOpenIssue'
  OBVIOUS
<1> USE DEF BlockedHasOpenIssue
<1>1. CASE PlanStep
  BY <1>1, PlanStepKinds DEF IInv, ConfirmTaskPlan, CreateChange, DropChange, ApproveChange
<1>2. CASE NodeStep
  BY <1>2, NodeStepFrame DEF IInv
<1>3. CASE IssueTrack
  <2> USE DEF IInv, TypeOK, Issue
  <2>1. CASE ReportProgress
    BY <2>1 DEF ReportProgress
  <2>2. ASSUME NEW i \in Issues, ReportProblem(i)
        PROVE  BlockedHasOpenIssue'
    <3>1. issues'[i].status = "open"
      BY <2>2 DEF ReportProblem, File
    <3> QED
      BY <3>1
  <2>3. ASSUME NEW i \in Issues, NEW blocker \in BOOLEAN, NEW n \in Nodes \cup {None},
               CreateIssue(i, blocker, n)
        PROVE  BlockedHasOpenIssue'
    <3>1. issues'[i].status = "open"
      BY <2>3 DEF CreateIssue, File
    <3> QED
      BY <3>1
  <2>4. ASSUME NEW i \in Issues, NEW to \in IssueStatus, TransitionIssue(i, to)
        PROVE  BlockedHasOpenIssue'
    <3>1. /\ issues'[i].status = to
          /\ \A j \in Issues \ {i} : issues'[j] = issues[j]
          /\ IssueMayBecome(issues[i].status, to)
      BY <2>4 DEF TransitionIssue, MayTransition
    <3>2. CASE to # "closed"
      BY <3>1, <3>2 DEF IssueStatus
    \* The issue that is closed was settled before: another one still blocks.
    <3>3. CASE to = "closed" /\ status' = "blocked"
      <4>1. PICK j \in Issues : ActiveBlocker(j)
        BY <2>4, <3>3 DEF TransitionIssue, Released
      <4>2. j # i
        BY <3>1, <3>3, <4>1 DEF ActiveBlocker, IssueMayBecome
      <4> QED
        BY <3>1, <4>1, <4>2 DEF ActiveBlocker
    <3> QED
      BY <3>2, <3>3
  <2> QED
    BY <1>3, <2>1, <2>2, <2>3, <2>4 DEF IssueTrack
<1>4. CASE ReviewStep
  BY <1>4 DEF ReviewStep, SubmitCompletion, ApproveCompletion, RejectCompletion
<1> QED
  BY <1>1, <1>2, <1>3, <1>4 DEF HandlerStep

\* A scheduler's notification keeps the node it names, and changes nothing else.
LEMMA RemindKeeps ==
  ASSUME IInv, NEW n \in Nodes, RemindOfNode(n)
  PROVE  IInv'
<1>1. cited' \subseteq Nodes /\ cited \subseteq cited'
  BY DEF IInv, TypeOK, RemindOfNode
<1>2. UNCHANGED << status, nodes, deps, issues, change, rework, reopened, patched >>
  BY DEF RemindOfNode
<1> QED
  BY <1>1, <1>2 DEF IInv, TypeOK, HasPlan, ChangeInv, Executing, ReviewedIsComplete, ReworkInv,
     ReworkNodeStays, DependenciesAreAcyclic, StartedInOrder, BlockedHasOpenIssue, Planned

LEMMA StepIInv == IInv /\ [Next]_vars => IInv'
<1>1. IInv /\ Next => IInv'
  <2>1. CASE HandlerStep
    BY <2>1, HandlerStepTyped, PlanKept, ChangeKept, ReviewedKept, ReworkKept, AcyclicKept,
       OrderKept, BlockedKept DEF IInv
  <2> QED
    BY <2>1, RemindKeeps DEF Next
<1>2. IInv /\ UNCHANGED vars => IInv'
  BY DEF IInv, TypeOK, HasPlan, ChangeInv, Executing, ReviewedIsComplete, ReworkInv,
     ReworkNodeStays, DependenciesAreAcyclic, StartedInOrder, BlockedHasOpenIssue, Planned, vars
<1> QED
  BY <1>1, <1>2

LEMMA Inductive == Spec => []IInv
BY InitIInv, StepIInv, PTL DEF Spec

-----------------------------------------------------------------------------
(* Safety *)

\* What is put before the reviewer, and what he approves, is complete.
THEOREM ReviewIsOfCompleteWork == Spec => []ReviewedIsComplete
BY Inductive, PTL DEF IInv

\* The node a rejection names can be reopened until it is.
THEOREM ReworkIsPossible == Spec => []ReworkNodeStays
BY Inductive, PTL DEF IInv, ReworkInv

\* No sequence of plans and change requests leaves a cycle or a dangling edge.
THEOREM PlanStaysAcyclic == Spec => []DependenciesAreAcyclic
BY Inductive, PTL DEF IInv

\* Work follows the dependencies of a plan no change request has edited.
THEOREM WorkIsInOrder == Spec => []StartedInOrder
BY Inductive, PTL DEF IInv

\* A blocked task is never stranded without an issue.
THEOREM BlockedIsReleasable == Spec => []BlockedHasOpenIssue
BY Inductive, PTL DEF IInv

-----------------------------------------------------------------------------
(* The inbox *)

\* A set of numbers that is not empty has a least element.
LEMMA LeastNumber ==
  ASSUME NEW T \in SUBSET Nat, T # {}
  PROVE  \E x \in T : \A y \in T : ~(y < x)
<1> DEFINE R == OpToRel(<, Nat)
<1>1. IsWellFoundedOn(R, Nat)
  BY NatLessThanWellFounded
<1>2. PICK x \in T : \A y \in T : ~ (<< y, x >> \in R)
  BY <1>1, WFMin
<1> QED
  BY <1>2 DEF OpToRel

\* Of the unfinished nodes of a plan, one of least rank waits for nothing.
LEMMA SomeNodeIsFirst ==
  ASSUME TypeOK, DependenciesAreAcyclic, NEW m \in Planned, nodes[m].state # "completed"
  PROVE  \E n \in Planned :
           nodes[n].state \in { "pending", "in_progress" } /\ PredecessorsCompleted(n)
<1>1. PICK rank \in [ Planned -> 1..Cardinality(Planned) ] :
        \A e \in deps : rank[e[1]] < rank[e[2]]
  BY DEF DependenciesAreAcyclic, Acyclic
<1> DEFINE Open == { n \in Planned : nodes[n].state # "completed" }
           Ranks == { rank[n] : n \in Open }
<1>2. Ranks \in SUBSET Nat /\ Ranks # {}
  BY <1>1
<1>3. PICK least \in Ranks : \A r \in Ranks : ~(r < least)
  BY <1>2, LeastNumber
<1>4. PICK n \in Open : rank[n] = least
  BY <1>3
<1>5. PredecessorsCompleted(n)
  <2> SUFFICES ASSUME NEW p \in Nodes, << p, n >> \in deps
               PROVE  nodes[p].state = "completed"
    BY DEF PredecessorsCompleted
  <2>1. p \in Planned
    BY DEF DependenciesAreAcyclic, Acyclic
  <2>2. rank[p] < rank[n]
    BY <1>1
  <2> QED
    BY <1>3, <1>4, <2>1, <2>2
<1>6. nodes[n].state \in { "pending", "in_progress" }
  BY DEF TypeOK, Node, NodeState, Planned
<1> QED
  BY <1>5, <1>6

\* Whoever is asked about an issue in execution can move it.
LEMMA IssueIsServed ==
  ASSUME TypeOK, Executing, NEW i \in Issues, Unclosed(i)
  PROVE  \E item \in Inbox : Served(item)
<1>1. issues[i].status \in { "open", "processing", "resolved", "rejected" }
  BY DEF TypeOK, Issue, IssueStatus, Unclosed
<1>2. IssueItems(i) \subseteq Inbox
  BY DEF Inbox
<1>3. CASE issues[i].status \in { "open", "processing" }
  <2> DEFINE item == Item("issue owner", "resolved", i)
  <2>1. item \in IssueItems(i)
    BY <1>3 DEF IssueItems
  <2>2. Served(item)
    BY <1>3 DEF Served, Item, MayTransition, IssueMayBecome
  <2> QED
    BY <1>2, <2>1, <2>2
<1>4. CASE issues[i].status \in { "resolved", "rejected" }
  <2> DEFINE item == Item("issue reporter", "closed", i)
  <2>1. item \in IssueItems(i)
    BY <1>4 DEF IssueItems
  <2>2. Served(item)
    BY <1>4 DEF Served, Item, MayTransition, IssueMayBecome
  <2> QED
    BY <1>2, <2>1, <2>2
<1> QED
  BY <1>1, <1>3, <1>4

\* The owner of a node that waits for nothing can start or complete it.
LEMMA NodeIsServed ==
  ASSUME TypeOK, status = "in_progress", ~ \E i \in Issues : Unclosed(i),
         NEW n \in Planned, MayExecute(n), PredecessorsCompleted(n),
         nodes[n].state \in { "pending", "in_progress" }
  PROVE  \E item \in Inbox : Served(item)
<1> DEFINE owner == nodes[n].owner
<1>1. owner \in People /\ CanExecute(owner, n)
  BY DEF TypeOK, Node, Planned, CanExecute
<1>2. NodeItems(n) \subseteq Inbox
  BY DEF Inbox
<1>3. ~ \E i \in Issues : ActiveBlocker(i) /\ issues[i].node = n
  BY DEF ActiveBlocker, Unclosed
<1>4. Executing
  BY DEF Executing, ExecutionStatus
<1>5. CASE nodes[n].state = "pending"
  <2> DEFINE item == Item(owner, "start_node", n)
  <2>1. item \in NodeItems(n)
    BY <1>1, <1>5 DEF NodeItems, NodeActions
  <2>2. Served(item)
    BY <1>4, <1>5 DEF Served, Item, MayStart
  <2> QED
    BY <1>2, <2>1, <2>2
<1>6. CASE nodes[n].state = "in_progress"
  <2> DEFINE item == Item(owner, "complete_node", n)
  <2>1. item \in NodeItems(n)
    BY <1>1, <1>3, <1>6 DEF NodeItems, NodeActions
  <2>2. Served(item)
    BY <1>3, <1>4, <1>6 DEF Served, Item, MayComplete
  <2> QED
    BY <1>2, <2>1, <2>2
<1> QED
  BY <1>5, <1>6

\* A task in execution without open issues is at a node, a rework or its submission.
LEMMA ExecutionIsServed ==
  ASSUME IInv, Workable, status = "in_progress", ~ \E i \in Issues : Unclosed(i)
  PROVE  \E item \in Inbox : Served(item)
<1>1. CASE \E m \in Planned : nodes[m].state # "completed"
  BY <1>1, SomeNodeIsFirst, NodeIsServed DEF IInv, Workable
<1>2. CASE \A m \in Planned : nodes[m].state = "completed"
  <2>1. \A m \in Planned : nodes[m].progress = Full
    BY <1>2 DEF Workable
  <2>2. CASE rework # None /\ ~reopened
    <3> DEFINE item == Item("reviewer", "reopen_node", rework)
    <3>1. rework \in Planned /\ nodes[rework].state = "completed"
      BY <2>2 DEF IInv, TypeOK, ReworkInv, ReworkNodeStays, Planned
    <3>2. item \in Inbox
      BY <2>2, <3>1 DEF Inbox, NodeItems, CanReopen
    <3>3. Served(item)
      BY <2>2, <3>1 DEF Served, Item, MayReopen
    <3> QED
      BY <3>2, <3>3
  <2>3. CASE rework = None \/ reopened
    <3> DEFINE item == Item(Main, "submit_completion", None)
    <3>1. AllCompleted
      BY <1>2, <2>1 DEF IInv, HasPlan, AllCompleted
    <3>2. ReworkDone
      BY <1>2, <2>1, <2>3 DEF IInv, TypeOK, ReworkInv, ReworkNodeStays, ReworkDone, Planned
    <3>3. item \in Inbox
      BY <2>3, <3>1 DEF Inbox, SubmissionItems
    <3>4. Served(item)
      BY <3>1, <3>2 DEF Served, Item, MaySubmit, Executing, ExecutionStatus
    <3> QED
      BY <3>3, <3>4
  <2> QED
    BY <2>2, <2>3
<1> QED
  BY <1>1, <1>2

LEMMA InvariantAsks == IInv => SomebodyIsAsked
<1> SUFFICES ASSUME IInv, status # "archived", Workable
             PROVE  \E item \in Inbox : Served(item)
  BY DEF SomebodyIsAsked
<1>1. CASE status = "pending_review"
  <2> DEFINE item == Item("reviewer", "approve_completion", None)
  <2>1. item \in Inbox
    BY <1>1 DEF Inbox, ReviewItems
  <2>2. AllCompleted /\ ~ \E i \in Issues : Unclosed(i)
    BY <1>1 DEF IInv, ReviewedIsComplete, AllCompleted, Unclosed
  <2> QED
    BY <1>1, <2>1, <2>2 DEF Served, Item, MayApprove
<1>2. CASE \E i \in Issues : Unclosed(i)
  <2>1. Executing
    BY <1>2 DEF IInv, TypeOK, ReviewedIsComplete, Unclosed, Executing, ExecutionStatus
  <2> QED
    BY <1>2, <2>1, IssueIsServed DEF IInv
<1>3. CASE status = "blocked"
  BY <1>2, <1>3 DEF IInv, BlockedHasOpenIssue, Unclosed
<1>4. CASE status = "in_progress" /\ ~ \E i \in Issues : Unclosed(i)
  BY <1>4, ExecutionIsServed
<1> QED
  BY <1>1, <1>2, <1>3, <1>4 DEF IInv, TypeOK

\* As long as a task is not approved, list_inbox asks somebody for a step of which the
\* handler then says yes, whatever the plan, its edges, its issues and its history.
THEOREM WorkIsNeverStuck == Spec => []SomebodyIsAsked
BY Inductive, InvariantAsks, PTL

-----------------------------------------------------------------------------
(* Refinement *)

\* A step in execution that keeps what is finished, and what is owed, is work.
LEMMA WorkStep ==
  ASSUME Executing, Executing', Planned' # {}, Finished \subseteq Finished',
         UNCHANGED << rework, reopened >>
  PROVE  Contract!Work
<1>1. Stage = "working" /\ Stage' = "working"
  BY DEF Stage, Executing, ExecutionStatus
<1>2. Finished' \subseteq Planned'
  BY DEF Finished, Planned
<1>3. Planned' \subseteq Nodes
  BY DEF Planned
<1>4. Owed' = Owed
  BY DEF Owed
<1> QED
  BY <1>1, <1>2, <1>3, <1>4 DEF Contract!Work, Stage, Finished, Owed

LEMMA PlanRefines ==
  ASSUME IInv, PlanStep
  PROVE  [Contract!Next]_(Contract!vars)
<1>1. ASSUME NEW N \in SUBSET Nodes, NEW owner, NEW edges, ConfirmTaskPlan(N, owner, edges)
      PROVE  Contract!Work
  <2>1. Planned' = N /\ N # {}
    BY <1>1 DEF ConfirmTaskPlan, Planned, NoRow, ValidPlan
  <2>2. Finished = {}
    BY <1>1 DEF ConfirmTaskPlan, Finished, Planned
  <2> QED
    BY <1>1, <2>1, <2>2, WorkStep DEF ConfirmTaskPlan, Executing, ExecutionStatus
<1>2. ASSUME NEW rows, NEW edges, ApproveChange(rows, edges)
      PROVE  Contract!Work
  <2>1. Planned' # {}
    BY <1>2 DEF ApproveChange, Planned, ValidPlan
  <2>2. Finished \subseteq Finished'
    BY <1>2 DEF ApproveChange, CompletedNodesStay, Finished
  <2> QED
    BY <1>2, <2>1, <2>2, WorkStep DEF IInv, ChangeInv, ApproveChange, Executing
<1>3. CASE CreateChange \/ DropChange
  BY <1>3 DEF CreateChange, DropChange, Contract!vars, Planned, Stage, Finished, Owed
<1> QED
  BY <1>1, <1>2, <1>3, PlanStepKinds DEF IInv, Contract!Next

LEMMA NodeRefines ==
  ASSUME IInv, IInv', NodeStep
  PROVE  [Contract!Next]_(Contract!vars)
<1> PICK n \in Nodes :
      \/ StartNode(n)
      \/ \E q \in 0..Full : UpdateNodeProgress(n, q)
      \/ CompleteNode(n)
      \/ \E answer \in { "accepted", "rejected" } : AnswerAssignment(n, answer)
      \/ ReopenNode(n)
  BY DEF NodeStep
<1>1. Executing /\ Executing' /\ Planned' = Planned /\ UNCHANGED << status, rework >>
  BY NodeStepFrame DEF IInv, Executing
<1>2. CASE ReopenNode(n)
  <2>1. /\ nodes'[n].state = "in_progress"
        /\ \A m \in Nodes \ {n} : nodes'[m] = nodes[m]
        /\ rework = n /\ ~reopened /\ reopened'
    BY <1>2 DEF IInv, TypeOK, Node, ReopenNode, MayReopen
  <2>2. Stage = "working" /\ Stage' = "working"
    BY <1>1 DEF Stage, Executing, ExecutionStatus
  <2>3. Owed = {n} /\ Owed' = {}
    BY <2>1, NoneIsNoNode DEF Owed
  <2>4. Finished' = Finished \ {n}
    BY <2>1 DEF Finished
  <2> QED
    BY <1>1, <2>2, <2>3, <2>4 DEF Contract!Next, Contract!Reopen, Stage, Finished, Owed
<1>3. CASE ~ReopenNode(n)
  <2> USE DEF IInv, TypeOK, Node
  <2>1. n \in Planned
    BY <1>3 DEF Planned, StartNode, UpdateNodeProgress, CompleteNode, AnswerAssignment, MayStart,
       MayUpdate, MayComplete
  <2>2. Finished \subseteq Finished'
    BY <1>3 DEF Finished, StartNode, UpdateNodeProgress, CompleteNode, AnswerAssignment, MayStart,
       MayUpdate, MayComplete
  <2>3. UNCHANGED << rework, reopened >>
    BY <1>3 DEF StartNode, UpdateNodeProgress, CompleteNode, AnswerAssignment
  <2> QED
    BY <1>1, <2>1, <2>2, <2>3, WorkStep DEF Contract!Next
<1> QED
  BY <1>2, <1>3

LEMMA IssueRefines ==
  ASSUME IssueTrack
  PROVE  [Contract!Next]_(Contract!vars)
<1>1. Stage' = Stage /\ Planned' = Planned /\ Finished' = Finished /\ Owed' = Owed
  BY IssueTrackFrame DEF Stage, Planned, Finished, Owed, Executing, ExecutionStatus
<1> QED
  BY <1>1 DEF Contract!vars, Stage, Finished, Owed

LEMMA ReviewRefines ==
  ASSUME IInv, ReviewStep
  PROVE  [Contract!Next]_(Contract!vars)
<1>1. Planned' = Planned /\ Finished' = Finished
  BY ReviewStepFrame DEF Planned, Finished
<1>2. CASE SubmitCompletion
  <2>1. Stage = "working" /\ Stage' = "reviewing"
    BY <1>2 DEF SubmitCompletion, Stage, Executing, ExecutionStatus, MaySubmit
  <2>2. Finished = Planned
    BY <1>2 DEF SubmitCompletion, AllCompleted, Finished, Planned, MaySubmit
  <2>3. Owed = {} /\ Owed' = {}
    BY <1>2 DEF SubmitCompletion, ReworkDone, Owed, MaySubmit
  <2> QED
    BY <1>1, <2>1, <2>2, <2>3 DEF Contract!Next, Contract!Submit, Stage, Finished, Owed
<1>3. CASE ApproveCompletion
  <2>1. Stage = "reviewing" /\ Stage' = "accepted" /\ Owed' = Owed
    BY <1>3 DEF ApproveCompletion, Stage, Owed, MayApprove
  <2> QED
    BY <1>1, <2>1 DEF Contract!Next, Contract!Accept, Stage, Finished, Owed
<1>4. ASSUME NEW n \in Nodes \cup {None}, RejectCompletion(n)
      PROVE  Contract!Reject
  <2>1. Stage = "reviewing" /\ Stage' = "working"
    BY <1>4 DEF RejectCompletion, Stage, MayReject
  <2>2. Owed' \in { {} } \cup { {m} : m \in Finished }
    BY <1>4 DEF RejectCompletion, Owed, Finished, MayReject
  <2> QED
    BY <1>1, <2>1, <2>2 DEF Contract!Reject, Stage, Finished, Owed
<1> QED
  BY <1>2, <1>3, <1>4 DEF ReviewStep, Contract!Next

\* Nodes, plan changes and review together keep what execution promises the reviewer:
\* each step is a step of the contract or invisible to it.
THEOREM KeepsExecutionContract == Spec => ImplementsContract
<1>1. Init => Contract!Init
  <2> SUFFICES ASSUME Init
               PROVE  Contract!Init
    OBVIOUS
  <2>1. Planned \subseteq Nodes
    BY DEF Planned
  <2>2. Finished = {}
    BY InitDelivered DEF Finished
  <2>3. Stage = "working" /\ Owed = {}
    BY DEF Init, Stage, Owed
  <2> QED
    BY InitDelivered, <2>1, <2>2, <2>3 DEF Contract!Init, Stage, Finished, Owed
<1>2. IInv /\ IInv' /\ [Next]_vars => [Contract!Next]_(Contract!vars)
  <2>1. UNCHANGED vars => UNCHANGED Contract!vars
    BY DEF vars, Contract!vars, Planned, Stage, Finished, Owed
  <2>2. ASSUME NEW n \in Nodes, RemindOfNode(n)
        PROVE  UNCHANGED Contract!vars
    BY <2>2 DEF RemindOfNode, Contract!vars, Planned, Stage, Finished, Owed
  <2> QED
    BY <2>1, <2>2, PlanRefines, NodeRefines, IssueRefines, ReviewRefines DEF Next, HandlerStep
<1> QED
  BY <1>1, <1>2, Inductive, PTL DEF Spec, ImplementsContract, Contract!Spec

-----------------------------------------------------------------------------
(* The view of the board *)

\* The latest round is the one the reviewer decides while there is one, and owes a rework
\* exactly when the rows say so; a current change request is based on the present version.
RoundInv ==
  /\ review = [ status |-> review.status, version |-> review.version,
                rework |-> review.rework ]
  /\ Executing =>
       /\ review.status # "submitted"
       /\ (review.status = "rejected" /\ review.rework = "wanted")
            <=> (rework # None /\ ~reopened)
  /\ status = "pending_review" => review.status = "submitted" /\ review.version = version
  /\ change = "current" => base = version

BoardInv == IInv /\ RoundInv

\* Whatever the handlers write besides, they are the handlers of NodeExecution.
LEMMA BoardStepIsStep ==
  /\ PlanWrite => PlanStep
  /\ NodeWrite => NodeStep
  /\ IssueWrite => IssueTrack
  /\ ReviewWrite => ReviewStep
  /\ [BoardNext]_boardVars => [Next]_vars
<1>1. PlanWrite => PlanStep
  BY DEF PlanWrite, PlanStep
<1>2. NodeWrite => NodeStep
  BY DEF NodeWrite, NodeStep
<1>3. IssueWrite => IssueTrack
  BY DEF IssueWrite
<1>4. ReviewWrite => ReviewStep
  BY DEF ReviewWrite, ReviewStep
<1>5. UNCHANGED boardVars => UNCHANGED vars
  BY DEF boardVars
<1> QED
  BY <1>1, <1>2, <1>3, <1>4, <1>5 DEF BoardNext, Next, HandlerStep

\* What the plans and decisions on change requests write besides.
LEMMA PlanWriteKinds ==
  ASSUME PlanWrite
  PROVE  \/ /\ \E N \in SUBSET Nodes : \E owner, edges : ConfirmTaskPlan(N, owner, edges)
            /\ WriteLog(status') /\ UNCHANGED << base, review >>
         \/ CreateChange /\ LogOnly /\ base' = version /\ UNCHANGED review
         \/ DropChange /\ LogOnly /\ UNCHANGED << base, review >>
         \/ /\ \E rows, edges : ApproveChange(rows, edges)
            /\ WriteLog(status') /\ UNCHANGED << base, review >>
<1>1. ASSUME NEW n \in Nodes, NEW row \in PatchedRow(n),
             LET rows == [ nodes EXCEPT ![n] = row ]
             IN  ApproveChange(rows, EdgesWithin({ m \in Nodes : rows[m].state # "absent" }))
      PROVE  \E rows, edges : ApproveChange(rows, edges)
  BY <1>1
<1> QED
  BY <1>1 DEF PlanWrite

LEMMA RoundKept == BoardInv /\ [BoardNext]_boardVars => RoundInv'
<1> SUFFICES ASSUME BoardInv, [BoardNext]_boardVars
             PROVE  RoundInv'
  OBVIOUS
<1>0. Advance => change' # "current"
  BY DEF Advance
<1>1. CASE PlanWrite
  <2>1. UNCHANGED << status, review, rework, reopened >>
    BY <1>1, PlanWriteKinds DEF ConfirmTaskPlan, CreateChange, DropChange, ApproveChange
  <2>2. change' = "current" => base' = version'
    BY <1>0, <1>1, PlanWriteKinds DEF ConfirmTaskPlan, CreateChange, DropChange, ApproveChange,
       LogOnly
  \* Nobody plans anything while a round is under review.
  <2>3. Executing
    BY <1>1, PlanWriteKinds DEF BoardInv, IInv, ChangeInv, ConfirmTaskPlan, CreateChange,
       DropChange, ApproveChange, Executing, ExecutionStatus
  <2> QED
    BY <2>1, <2>2, <2>3 DEF BoardInv, RoundInv, Executing, ExecutionStatus
<1>2. CASE NodeWrite
  <2>1. Executing /\ UNCHANGED << status, rework >> /\ change' # "current"
    BY <1>0, <1>2, BoardStepIsStep, NodeStepFrame DEF BoardInv, IInv
  <2>2. \/ UNCHANGED << review, reopened >>
        \/ /\ reopened'
           /\ review' = [ review EXCEPT !.rework = "reopened" ]
    BY <1>2 DEF NodeWrite, StartNode, UpdateNodeProgress, CompleteNode, AnswerAssignment,
       ReopenNode
  <2> QED
    BY <2>1, <2>2 DEF BoardInv, RoundInv, Executing, ExecutionStatus
<1>3. CASE IssueWrite
  BY <1>0, <1>3, IssueTrackFrame DEF IssueWrite, BoardInv, RoundInv, Executing, ExecutionStatus
<1>4. CASE ReviewWrite
  <2>1. change' # "current"
    BY <1>0, <1>4, BoardStepIsStep, ReviewStepFrame
  <2>2. CASE SubmitCompletion /\ WriteLog(status')
             /\ review' = [ status |-> "submitted", version |-> version + 1, rework |-> "none" ]
    BY <2>1, <2>2 DEF SubmitCompletion, WriteLog, RoundInv, Executing, ExecutionStatus
  <2>3. CASE ApproveCompletion /\ review' = [ review EXCEPT !.status = "approved" ]
    BY <2>1, <2>3 DEF BoardInv, ApproveCompletion, RoundInv, Executing, ExecutionStatus
  <2>4. ASSUME NEW n \in Nodes \cup {None}, RejectCompletion(n),
               review' = [ review EXCEPT !.status = "rejected",
                                         !.rework = IF n = None THEN "none" ELSE "wanted" ]
        PROVE  RoundInv'
    BY <2>1, <2>4 DEF BoardInv, RejectCompletion, RoundInv, Executing, ExecutionStatus
  <2> QED
    BY <1>4, <2>2, <2>3, <2>4 DEF ReviewWrite
<1>5. CASE (\E n \in Nodes : RemindOfNode(n)) /\ UNCHANGED rowVars
  BY <1>5 DEF RemindOfNode, rowVars, BoardInv, RoundInv, Executing
<1>6. CASE UNCHANGED boardVars
  BY <1>6 DEF boardVars, vars, rowVars, BoardInv, RoundInv, Executing
<1> QED
  BY <1>1, <1>2, <1>3, <1>4, <1>5, <1>6 DEF BoardNext

LEMMA BoardInductive == BoardSpec => []BoardInv
<1>1. BoardInit => BoardInv
  BY InitIInv DEF BoardInit, Init, BoardInv, RoundInv, Executing
<1>2. BoardInv /\ [BoardNext]_boardVars => BoardInv'
  BY StepIInv, BoardStepIsStep, RoundKept DEF BoardInv
<1> QED
  BY <1>1, <1>2, PTL DEF BoardSpec

-----------------------------------------------------------------------------
(* Every handler is one of the board's *)

\* Rows of a delivered task, with these statuses and versions.
Rows(S, V) ==
  [ status : S, version : V, assignee : {Main}, ready : {TRUE}, fulfilled : {{}},
    effective : {TRUE}, decomposition : {"succeeded"}, latest : {1} ]

LEMMA RowOfParts ==
  ASSUME NEW S, NEW V, NEW r \in Rows(S, V)
  PROVE  r = RowAt(r.status, r.version) /\ r.status \in S /\ r.version \in V
BY DEF RowAt, Rows

\* The writes of a handler to the row of the task.
LEMMA StatusWritten ==
  ASSUME NEW s, NEW v, NEW w
  PROVE  [ RowAt(s, v) EXCEPT !.status = w ] = RowAt(w, v)
<1>1. RowAt(s, v) \in Rows({s}, {v})
  BY DEF RowAt, Rows
<1>2. [ RowAt(s, v) EXCEPT !.status = w ] \in Rows({w}, {v})
  BY <1>1 DEF Rows
<1> QED
  BY <1>2, RowOfParts

LEMMA VersionWritten ==
  ASSUME NEW s, NEW v, NEW w
  PROVE  [ RowAt(s, v) EXCEPT !.version = w ] = RowAt(s, w)
<1>1. RowAt(s, v) \in Rows({s}, {v})
  BY DEF RowAt, Rows
<1>2. [ RowAt(s, v) EXCEPT !.version = w ] \in Rows({s}, {w})
  BY <1>1 DEF Rows
<1> QED
  BY <1>2, RowOfParts

LEMMA ReadyWritten ==
  ASSUME NEW s, NEW v
  PROVE  [ RowAt(s, v) EXCEPT !.ready = TRUE ] = RowAt(s, v)
<1>1. RowAt(s, v) \in Rows({s}, {v})
  BY DEF RowAt, Rows
<1>2. [ RowAt(s, v) EXCEPT !.ready = TRUE ] \in Rows({s}, {v})
  BY <1>1 DEF Rows
<1> QED
  BY <1>2, RowOfParts

\* A report without a cycle fulfils no period.
LEMMA ReportWritten ==
  ASSUME NEW s, NEW v, NEW w, NEW p
  PROVE  [ RowAt(s, v) EXCEPT !.status = w, !.fulfilled = @ \cup ({p} \cap {}) ] = RowAt(w, v)
<1>1. RowAt(s, v) \in Rows({s}, {v}) /\ RowAt(s, v).fulfilled \cup ({p} \cap {}) = {}
  BY DEF RowAt, Rows
<1>2. [ RowAt(s, v) EXCEPT !.status = w, !.fulfilled = {} ] \in Rows({w}, {v})
  BY <1>1 DEF Rows
<1>3. [ RowAt(s, v) EXCEPT !.status = w, !.fulfilled = {} ] = RowAt(w, v)
  BY <1>2, RowOfParts
<1>4. [ RowAt(s, v) EXCEPT !.status = w, !.fulfilled = @ \cup ({p} \cap {}) ]
        = [ RowAt(s, v) EXCEPT !.status = w, !.fulfilled = {} ]
  BY <1>1
<1> QED
  BY <1>3, <1>4

\* What every step of the board reads of the row.
LEMMA RowSeen == TaskRow.status = status /\ TaskRow.version = version
BY DEF TaskRow, RowAt

\* The next version and its log row, with the status the task then has.
LEMMA WriteIsCommit ==
  ASSUME WriteLog(status')
  PROVE  /\ Board!Commit([ TaskRow EXCEPT !.status = status' ])
         /\ status' = status => Board!Commit(TaskRow)
<1>1. TaskRow' = RowAt(status', version + 1)
  BY DEF TaskRow, RowAt, WriteLog
<1>2. [ TaskRow EXCEPT !.status = status' ] = RowAt(status', version)
  BY StatusWritten DEF TaskRow
<1>3. RowAt(status', version).status = status'
  BY DEF RowAt
<1>4. [ RowAt(status', version) EXCEPT !.version = version + 1 ] = RowAt(status', version + 1)
  BY VersionWritten
<1>5. Board!Commit(RowAt(status', version))
  BY <1>1, <1>3, <1>4, RowSeen DEF WriteLog, Board!Commit
<1> QED
  BY <1>2, <1>5 DEF TaskRow

\* What the board sees of a change request that nobody decides does not change.
LEMMA ChangeSeen ==
  ASSUME Advance, UNCHANGED base
  PROVE  UNCHANGED ChangeRow
BY DEF Advance, ChangeRow

\* An open node, or one that is not at 100 percent, leaves the plan open.
LEMMA PlanIsOpen ==
  ASSUME NEW n \in Nodes, nodes[n].state \in { "pending", "in_progress" }
  PROVE  PlanSeen = "open"
BY DEF PlanSeen, Planned, AllCompleted

LEMMA PlanIsThere ==
  ASSUME HasPlan
  PROVE  PlanSeen \in { "open", "done" }
BY DEF HasPlan, PlanSeen

LEMMA SameNodesSeen == UNCHANGED nodes => UNCHANGED << Planned, AllCompleted, PlanSeen >>
BY DEF PlanSeen, Planned, AllCompleted

LEMMA SameIssuesSeen == UNCHANGED issues => UNCHANGED IssuesSeen
BY DEF IssuesSeen, ActiveBlocker, Unclosed

\* Plans and decisions on change requests; a current request knows the present version.
LEMMA PlanOnBoard ==
  ASSUME BoardInv, BoardInv', PlanWrite
  PROVE  Board!UserStep
<1>1. HasPlan /\ HasPlan' /\ TypeOK /\ (change = "current" => Executing /\ base = version)
  BY DEF BoardInv, IInv, ChangeInv, RoundInv
<1>2. ASSUME NEW N \in SUBSET Nodes, NEW owner, NEW edges, ConfirmTaskPlan(N, owner, edges),
             WriteLog(status'), UNCHANGED << base, review >>
      PROVE  Board!ConfirmTaskPlan
  <2>1. PlanSeen = "open"
    BY <1>1, <1>2, PlanIsOpen DEF HasPlan, Planned, ConfirmTaskPlan
  <2>2. PlanSeen' = "open"
    <3>1. PICK n \in N : nodes'[n].state = "pending"
      BY <1>2 DEF ConfirmTaskPlan, ValidPlan
    <3> QED
      BY <3>1 DEF PlanSeen, Planned, AllCompleted
  <2>3. Board!Commit(TaskRow)
    BY <1>2, WriteIsCommit DEF ConfirmTaskPlan
  <2>4. UNCHANGED << ChangeRow, IssuesSeen, status, review >>
    BY <1>2, ChangeSeen, SameIssuesSeen DEF ConfirmTaskPlan
  <2>5. TaskRow.status = "in_progress"
    BY <1>2, RowSeen DEF ConfirmTaskPlan
  <2> QED
    BY <2>1, <2>2, <2>3, <2>4, <2>5 DEF Board!ConfirmTaskPlan
<1>3. CASE CreateChange /\ LogOnly /\ base' = version /\ UNCHANGED review
  <2>1. TaskRow.status \in ExecutionStatus /\ ~ChangeRow.pending
    BY <1>3, RowSeen DEF CreateChange, Executing, ChangeRow
  <2>2. ChangeRow' = [ pending |-> TRUE, base |-> TaskRow.version ]
    BY <1>3, RowSeen DEF CreateChange, ChangeRow
  <2>3. log' = [ to |-> TaskRow.status, version |-> TaskRow.version ]
    BY <1>3, RowSeen DEF LogOnly
  <2>4. UNCHANGED << TaskRow, review, PlanSeen, IssuesSeen, status >>
    BY <1>3, SameNodesSeen, SameIssuesSeen DEF CreateChange, LogOnly, TaskRow, RowAt
  <2>5. Board!MayRequestChange
    BY <2>1 DEF Board!MayRequestChange, Board!ExecutionStatus, ExecutionStatus
  <2>6. Board!CreateChange
    BY <2>2, <2>3, <2>4, <2>5 DEF Board!CreateChange
  <2> QED
    BY <2>6 DEF Board!UserStep
<1>4. CASE DropChange /\ LogOnly /\ UNCHANGED << base, review >>
  <2>1. ChangeRow.pending /\ ChangeRow.base = TaskRow.version
    BY <1>1, <1>4, RowSeen DEF DropChange, ChangeRow
  <2>2. ChangeRow' = [ pending |-> FALSE, base |-> 0 ]
    BY <1>4 DEF DropChange, ChangeRow
  <2>3. log' = [ to |-> TaskRow.status, version |-> TaskRow.version ]
    BY <1>4, RowSeen DEF LogOnly
  <2>4. UNCHANGED << TaskRow, review, PlanSeen, IssuesSeen, status >>
    BY <1>4, SameNodesSeen, SameIssuesSeen DEF DropChange, LogOnly, TaskRow, RowAt
  <2>5. Board!DropChange
    BY <2>1, <2>2, <2>3, <2>4 DEF Board!DropChange, Board!PendingOnCurrentVersion,
       Board!NoChange
  <2> QED
    BY <2>5 DEF Board!UserStep
<1>5. ASSUME NEW rows, NEW edges, ApproveChange(rows, edges), WriteLog(status'),
             UNCHANGED << base, review >>
      PROVE  Board!ApproveChange(PlanSeen', TRUE)
  <2>1. ChangeRow.pending /\ ChangeRow.base = TaskRow.version
    BY <1>1, <1>5, RowSeen DEF ApproveChange, ChangeRow
  <2>2. ChangeRow' = [ pending |-> FALSE, base |-> 0 ]
    BY <1>5 DEF ApproveChange, ChangeRow
  <2>3. Board!Commit([ TaskRow EXCEPT !.ready = TRUE ])
    <3>1. [ TaskRow EXCEPT !.ready = TRUE ] = TaskRow
      BY ReadyWritten DEF TaskRow
    <3> QED
      BY <1>5, <3>1, WriteIsCommit DEF ApproveChange
  <2>4. UNCHANGED << review, IssuesSeen, status >>
    BY <1>5, SameIssuesSeen DEF ApproveChange
  <2>5. PlanSeen' # "none"
    BY <1>1 DEF HasPlan, PlanSeen
  <2> QED
    BY <2>1, <2>2, <2>3, <2>4, <2>5 DEF Board!ApproveChange, Board!PendingOnCurrentVersion,
       Board!NoChange
<1>6. PlanSeen' \in { "none", "open", "done" }
  BY DEF PlanSeen
<1> QED
  BY <1>2, <1>3, <1>4, <1>5, <1>6, PlanWriteKinds DEF Board!UserStep

\* Work on nodes: the plan is open before it, and done only by completing the last node.
LEMMA NodeOnBoard ==
  ASSUME BoardInv, BoardInv', NodeWrite
  PROVE  Board!UserStep
<1>1. /\ PlanSeen \in { "open", "done" }
      /\ PlanSeen' \in { "open", "done" }
      /\ Executing
      /\ nodes \in [ Nodes -> Node ]
  BY BoardStepIsStep, NodeStepFrame DEF BoardInv, IInv, TypeOK, HasPlan, PlanSeen
<1>2. UNCHANGED << status, issues, base, ChangeRow, IssuesSeen >>
  BY <1>1, BoardStepIsStep, NodeStepFrame, ChangeSeen, SameIssuesSeen
     DEF NodeWrite, BoardInv, IInv
<1>3. TaskRow.status \in Board!ExecutionStatus
  BY <1>1, RowSeen DEF Executing, ExecutionStatus, Board!ExecutionStatus
<1>4. ASSUME NEW n \in Nodes,
             \/ StartNode(n)
             \/ \E q \in 0..Full : UpdateNodeProgress(n, q)
             \/ CompleteNode(n),
             WriteLog("in_progress"), UNCHANGED review
      PROVE  Board!NodeWrite(PlanSeen')
  <2>1. nodes[n].state \in { "pending", "in_progress" }
    BY <1>4 DEF StartNode, MayStart, UpdateNodeProgress, MayUpdate, CompleteNode, MayComplete
  <2>2. PlanSeen = "open"
    BY <2>1, PlanIsOpen
  <2>3. TaskRow' = [ TaskRow EXCEPT !.version = version + 1 ]
    BY <1>2, <1>4, VersionWritten DEF TaskRow, WriteLog
  <2> QED
    BY <1>2, <1>3, <1>4, <2>2, <2>3, RowSeen DEF Board!NodeWrite, WriteLog
<1>5. ASSUME NEW n \in Nodes, NEW answer, AnswerAssignment(n, answer), WriteLog(status'),
             UNCHANGED review
      PROVE  Board!AnswerAssignment
  <2>1. UNCHANGED PlanSeen
    <3>1. /\ nodes' = [ nodes EXCEPT ![n].assignment = answer ]
          /\ \A m \in Nodes : /\ nodes'[m].state = nodes[m].state
                              /\ nodes'[m].progress = nodes[m].progress
      BY <1>1, <1>5 DEF AnswerAssignment, Node
    <3>2. UNCHANGED << Planned, AllCompleted >>
      BY <3>1 DEF Planned, AllCompleted
    <3> QED
      BY <3>2 DEF PlanSeen
  <2>2. Board!Commit(TaskRow)
    BY <1>2, <1>5, WriteIsCommit
  <2> QED
    BY <1>1, <1>2, <1>3, <1>5, <2>1, <2>2 DEF Board!AnswerAssignment
<1>6. ASSUME NEW n \in Nodes, ReopenNode(n), WriteLog(status'),
             review' = [ review EXCEPT !.rework = "reopened" ]
      PROVE  Board!ReopenNode
  <2>1. rework # None /\ ~reopened /\ status = "in_progress"
    BY <1>6, NoneIsNoNode DEF ReopenNode, MayReopen
  <2>2. review.status = "rejected" /\ review.rework = "wanted"
    BY <1>1, <2>1 DEF BoardInv, RoundInv
  <2>3. PlanSeen' = "open"
    <3>1. nodes'[n].state = "in_progress"
      BY <1>1, <1>6 DEF ReopenNode, Node
    <3> QED
      BY <3>1 DEF PlanSeen, Planned, AllCompleted
  <2>4. Board!Commit(TaskRow)
    BY <1>2, <1>6, WriteIsCommit
  <2> QED
    BY <1>2, <1>6, <2>1, <2>2, <2>3, <2>4, RowSeen DEF Board!ReopenNode
<1> QED
  BY <1>1, <1>4, <1>5, <1>6 DEF NodeWrite, Board!UserStep

\* One issue more: it counts for what it is, and hides no other.
LEMMA IssuesAfterFiling ==
  ASSUME TypeOK, NEW i \in Issues, NEW blocker \in BOOLEAN, NEW n, File(i, blocker, n)
  PROVE  IssuesSeen' = IF blocker THEN "blocker"
                       ELSE IF IssuesSeen = "none" THEN "unclosed" ELSE IssuesSeen
<1>1. /\ issues'[i].status = "open" /\ issues'[i].blocker = blocker
      /\ \A j \in Issues \ {i} : issues'[j] = issues[j]
      /\ issues[i].status = "unfiled"
  BY DEF File, TypeOK
<1>2. ActiveBlocker(i)' <=> blocker
  BY <1>1 DEF ActiveBlocker
<1>3. Unclosed(i)' /\ ~ActiveBlocker(i) /\ ~Unclosed(i)
  BY <1>1 DEF Unclosed, ActiveBlocker
<1>4. \A j \in Issues \ {i} : ActiveBlocker(j)' = ActiveBlocker(j)
  BY <1>1 DEF ActiveBlocker
<1> QED
  BY <1>2, <1>3, <1>4 DEF IssuesSeen

\* The board knows the release of a blocked task from what it sees of the issues.
LEMMA IssuesAfterTransition ==
  ASSUME TypeOK, NEW i \in Issues, NEW to \in IssueStatus, TransitionIssue(i, to)
  PROVE  /\ << IssuesSeen, IssuesSeen' >> \in Board!IssueStep
         /\ IssuesSeen' # IssuesSeen => to # "processing"
         /\ Released(i, to) <=>
              status = "blocked" /\ to # "processing" /\ IssuesSeen # "blocker"
<1>1. /\ issues'[i].status = to /\ issues'[i].blocker = issues[i].blocker
      /\ \A j \in Issues \ {i} : issues'[j] = issues[j]
      /\ IssueMayBecome(issues[i].status, to)
  BY DEF TransitionIssue, MayTransition, TypeOK, Issue
<1>2. /\ Unclosed(i)
      /\ Unclosed(i)' <=> to # "closed"
      /\ ActiveBlocker(i)' => to = "processing" /\ ActiveBlocker(i)
      /\ ActiveBlocker(i) /\ to = "processing" => ActiveBlocker(i)'
      /\ ActiveBlocker(i) => to # "closed"
  BY <1>1 DEF Unclosed, ActiveBlocker, IssueMayBecome, IssueStatus
<1>3. \A j \in Issues \ {i} :
        (ActiveBlocker(j)' <=> ActiveBlocker(j)) /\ (Unclosed(j)' <=> Unclosed(j))
  BY <1>1 DEF Unclosed, ActiveBlocker
<1>4. \A j \in Issues : ActiveBlocker(j) => Unclosed(j)
  BY DEF Unclosed, ActiveBlocker
<1>5. << IssuesSeen, IssuesSeen' >> \in Board!IssueStep
  <2>1. CASE IssuesSeen = "blocker"
    <3>1. IssuesSeen' # "none"
      BY <1>2, <1>3, <1>4, <2>1 DEF IssuesSeen
    <3> QED
      BY <2>1, <3>1 DEF Board!IssueStep, IssuesSeen
  <2>2. CASE IssuesSeen = "unclosed"
    <3>1. IssuesSeen' # "blocker"
      BY <1>2, <1>3, <2>2 DEF IssuesSeen
    <3> QED
      BY <2>2, <3>1 DEF Board!IssueStep, IssuesSeen
  <2>3. IssuesSeen # "none"
    BY <1>2 DEF IssuesSeen
  <2> QED
    BY <2>1, <2>2, <2>3 DEF IssuesSeen
<1>6. IssuesSeen' # IssuesSeen => to # "processing"
  BY <1>2, <1>3 DEF IssuesSeen
<1>7. Released(i, to) <=> status = "blocked" /\ to # "processing" /\ IssuesSeen # "blocker"
  <2>1. to # "open"
    BY <1>1 DEF IssueMayBecome
  <2> QED
    BY <2>1 DEF Released, IssuesSeen, IssueStatus
<1> QED
  BY <1>5, <1>6, <1>7

\* Reports and issues: the same status, and what the board sees of the issues.
LEMMA IssueOnBoard ==
  ASSUME BoardInv, BoardInv', IssueWrite
  PROVE  Board!UserStep
<1>1. /\ TypeOK
      /\ UNCHANGED << ChangeRow, PlanSeen, review >>
      /\ UNCHANGED (status = "archived")
      /\ WriteLog(status')
      /\ Board!Commit([ TaskRow EXCEPT !.status = status' ])
  BY IssueTrackFrame, ChangeSeen, SameNodesSeen, WriteIsCommit DEF IssueWrite, BoardInv, IInv,
     Executing, ExecutionStatus
<1>2. TaskRow.status \in Board!ExecutionStatus
  BY IssueTrackFrame, RowSeen DEF IssueWrite, Executing, ExecutionStatus, Board!ExecutionStatus
<1>8. /\ Board!MayReport(None)
      /\ [ TaskRow EXCEPT !.status = status', !.fulfilled = @ \cup ({None} \cap {}) ]
           = [ TaskRow EXCEPT !.status = status' ]
  <2>1. TaskRow.fulfilled = {}
    BY DEF TaskRow, RowAt
  <2> QED
    BY <1>2, <2>1, ReportWritten, StatusWritten DEF TaskRow, Board!MayReport
<1>3. CASE ReportProgress
  <2>1. status' = "in_progress" /\ UNCHANGED IssuesSeen
    BY <1>3, SameIssuesSeen DEF ReportProgress
  <2>2. Board!ReportProgress(None, FALSE)
    BY <1>1, <1>2, <1>8, <2>1 DEF Board!ReportProgress
  <2> QED
    BY <2>2 DEF Board!UserStep
<1>4. ASSUME NEW i \in Issues, ReportProblem(i)
      PROVE  Board!ReportProgress(None, TRUE)
  <2>1. status' = "blocked" /\ IssuesSeen' = "blocker"
    BY <1>1, <1>4, IssuesAfterFiling DEF ReportProblem
  <2> QED
    BY <1>1, <1>2, <1>8, <2>1 DEF Board!ReportProgress
<1>5. ASSUME NEW i \in Issues, NEW blocker \in BOOLEAN, NEW n, CreateIssue(i, blocker, n)
      PROVE  Board!CreateIssue(blocker)
  <2>1. IssuesSeen' = IF blocker THEN "blocker"
                      ELSE IF IssuesSeen = "none" THEN "unclosed" ELSE IssuesSeen
    BY <1>1, <1>5, IssuesAfterFiling DEF CreateIssue
  <2>2. status' = IF blocker THEN "blocked" ELSE TaskRow.status
    BY <1>5, RowSeen DEF CreateIssue
  <2> QED
    BY <1>1, <1>2, <2>1, <2>2 DEF Board!CreateIssue, Board!MayRaiseIssue
<1>6. ASSUME NEW i \in Issues, NEW to \in IssueStatus, TransitionIssue(i, to)
      PROVE  Board!TransitionIssue(IssuesSeen', to # "processing")
  <2>1. status' = IF TaskRow.status = "blocked" /\ to # "processing" /\ IssuesSeen # "blocker"
                    THEN "in_progress" ELSE TaskRow.status
    BY <1>1, <1>6, IssuesAfterTransition, RowSeen DEF TransitionIssue
  <2>2. Board!Commit([ TaskRow EXCEPT !.status =
            IF @ = "blocked" /\ to # "processing" /\ IssuesSeen # "blocker"
              THEN "in_progress" ELSE @ ])
    BY <1>1, <2>1
  <2> QED
    BY <1>1, <1>2, <1>6, <2>2, IssuesAfterTransition DEF Board!TransitionIssue
<1>7. IssuesSeen' \in { "none", "unclosed", "blocker" }
  BY DEF IssuesSeen
<1> QED
  BY <1>3, <1>4, <1>5, <1>6, <1>7 DEF IssueWrite, IssueTrack, Board!UserStep

\* The round: rework is owed on the board exactly when the rows owe it.
LEMMA ReviewOnBoard ==
  ASSUME BoardInv, BoardInv', ReviewWrite
  PROVE  Board!UserStep
<1>1. /\ RoundInv
      /\ UNCHANGED << ChangeRow, PlanSeen, IssuesSeen >>
  BY BoardStepIsStep, ReviewStepFrame, ChangeSeen, SameNodesSeen, SameIssuesSeen
     DEF ReviewWrite, BoardInv
<1>2. (AllCompleted => PlanSeen = "done")
      /\ (~ (\E i \in Issues : Unclosed(i)) => IssuesSeen = "none")
  BY DEF AllCompleted, PlanSeen, IssuesSeen, Unclosed, ActiveBlocker
<1>3. CASE /\ SubmitCompletion
           /\ WriteLog(status')
           /\ review' = [ status |-> "submitted", version |-> version + 1, rework |-> "none" ]
  <2>1. TaskRow.status \in Board!ExecutionStatus
    BY <1>3, RowSeen DEF SubmitCompletion, MaySubmit, Executing, ExecutionStatus,
       Board!ExecutionStatus
  <2>2. review.status # "submitted" /\ ~(review.status = "rejected" /\ review.rework = "wanted")
    BY <1>1, <1>3 DEF RoundInv, SubmitCompletion, MaySubmit, ReworkDone
  <2>3. Board!MaySubmit
    BY <1>2, <1>3, <2>1, <2>2 DEF Board!MaySubmit, SubmitCompletion, MaySubmit
  <2>4. Board!Commit([ TaskRow EXCEPT !.status = "pending_review" ])
    BY <1>3, WriteIsCommit DEF SubmitCompletion
  <2>5. UNCHANGED (status = "archived")
    BY <1>3 DEF SubmitCompletion, MaySubmit, Executing, ExecutionStatus
  <2>6. Board!SubmitCompletion
    BY <1>1, <1>3, <2>3, <2>4, <2>5, RowSeen DEF Board!SubmitCompletion
  <2> QED
    BY <2>6 DEF Board!UserStep
<1>4. CASE /\ ApproveCompletion
           /\ version + 1 < MaxVersion
           /\ version' = version + 2
           /\ log' = [ to |-> "archived", version |-> version + 2 ]
           /\ review' = [ review EXCEPT !.status = "approved" ]
  <2>1. Board!MayApprove
    BY <1>1, <1>2, <1>4, RowSeen DEF RoundInv, ApproveCompletion, MayApprove, Board!MayApprove,
       Board!SubmittedReview
  <2>2. TaskRow' = [ TaskRow EXCEPT !.status = "archived", !.version = version + 2 ]
    <3>1. TaskRow \in Rows({status}, {version})
      BY DEF TaskRow, RowAt, Rows
    <3>2. [ TaskRow EXCEPT !.status = "archived", !.version = version + 2 ]
            \in Rows({"archived"}, {version + 2})
      BY <3>1 DEF Rows
    <3>3. [ TaskRow EXCEPT !.status = "archived", !.version = version + 2 ]
            = RowAt("archived", version + 2)
      BY <3>2, RowOfParts
    <3>4. TaskRow' = RowAt("archived", version + 2)
      BY <1>4 DEF TaskRow, RowAt, ApproveCompletion
    <3> QED
      BY <3>3, <3>4
  <2>3. (status = "archived")'
    BY <1>4 DEF ApproveCompletion
  <2>4. Board!ApproveCompletion
    BY <1>1, <1>4, <2>1, <2>2, <2>3, RowSeen DEF Board!ApproveCompletion
  <2> QED
    BY <2>4 DEF Board!UserStep
<1>5. ASSUME NEW n \in Nodes \cup {None}, RejectCompletion(n), WriteLog(status'),
             review' = [ review EXCEPT !.status = "rejected",
                                       !.rework = IF n = None THEN "none" ELSE "wanted" ]
      PROVE  Board!RejectCompletion(IF n = None THEN "none" ELSE "wanted")
  <2>1. Board!MayReject
    BY <1>1, <1>5, RowSeen DEF RoundInv, RejectCompletion, MayReject, Board!MayReject,
       Board!SubmittedReview
  <2>2. Board!Commit([ TaskRow EXCEPT !.status = "in_progress" ])
    BY <1>5, WriteIsCommit DEF RejectCompletion
  <2>3. UNCHANGED (status = "archived")
    BY <1>5 DEF RejectCompletion, MayReject
  <2> QED
    BY <1>1, <1>5, <2>1, <2>2, <2>3 DEF Board!RejectCompletion
<1> QED
  BY <1>3, <1>4, <1>5 DEF ReviewWrite, Board!UserStep

\* Row by row, the handlers of the execution do to the task what the lifecycle allows: what
\* TaskLifecycle takes for granted of nodes, issues and rework is what these handlers write.
THEOREM ExecutionStepsOnBoard == BoardSpec => StepsOfTheBoard
<1>1. BoardInv /\ BoardInv' /\ [BoardNext]_boardVars => [Board!UserStep]_(Board!vars)
  <2>1. ASSUME UNCHANGED << status, nodes, issues, change >>, UNCHANGED rowVars
        PROVE  UNCHANGED Board!vars
    BY <2>1, SameNodesSeen, SameIssuesSeen DEF Board!vars, rowVars, TaskRow, RowAt, ChangeRow
  <2>2. UNCHANGED boardVars => UNCHANGED Board!vars
    BY <2>1 DEF boardVars, vars
  <2>3. ASSUME NEW n \in Nodes, RemindOfNode(n), UNCHANGED rowVars
        PROVE  UNCHANGED Board!vars
    BY <2>1, <2>3 DEF RemindOfNode
  <2> QED
    BY <2>2, <2>3, PlanOnBoard, NodeOnBoard, IssueOnBoard, ReviewOnBoard DEF BoardNext
<1> QED
  BY <1>1, BoardInductive, PTL DEF BoardSpec, StepsOfTheBoard

=============================================================================
