--------------------------- MODULE DependencyGraph ---------------------------
(***************************************************************************)
(* validate_dependency_graph: what a plan, a change request or an AI       *)
(* result must pass before its nodes and dependencies are stored.  One     *)
(* pass over the edges counts the predecessors of each node; then the      *)
(* nodes are visited whose predecessors are all visited.  NodeExecution    *)
(* relies on its verdict as Acyclic.                                       *)
(*                                                                         *)
(* The queue is a set: a deque filled in the order in which Python walks   *)
(* sets and dicts, on which the verdict must not depend.                   *)
(***************************************************************************)
EXTENDS Integers, PlanGraph

CONSTANTS
  Nodes,    \* the nodes of the plan
  Foreign,  \* nodes of other tasks, which a client may name
  MaxEdges  \* bound: the length of the list of edges

ASSUME NodesAreFinite == IsFiniteSet(Nodes)
ASSUME ForeignIsForeign == Foreign \cap Nodes = {}
ASSUME MaxEdgesIsNat == MaxEdges \in Nat

VARIABLES
  edges,     \* the argument: a list of pairs
  at,        \* the place of the next edge to read
  seen,      \* seen_edges, and with it adjacency
  indegree,  \* of each node
  ready,     \* the queue
  visited,   \* how many nodes were visited
  rank,      \* history: when a node was visited, 0 before
  verdict    \* "reading", "sorting", "valid", or the reason of the refusal

vars == << edges, at, seen, indegree, ready, visited, rank, verdict >>

Ids == Nodes \cup Foreign

Refusals == { "foreign", "self", "duplicate", "cycle" }

TypeOK ==
  /\ \E len \in 0..MaxEdges : edges \in [ 1..len -> Ids \X Ids ] /\ at \in 1..(len + 1)
  /\ seen \subseteq Nodes \X Nodes
  /\ indegree \in [ Nodes -> Nat ]
  /\ ready \subseteq Nodes
  /\ visited \in Nat
  /\ rank \in [ Nodes -> Nat ]
  /\ verdict \in { "reading", "sorting", "valid" } \cup Refusals

Init ==
  /\ \E len \in 0..MaxEdges : edges \in [ 1..len -> Ids \X Ids ]
  /\ at = 1
  /\ seen = {}
  /\ indegree = [ n \in Nodes |-> 0 ]
  /\ ready = {}
  /\ visited = 0
  /\ rank = [ n \in Nodes |-> 0 ]
  /\ verdict = "reading"

-----------------------------------------------------------------------------
(* Reading the edges *)

\* Mutant: the successor may be a node of another task.
FaultOfPredecessor(e) ==
  IF e[1] \notin Nodes THEN "foreign"
  ELSE IF e[1] = e[2] THEN "self"
  ELSE IF e \in seen THEN "duplicate"
  ELSE "none"

\* The first of the checks that an edge fails.
Fault(e) ==
  IF e[1] \notin Nodes \/ e[2] \notin Nodes THEN "foreign"
  ELSE IF e[1] = e[2] THEN "self"
  ELSE IF e \in seen THEN "duplicate"
  ELSE "none"

Counted(e) == [ indegree EXCEPT ![e[2]] = @ + 1 ]

ReadEdge ==
  /\ verdict = "reading"
  /\ at \in DOMAIN edges
  /\ Fault(edges[at]) = "none"
  /\ seen' = seen \cup { edges[at] }
  /\ indegree' = Counted(edges[at])
  /\ at' = at + 1
  /\ UNCHANGED << edges, ready, visited, rank, verdict >>

RefuseEdge ==
  /\ verdict = "reading"
  /\ at \in DOMAIN edges
  /\ Fault(edges[at]) # "none"
  /\ verdict' = Fault(edges[at])
  /\ UNCHANGED << edges, at, seen, indegree, ready, visited, rank >>

-----------------------------------------------------------------------------
(* Sorting the nodes *)

BeginSort ==
  /\ verdict = "reading"
  /\ at \notin DOMAIN edges
  /\ ready' = { n \in Nodes : indegree[n] = 0 }
  /\ verdict' = "sorting"
  /\ UNCHANGED << edges, at, seen, indegree, visited, rank >>

\* Mutant: the degree is tested before it is lowered.
ReleasedLate(n) == { m \in Nodes : << n, m >> \in seen /\ indegree[m] = 0 }

\* The successors that wait for nothing else.
Released(n) == { m \in Nodes : << n, m >> \in seen /\ indegree[m] = 1 }

\* Mutant: the node stays at the head of the queue.
VisitHead(n) ==
  /\ verdict = "sorting"
  /\ n \in ready
  /\ visited < Cardinality(Nodes)
  /\ visited' = visited + 1
  /\ rank' = [ rank EXCEPT ![n] = visited + 1 ]
  /\ indegree' = [ m \in Nodes |-> IF << n, m >> \in seen THEN indegree[m] - 1
                                   ELSE indegree[m] ]
  /\ ready' = ready \cup Released(n)
  /\ UNCHANGED << edges, at, seen, verdict >>

Visit(n) ==
  /\ verdict = "sorting"
  /\ n \in ready
  /\ visited' = visited + 1
  /\ rank' = [ rank EXCEPT ![n] = visited + 1 ]
  /\ indegree' = [ m \in Nodes |-> IF << n, m >> \in seen THEN indegree[m] - 1
                                   ELSE indegree[m] ]
  /\ ready' = (ready \ {n}) \cup Released(n)
  /\ UNCHANGED << edges, at, seen, verdict >>

Decide ==
  /\ verdict = "sorting"
  /\ ready = {}
  /\ verdict' = IF visited = Cardinality(Nodes) THEN "valid" ELSE "cycle"
  /\ UNCHANGED << edges, at, seen, indegree, ready, visited, rank >>

Next ==
  \/ ReadEdge
  \/ RefuseEdge
  \/ BeginSort
  \/ \E n \in Nodes : Visit(n)
  \/ Decide

Spec == Init /\ [][Next]_vars

\* A function call runs to its end.
FairSpec == Spec /\ WF_vars(Next)

-----------------------------------------------------------------------------
(* Properties *)

\* The edges of the argument.
EdgeSet == { edges[i] : i \in DOMAIN edges }

NoDuplicates == \A i, j \in DOMAIN edges : edges[i] = edges[j] => i = j

\* Whatever is let through can be worked off: every edge is between nodes of the plan,
\* none twice, and the nodes can be ranked along the edges.
ValidIsAcyclic == verdict = "valid" => Acyclic(Nodes, EdgeSet) /\ NoDuplicates

\* Nothing is refused without cause: an edge is repeated, or no order of the nodes exists.
RefusedForCause ==
  verdict \in Refusals => ~(Acyclic(Nodes, EdgeSet) /\ NoDuplicates)

\* validate_dependency_graph decides: valid is what can be worked off, and all of it.
DecidesAcyclicity == ValidIsAcyclic /\ RefusedForCause

\* No node is queued twice, so that the count of visits is a count of nodes.
QueuedOnce ==
  [][ \A n \in Nodes : n \in ready' \ ready => rank'[n] = 0 ]_vars

\* Each list of edges gets its verdict.
GetsVerdict == <>(verdict \in { "valid" } \cup Refusals)

=============================================================================
