----------------------------- MODULE PlanGraph -----------------------------
(***************************************************************************)
(* When a plan can be worked off.  NodeExecution takes it as the verdict   *)
(* of validate_dependency_graph; DependencyGraph is that function, step by *)
(* step, and shows that its verdict is this one.                           *)
(***************************************************************************)
EXTENDS Naturals, FiniteSets

\* No edge leaves the plan, and the nodes can be ranked so that every edge climbs.
Acyclic(N, edges) ==
  /\ edges \subseteq N \X N
  /\ \E rank \in [ N -> 1..Cardinality(N) ] : \A e \in edges : rank[e[1]] < rank[e[2]]

=============================================================================
