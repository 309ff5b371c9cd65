----------------------- MODULE DependencyGraphProofs -----------------------
(***************************************************************************)
(* That the counting in validate_dependency_graph decides whether any plan *)
(* is acyclic, for any nodes and any list of edges.                        *)
(*                                                                         *)
(* While it sorts, indegree is the number of predecessors not yet visited, *)
(* the queue holds the unvisited nodes that have none, and every edge from *)
(* a visited node starts at a lower rank.                                  *)
(***************************************************************************)
EXTENDS DependencyGraph, FiniteSetTheorems, WellFoundedInduction, TLAPS

Visited == { n \in Nodes : rank[n] # 0 }

\* The predecessors that a node waits for.
Waiting(m) == { n \in Nodes : << n, m >> \in seen /\ rank[n] = 0 }

\* The edges read so far were new, and are those seen.
ReadInv ==
  /\ seen \subseteq EdgeSet
  /\ \A i \in DOMAIN edges : i < at => edges[i] \in seen
  /\ \A i, j \in DOMAIN edges : i < at /\ j < at /\ edges[i] = edges[j] => i = j
  /\ \A e \in seen : e[1] # e[2] /\ \E i \in DOMAIN edges : i < at /\ edges[i] = e
  /\ verdict \in { "sorting", "valid", "cycle" } => \A i \in DOMAIN edges : i < at
  /\ verdict = "reading" => visited = 0 /\ ready = {} /\ \A n \in Nodes : rank[n] = 0

\* The counts are counts.
CountInv ==
  /\ \A n \in Nodes : indegree[n] = Cardinality(Waiting(n))
  /\ visited = Cardinality(Visited)

\* The visited nodes come first in the order, and the queue comes next.
SortInv ==
  /\ \A n \in Nodes : rank[n] <= visited
  /\ \A m, n \in Nodes :
       << m, n >> \in seen /\ rank[n] # 0 => rank[m] # 0 /\ rank[m] < rank[n]
  /\ \A n \in ready : rank[n] = 0 /\ Waiting(n) = {}
  /\ verdict \in { "sorting", "cycle" } =>
       \A n \in Nodes : rank[n] = 0 /\ Waiting(n) = {} => n \in ready
  /\ verdict = "valid" => visited = Cardinality(Nodes)
  /\ verdict = "cycle" => visited # Cardinality(Nodes) /\ ready = {}

IInv == TypeOK /\ ReadInv /\ CountInv /\ SortInv /\ RefusedForCause

-----------------------------------------------------------------------------
(* Counting *)

LEMMA SubsetsAreFinite ==
  ASSUME NEW S \in SUBSET Nodes
  PROVE  IsFiniteSet(S) /\ Cardinality(S) \in Nat
  BY NodesAreFinite, FS_Subset, FS_CardinalityType

\* What the length of the list does not matter for.
LEMMA Arguments ==
  ASSUME TypeOK
  PROVE  /\ at \in Nat \ {0}
         /\ DOMAIN edges \subseteq Nat
         /\ \A i \in DOMAIN edges : edges[i] \in Ids \X Ids
         /\ at \notin DOMAIN edges => \A i \in DOMAIN edges : i < at
  BY MaxEdgesIsNat DEF TypeOK

-----------------------------------------------------------------------------
(* The verdict "cycle" *)

\* A set of numbers that is not empty has a least element.
LEMMA LeastNumber ==
  ASSUME NEW T \in SUBSET Nat, T # {}
  PROVE  \E x \in T : \A y \in T : ~(y < x)
<1> DEFINE R == OpToRel(<, Nat)
<1>1. IsWellFoundedOn(R, Nat)
  BY NatLessThanWellFounded
<1>2. PICK x \in T : \A y \in T : ~ (<< y, x >> \in R)
  BY <1>1, WFMin
<1> QED
  BY <1>2 DEF OpToRel

\* An unvisited node waits for another one when the queue is empty: no order has a first.
LEMMA StuckIsCyclic ==
  ASSUME IInv, verdict = "sorting", ready = {}, visited # Cardinality(Nodes)
  PROVE  ~Acyclic(Nodes, EdgeSet)
<1>1. SUFFICES ASSUME Acyclic(Nodes, EdgeSet)
               PROVE  FALSE
  OBVIOUS
<1>2. PICK r \in [ Nodes -> 1..Cardinality(Nodes) ] : \A e \in EdgeSet : r[e[1]] < r[e[2]]
  BY <1>1 DEF Acyclic
<1> DEFINE U == Nodes \ Visited
<1> DEFINE T == { r[n] : n \in U }
<1>3. U # {}
  <2>1. Visited \subseteq Nodes
    BY DEF Visited
  <2>2. visited = Cardinality(Visited)
    BY DEF IInv, CountInv
  <2> QED
    BY <2>1, <2>2
<1>4. T \in SUBSET Nat /\ T # {}
  <2>1. \A n \in Nodes : r[n] \in Nat
    BY <1>2, SubsetsAreFinite
  <2> QED
    BY <1>3, <2>1
<1>5. PICK x \in T : \A y \in T : ~(y < x)
  BY <1>4, LeastNumber
<1>6. PICK n \in U : x = r[n]
  OBVIOUS
<1>7. n \in Nodes /\ rank[n] = 0
  BY <1>6 DEF Visited
<1>8. Waiting(n) # {}
  BY <1>7 DEF IInv, SortInv
<1>9. PICK m \in Nodes : << m, n >> \in seen /\ rank[m] = 0
  BY <1>8 DEF Waiting
<1>10. r[m] < r[n]
  BY <1>2, <1>9 DEF IInv, ReadInv
<1>11. m \in U
  BY <1>9 DEF Visited
<1> QED
  BY <1>5, <1>6, <1>10, <1>11

-----------------------------------------------------------------------------
(* The verdict "valid" *)

\* All visited, the ranks are an order of the plan.
LEMMA VisitedIsAcyclic == IInv => ValidIsAcyclic
<1> SUFFICES ASSUME IInv, verdict = "valid"
             PROVE  Acyclic(Nodes, EdgeSet) /\ NoDuplicates
  BY DEF ValidIsAcyclic
<1>1. visited = Cardinality(Nodes) /\ visited = Cardinality(Visited)
  BY DEF IInv, SortInv, CountInv
<1>2. Visited = Nodes
  <2>1. Visited \in SUBSET Nodes
    BY DEF Visited
  <2> QED
    BY <2>1, <1>1, NodesAreFinite, FS_Subset
<1>3. EdgeSet = seen
  BY DEF IInv, ReadInv, EdgeSet
<1>4. rank \in [ Nodes -> 1..Cardinality(Nodes) ]
  <2>1. \A n \in Nodes : rank[n] \in Nat /\ rank[n] # 0 /\ rank[n] <= visited
    BY <1>2 DEF Visited, IInv, SortInv, TypeOK
  <2>2. rank \in [ Nodes -> Nat ] /\ visited \in Nat
    BY DEF IInv, TypeOK
  <2> QED
    BY <2>1, <2>2, <1>1
<1>5. \A e \in EdgeSet : e \in Nodes \X Nodes /\ rank[e[1]] < rank[e[2]]
  <2> SUFFICES ASSUME NEW e \in seen
               PROVE  e \in Nodes \X Nodes /\ rank[e[1]] < rank[e[2]]
    BY <1>3
  <2>1. e \in Nodes \X Nodes
    BY DEF IInv, TypeOK
  <2>2. e = << e[1], e[2] >> /\ e[1] \in Nodes /\ e[2] \in Nodes
    BY <2>1
  <2>3. rank[e[2]] # 0
    BY <2>2, <1>2 DEF Visited
  <2> QED
    BY <2>1, <2>2, <2>3 DEF IInv, SortInv
<1>6. NoDuplicates
  BY DEF NoDuplicates, IInv, ReadInv
<1> QED
  BY <1>4, <1>5, <1>6 DEF Acyclic

-----------------------------------------------------------------------------
(* The invariant *)

LEMMA InitIInv == Init => IInv
<1> SUFFICES ASSUME Init
             PROVE  IInv
  OBVIOUS
<1>1. TypeOK
  <2>1. PICK len \in 0..MaxEdges : edges \in [ 1..len -> Ids \X Ids ]
    BY DEF Init
  <2>2. at \in 1..(len + 1)
    BY MaxEdgesIsNat DEF Init
  <2> QED
    BY <2>1, <2>2 DEF Init, TypeOK
<1>2. \A i \in DOMAIN edges : ~(i < at)
  BY MaxEdgesIsNat DEF Init
<1>3. ReadInv
  BY <1>2 DEF Init, ReadInv
<1>4. Visited = {} /\ \A n \in Nodes : Waiting(n) = {}
  BY DEF Init, Visited, Waiting
<1>5. CountInv
  BY <1>4, FS_EmptySet DEF Init, CountInv
<1>6. SortInv
  BY DEF Init, SortInv
<1>7. RefusedForCause
  BY DEF Init, RefusedForCause, Refusals
<1> QED
  BY <1>1, <1>3, <1>5, <1>6, <1>7 DEF IInv

\* An edge that passes every check.
LEMMA SoundEdge ==
  ASSUME TypeOK, at \in DOMAIN edges, Fault(edges[at]) = "none"
  PROVE  /\ edges[at] = << edges[at][1], edges[at][2] >>
         /\ edges[at][1] \in Nodes
         /\ edges[at][2] \in Nodes
         /\ edges[at][1] # edges[at][2]
         /\ edges[at] \notin seen
<1>1. edges[at] \in Ids \X Ids
  BY Arguments
<1> QED
  BY <1>1 DEF Fault

LEMMA ReadEdgeKeeps == IInv /\ ReadEdge => IInv'
<1> SUFFICES ASSUME IInv, ReadEdge
             PROVE  IInv'
  OBVIOUS
<1> USE DEF IInv
<1> DEFINE p == edges[at][1]
           q == edges[at][2]
<1>1. /\ edges[at] = << p, q >>
      /\ p \in Nodes
      /\ q \in Nodes
      /\ p # q
      /\ << p, q >> \notin seen
  BY SoundEdge DEF ReadEdge
<1>2. /\ verdict = "reading" /\ verdict' = "reading"
      /\ seen' = seen \cup { << p, q >> }
      /\ indegree' = [ indegree EXCEPT ![q] = @ + 1 ]
      /\ at' = at + 1
      /\ UNCHANGED << edges, ready, visited, rank >>
  BY <1>1 DEF ReadEdge, Counted
<1>3. at \in Nat \ {0} /\ DOMAIN edges \subseteq Nat /\ at \in DOMAIN edges
  BY Arguments DEF ReadEdge
<1>4. visited = 0 /\ ready = {} /\ \A n \in Nodes : rank[n] = 0
  BY <1>2 DEF ReadInv
<1>5. TypeOK'
  <2>1. PICK len \in 0..MaxEdges : edges \in [ 1..len -> Ids \X Ids ] /\ at \in 1..(len + 1)
    BY DEF TypeOK
  <2>2. at' \in 1..(len + 1)
    BY <2>1, <1>2, <1>3, MaxEdgesIsNat
  <2>3. indegree' \in [ Nodes -> Nat ] /\ seen' \subseteq Nodes \X Nodes
    BY <1>1, <1>2 DEF TypeOK
  <2> QED
    BY <2>1, <2>2, <2>3, <1>2 DEF TypeOK
<1>6. ReadInv'
  <2>1. \A i \in DOMAIN edges : i < at' <=> i < at \/ i = at
    BY <1>2, <1>3
  <2>2. \A i \in DOMAIN edges : i < at => edges[i] # edges[at]
    BY <1>1 DEF ReadInv
  <2>3. << p, q >>[1] = p /\ << p, q >>[2] = q
    OBVIOUS
  <2> QED
    BY <2>1, <2>2, <2>3, <1>1, <1>2, <1>3, <1>4 DEF ReadInv, EdgeSet
<1>7. CountInv'
  <2>1. Visited' = Visited
    BY <1>2 DEF Visited
  <2>2. ASSUME NEW n \in Nodes
        PROVE  indegree'[n] = Cardinality(Waiting(n)')
    <3>1. IsFiniteSet(Waiting(n)) /\ indegree[n] = Cardinality(Waiting(n))
      BY SubsetsAreFinite DEF Waiting, CountInv
    <3>2. CASE n = q
      <4>1. Waiting(n)' = Waiting(n) \cup {p}
        BY <3>2, <1>1, <1>2, <1>4 DEF Waiting
      <4>2. p \notin Waiting(n)
        BY <3>2, <1>1 DEF Waiting
      <4>3. Cardinality(Waiting(n) \cup {p}) = Cardinality(Waiting(n)) + 1
        BY <4>2, <3>1, FS_AddElement
      <4> QED
        BY <4>1, <4>3, <3>1, <3>2, <1>2 DEF TypeOK
    <3>3. CASE n # q
      <4>1. Waiting(n)' = Waiting(n)
        BY <3>3, <1>1, <1>2 DEF Waiting
      <4> QED
        BY <4>1, <3>1, <3>3, <1>2 DEF TypeOK
    <3> QED
      BY <3>2, <3>3
  <2> QED
    BY <2>1, <2>2, <1>2 DEF CountInv
<1>8. SortInv'
  BY <1>2, <1>4 DEF SortInv
<1>9. RefusedForCause'
  BY <1>2 DEF RefusedForCause, Refusals
<1> QED
  BY <1>5, <1>6, <1>7, <1>8, <1>9

\* What an edge is refused for excludes an order of the plan, or is a repetition.
LEMMA FaultIsCause ==
  ASSUME IInv, verdict = "reading", at \in DOMAIN edges, Fault(edges[at]) # "none"
  PROVE  ~(Acyclic(Nodes, EdgeSet) /\ NoDuplicates)
<1> SUFFICES ASSUME Acyclic(Nodes, EdgeSet), NoDuplicates
             PROVE  FALSE
  OBVIOUS
<1> DEFINE e == edges[at]
<1>1. e \in EdgeSet
  BY DEF EdgeSet
<1>2. e \in Nodes \X Nodes
  BY <1>1 DEF Acyclic
<1>3. e[1] # e[2]
  <2>1. PICK r \in [ Nodes -> 1..Cardinality(Nodes) ] : r[e[1]] < r[e[2]]
    BY <1>1 DEF Acyclic
  <2>2. r[e[1]] \in Nat /\ r[e[2]] \in Nat
    BY <2>1, <1>2, SubsetsAreFinite
  <2> QED
    BY <2>1, <2>2
<1>4. e \notin seen
  <2>1. SUFFICES ASSUME e \in seen
                 PROVE  FALSE
    OBVIOUS
  <2>2. PICK i \in DOMAIN edges : i < at /\ edges[i] = e
    BY <2>1 DEF IInv, ReadInv
  <2>3. i = at
    BY <2>2 DEF NoDuplicates
  <2> QED
    BY <2>2, <2>3, Arguments DEF IInv
<1> QED
  BY <1>2, <1>3, <1>4 DEF Fault

LEMMA RefuseEdgeKeeps == IInv /\ RefuseEdge => IInv'
<1> SUFFICES ASSUME IInv, RefuseEdge
             PROVE  IInv'
  OBVIOUS
<1>1. /\ verdict' \in { "foreign", "self", "duplicate" }
      /\ UNCHANGED << edges, at, seen, indegree, ready, visited, rank >>
  BY DEF RefuseEdge, Fault
<1>2. TypeOK'
  BY <1>1 DEF IInv, TypeOK, Refusals
<1>3. ReadInv'
  BY <1>1 DEF IInv, ReadInv, EdgeSet
<1>4. CountInv'
  BY <1>1 DEF IInv, CountInv, Visited, Waiting
<1>5. SortInv'
  BY <1>1 DEF IInv, SortInv, Waiting
<1>6. ~(Acyclic(Nodes, EdgeSet') /\ NoDuplicates')
  <2>1. ~(Acyclic(Nodes, EdgeSet) /\ NoDuplicates)
    BY FaultIsCause DEF RefuseEdge
  <2> QED
    BY <2>1, <1>1 DEF EdgeSet, NoDuplicates
<1> QED
  BY <1>2, <1>3, <1>4, <1>5, <1>6 DEF IInv, RefusedForCause

LEMMA BeginSortKeeps == IInv /\ BeginSort => IInv'
<1> SUFFICES ASSUME IInv, BeginSort
             PROVE  IInv'
  OBVIOUS
<1>1. /\ verdict = "reading" /\ verdict' = "sorting"
      /\ at \notin DOMAIN edges
      /\ ready' = { n \in Nodes : indegree[n] = 0 }
      /\ UNCHANGED << edges, at, seen, indegree, visited, rank >>
  BY DEF BeginSort
<1>2. TypeOK'
  BY <1>1 DEF IInv, TypeOK
<1>3. ReadInv'
  BY <1>1, Arguments DEF IInv, ReadInv, EdgeSet
<1>4. CountInv'
  BY <1>1 DEF IInv, CountInv, Visited, Waiting
<1>5. \A n \in Nodes : n \in ready' <=> Waiting(n)' = {}
  <2> TAKE n \in Nodes
  <2>1. IsFiniteSet(Waiting(n)) /\ indegree[n] = Cardinality(Waiting(n))
    BY SubsetsAreFinite DEF Waiting, IInv, CountInv
  <2>2. indegree[n] = 0 <=> Waiting(n) = {}
    BY <2>1, FS_EmptySet
  <2> QED
    BY <2>2, <1>1 DEF Waiting
<1>6. \A n \in Nodes : rank'[n] = 0
  BY <1>1 DEF IInv, ReadInv
<1>7. SortInv'
  BY <1>1, <1>5, <1>6 DEF IInv, SortInv
<1> QED
  BY <1>1, <1>2, <1>3, <1>4, <1>7 DEF IInv, RefusedForCause, Refusals

LEMMA VisitKeeps ==
  ASSUME IInv, NEW n \in Nodes, Visit(n)
  PROVE  IInv'
<1> USE DEF IInv
<1>1. /\ verdict = "sorting" /\ verdict' = "sorting"
      /\ n \in ready
      /\ visited' = visited + 1
      /\ rank' = [ rank EXCEPT ![n] = visited + 1 ]
      /\ ready' = (ready \ {n}) \cup Released(n)
      /\ UNCHANGED << edges, at, seen >>
  BY DEF Visit
<1>2. visited \in Nat /\ rank \in [ Nodes -> Nat ] /\ ready \subseteq Nodes
  BY DEF TypeOK
<1>3. rank[n] = 0 /\ Waiting(n) = {}
  BY <1>1 DEF SortInv
<1>4. \A m \in Nodes : << m, n >> \in seen => rank[m] # 0
  BY <1>3 DEF Waiting
<1>5. \A m \in Nodes : << n, m >> \in seen => rank[m] = 0 /\ m # n
  BY <1>3, <1>4 DEF SortInv
<1>6. /\ \A m \in Nodes : m # n => rank'[m] = rank[m]
      /\ rank'[n] = visited + 1
      /\ rank' \in [ Nodes -> Nat ]
  BY <1>1, <1>2
<1>7. ASSUME NEW m \in Nodes
      PROVE  /\ Waiting(m)' = Waiting(m) \ {n}
             /\ n \in Waiting(m) <=> << n, m >> \in seen
             /\ IsFiniteSet(Waiting(m))
             /\ indegree[m] = Cardinality(Waiting(m))
             /\ indegree'[m] = Cardinality(Waiting(m) \ {n})
             /\ indegree'[m] \in Nat
  <2>1. Waiting(m)' = Waiting(m) \ {n}
    BY <1>1, <1>2, <1>6 DEF Waiting
  <2>2. n \in Waiting(m) <=> << n, m >> \in seen
    BY <1>3 DEF Waiting
  <2>3. /\ IsFiniteSet(Waiting(m)) /\ indegree[m] = Cardinality(Waiting(m))
        /\ Cardinality(Waiting(m) \ {n}) \in Nat
    BY SubsetsAreFinite DEF Waiting, CountInv
  <2>4. Cardinality(Waiting(m) \ {n}) =
          IF n \in Waiting(m) THEN Cardinality(Waiting(m)) - 1 ELSE Cardinality(Waiting(m))
    BY <2>3, FS_RemoveElement
  <2>5. indegree'[m] = IF << n, m >> \in seen THEN indegree[m] - 1 ELSE indegree[m]
    BY DEF Visit
  <2> QED
    BY <2>1, <2>2, <2>3, <2>4, <2>5
<1>8. Released(n) \subseteq Nodes
  BY DEF Released
<1>9. TypeOK'
  <2>1. indegree' = [ m \in Nodes |-> indegree'[m] ]
    BY DEF Visit
  <2>2. indegree' \in [ Nodes -> Nat ]
    BY <2>1, <1>7
  <2>3. ready' \subseteq Nodes /\ visited' \in Nat
    BY <1>1, <1>2, <1>8
  <2> QED
    BY <2>2, <2>3, <1>1, <1>6 DEF TypeOK
<1>10. ReadInv'
  BY <1>1 DEF ReadInv, EdgeSet
<1>11. CountInv'
  <2>1. Visited' = Visited \cup {n}
    BY <1>1, <1>2, <1>6 DEF Visited
  <2>2. n \notin Visited /\ IsFiniteSet(Visited)
    BY <1>3, SubsetsAreFinite DEF Visited
  <2>3. Cardinality(Visited \cup {n}) = Cardinality(Visited) + 1
    BY <2>2, FS_AddElement
  <2>4. visited' = Cardinality(Visited')
    BY <2>1, <2>3, <1>1 DEF CountInv
  <2> QED
    BY <2>4, <1>7 DEF CountInv
<1>12. SortInv'
  <2>1. \A m \in Nodes : rank'[m] <= visited'
    BY <1>1, <1>2, <1>6 DEF SortInv
  <2>2. ASSUME NEW m \in Nodes, NEW k \in Nodes, << m, k >> \in seen, rank'[k] # 0
        PROVE  rank'[m] # 0 /\ rank'[m] < rank'[k]
    <3>1. CASE k = n
      <4>1. rank[m] # 0 /\ m # n /\ rank[m] <= visited
        BY <3>1, <2>2, <1>3, <1>4 DEF SortInv
      <4> QED
        BY <3>1, <4>1, <1>2, <1>6
    <3>2. CASE k # n
      <4>1. rank[k] # 0
        BY <3>2, <2>2, <1>6
      <4>2. rank[m] # 0 /\ rank[m] < rank[k]
        BY <4>1, <2>2 DEF SortInv
      <4> QED
        BY <3>2, <4>2, <1>3, <1>6
    <3> QED
      BY <3>1, <3>2
  <2>3. ASSUME NEW m \in ready'
        PROVE  rank'[m] = 0 /\ Waiting(m)' = {}
    <3>1. CASE m \in ready \ {n}
      BY <3>1, <1>2, <1>6, <1>7 DEF SortInv
    <3>2. CASE m \in Released(n)
      <4>1. m \in Nodes /\ << n, m >> \in seen /\ indegree[m] = 1
        BY <3>2 DEF Released
      <4>2. \E x : Waiting(m) = {x}
        BY <4>1, <1>7, FS_Singleton
      <4>3. Waiting(m) = {n}
        BY <4>1, <4>2, <1>7
      <4> QED
        BY <4>1, <4>3, <1>5, <1>6, <1>7
    <3> QED
      BY <3>1, <3>2, <1>1
  <2>4. ASSUME NEW m \in Nodes, rank'[m] = 0, Waiting(m)' = {}
        PROVE  m \in ready'
    <3>1. m # n /\ rank[m] = 0
      BY <2>4, <1>2, <1>6
    <3>2. CASE Waiting(m) = {}
      BY <3>1, <3>2, <1>1 DEF SortInv
    <3>3. CASE Waiting(m) # {}
      <4>1. Waiting(m) = {n}
        BY <3>3, <2>4, <1>7
      <4>2. Cardinality(Waiting(m)) = 1
        BY <4>1, FS_Singleton
      <4>3. m \in Released(n)
        BY <4>1, <4>2, <1>7 DEF Released
      <4> QED
        BY <4>3, <1>1
    <3> QED
      BY <3>2, <3>3
  <2> QED
    BY <2>1, <2>2, <2>3, <2>4, <1>1 DEF SortInv
<1> QED
  BY <1>1, <1>9, <1>10, <1>11, <1>12 DEF RefusedForCause, Refusals

LEMMA DecideKeeps == IInv /\ Decide => IInv'
<1> SUFFICES ASSUME IInv, Decide
             PROVE  IInv'
  OBVIOUS
<1>1. /\ verdict = "sorting" /\ ready = {}
      /\ verdict' = IF visited = Cardinality(Nodes) THEN "valid" ELSE "cycle"
      /\ UNCHANGED << edges, at, seen, indegree, ready, visited, rank >>
  BY DEF Decide
<1>2. TypeOK'
  BY <1>1 DEF IInv, TypeOK, Refusals
<1>3. ReadInv'
  BY <1>1 DEF IInv, ReadInv, EdgeSet
<1>4. CountInv'
  BY <1>1 DEF IInv, CountInv, Visited, Waiting
<1>5. SortInv'
  BY <1>1 DEF IInv, SortInv, Waiting
<1>6. RefusedForCause'
  <2>1. visited # Cardinality(Nodes) => ~Acyclic(Nodes, EdgeSet)
    BY <1>1, StuckIsCyclic
  <2> QED
    BY <2>1, <1>1 DEF RefusedForCause, Refusals, EdgeSet
<1> QED
  BY <1>2, <1>3, <1>4, <1>5, <1>6 DEF IInv

LEMMA StutterKeeps == IInv /\ UNCHANGED vars => IInv'
<1> SUFFICES ASSUME IInv, UNCHANGED vars
             PROVE  IInv'
  OBVIOUS
<1>1. UNCHANGED << edges, at, seen, indegree, ready, visited, rank, verdict >>
  BY DEF vars
<1>2. TypeOK'
  BY <1>1 DEF IInv, TypeOK
<1>3. ReadInv'
  BY <1>1 DEF IInv, ReadInv, EdgeSet
<1>4. CountInv'
  BY <1>1 DEF IInv, CountInv, Visited, Waiting
<1>5. SortInv'
  BY <1>1 DEF IInv, SortInv, Waiting
<1>6. RefusedForCause'
  BY <1>1 DEF IInv, RefusedForCause, EdgeSet, NoDuplicates
<1> QED
  BY <1>2, <1>3, <1>4, <1>5, <1>6 DEF IInv

LEMMA NextKeeps == IInv /\ [Next]_vars => IInv'
<1> SUFFICES ASSUME IInv, [Next]_vars
             PROVE  IInv'
  OBVIOUS
<1>1. CASE ReadEdge
  BY <1>1, ReadEdgeKeeps
<1>2. CASE RefuseEdge
  BY <1>2, RefuseEdgeKeeps
<1>3. CASE BeginSort
  BY <1>3, BeginSortKeeps
<1>4. CASE \E n \in Nodes : Visit(n)
  BY <1>4, VisitKeeps
<1>5. CASE Decide
  BY <1>5, DecideKeeps
<1>6. CASE UNCHANGED vars
  BY <1>6, StutterKeeps
<1> QED
  BY <1>1, <1>2, <1>3, <1>4, <1>5, <1>6 DEF Next

-----------------------------------------------------------------------------
(* The theorems *)

LEMMA Invariance == Spec => []IInv
<1> QED
  BY InitIInv, NextKeeps, PTL DEF Spec

\* The counts stay counts and the verdict a verdict: validate_dependency_graph.
THEOREM TypeCorrect == Spec => []TypeOK
<1>1. IInv => TypeOK
  BY DEF IInv
<1> QED
  BY <1>1, Invariance, PTL

\* Whatever plan validate_dependency_graph lets through can be worked off, whichever order
\* its sets are walked in.
THEOREM ValidPlansAreAcyclic == Spec => []ValidIsAcyclic
<1> QED
  BY VisitedIsAcyclic, Invariance, PTL

\* A plan that validate_dependency_graph refuses repeats an edge or cannot be worked off.
THEOREM OnlyFaultyPlansAreRefused == Spec => []RefusedForCause
<1>1. IInv => RefusedForCause
  BY DEF IInv
<1> QED
  BY <1>1, Invariance, PTL

\* The verdict of validate_dependency_graph is acyclicity without repetition, both ways.
THEOREM VerdictIsAcyclicity == Spec => []DecidesAcyclicity
<1> QED
  BY ValidPlansAreAcyclic, OnlyFaultyPlansAreRefused, PTL DEF DecidesAcyclicity

\* No node is appended to the deque after its visit, so that visited counts nodes.
THEOREM VisitedCountsNodes == Spec => QueuedOnce
<1>1. IInv' => \A n \in Nodes : n \in ready' \ ready => rank'[n] = 0
  BY DEF IInv, SortInv
<1>2. IInv /\ [Next]_vars =>
        [ \A n \in Nodes : n \in ready' \ ready => rank'[n] = 0 ]_vars
  BY <1>1, NextKeeps
<1> QED
  BY <1>2, Invariance, PTL DEF Spec, QueuedOnce

-----------------------------------------------------------------------------
(* How long it takes *)

\* The steps that the function has before it at most.
StepsLeft ==
  IF verdict = "reading"      THEN (MaxEdges + 1 - at) + Cardinality(Nodes) + 2
  ELSE IF verdict = "sorting" THEN (Cardinality(Nodes) - visited) + 1
  ELSE 0

LEMMA Bounds ==
  ASSUME IInv
  PROVE  /\ at \in 1..(MaxEdges + 1)
         /\ Cardinality(Nodes) \in Nat /\ visited \in 0..Cardinality(Nodes)
         /\ verdict \notin { "reading", "sorting" } => StepsLeft = 0
         /\ StepsLeft \in 0..(MaxEdges + Cardinality(Nodes) + 2)
<1>1. at \in 1..(MaxEdges + 1)
  BY MaxEdgesIsNat DEF IInv, TypeOK
<1>2. Cardinality(Nodes) \in Nat /\ visited \in 0..Cardinality(Nodes)
  <2>1. IsFiniteSet(Visited) /\ Cardinality(Visited) <= Cardinality(Nodes)
    BY NodesAreFinite, FS_Subset DEF Visited
  <2> QED
    BY <2>1, NodesAreFinite, FS_CardinalityType DEF IInv, CountInv
<1> QED
  BY <1>1, <1>2, MaxEdgesIsNat DEF StepsLeft

LEMMA StepCounts ==
  ASSUME IInv, IInv', Next
  PROVE  StepsLeft' < StepsLeft
<1> DEFINE size == Cardinality(Nodes)
<1>1. /\ at \in 1..(MaxEdges + 1) /\ at' \in 1..(MaxEdges + 1)
      /\ size \in Nat /\ visited \in 0..size /\ visited' \in 0..size
      /\ MaxEdges \in Nat
  <2>1. IInv => at \in 1..(MaxEdges + 1) /\ size \in Nat /\ visited \in 0..size
    BY Bounds
  <2>2. (IInv => at \in 1..(MaxEdges + 1) /\ size \in Nat /\ visited \in 0..size)'
    BY Bounds, PTL
  <2> QED
    BY <2>1, <2>2, MaxEdgesIsNat
<1> HIDE DEF size
<1>2. CASE ReadEdge
  BY <1>1, <1>2 DEF ReadEdge, StepsLeft, size
<1>3. CASE RefuseEdge
  <2>1. verdict' \notin { "reading", "sorting" }
    BY <1>3 DEF RefuseEdge, Fault
  <2> QED
    BY <1>1, <1>3, <2>1 DEF RefuseEdge, StepsLeft, size
<1>4. CASE BeginSort
  BY <1>1, <1>4 DEF BeginSort, StepsLeft, size
<1>5. CASE \E n \in Nodes : Visit(n)
  BY <1>1, <1>5 DEF Visit, StepsLeft, size
<1>6. CASE Decide
  <2>1. verdict' \notin { "reading", "sorting" }
    BY <1>6 DEF Decide
  <2> QED
    BY <1>1, <1>6, <2>1 DEF Decide, StepsLeft, size
<1> QED
  BY <1>2, <1>3, <1>4, <1>5, <1>6 DEF Next

\* validate_dependency_graph cannot go on for ever, on any plan: it has a step for every
\* edge and every node, and two more, and spends one whenever it does anything.
THEOREM VerdictComesInTime ==
  Spec => /\ [](StepsLeft \in 0..(MaxEdges + Cardinality(Nodes) + 2))
          /\ [][StepsLeft' < StepsLeft]_vars
<1>1. IInv => StepsLeft \in 0..(MaxEdges + Cardinality(Nodes) + 2)
  BY Bounds
<1>2. IInv /\ IInv' /\ [Next]_vars => [StepsLeft' < StepsLeft]_vars
  BY StepCounts
<1> QED
  BY <1>1, <1>2, Invariance, PTL DEF Spec

=============================================================================
