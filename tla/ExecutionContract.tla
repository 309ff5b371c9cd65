-------------------------- MODULE ExecutionContract --------------------------
(***************************************************************************)
(* What the execution of a task promises to the people who review it.      *)
(*                                                                         *)
(* Work that is finished stays finished.  The plan is put before the       *)
(* reviewer only when all of it is finished, and lies still while it is    *)
(* there.  A rejection may name one finished node; that node is reopened,  *)
(* once and alone, before anything is submitted again.                     *)
(***************************************************************************)
CONSTANT Nodes

VARIABLES
  stage,     \* "working", "reviewing" or "accepted"
  planned,   \* the nodes of the plan
  finished,  \* those that are completed
  owed       \* the node a rejection wants reopened: a set of at most one

vars == << stage, planned, finished, owed >>

Init ==
  /\ stage = "working"
  /\ planned \in (SUBSET Nodes) \ { {} }
  /\ finished = {}
  /\ owed = {}

Work ==
  /\ stage = "working"
  /\ finished \subseteq finished'
  /\ finished' \subseteq planned'
  /\ planned' \in (SUBSET Nodes) \ { {} }
  /\ UNCHANGED << stage, owed >>

Reopen ==
  /\ stage = "working"
  /\ owed # {}
  /\ finished' = finished \ owed
  /\ owed' = {}
  /\ UNCHANGED << stage, planned >>

Submit ==
  /\ stage = "working"
  /\ owed = {}
  /\ finished = planned
  /\ stage' = "reviewing"
  /\ UNCHANGED << planned, finished, owed >>

Reject ==
  /\ stage = "reviewing"
  /\ stage' = "working"
  /\ owed' \in { {} } \cup { {n} : n \in finished }
  /\ UNCHANGED << planned, finished >>

Accept ==
  /\ stage = "reviewing"
  /\ stage' = "accepted"
  /\ UNCHANGED << planned, finished, owed >>

Next == Work \/ Reopen \/ Submit \/ Reject \/ Accept

Spec == Init /\ [][Next]_vars

=============================================================================
