--------------------------- MODULE MCNodeExecution ---------------------------
(* NodeExecution and its menu for TLC: nodes are interchangeable. *)
EXTENDS NodeMenu, TLC

CONSTANTS Li, Wang

NodeSymmetry == Permutations(Nodes)

=============================================================================
