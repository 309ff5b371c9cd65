-------------------------- MODULE MCDependencyGraph --------------------------
(* DependencyGraph for TLC: nodes are interchangeable. *)
EXTENDS DependencyGraph, TLC

=============================================================================
