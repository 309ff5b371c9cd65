-------------------------- MODULE MCOptimisticWrites -------------------------
(* OptimisticWrites for TLC: intentions of one kind are interchangeable. *)
EXTENDS OptimisticWrites, TLC

Symmetry ==
  Permutations(Actions) \cup Permutations(Payloads) \cup Permutations(Proposals)
    \cup Permutations(Approvals) \cup Permutations(Rejections)

=============================================================================
