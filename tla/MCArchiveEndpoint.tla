-------------------------- MODULE MCArchiveEndpoint --------------------------
(* ArchiveEndpoint for TLC: two candidate assignees, taken as interchangeable. *)
EXTENDS ArchiveEndpoint, TLC

CONSTANTS Li, Wang, Week

\* Assignees are compared for equality only.
Symmetry == Permutations({ Li, Wang })

=============================================================================
