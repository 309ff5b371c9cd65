---------------------------- MODULE MCTaskIntake ----------------------------
(* TaskIntake for TLC. *)
EXTENDS TaskIntake
=============================================================================
