-------------------------- MODULE MCReminderOutbox --------------------------
(* ReminderOutbox for TLC. *)
EXTENDS ReminderOutbox

CONSTANTS Li, Wang

\* Start, due-soon and deadline; due-soon may coincide with the start.
SmallPlans == { << 0, 0, 1 >>, << 0, 1, 2 >> }

=============================================================================
