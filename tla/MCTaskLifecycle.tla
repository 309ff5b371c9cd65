--------------------------- MODULE MCTaskLifecycle ---------------------------
(* TaskLifecycle and its menu for TLC, with two candidate assignees. *)
EXTENDS ActionMenu

CONSTANTS Li, Wang, Week

=============================================================================
