------------------------- MODULE MCSchemaMigrations -------------------------
(* SchemaMigrations for TLC: the rows whose kinds the statements look at. *)
EXTENDS SchemaMigrations

CONSTANTS reviewer, other, null

=============================================================================
