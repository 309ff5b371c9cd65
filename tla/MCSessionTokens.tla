--------------------------- MODULE MCSessionTokens ---------------------------
(* SessionTokens for TLC. *)
EXTENDS SessionTokens
=============================================================================
