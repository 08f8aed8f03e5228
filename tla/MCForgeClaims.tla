---------------------------- MODULE MCForgeClaims ----------------------------
(* Small instances of Forge on which the claims are tried.                 *)
EXTENDS ForgeClaims, TLC

=============================================================================
