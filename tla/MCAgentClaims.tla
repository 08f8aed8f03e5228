--------------------------- MODULE MCAgentClaims ---------------------------
(* Small instances of AgentEngine on which the claims are tried.           *)
EXTENDS AgentClaims, TLC

=============================================================================
