--------------------------- MODULE MCAgentEngine ---------------------------
(* Small instances of AgentEngine: one sandbox with the forge user.        *)
EXTENDS AgentEngine, TLC

RunSymmetry == Permutations(Callers)

=============================================================================
