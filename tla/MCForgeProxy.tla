---------------------------- MODULE MCForgeProxy ----------------------------
(* A small instance of ForgeProxy.                                         *)
EXTENDS ForgeProxy, TLC

\* No two sandboxes, requests or addresses differ.
Symmetry == Permutations(Ids) \cup Permutations(Requests) \cup Permutations(Addresses)

=============================================================================
