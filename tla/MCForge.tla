------------------------------ MODULE MCForge ------------------------------
(* Small instances of Forge.                                               *)
EXTENDS ForgeService, TLC

\* Sandboxes are interchangeable, and so are requests.
Symmetry == Permutations(Ids) \cup Permutations(Requests)

=============================================================================
