-------------------------- MODULE MCEnsureNetwork --------------------------
(* Small instances of EnsureNetwork.                                       *)
EXTENDS EnsureNetwork

=============================================================================
