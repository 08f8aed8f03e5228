---------------------------- MODULE MCDriverExec ----------------------------
(* Small instances of DriverExec, one image in each role.                  *)
EXTENDS DriverExec, TLC

=============================================================================
