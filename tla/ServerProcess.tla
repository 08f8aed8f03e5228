--------------------------- MODULE ServerProcess ---------------------------
(***************************************************************************)
(* The forge process: the life of `main` and of `Server.Run`, and the      *)
(* faults an instance of the model lets happen.                            *)
(*                                                                         *)
(* server = "up"        requests are accepted; the signal context lives    *)
(* server = "draining"  SIGINT/SIGTERM arrived: the signal context is      *)
(*                      cancelled, no new request is accepted, requests    *)
(*                      in flight go on until Shutdown's deadline          *)
(* server = "down"      no process; the database and the containers stay   *)
(***************************************************************************)

CONSTANTS
    Ids,      \* the sandbox identifiers Create may draw (a bound)
    NoId,     \* no identifier
    Faults    \* the kinds of fault this instance lets happen

(***************************************************************************)
(* "cancel"    a request's context ends early: the client disconnects, or  *)
(*             an agent run's 10 minute deadline passes                    *)
(* "docker"    the Docker daemon answers a call with an error              *)
(* "model"     the language model's server answers with an error           *)
(* "registry"  a statement on the database fails                           *)
(* "crash"     the process dies at any point                               *)
(* "shutdown"  the process is asked to stop                                *)
(* "death"     a container's first process exits by itself                 *)
(***************************************************************************)
FaultKinds == {"cancel", "docker", "model", "registry", "crash", "shutdown", "death"}

ASSUME ServerProcessAssumption ==
    /\ Faults \subseteq FaultKinds
    /\ NoId \notin Ids

VARIABLE server

ServerType == server \in {"up", "draining", "down"}

May(fault) == fault \in Faults

\* The context main hands to the reaper is not cancelled yet.
SignalContextAlive == server = "up"

Alive == server # "down"

(***************************************************************************)
(* SIGINT or SIGTERM: NotifyContext cancels ctx, Run calls Shutdown.       *)
(***************************************************************************)
Stopping ==
    /\ May("shutdown")
    /\ server = "up"
    /\ server' = "draining"

=============================================================================
