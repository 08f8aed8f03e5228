------------------------------- MODULE Docker -------------------------------
(***************************************************************************)
(* The Docker daemon as DockerDriver uses it.  A container is named by its *)
(* sandbox id.  Names are drawn afresh for every Create, so a removed      *)
(* container never comes back.                                             *)
(***************************************************************************)
EXTENDS ServerProcess

VARIABLE container      \* container[id]: what the daemon holds under a name

ContainerStates == {"unused", "created", "running", "exited", "removed"}

ContainerType == container \in [Ids -> ContainerStates]

Exists(id)  == container[id] \in {"created", "running", "exited"}
Running(id) == container[id] = "running"

-----------------------------------------------------------------------------
(* The effect of each call that changes the daemon's state.                *)

ContainerCreate(id) ==
    /\ container[id] = "unused"
    /\ container' = [container EXCEPT ![id] = "created"]

ContainerStart(id) ==
    /\ container[id] = "created"
    /\ container' = [container EXCEPT ![id] = "running"]

\* Stopping a container that is not running, or is gone, changes nothing.
ContainerStop(id) ==
    container' = [container EXCEPT ![id] = IF @ = "running" THEN "exited" ELSE @]

\* Remove with Force; a container that is gone already counts as removed.
ContainerRemove(id) ==
    container' = [container EXCEPT ![id] = IF Exists(id) THEN "removed" ELSE @]

\* The container's first process ends without anyone stopping it.
ContainerDies(id) ==
    /\ May("death")
    /\ Running(id)
    /\ container' = [container EXCEPT ![id] = "exited"]

-----------------------------------------------------------------------------
(***************************************************************************)
(* How a call with the given effect answers a caller whose context is      *)
(* alive or not.  "cut": the context ends while the daemon is at work, so  *)
(* the caller sees an error although the daemon did what it was asked.     *)
(***************************************************************************)
Answer(alive, Effect, outcome) ==
    \/ outcome = "ok"    /\ alive /\ Effect
    \/ outcome = "cut"   /\ alive /\ May("cancel") /\ Effect
    \/ outcome = "error" /\ (~alive \/ May("docker")) /\ UNCHANGED container

=============================================================================
