----------------------------- MODULE ForgeService -----------------------------
(***************************************************************************)
(* Forge as an implementation of SandboxService.                           *)
(***************************************************************************)
EXTENDS Forge

Unborn(id) == container[id] = "unused" \/ \E r \in Requests : Creating(r, id)

StageOf(id) ==
    IF HasRow(id) THEN "listed" ELSE IF Unborn(id) THEN "unborn" ELSE "retired"

ResourcesOf(id) ==
    IF container[id] = "unused" THEN "none" ELSE IF Exists(id) THEN "held" ELSE "freed"

Service == INSTANCE SandboxService WITH
    stage <- [id \in Ids |-> StageOf(id)],
    resources <- [id \in Ids |-> ResourcesOf(id)],
    told <- known

(***************************************************************************)
(* Under every fault a name lives once: no late insert, touch or retry     *)
(* brings back a row or a container, and no step of the handlers, the      *)
(* reaper, a crash or a restart takes a sandbox back to an earlier stage   *)
(* (sandboxes.go:60-179, agents.go:89-136, reaper.go:64-97).               *)
(***************************************************************************)
NamesLiveOnce == Service!ServiceSpec

=============================================================================
