-------------------------------- MODULE Forge --------------------------------
(***************************************************************************)
(* The forge process as a whole: the handlers and the reaper share the     *)
(* registry and the Docker daemon, both of which outlive the process.      *)
(***************************************************************************)
EXTENDS Reaper, Api

vars == <<container, registry, reaper, server, req, known>>

TypeOK ==
    /\ ServerType
    /\ ContainerType
    /\ RegistryType
    /\ ReaperType
    /\ ApiType

Init ==
    /\ server = "up"
    /\ container = [id \in Ids |-> "unused"]
    /\ registry = [id \in Ids |-> NoRow]
    /\ reaper = Waiting
    /\ req = [r \in Requests |-> NoRequest]
    /\ known = {}

-----------------------------------------------------------------------------
Reap == ReaperStep /\ UNCHANGED <<req, known>>

Serve(r) == Handle(r) /\ UNCHANGED reaper

EndCommand(r) == (EndExec(r) \/ EndRun(r)) /\ UNCHANGED reaper

Client(r) == (Accept(r) \/ ContextEnds(r)) /\ UNCHANGED reaper

ClientReads(id) == ReadRow(id) /\ UNCHANGED reaper

Die(id) == ContainerDies(id) /\ UNCHANGED <<registry, reaper, server, req, known>>

\* A minute passes.  PassSpan bounds how many of them one pass may see.
Minute ==
    /\ Ages
    /\ \/ /\ reaper.pc = "idle"
          /\ UNCHANGED reaper
       \/ /\ reaper.pc # "idle"
          /\ reaper.elapsed < PassSpan
          /\ reaper' = [reaper EXCEPT !.elapsed = @ + 1]
    /\ UNCHANGED <<container, server, req, known>>

Signal == Stopping /\ UNCHANGED <<container, registry, reaper, req, known>>

(***************************************************************************)
(* The process ends and every goroutine with it: main returns after Run    *)
(* (all requests done, or Shutdown's deadline), or it dies.                *)
(***************************************************************************)
Exit ==
    /\ \/ server = "draining"
       \/ May("crash") /\ Alive
    /\ server' = "down"
    /\ reaper' = Waiting
    /\ req' = [r \in Requests |-> NoRequest]
    /\ UNCHANGED <<container, registry, known>>

\* main runs again, on the same database and the same daemon.
Restart ==
    /\ server = "down"
    /\ server' = "up"
    /\ UNCHANGED <<container, registry, reaper, req, known>>

Next ==
    \/ Reap
    \/ \E r \in Requests : Serve(r) \/ EndCommand(r) \/ Client(r)
    \/ \E id \in Ids : ClientReads(id) \/ Die(id)
    \/ Minute
    \/ Signal
    \/ Exit
    \/ Restart

Spec == Init /\ [][Next]_vars

(***************************************************************************)
(* Time passes, the ticker fires, the reaper's loop and a handler's calls  *)
(* go on.  A command may run for ever, but once its container has stopped  *)
(* its stream ends, and an agent's tool calls fail.  Clients, faults and   *)
(* restarts owe nothing.                                                   *)
(***************************************************************************)
Fairness ==
    /\ WF_vars(Minute)
    /\ WF_vars(Reap)
    /\ \A r \in Requests :
          /\ WF_vars(Serve(r))
          /\ WF_vars(EndCommand(r) /\ ~Running(req[r].id))

FairSpec == Spec /\ Fairness

-----------------------------------------------------------------------------
(* What holds of every step, whatever fails.                               *)

(***************************************************************************)
(* A sandbox the reaper holds for destruction was idle past the threshold  *)
(* when the pass read the clock, or somebody has used it since: the        *)
(* listing (reaper.go:82-86) and the ageing of its snapshot agree.         *)
(***************************************************************************)
ReapsOnlyStale ==
    \A id \in Ids :
        (ReaperHolds(id) /\ HasRow(id)) =>
            \/ registry[id].age > IdleDestroyMin + reaper.elapsed
            \/ registry[id].age <= reaper.elapsed

(***************************************************************************)
(* A sandbox clients were told of, once its row is gone, never gets a row  *)
(* again: no late touch, insert or status update of a request or of the    *)
(* reaper brings back what was deleted (registry.go:164-179, 212-218).     *)
(***************************************************************************)
RowNeverReturns ==
    [][\A id \in known : ~HasRow(id) => ~HasRow(id)']_vars

\* A container without a row, and without a creator at work on either.
Orphaned(id) == Exists(id) /\ ~HasRow(id) /\ \A r \in Requests : ~Creating(r, id)

(***************************************************************************)
(* How a creator fails for good: the answer to its first call is lost, the *)
(* call that cleans up fails, or the registry fails an agent run.          *)
(***************************************************************************)
CreatorFails(r) ==
    \/ req[r].pc = "create" /\ May("cancel")
    \/ req[r].pc \in {"discard", "remove"} /\ (~HasContext(r) \/ May("docker"))
    \/ At(r, "agent", "insert") /\ May("registry")

\* The calls of Destroy may fail the reaper.
ReaperCutShort == ~SignalContextAlive \/ May("docker")

(***************************************************************************)
(* Every leak has its failure: nothing but the failures of its creator,    *)
(* the end of the process before the creator is done, and a Destroy that   *)
(* failed the reaper leave a container without a row; a DELETE never does, *)
(* nor a container that does not start or a row that is not inserted while *)
(* the daemon answers and the client stays (docker.go:203-209,             *)
(* sandboxes.go:85-90, 169-176, agents.go:101, reaper.go:88-91).           *)
(***************************************************************************)
LeaksOnFailureOnly ==
    [][\A id \in Ids : (~Orphaned(id) /\ Orphaned(id)') =>
          \/ \E r \in Requests : Creating(r, id) /\ (CreatorFails(r) \/ server' = "down")
          \/ ReaperForgets(id) /\ ReaperCutShort]_vars

-----------------------------------------------------------------------------
(* What holds as long as only some kinds of fault happen.                  *)

(***************************************************************************)
(* No leak: a container without a row is one whose creator is still at     *)
(* work (sandboxes.go:60-90, agents.go:89-113).  Needs every call made on  *)
(* behalf of the process to be answered: containers may die, no more.      *)
(***************************************************************************)
NoOrphan == \A id \in Ids : ~Orphaned(id)

(***************************************************************************)
(* No ghost: a row whose container is removed is about to be deleted, by   *)
(* the request or the pass that removed the container (sandboxes.go:169-   *)
(* 176, reaper.go:87-96).  Daemon errors do not disturb it.                *)
(***************************************************************************)
RowBacked ==
    \A id \in Ids :
        (HasRow(id) /\ container[id] = "removed") =>
            ReaperForgets(id) \/ \E r \in Requests : HandlerForgets(r, id)

(***************************************************************************)
(* A container clients were told of never drops out of the registry while  *)
(* it exists, so listing, deleting and reaping still reach it, even when   *)
(* clients disconnect half way and the process crashes.                    *)
(***************************************************************************)
KnownTracked ==
    \A id \in known : Exists(id) => HasRow(id)

-----------------------------------------------------------------------------
(* What happens in the end.                                                *)

(***************************************************************************)
(* An idle sandbox is collected: a row that has aged is touched again or   *)
(* deleted (reaper.go:64-97).                                              *)
(***************************************************************************)
IdleRowReaped ==
    \A id \in Ids :
        (HasRow(id) /\ registry[id].age > 0) ~>
            (~HasRow(id) \/ registry[id].age = 0)

(***************************************************************************)
(* A command that never ends does not hold its handler for ever: unless    *)
(* somebody else uses the sandbox, the reaper removes the container under  *)
(* the command and its output stream ends (docker.go:259, reaper.go:88).   *)
(***************************************************************************)
HungExecReleased ==
    \A r \in Requests :
        (req[r].pc = "attached") ~>
            \/ req[r].pc # "attached"
            \/ HasRow(req[r].id) /\ registry[req[r].id].age = 0

=============================================================================
