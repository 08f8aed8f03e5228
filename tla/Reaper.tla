------------------------------- MODULE Reaper -------------------------------
(***************************************************************************)
(* The idle reaper: one goroutine, one pass per tick.  A pass reads the    *)
(* clock once, puts long idle sandboxes to sleep, lists the sleeping ones  *)
(* that have been idle longer still, and destroys them one by one.  A pass *)
(* is many steps: requests run between any two of them, and its snapshots  *)
(* of the registry are stale by the time it acts on them.                  *)
(***************************************************************************)
EXTENDS Docker, Registry

CONSTANTS
    IdleSleepMin,       \* minutes before running -> sleeping
    IdleDestroyMin,     \* minutes before sleeping -> destroyed
    PassSpan            \* a pass lasts at most this many minutes (a bound)

ASSUME ReaperAssumption ==
    /\ IdleSleepMin \in Nat
    /\ IdleDestroyMin \in Nat
    /\ PassSpan \in Nat
    \* a saturated age is past both thresholds, whenever the pass began
    /\ AgeCap > IdleSleepMin + PassSpan
    /\ AgeCap > IdleDestroyMin + PassSpan

(***************************************************************************)
(* reaper.pc         "idle"    waiting for the ticker                      *)
(*                   "sleep"   marking the rows of toSleep                 *)
(*                   "destroy" taking the next sandbox of toDestroy        *)
(*                   "remove"  cur is stopped, about to be removed         *)
(*                   "unrow"   Destroy(cur) has answered, about to delete  *)
(*                             its row                                     *)
(* reaper.elapsed    minutes since the pass read the clock                 *)
(***************************************************************************)
VARIABLE reaper

Waiting == [pc |-> "idle", toSleep |-> {}, toDestroy |-> {}, cur |-> NoId,
            elapsed |-> 0]

ReaperType ==
    reaper \in [pc : {"idle", "sleep", "destroy", "remove", "unrow"},
                toSleep : SUBSET Ids,
                toDestroy : SUBSET Ids,
                cur : Ids \cup {NoId},
                elapsed : 0..PassSpan]

\* What a query of the reaper may return: its rows, or nothing when it fails.
Listed(idle, elapsed, status) ==
    {ListOlderThan(idle, elapsed, status)} \cup (IF May("registry") THEN {{}} ELSE {})

-----------------------------------------------------------------------------
\* The ticker fires: read the clock, list the running rows idle for too long.
ListForSleep ==
    /\ Alive
    /\ reaper.pc = "idle"
    /\ \E ids \in Listed(IdleSleepMin, 0, "running") :
          reaper' = [reaper EXCEPT !.pc = "sleep", !.toSleep = ids]
    /\ UNCHANGED <<container, registry, server>>

\* SetStatus on the next listed row; on an error the loop goes on.
MarkSleeping ==
    /\ reaper.pc = "sleep"
    /\ \E id \in reaper.toSleep :
          /\ reaper' = [reaper EXCEPT !.toSleep = @ \ {id}]
          /\ \/ SetStatus(id, "sleeping")
             \/ May("registry") /\ UNCHANGED registry
    /\ UNCHANGED <<container, server>>

\* Wrong on purpose: the second query asks for running rows too.
ListForDestroyRunning ==
    /\ reaper.pc = "sleep"
    /\ reaper.toSleep = {}
    /\ \E ids \in Listed(IdleDestroyMin, reaper.elapsed, "running") :
          reaper' = [reaper EXCEPT !.pc = "destroy", !.toDestroy = ids]
    /\ UNCHANGED <<container, registry, server>>

\* The second query: its cutoff is computed from the pass's own clock reading.
ListForDestroy ==
    /\ reaper.pc = "sleep"
    /\ reaper.toSleep = {}
    /\ \E ids \in Listed(IdleDestroyMin, reaper.elapsed, "sleeping") :
          reaper' = [reaper EXCEPT !.pc = "destroy", !.toDestroy = ids]
    /\ UNCHANGED <<container, registry, server>>

(***************************************************************************)
(* The two Docker calls of Driver.Destroy, under the signal context.  The  *)
(* error of either is only logged, so the steps after a call that was cut  *)
(* are those after one that succeeded.                                     *)
(***************************************************************************)
StopNext ==
    /\ reaper.pc = "destroy"
    /\ \E id \in reaper.toDestroy :
          /\ reaper' = [reaper EXCEPT !.pc = "remove", !.cur = id,
                                      !.toDestroy = @ \ {id}]
          /\ \E outcome \in {"ok", "error"} :
                Answer(SignalContextAlive, ContainerStop(id), outcome)
    /\ UNCHANGED <<registry, server>>

\* Wrong on purpose: a container that has stopped is taken for removed.
RemoveCurrentIfRunning ==
    /\ reaper.pc = "remove"
    /\ IF Running(reaper.cur)
       THEN \E outcome \in {"ok", "error"} :
               Answer(SignalContextAlive, ContainerRemove(reaper.cur), outcome)
       ELSE UNCHANGED container
    /\ reaper' = [reaper EXCEPT !.pc = "unrow"]
    /\ UNCHANGED <<registry, server>>

RemoveCurrent ==
    /\ reaper.pc = "remove"
    /\ \E outcome \in {"ok", "error"} :
          Answer(SignalContextAlive, ContainerRemove(reaper.cur), outcome)
    /\ reaper' = [reaper EXCEPT !.pc = "unrow"]
    /\ UNCHANGED <<registry, server>>

\* Registry.Delete, whatever Destroy answered.
DeleteCurrent ==
    /\ reaper.pc = "unrow"
    /\ \/ Delete(reaper.cur)
       \/ May("registry") /\ UNCHANGED registry
    /\ reaper' = [reaper EXCEPT !.pc = "destroy", !.cur = NoId]
    /\ UNCHANGED <<container, server>>

EndPass ==
    /\ reaper.pc = "destroy"
    /\ reaper.toDestroy = {}
    /\ reaper' = Waiting
    /\ UNCHANGED <<container, registry, server>>

ReaperStep ==
    \/ ListForSleep
    \/ MarkSleeping
    \/ ListForDestroy
    \/ StopNext
    \/ RemoveCurrent
    \/ DeleteCurrent
    \/ EndPass

\* The reaper has taken id for destruction.
ReaperHolds(id) == id \in reaper.toDestroy \/ id = reaper.cur

\* The reaper is about to delete the row of id.
ReaperForgets(id) == reaper.pc = "unrow" /\ reaper.cur = id

=============================================================================
