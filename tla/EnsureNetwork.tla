--------------------------- MODULE EnsureNetwork ---------------------------
(***************************************************************************)
(* DockerDriver.ensureNetwork: every Create makes sure, through a          *)
(* sync.Once, that the sandboxes' network exists.  A failed attempt        *)
(* overwrites the Once so that a later call tries again, while other calls *)
(* may be blocked inside it.                                               *)
(***************************************************************************)
EXTENDS ServerProcess, FiniteSets, Naturals

CONSTANT Creators       \* the calls of Create in flight at once (a bound)

ASSUME NetAssumption == IsFiniteSet(Creators)

VARIABLES
    network,    \* does the daemon have the network?
    netOnce,    \* the words of the sync.Once
    call,       \* call[c]: where c is in ensureNetwork
    fatal       \* the Go runtime has stopped the process

netVars == <<server, network, netOnce, call, fatal>>

(***************************************************************************)
(* netOnce.done     Do has run                                             *)
(* netOnce.locked   its mutex is held                                      *)
(* netOnce.woken    a waiter has been told to try for the mutex            *)
(* netOnce.waiters  how many calls the mutex believes to be waiting        *)
(* netOnce.sema     wake-ups not yet taken                                 *)
(***************************************************************************)
ZeroOnce == [done |-> FALSE, locked |-> FALSE, woken |-> FALSE, waiters |-> 0, sema |-> 0]

(***************************************************************************)
(* call[c].pc    "idle"                                                    *)
(*               "do"       before the first look at done                  *)
(*               "lock"     before locking the mutex                       *)
(*               "asleep"   waiting for a wake-up                          *)
(*               "awake"    woken, before trying again                     *)
(*               "second"   holding the mutex, before the second look      *)
(*               "inspect", "create"  inside the function Do runs          *)
(*               "store"    before done is stored                          *)
(*               "unlock"   before the mutex is released                   *)
(*               "check"    Do has returned, before ensureErr is tested    *)
(* call[c].err   ensureErr                                                 *)
(***************************************************************************)
NetPcs == {"idle", "do", "lock", "asleep", "awake", "second", "inspect",
           "create", "store", "unlock", "check"}

NetTypeOK ==
    /\ server = "up"
    /\ network \in BOOLEAN
    /\ netOnce \in [done : BOOLEAN, locked : BOOLEAN, woken : BOOLEAN,
                    waiters : 0..Cardinality(Creators),
                    sema : 0..Cardinality(Creators)]
    /\ call \in [Creators -> [pc : NetPcs, err : BOOLEAN]]
    /\ fatal \in BOOLEAN
    \* an error comes from the attempt the call itself makes
    /\ \A c \in Creators : call[c].err => call[c].pc \in {"store", "unlock", "check", "idle"}

NetInit ==
    /\ server = "up"
    /\ network \in BOOLEAN
    /\ netOnce = ZeroOnce
    /\ call = [c \in Creators |-> [pc |-> "idle", err |-> FALSE]]
    /\ fatal = FALSE

From(c, pc) == ~fatal /\ call[c].pc = pc

To(c, pc) == call' = [call EXCEPT ![c].pc = pc]

Fails(c, pc) == call' = [call EXCEPT ![c] = [pc |-> pc, err |-> TRUE]]

-----------------------------------------------------------------------------
(* sync.Once.Do and the sync.Mutex inside it.                              *)

\* Wrong on purpose: ensureErr outlives its call.
EnterWithOldError(c) ==
    /\ From(c, "idle")
    /\ To(c, "do")
    /\ UNCHANGED <<server, network, netOnce, fatal>>

Enter(c) ==
    /\ From(c, "idle")
    /\ call' = [call EXCEPT ![c] = [pc |-> "do", err |-> FALSE]]
    /\ UNCHANGED <<server, network, netOnce, fatal>>

FirstLook(c) ==
    /\ From(c, "do")
    /\ To(c, IF netOnce.done THEN "check" ELSE "lock")
    /\ UNCHANGED <<server, network, netOnce, fatal>>

Lock(c) ==
    /\ From(c, "lock")
    /\ \/ /\ ~netOnce.locked
          /\ netOnce' = [netOnce EXCEPT !.locked = TRUE]
          /\ To(c, "second")
       \/ /\ netOnce.locked
          /\ netOnce' = [netOnce EXCEPT !.waiters = @ + 1]
          /\ To(c, "asleep")
    /\ UNCHANGED <<server, network, fatal>>

Wake(c) ==
    /\ From(c, "asleep")
    /\ netOnce.sema > 0
    /\ netOnce' = [netOnce EXCEPT !.sema = @ - 1]
    /\ To(c, "awake")
    /\ UNCHANGED <<server, network, fatal>>

\* "sync: inconsistent mutex state" if nobody is recorded as woken.
LockAgain(c) ==
    /\ From(c, "awake")
    /\ \/ /\ ~netOnce.woken
          /\ fatal' = TRUE
          /\ UNCHANGED <<netOnce, call>>
       \/ /\ netOnce.woken /\ ~netOnce.locked
          /\ netOnce' = [netOnce EXCEPT !.locked = TRUE, !.woken = FALSE]
          /\ To(c, "second")
          /\ UNCHANGED fatal
       \/ /\ netOnce.woken /\ netOnce.locked
          /\ netOnce' = [netOnce EXCEPT !.waiters = @ + 1, !.woken = FALSE]
          /\ To(c, "asleep")
          /\ UNCHANGED fatal
    /\ UNCHANGED <<server, network>>

SecondLook(c) ==
    /\ From(c, "second")
    /\ To(c, IF netOnce.done THEN "unlock" ELSE "inspect")
    /\ UNCHANGED <<server, network, netOnce, fatal>>

StoreDone(c) ==
    /\ From(c, "store")
    /\ netOnce' = [netOnce EXCEPT !.done = TRUE]
    /\ To(c, "unlock")
    /\ UNCHANGED <<server, network, fatal>>

\* "sync: unlock of unlocked mutex" if it is not locked.
Unlock(c) ==
    /\ From(c, "unlock")
    /\ \/ /\ ~netOnce.locked
          /\ fatal' = TRUE
          /\ UNCHANGED <<netOnce, call>>
       \/ /\ netOnce.locked
          /\ netOnce' =
                IF netOnce.waiters > 0 /\ ~netOnce.woken
                THEN [netOnce EXCEPT !.locked = FALSE, !.woken = TRUE,
                                     !.waiters = @ - 1, !.sema = @ + 1]
                ELSE [netOnce EXCEPT !.locked = FALSE]
          /\ To(c, "check")
          /\ UNCHANGED fatal
    /\ UNCHANGED <<server, network>>

-----------------------------------------------------------------------------
(* The function Do runs, and what follows it.                              *)

NetworkInspect(c) ==
    /\ From(c, "inspect")
    /\ \/ To(c, IF network THEN "store" ELSE "create")
       \/ May("docker") /\ Fails(c, "store")
    /\ UNCHANGED <<server, network, netOnce, fatal>>

\* The daemon refuses to create it twice.  A call that fails may have made it.
NetworkCreate(c) ==
    /\ From(c, "create")
    /\ \/ ~network /\ network' = TRUE /\ To(c, "store")
       \/ /\ network \/ May("docker")
          /\ network' \in {network, TRUE}
          /\ Fails(c, "store")
    /\ UNCHANGED <<server, netOnce, fatal>>

\* Wrong on purpose: the Once is never reset.
ReturnWithoutReset(c) ==
    /\ From(c, "check")
    /\ To(c, "idle")
    /\ UNCHANGED <<server, network, netOnce, fatal>>

\* Wrong on purpose: the Once is overwritten whether the attempt failed or not.
ReturnAlwaysResetting(c) ==
    /\ From(c, "check")
    /\ netOnce' = ZeroOnce
    /\ To(c, "idle")
    /\ UNCHANGED <<server, network, fatal>>

\* After an error every word of the Once is overwritten, with no lock held.
Return(c) ==
    /\ From(c, "check")
    /\ netOnce' = IF call[c].err THEN ZeroOnce ELSE netOnce
    /\ To(c, "idle")
    /\ UNCHANGED <<server, network, fatal>>

Goes(c) ==
    \/ FirstLook(c)
    \/ Lock(c)
    \/ Wake(c)
    \/ LockAgain(c)
    \/ SecondLook(c)
    \/ StoreDone(c)
    \/ Unlock(c)
    \/ NetworkInspect(c)
    \/ NetworkCreate(c)
    \/ Return(c)

NetNext == \E c \in Creators : Enter(c) \/ Goes(c)

NetSpec == NetInit /\ [][NetNext]_netVars

(***************************************************************************)
(* A goroutine that can run does: the daemon answers each request, and a   *)
(* semaphore wakes whoever waits for it.  Nobody has to call Create.       *)
(***************************************************************************)
FairNetSpec == NetSpec /\ \A c \in Creators : WF_netVars(Goes(c))

-----------------------------------------------------------------------------
(***************************************************************************)
(* The Once never settles on a failure: when no call is in flight and it   *)
(* has run, the network is there, however many attempts failed and         *)
(* however their resets fell among other calls (docker.go:72-98).          *)
(***************************************************************************)
SettlesOnNetwork ==
    (netOnce.done /\ \A c \in Creators : call[c].pc = "idle") => network

(***************************************************************************)
(* As long as no attempt fails, every call that queues inside the Once     *)
(* comes out of ensureNetwork: of the calls that wait for the first        *)
(* attempt, each is woken by the one before it (docker.go:72-97).          *)
(***************************************************************************)
QueueDrains ==
    [](\A c \in Creators : ~call[c].err) =>
        \A c \in Creators : call[c].pc # "idle" ~> call[c].pc = "idle"

(***************************************************************************)
(* docker.go:97: "reset so next call retries": the reset does not bring    *)
(* the process down.                                                       *)
(***************************************************************************)
NeverFatal == ~fatal

=============================================================================
