------------------------ MODULE EnsureNetworkProofs ------------------------
(***************************************************************************)
(* What is proved of ensureNetwork, for every finite set of creators and   *)
(* every choice of faults.                                                 *)
(***************************************************************************)
EXTENDS EnsureNetwork, FiniteSetTheorems, TLAPS

USE DEF NetPcs, ZeroOnce, From, To, Fails

Asleep == {c \in Creators : call[c].pc = "asleep"}

OnceTyped == netOnce \in [done : BOOLEAN, locked : BOOLEAN, woken : BOOLEAN,
                          waiters : Nat, sema : Nat]

\* An error stays with the call whose attempt it was.
CallTyped ==
    /\ call \in [Creators -> [pc : NetPcs, err : BOOLEAN]]
    /\ \A c \in Creators : call[c].err => call[c].pc \in {"store", "unlock", "check", "idle"}

\* The values of the variables, without the bound on the two counts.
NetTyped ==
    /\ server = "up"
    /\ network \in BOOLEAN
    /\ OnceTyped
    /\ CallTyped
    /\ fatal \in BOOLEAN

\* Whoever is counted sleeps: a reset forgets sleepers and invents none.
SleepersCounted == netOnce.waiters + netOnce.sema <= Cardinality(Asleep)

NetIInv == NetTyped /\ SleepersCounted

\* There are at most as many sleepers as creators.
LEMMA SleepersBounded ==
    /\ IsFiniteSet(Asleep)
    /\ Cardinality(Asleep) \in Nat
    /\ Cardinality(Creators) \in Nat
    /\ Cardinality(Asleep) <= Cardinality(Creators)
<1>1. Asleep \subseteq Creators
  BY DEF Asleep
<1> QED
  BY <1>1, NetAssumption, FS_Subset, FS_CardinalityType

LEMMA NetTypes == NetIInv => NetTypeOK
  BY SleepersBounded DEF NetIInv, NetTyped, OnceTyped, CallTyped, SleepersCounted, NetTypeOK

\* A creator that falls asleep is one sleeper more.
LEMMA FallsAsleep ==
    ASSUME NetTyped, NEW c \in Creators, call[c].pc # "asleep", To(c, "asleep")
    PROVE  Cardinality(Asleep)' = Cardinality(Asleep) + 1
<1>1. Asleep' = Asleep \cup {c}
  BY DEF Asleep, NetTyped, CallTyped
<1>2. c \notin Asleep
  BY DEF Asleep
<1> QED
  BY <1>1, <1>2, SleepersBounded, FS_AddElement

\* One that is woken is one sleeper less.
LEMMA WakesUp ==
    ASSUME NetTyped, NEW c \in Creators, call[c].pc = "asleep", To(c, "awake")
    PROVE  Cardinality(Asleep)' = Cardinality(Asleep) - 1
<1>1. Asleep' = Asleep \ {c}
  BY DEF Asleep, NetTyped, CallTyped
<1>2. c \in Asleep
  BY DEF Asleep
<1> QED
  BY <1>1, <1>2, SleepersBounded, FS_RemoveElement

\* The counts of the mutex may change by one, and its flags as they like.
LEMMA OneMoreWaits ==
    ASSUME OnceTyped, NEW woken \in BOOLEAN,
           netOnce' = [netOnce EXCEPT !.waiters = @ + 1, !.woken = woken]
    PROVE  OnceTyped'
<1>1. netOnce.waiters + 1 \in Nat
  BY DEF OnceTyped
<1> QED
  BY <1>1 DEF OnceTyped

LEMMA OneIsWoken ==
    ASSUME OnceTyped, netOnce.waiters > 0,
           netOnce' = [netOnce EXCEPT !.locked = FALSE, !.woken = TRUE,
                                      !.waiters = @ - 1, !.sema = @ + 1]
    PROVE  OnceTyped'
<1>1. netOnce.waiters - 1 \in Nat /\ netOnce.sema + 1 \in Nat
  BY DEF OnceTyped
<1> QED
  BY <1>1 DEF OnceTyped

\* A step of a call keeps the calls typed.
LEMMA GoesOn ==
    ASSUME CallTyped, NEW c \in Creators, NEW pc \in NetPcs, To(c, pc),
           call[c].err => pc \in {"store", "unlock", "check", "idle"}
    PROVE  CallTyped'
  BY DEF CallTyped

LEMMA FailsTyped ==
    ASSUME CallTyped, NEW c \in Creators, Fails(c, "store")
    PROVE  CallTyped'
  BY DEF CallTyped

\* Every step keeps the types.
LEMMA NetTypedStep ==
    ASSUME NetTyped, [NetNext]_netVars
    PROVE  NetTyped'
<1> USE DEF NetTyped
<1>1. CASE UNCHANGED netVars
  BY <1>1 DEF netVars, OnceTyped, CallTyped
<1>2. ASSUME NEW c \in Creators, Enter(c) PROVE NetTyped'
  BY <1>2 DEF Enter, OnceTyped, CallTyped
<1>3. ASSUME NEW c \in Creators, FirstLook(c) PROVE NetTyped'
  <2>1. call[c].pc = "do" /\ ~call[c].err
    BY <1>3 DEF FirstLook, CallTyped
  <2>2. CallTyped'
    BY <1>3, <2>1, GoesOn DEF FirstLook
  <2> QED
    BY <1>3, <2>2 DEF FirstLook, OnceTyped
<1>4. ASSUME NEW c \in Creators, Lock(c) PROVE NetTyped'
  <2>1. call[c].pc = "lock" /\ ~call[c].err
    BY <1>4 DEF Lock, CallTyped
  <2>2. CallTyped'
    BY <1>4, <2>1, GoesOn DEF Lock
  <2>3. OnceTyped'
    <3>1. CASE netOnce' = [netOnce EXCEPT !.locked = TRUE]
      BY <3>1 DEF OnceTyped
    <3>2. CASE netOnce' = [netOnce EXCEPT !.waiters = @ + 1]
      <4>1. netOnce.waiters + 1 \in Nat
        BY DEF OnceTyped
      <4> QED
        BY <3>2, <4>1 DEF OnceTyped
    <3> QED
      BY <1>4, <3>1, <3>2 DEF Lock
  <2> QED
    BY <1>4, <2>2, <2>3 DEF Lock
<1>5. ASSUME NEW c \in Creators, Wake(c) PROVE NetTyped'
  <2>1. call[c].pc = "asleep" /\ ~call[c].err
    BY <1>5 DEF Wake, CallTyped
  <2>2. CallTyped'
    BY <1>5, <2>1, GoesOn DEF Wake
  <2>3. OnceTyped'
    BY <1>5 DEF Wake, OnceTyped
  <2> QED
    BY <1>5, <2>2, <2>3 DEF Wake
<1>6. ASSUME NEW c \in Creators, LockAgain(c) PROVE NetTyped'
  <2>1. call[c].pc = "awake" /\ ~call[c].err
    BY <1>6 DEF LockAgain, CallTyped
  <2>2. CallTyped' /\ OnceTyped' /\ fatal' \in BOOLEAN
    <3>1. CASE UNCHANGED <<netOnce, call>> /\ fatal' = TRUE
      BY <3>1 DEF CallTyped, OnceTyped
    <3>2. CASE /\ To(c, "second") /\ UNCHANGED fatal
               /\ netOnce' = [netOnce EXCEPT !.locked = TRUE, !.woken = FALSE]
      <4>1. OnceTyped'
        BY <3>2 DEF OnceTyped
      <4> QED
        BY <2>1, <3>2, <4>1, GoesOn
    <3>3. CASE /\ To(c, "asleep") /\ UNCHANGED fatal
               /\ netOnce' = [netOnce EXCEPT !.waiters = @ + 1, !.woken = FALSE]
      <4>1. OnceTyped'
        BY <3>3, OneMoreWaits
      <4> QED
        BY <2>1, <3>3, <4>1, GoesOn
    <3> QED
      BY <1>6, <3>1, <3>2, <3>3 DEF LockAgain
  <2> QED
    BY <1>6, <2>2 DEF LockAgain
<1>7. ASSUME NEW c \in Creators, SecondLook(c) PROVE NetTyped'
  <2>1. call[c].pc = "second" /\ ~call[c].err
    BY <1>7 DEF SecondLook, CallTyped
  <2>2. CallTyped'
    BY <1>7, <2>1, GoesOn DEF SecondLook
  <2> QED
    BY <1>7, <2>2 DEF SecondLook, OnceTyped
<1>8. ASSUME NEW c \in Creators, StoreDone(c) PROVE NetTyped'
  <2>1. CallTyped'
    BY <1>8, GoesOn DEF StoreDone
  <2>2. OnceTyped'
    BY <1>8 DEF StoreDone, OnceTyped
  <2> QED
    BY <1>8, <2>1, <2>2 DEF StoreDone
<1>9. ASSUME NEW c \in Creators, Unlock(c) PROVE NetTyped'
  <2>1. CASE ~netOnce.locked
    BY <1>9, <2>1 DEF Unlock, OnceTyped, CallTyped
  <2>2. CASE netOnce.locked
    <3>1. CallTyped'
      BY <1>9, <2>2, GoesOn DEF Unlock
    <3>2. CASE netOnce.waiters > 0 /\ ~netOnce.woken
      <4>1. netOnce' = [netOnce EXCEPT !.locked = FALSE, !.woken = TRUE,
                                       !.waiters = @ - 1, !.sema = @ + 1]
        BY <1>9, <2>2, <3>2 DEF Unlock
      <4>2. OnceTyped'
        BY <3>2, <4>1, OneIsWoken
      <4> QED
        BY <1>9, <2>2, <3>1, <4>2 DEF Unlock
    <3>3. CASE ~(netOnce.waiters > 0 /\ ~netOnce.woken)
      <4>1. netOnce' = [netOnce EXCEPT !.locked = FALSE]
        BY <1>9, <2>2, <3>3 DEF Unlock
      <4>2. OnceTyped'
        BY <4>1 DEF OnceTyped
      <4> QED
        BY <1>9, <2>2, <3>1, <4>2 DEF Unlock
    <3> QED
      BY <3>2, <3>3
  <2> QED
    BY <2>1, <2>2
<1>10. ASSUME NEW c \in Creators, NetworkInspect(c) PROVE NetTyped'
  <2>1. call[c].pc = "inspect" /\ ~call[c].err
    BY <1>10 DEF NetworkInspect, CallTyped
  <2>2. CallTyped'
    BY <1>10, <2>1, GoesOn, FailsTyped DEF NetworkInspect
  <2> QED
    BY <1>10, <2>2 DEF NetworkInspect, OnceTyped
<1>11. ASSUME NEW c \in Creators, NetworkCreate(c) PROVE NetTyped'
  <2>1. call[c].pc = "create" /\ ~call[c].err
    BY <1>11 DEF NetworkCreate, CallTyped
  <2>2. CallTyped'
    BY <1>11, <2>1, GoesOn, FailsTyped DEF NetworkCreate
  <2>3. network' \in BOOLEAN
    BY <1>11 DEF NetworkCreate
  <2> QED
    BY <1>11, <2>2, <2>3 DEF NetworkCreate, OnceTyped
<1>12. ASSUME NEW c \in Creators, Return(c) PROVE NetTyped'
  <2>1. CallTyped'
    BY <1>12, GoesOn DEF Return
  <2>2. OnceTyped'
    BY <1>12 DEF Return, OnceTyped
  <2> QED
    BY <1>12, <2>1, <2>2 DEF Return
<1> QED
  BY <1>1, <1>2, <1>3, <1>4, <1>5, <1>6, <1>7, <1>8, <1>9, <1>10, <1>11, <1>12
     DEF NetNext, Goes

\* Every step keeps the count.
LEMMA CountedStep ==
    ASSUME NetTyped, NetTyped', SleepersCounted, [NetNext]_netVars
    PROVE  SleepersCounted'
<1> USE DEF NetTyped, OnceTyped, CallTyped
<1>1. CASE UNCHANGED netVars
  BY <1>1 DEF netVars, SleepersCounted, Asleep
<1>2. ASSUME NEW c \in Creators,
             \/ Enter(c) \/ FirstLook(c) \/ SecondLook(c) \/ StoreDone(c)
             \/ NetworkInspect(c) \/ NetworkCreate(c)
      PROVE  SleepersCounted'
  <2>0. /\ call[c].pc # "asleep" /\ call'[c].pc # "asleep"
        /\ \A q \in Creators \ {c} : call'[q] = call[q]
    <3>1. CASE Enter(c)
      BY <3>1 DEF Enter
    <3>2. CASE FirstLook(c) \/ SecondLook(c) \/ StoreDone(c)
      BY <3>2 DEF FirstLook, SecondLook, StoreDone
    <3>3. CASE NetworkInspect(c)
      BY <3>3 DEF NetworkInspect
    <3>4. CASE NetworkCreate(c)
      <4>1. call[c].pc = "create" /\ (To(c, "store") \/ Fails(c, "store"))
        BY <3>4, Zenon DEF NetworkCreate, From
      <4> QED
        BY <4>1
    <3> QED
      BY <1>2, <3>1, <3>2, <3>3, <3>4
  <2>1. Asleep' = Asleep
    BY <2>0 DEF Asleep
  <2>2. netOnce'.waiters = netOnce.waiters /\ netOnce'.sema = netOnce.sema
    BY <1>2 DEF Enter, FirstLook, SecondLook, StoreDone, NetworkInspect, NetworkCreate
  <2> QED
    BY <2>1, <2>2 DEF SleepersCounted
<1>3. ASSUME NEW c \in Creators, Lock(c) \/ LockAgain(c) PROVE SleepersCounted'
  <2>1. CASE netOnce'.waiters = netOnce.waiters /\ Asleep' = Asleep
    <3>1. netOnce'.sema = netOnce.sema
      BY <1>3 DEF Lock, LockAgain
    <3> QED
      BY <2>1, <3>1 DEF SleepersCounted
  <2>2. CASE /\ netOnce'.waiters = netOnce.waiters + 1
             /\ call[c].pc # "asleep" /\ To(c, "asleep")
    <3>1. Cardinality(Asleep)' = Cardinality(Asleep) + 1
      BY <2>2, FallsAsleep
    <3>2. netOnce'.sema = netOnce.sema
      BY <1>3 DEF Lock, LockAgain
    <3> QED
      BY <2>2, <3>1, <3>2, SleepersBounded DEF SleepersCounted
  <2>3. CASE Lock(c)
    <3>1. CASE ~netOnce.locked
      <4>1. Asleep' = Asleep
        BY <2>3, <3>1 DEF Lock, Asleep
      <4>2. netOnce'.waiters = netOnce.waiters
        BY <2>3, <3>1 DEF Lock
      <4> QED
        BY <2>1, <4>1, <4>2
    <3>2. CASE netOnce.locked
      <4>1. netOnce'.waiters = netOnce.waiters + 1
        BY <2>3, <3>2 DEF Lock
      <4>2. call[c].pc # "asleep" /\ To(c, "asleep")
        BY <2>3, <3>2 DEF Lock
      <4> QED
        BY <2>2, <4>1, <4>2
    <3> QED
      BY <3>1, <3>2
  <2>4. CASE LockAgain(c)
    <3>1. CASE ~netOnce.woken
      BY <2>1, <2>4, <3>1 DEF LockAgain, Asleep
    <3>2. CASE netOnce.woken /\ ~netOnce.locked
      <4>1. Asleep' = Asleep
        BY <2>4, <3>2 DEF LockAgain, Asleep
      <4>2. netOnce'.waiters = netOnce.waiters
        BY <2>4, <3>2 DEF LockAgain
      <4> QED
        BY <2>1, <4>1, <4>2
    <3>3. CASE netOnce.woken /\ netOnce.locked
      <4>1. netOnce'.waiters = netOnce.waiters + 1
        BY <2>4, <3>3 DEF LockAgain
      <4> QED
        BY <2>2, <2>4, <3>3, <4>1 DEF LockAgain
    <3> QED
      BY <3>1, <3>2, <3>3
  <2> QED
    BY <1>3, <2>3, <2>4
<1>4. ASSUME NEW c \in Creators, Wake(c) PROVE SleepersCounted'
  <2>1. Cardinality(Asleep)' = Cardinality(Asleep) - 1
    BY <1>4, WakesUp DEF Wake
  <2>2. netOnce'.waiters = netOnce.waiters /\ netOnce'.sema = netOnce.sema - 1
    BY <1>4 DEF Wake
  <2> QED
    BY <2>1, <2>2, SleepersBounded DEF SleepersCounted
<1>5. ASSUME NEW c \in Creators, Unlock(c) PROVE SleepersCounted'
  <2>1. Asleep' = Asleep
    BY <1>5 DEF Unlock, Asleep
  <2>2. \/ netOnce'.waiters = netOnce.waiters /\ netOnce'.sema = netOnce.sema
        \/ netOnce'.waiters = netOnce.waiters - 1 /\ netOnce'.sema = netOnce.sema + 1
    BY <1>5 DEF Unlock
  <2> QED
    BY <2>1, <2>2, SleepersBounded DEF SleepersCounted
<1>6. ASSUME NEW c \in Creators, Return(c) PROVE SleepersCounted'
  <2>1. Asleep' = Asleep
    BY <1>6 DEF Return, Asleep
  <2>2. \/ netOnce'.waiters = netOnce.waiters /\ netOnce'.sema = netOnce.sema
        \/ netOnce'.waiters = 0 /\ netOnce'.sema = 0
    BY <1>6 DEF Return
  <2> QED
    BY <2>1, <2>2, SleepersBounded DEF SleepersCounted
<1> QED
  BY <1>1, <1>2, <1>3, <1>4, <1>5, <1>6 DEF NetNext, Goes

LEMMA NetStep ==
    ASSUME NetIInv, [NetNext]_netVars
    PROVE  NetIInv'
  BY NetTypedStep, CountedStep DEF NetIInv

LEMMA NetStart == NetInit => NetIInv
<1> SUFFICES ASSUME NetInit PROVE NetIInv
  OBVIOUS
<1>1. NetTyped
  BY DEF NetInit, NetTyped, OnceTyped, CallTyped
<1>2. SleepersCounted
  BY SleepersBounded DEF NetInit, SleepersCounted
<1> QED
  BY <1>1, <1>2 DEF NetIInv

(***************************************************************************)
(* The values of ensureNetwork's variables, for any number of concurrent   *)
(* calls of Create: neither count of the mutex goes below zero or above    *)
(* the number of calls, resets included, and an error belongs to a call    *)
(* whose own attempt failed (docker.go:70-100).                            *)
(***************************************************************************)
THEOREM NetTyping == NetSpec => []NetTypeOK
<1>1. NetIInv /\ [NetNext]_netVars => NetIInv'
  BY NetStep
<1> QED
  BY NetStart, NetTypes, <1>1, PTL DEF NetSpec

-----------------------------------------------------------------------------
(***************************************************************************)
(* Done without a network is seen only between a failed attempt and its    *)
(* reset, and an attempt about to end well has seen or made the network.   *)
(***************************************************************************)
FailureResets ==
    /\ (netOnce.done /\ ~network) =>
          \E c \in Creators : call[c].err /\ call[c].pc \in {"unlock", "check"}
    /\ \A c \in Creators : (call[c].pc = "store" /\ ~call[c].err) => network

LEMMA ResetStep ==
    ASSUME NetTyped, FailureResets, [NetNext]_netVars
    PROVE  FailureResets'
<1> USE DEF NetTyped, CallTyped, OnceTyped
<1>1. CASE UNCHANGED netVars
  BY <1>1 DEF netVars, FailureResets
<1> SUFFICES ASSUME NEW c \in Creators, Enter(c) \/ Goes(c)
             PROVE  FailureResets'
  BY <1>1 DEF NetNext
\* The network is never taken away.
<1>2. network => network'
  BY DEF Enter, Goes, FirstLook, Lock, Wake, LockAgain, SecondLook, StoreDone,
         Unlock, NetworkInspect, NetworkCreate, Return
<1>3. \A d \in Creators : (call'[d].pc = "store" /\ ~call'[d].err) => network'
  <2> SUFFICES ASSUME NEW d \in Creators, call'[d].pc = "store", ~call'[d].err
               PROVE  network'
    OBVIOUS
  <2>1. CASE call'[d] = call[d]
    BY <1>2, <2>1 DEF FailureResets
  <2>2. CASE call'[d] # call[d]
    <3>1. d = c
      BY <2>2 DEF Enter, Goes, FirstLook, Lock, Wake, LockAgain, SecondLook,
                  StoreDone, Unlock, NetworkInspect, NetworkCreate, Return
    <3>2. NetworkInspect(c) \/ NetworkCreate(c)
      BY <2>2, <3>1 DEF Enter, Goes, FirstLook, Lock, Wake, LockAgain, SecondLook,
                        StoreDone, Unlock, Return
    <3>3. CASE NetworkInspect(c)
      BY <2>2, <3>1, <3>3 DEF NetworkInspect
    <3>4. CASE NetworkCreate(c)
      <4>1. network' = TRUE \/ Fails(c, "store")
        BY <3>4, Zenon DEF NetworkCreate
      <4> QED
        BY <2>2, <3>1, <4>1
    <3> QED
      BY <3>2, <3>3, <3>4
  <2> QED
    BY <2>1, <2>2
<1>4. ASSUME netOnce'.done, ~network'
      PROVE  \E d \in Creators : call'[d].err /\ call'[d].pc \in {"unlock", "check"}
  <2>1. CASE netOnce.done
    <3>1. PICK d \in Creators : call[d].err /\ call[d].pc \in {"unlock", "check"}
      BY <1>2, <1>4, <2>1 DEF FailureResets
    <3>2. CASE d = c
      <4>1. Unlock(c) \/ Return(c)
        BY <3>1, <3>2 DEF Enter, Goes, FirstLook, Lock, Wake, LockAgain, SecondLook,
                          StoreDone, NetworkInspect, NetworkCreate
      <4>2. ~Return(c)
        BY <1>4, <3>1, <3>2 DEF Return
      <4> QED
        BY <3>1, <3>2, <4>1, <4>2 DEF Unlock
    <3>3. CASE d # c
      <4>1. call'[d] = call[d]
        BY <3>3 DEF Enter, Goes, FirstLook, Lock, Wake, LockAgain, SecondLook,
                    StoreDone, Unlock, NetworkInspect, NetworkCreate, Return
      <4> QED
        BY <3>1, <4>1
    <3> QED
      BY <3>2, <3>3
  <2>2. CASE ~netOnce.done
    <3>1. StoreDone(c)
      <4>1. ~(Lock(c) \/ LockAgain(c) \/ Wake(c))
        BY <1>4, <2>2 DEF Lock, LockAgain, Wake
      <4>2. ~Unlock(c)
        BY <1>4, <2>2 DEF Unlock
      <4>3. ~Return(c)
        BY <1>4, <2>2 DEF Return
      <4> QED
        BY <1>4, <2>2, <4>1, <4>2, <4>3
           DEF Enter, Goes, FirstLook, SecondLook, NetworkInspect, NetworkCreate
    <3>2. call[c].err
      BY <1>4, <3>1 DEF StoreDone, FailureResets
    <3> QED
      BY <3>1, <3>2 DEF StoreDone
  <2> QED
    BY <2>1, <2>2
<1> QED
  BY <1>3, <1>4 DEF FailureResets

(***************************************************************************)
(* The Once never settles on a failure (docker.go:72-98), for any number   *)
(* of concurrent calls of Create.                                          *)
(***************************************************************************)
THEOREM SettlesAlways == NetSpec => []SettlesOnNetwork
<1>1. NetInit => FailureResets
  BY DEF NetInit, FailureResets
<1>2. NetIInv /\ FailureResets /\ [NetNext]_netVars => FailureResets'
  BY ResetStep DEF NetIInv
<1>3. NetIInv /\ [NetNext]_netVars => NetIInv'
  BY NetStep
<1>4. FailureResets => SettlesOnNetwork
  BY DEF FailureResets, SettlesOnNetwork
<1> QED
  BY NetStart, <1>1, <1>2, <1>3, <1>4, PTL DEF NetSpec

=============================================================================
