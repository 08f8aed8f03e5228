----------------------------- MODULE ForgeProofs -----------------------------
(***************************************************************************)
(* What is proved of Forge, for every set of ids, requests and faults and  *)
(* for all thresholds.                                                     *)
(***************************************************************************)
EXTENDS Forge, TLAPS

USE DEF ServerType, ContainerType, ContainerStates, RegistryType, RowType,
        ReaperType, ApiType, Ops, Pcs

(***************************************************************************)
(* The daemon: whatever a call does and answers, a container stays typed.  *)
(***************************************************************************)
LEMMA StopTyped ==
    ASSUME ContainerType, NEW id, ContainerStop(id)
    PROVE  ContainerType'
  BY DEF ContainerStop

LEMMA RemoveTyped ==
    ASSUME ContainerType, NEW id, ContainerRemove(id)
    PROVE  ContainerType'
  BY DEF ContainerRemove

LEMMA ListedIds ==
    ASSUME NEW idle, NEW elapsed, NEW status, NEW ids \in Listed(idle, elapsed, status)
    PROVE  ids \subseteq Ids
  BY DEF Listed, ListOlderThan

LEMMA ReaperTyped ==
    ASSUME TypeOK, Reap
    PROVE  TypeOK'
<1> USE ServerProcessAssumption, RegistryAssumption, ReaperAssumption DEF TypeOK, Reap
<1>1. ASSUME ListForSleep PROVE TypeOK'
  <2>1. PICK ids \in SUBSET Ids :
           reaper' = [reaper EXCEPT !.pc = "sleep", !.toSleep = ids]
    BY <1>1, ListedIds DEF ListForSleep
  <2>2. ReaperType'
    BY <2>1
  <2> QED
    BY <1>1, <2>2 DEF ListForSleep
<1>2. ASSUME MarkSleeping PROVE TypeOK'
  BY <1>2 DEF MarkSleeping, SetStatus, HasRow
<1>3. ASSUME ListForDestroy PROVE TypeOK'
  <2>1. PICK ids \in SUBSET Ids :
           reaper' = [reaper EXCEPT !.pc = "destroy", !.toDestroy = ids]
    BY <1>3, ListedIds DEF ListForDestroy
  <2>2. ReaperType'
    BY <2>1
  <2> QED
    BY <1>3, <2>2 DEF ListForDestroy
<1>4. ASSUME StopNext PROVE TypeOK'
  <2>1. PICK id \in reaper.toDestroy :
           /\ reaper' = [reaper EXCEPT !.pc = "remove", !.cur = id,
                                       !.toDestroy = @ \ {id}]
           /\ ContainerStop(id) \/ UNCHANGED container
    BY <1>4, Zenon DEF StopNext, Answer
  <2>2. ContainerType'
    BY <2>1, StopTyped
  <2>3. ReaperType'
    BY <2>1
  <2> QED
    BY <1>4, <2>2, <2>3 DEF StopNext
<1>5. ASSUME RemoveCurrent PROVE TypeOK'
  BY <1>5 DEF RemoveCurrent, Answer, ContainerRemove
<1>6. ASSUME DeleteCurrent PROVE TypeOK'
  <2>1. RegistryType'
    BY <1>6 DEF DeleteCurrent, Delete, NoRow
  <2>2. ReaperType'
    BY <1>6 DEF DeleteCurrent
  <2> QED
    BY <1>6, <2>1, <2>2 DEF DeleteCurrent
<1>7. ASSUME EndPass PROVE TypeOK'
  BY <1>7 DEF EndPass, Waiting
<1> QED
  BY <1>1, <1>2, <1>3, <1>4, <1>5, <1>6, <1>7 DEF ReaperStep

\* Goto keeps the request on its sandbox, or ends it.
LEMMA GotoTyped ==
    ASSUME TypeOK, NEW r \in Requests, req[r].pc # "idle",
           NEW pc \in Pcs, NEW ctx \in {"alive", "ended"}, Goto(r, pc, ctx),
           ContainerType', RegistryType', known' \subseteq Ids,
           UNCHANGED <<reaper, server>>
    PROVE  TypeOK'
<1>1. CASE pc = "idle"
  <2>1. req' = [req EXCEPT ![r] = NoRequest]
    BY <1>1 DEF Goto
  <2>2. NoRequest \in [op : Ops, pc : Pcs, id : Ids \cup {NoId}, ctx : {"alive", "ended"}]
    BY DEF NoRequest
  <2>3. ApiType'
    BY <2>1, <2>2 DEF TypeOK, NoRequest
  <2> QED
    BY <2>3 DEF TypeOK
<1>2. CASE pc # "idle"
  <2>1. req' = [req EXCEPT ![r] = [op |-> @.op, pc |-> pc, id |-> @.id, ctx |-> ctx]]
    BY <1>2 DEF Goto
  <2>2. ApiType'
    BY <2>1 DEF TypeOK
  <2> QED
    BY <2>2 DEF TypeOK
<1> QED
  BY <1>1, <1>2

LEMMA CallTyped ==
    ASSUME TypeOK, NEW r \in Requests, req[r].pc # "idle", NEW onOk \in Pcs, NEW onError \in Pcs,
           \/ Call(r, ContainerCreate(req[r].id), onOk, onError)
           \/ Call(r, ContainerStart(req[r].id), onOk, onError)
           \/ Call(r, ContainerStop(req[r].id), onOk, onError)
           \/ Call(r, ContainerRemove(req[r].id), onOk, onError),
           UNCHANGED reaper
    PROVE  TypeOK'
<1>1. \/ ContainerCreate(req[r].id)
      \/ ContainerStart(req[r].id)
      \/ ContainerStop(req[r].id)
      \/ ContainerRemove(req[r].id)
      \/ UNCHANGED container
  BY Zenon DEF Call, Answer
<1>2. ContainerType'
  <2>1. CASE ContainerCreate(req[r].id) \/ ContainerStart(req[r].id)
    BY <2>1 DEF TypeOK, ContainerCreate, ContainerStart
  <2> QED
    BY <1>1, <2>1, StopTyped, RemoveTyped DEF TypeOK
<1>3. PICK pc \in Pcs, ctx \in {"alive", "ended"} : Goto(r, pc, ctx)
  BY DEF Call, TypeOK
<1>4. UNCHANGED <<registry, known, server, reaper>>
  BY DEF Call
<1>5. RegistryType' /\ known' \subseteq Ids
  BY <1>4 DEF TypeOK
<1> QED
  BY <1>2, <1>3, <1>4, <1>5, GotoTyped

LEMMA HandlerTyped ==
    ASSUME TypeOK, NEW r \in Requests, Serve(r) \/ EndCommand(r)
    PROVE  TypeOK'
<1>1. ASSUME CreateContainer(r), UNCHANGED reaper PROVE TypeOK'
  BY <1>1, CallTyped DEF CreateContainer
<1>2. ASSUME StartContainer(r), UNCHANGED reaper PROVE TypeOK'
  BY <1>2, CallTyped DEF StartContainer
<1>3. ASSUME DiscardContainer(r), UNCHANGED reaper PROVE TypeOK'
  BY <1>3, CallTyped DEF DiscardContainer
<1>4. ASSUME RegisterCreated(r), UNCHANGED reaper PROVE TypeOK'
  <2>1. PICK pc \in Pcs, ctx \in {"alive", "ended"} : Goto(r, pc, ctx)
    BY <1>4 DEF RegisterCreated, TypeOK
  <2>5. req[r].pc # "idle" /\ UNCHANGED <<container, server, reaper>>
    BY <1>4 DEF RegisterCreated, At
  <2>2. Insert(req[r].id) \/ UNCHANGED registry
    BY <1>4 DEF RegisterCreated
  <2>3. RegistryType'
    BY <2>2, RegistryAssumption DEF Insert, TypeOK
  <2>4. known' \subseteq Ids
    BY <1>4 DEF RegisterCreated, Tells, TypeOK, At
  <2> QED
    BY <2>1, <2>3, <2>4, <2>5, GotoTyped DEF TypeOK
<1>5. ASSUME RegisterForAgent(r), UNCHANGED reaper PROVE TypeOK'
  <2>1. PICK pc \in Pcs, ctx \in {"alive", "ended"} : Goto(r, pc, ctx)
    BY <1>5 DEF RegisterForAgent, TypeOK
  <2>5. req[r].pc # "idle" /\ UNCHANGED <<container, server, reaper>>
    BY <1>5 DEF RegisterForAgent, At
  <2>2. RegistryType'
    BY <1>5, RegistryAssumption DEF RegisterForAgent, Insert, TypeOK
  <2> QED
    BY <1>5, <2>1, <2>2, <2>5, GotoTyped DEF RegisterForAgent, TypeOK
<1>6. ASSUME StopContainer(r), UNCHANGED reaper PROVE TypeOK'
  BY <1>6, CallTyped DEF StopContainer
<1>7. ASSUME RemoveContainer(r), UNCHANGED reaper PROVE TypeOK'
  BY <1>7, CallTyped DEF RemoveContainer
<1>8. ASSUME DeleteRow(r), UNCHANGED reaper PROVE TypeOK'
  <2>1. RegistryType'
    BY <1>8, RegistryAssumption DEF DeleteRow, Delete, NoRow, TypeOK
  <2> QED
    BY <1>8, <2>1, GotoTyped DEF DeleteRow, TypeOK
<1>9. ASSUME Lookup(r) \/ StartExec(r) \/ EndExec(r) \/ EndRun(r), UNCHANGED reaper
      PROVE  TypeOK'
  <2>1. \E pc \in Pcs, ctx \in {"alive", "ended"} : Goto(r, pc, ctx)
    BY <1>9 DEF Lookup, StartExec, EndExec, EndRun, HasContext, TypeOK
  <2>2. UNCHANGED <<container, registry, known, server>>
    BY <1>9 DEF Lookup, StartExec, EndExec, EndRun
  <2>3. req[r].pc # "idle"
    BY <1>9 DEF Lookup, StartExec, EndExec, EndRun
  <2> QED
    BY <1>9, <2>1, <2>2, <2>3, GotoTyped DEF TypeOK
<1>10. ASSUME Touch(r), UNCHANGED reaper PROVE TypeOK'
  <2>1. RegistryType'
    BY <1>10, RegistryAssumption DEF Touch, TouchLastActive, HasRow, TypeOK
  <2>2. known' \subseteq Ids
    BY <1>10 DEF Touch, Tells, TypeOK
  <2> QED
    BY <1>10, <2>1, <2>2, GotoTyped DEF Touch, TypeOK
<1> QED
  BY <1>1, <1>2, <1>3, <1>4, <1>5, <1>6, <1>7, <1>8, <1>9, <1>10
     DEF Serve, Handle, EndCommand

LEMMA ClientTyped ==
    ASSUME TypeOK, NEW r \in Requests, Client(r)
    PROVE  TypeOK'
<1>1. ASSUME NEW op \in Ops, AcceptCreate(r, op), UNCHANGED reaper PROVE TypeOK'
  <2>1. PICK id \in Ids :
           req' = [req EXCEPT ![r] = [op |-> op, pc |-> "create", id |-> id,
                                      ctx |-> "alive"]]
    BY <1>1 DEF AcceptCreate
  <2>2. ApiType'
    BY <1>1, <2>1 DEF AcceptCreate, TypeOK
  <2> QED
    BY <1>1, <2>2 DEF AcceptCreate, TypeOK
<1>2. ASSUME NEW op \in Ops, NEW pc \in Pcs, AcceptOn(r, op, pc), UNCHANGED reaper
      PROVE TypeOK'
  <2>1. PICK id \in known :
           req' = [req EXCEPT ![r] = [op |-> op, pc |-> pc, id |-> id,
                                      ctx |-> "alive"]]
    BY <1>2 DEF AcceptOn
  <2>2. ApiType'
    BY <1>2, <2>1 DEF AcceptOn, TypeOK
  <2> QED
    BY <1>2, <2>2 DEF AcceptOn, TypeOK
<1>3. ASSUME ContextEnds(r), UNCHANGED reaper PROVE TypeOK'
  BY <1>3 DEF ContextEnds, TypeOK
<1>4. ASSUME Accept(r), UNCHANGED reaper PROVE TypeOK'
  <2>1. CASE \E op \in {"create", "agent"} : AcceptCreate(r, op)
    BY <1>4, <1>1, <2>1
  <2>2. CASE \E op \in {"exec", "agent"} : AcceptOn(r, op, "lookup")
    BY <1>4, <1>2, <2>2
  <2>3. CASE AcceptOn(r, "delete", "stop")
    BY <1>4, <1>2, <2>3
  <2> QED
    BY <1>4, <2>1, <2>2, <2>3 DEF Accept
<1> QED
  BY <1>3, <1>4 DEF Client

LEMMA SystemTyped ==
    ASSUME TypeOK,
           \/ \E id \in Ids : ClientReads(id) \/ Die(id)
           \/ Minute \/ Signal \/ Exit \/ Restart
    PROVE  TypeOK'
<1> USE DEF TypeOK
<1>1. ASSUME NEW id \in Ids, ClientReads(id) PROVE TypeOK'
  BY <1>1 DEF ClientReads, ReadRow
<1>2. ASSUME NEW id \in Ids, Die(id) PROVE TypeOK'
  BY <1>2 DEF Die, ContainerDies
<1>3. ASSUME Minute PROVE TypeOK'
  <2>1. RegistryType'
    BY <1>3, RegistryAssumption DEF Minute, Ages, HasRow
  <2>2. ReaperType'
    BY <1>3, ReaperAssumption DEF Minute
  <2> QED
    BY <1>3, <2>1, <2>2 DEF Minute
<1>4. ASSUME Signal PROVE TypeOK'
  BY <1>4 DEF Signal, Stopping
<1>5. ASSUME Exit PROVE TypeOK'
  BY <1>5, ReaperAssumption DEF Exit, Waiting, NoRequest
<1>6. ASSUME Restart PROVE TypeOK'
  BY <1>6 DEF Restart
<1> QED
  BY <1>1, <1>2, <1>3, <1>4, <1>5, <1>6

(***************************************************************************)
(* Every variable keeps its type, and every request in flight its sandbox. *)
(***************************************************************************)
THEOREM TypeCorrect == Spec => []TypeOK
<1>1. Init => TypeOK
  BY RegistryAssumption, ReaperAssumption DEF Init, TypeOK, NoRow, Waiting, NoRequest
<1>2. TypeOK /\ [Next]_vars => TypeOK'
  <2> SUFFICES ASSUME TypeOK, [Next]_vars PROVE TypeOK'
    OBVIOUS
  <2>1. CASE UNCHANGED vars
    BY <2>1 DEF vars, TypeOK
  <2>2. CASE Next
    BY <2>2, ReaperTyped, HandlerTyped, ClientTyped, SystemTyped DEF Next
  <2> QED
    BY <2>1, <2>2
<1> QED
  BY <1>1, <1>2, PTL DEF Spec

-----------------------------------------------------------------------------
(***************************************************************************)
(* The lineage of an id.  Until its container is created nobody but its    *)
(* creator has it; until it is registered, or its creation given up,       *)
(* neither clients, nor other requests, nor the registry, nor the reaper   *)
(* have it.                                                                *)
(***************************************************************************)
UnusedUntouched ==
    \A id \in Ids : container[id] = "unused" =>
        /\ id \notin known
        /\ ~HasRow(id)
        /\ ~ReaperHolds(id)
        /\ \A r \in Requests : req[r].id = id => req[r].pc = "create"

CreatorAlone ==
    \A r \in Requests, id \in Ids : Creating(r, id) =>
        /\ id \notin known
        /\ ~HasRow(id)
        /\ ~ReaperHolds(id)
        /\ \A q \in Requests \ {r} : req[q].id # id

Lineage == UnusedUntouched /\ CreatorAlone

(***************************************************************************)
(* What a step of one handler may do to the lineage of any id.             *)
(***************************************************************************)
Footprint(r) ==
    /\ \A q \in Requests \ {r} : req'[q] = req[q]
    /\ req'[r].id \in {NoId, req[r].id}
    /\ \A id \in Ids : Creating(r, id)' => Creating(r, id)
    /\ \A id \in Ids : (HasRow(id)' /\ ~HasRow(id)) =>
          req[r].id = id /\ req[r].pc = "insert" /\ ~Creating(r, id)'
    /\ \A id \in known' \ known :
          req[r].id = id /\ req[r].pc # "create" /\ ~Creating(r, id)'
    /\ \A id \in Ids : container'[id] = "unused" =>
          /\ container[id] = "unused"
          /\ req'[r].id = id => req[r].pc # "create"
    /\ reaper' = reaper

LEMMA CallGoes ==
    ASSUME NEW r \in Requests, NEW onOk, NEW onError, TypeOK,
           \/ Call(r, ContainerCreate(req[r].id), onOk, onError)
           \/ Call(r, ContainerStart(req[r].id), onOk, onError)
           \/ Call(r, ContainerStop(req[r].id), onOk, onError)
           \/ Call(r, ContainerRemove(req[r].id), onOk, onError)
    PROVE  /\ \E pc \in {onOk, onError}, ctx \in {"alive", "ended"} : Goto(r, pc, ctx)
           /\ UNCHANGED <<registry, known, server>>
  BY DEF Call, TypeOK

LEMMA GotoStays ==
    ASSUME TypeOK, NEW r \in Requests, req[r].pc # "idle",
           NEW pc \in Pcs, NEW ctx, Goto(r, pc, ctx)
    PROVE  /\ \A q \in Requests \ {r} : req'[q] = req[q]
           /\ req'[r].pc = pc
           /\ pc = "idle" => req'[r].id = NoId
           /\ pc # "idle" => req'[r].id = req[r].id /\ req'[r].op = req[r].op
  BY DEF Goto, NoRequest, TypeOK

LEMMA HandlerFootprint ==
    ASSUME TypeOK, NEW r \in Requests, Serve(r) \/ EndCommand(r)
    PROVE  Footprint(r)
<1> USE ServerProcessAssumption DEF Creating, At
<1>1. ASSUME CreateContainer(r), UNCHANGED reaper PROVE Footprint(r)
  <2>1. PICK pc \in {"start", "idle"}, ctx \in {"alive", "ended"} : Goto(r, pc, ctx)
    BY <1>1, CallGoes DEF CreateContainer
  <2>2. UNCHANGED <<registry, known, server>> /\ req[r].pc = "create"
    BY <1>1, CallGoes DEF CreateContainer
  <2>3. \/ ContainerCreate(req[r].id)
        \/ UNCHANGED container /\ req'[r].id = NoId
    BY <1>1, <2>2, GotoStays DEF CreateContainer, Call, Answer
  <2> QED
    BY <1>1, <2>1, <2>2, <2>3, GotoStays DEF Footprint, HasRow, ContainerCreate, TypeOK
<1>2. ASSUME StartContainer(r), UNCHANGED reaper PROVE Footprint(r)
  <2>1. PICK pc \in {"insert", "discard"}, ctx \in {"alive", "ended"} : Goto(r, pc, ctx)
    BY <1>2, CallGoes DEF StartContainer
  <2>2. UNCHANGED <<registry, known, server>> /\ req[r].pc = "start"
    BY <1>2, CallGoes DEF StartContainer
  <2>3. ContainerStart(req[r].id) \/ UNCHANGED container
    BY <1>2, Zenon DEF StartContainer, Call, Answer
  <2> QED
    BY <1>2, <2>1, <2>2, <2>3, GotoStays DEF Footprint, HasRow, ContainerStart, TypeOK
<1>3. ASSUME DiscardContainer(r), UNCHANGED reaper PROVE Footprint(r)
  <2>1. PICK pc \in {"idle"}, ctx \in {"alive", "ended"} : Goto(r, pc, ctx)
    BY <1>3, CallGoes DEF DiscardContainer
  <2>2. UNCHANGED <<registry, known, server>> /\ req[r].pc = "discard"
    BY <1>3, CallGoes DEF DiscardContainer
  <2>3. ContainerRemove(req[r].id) \/ UNCHANGED container
    BY <1>3, Zenon DEF DiscardContainer, Call, Answer
  <2> QED
    BY <1>3, <2>1, <2>2, <2>3, GotoStays DEF Footprint, HasRow, ContainerRemove, Exists, TypeOK
<1>4. ASSUME StopContainer(r), UNCHANGED reaper PROVE Footprint(r)
  <2>1. PICK pc \in {"remove"}, ctx \in {"alive", "ended"} : Goto(r, pc, ctx)
    BY <1>4, CallGoes DEF StopContainer
  <2>2. UNCHANGED <<registry, known, server>> /\ req[r].pc = "stop"
    BY <1>4, CallGoes DEF StopContainer
  <2>3. ContainerStop(req[r].id) \/ UNCHANGED container
    BY <1>4, Zenon DEF StopContainer, Call, Answer
  <2> QED
    BY <1>4, <2>1, <2>2, <2>3, GotoStays DEF Footprint, HasRow, ContainerStop, TypeOK
<1>5. ASSUME RemoveContainer(r), UNCHANGED reaper PROVE Footprint(r)
  <2>1. PICK pc \in {"unrow", "idle"}, ctx \in {"alive", "ended"} :
           Goto(r, pc, ctx) /\ (pc = "unrow" => req[r].op = "delete")
    BY <1>5, CallGoes DEF RemoveContainer
  <2>2. UNCHANGED <<registry, known, server>> /\ req[r].pc = "remove"
    BY <1>5, CallGoes DEF RemoveContainer
  <2>3. ContainerRemove(req[r].id) \/ UNCHANGED container
    BY <1>5, Zenon DEF RemoveContainer, Call, Answer
  <2> QED
    BY <1>5, <2>1, <2>2, <2>3, GotoStays DEF Footprint, HasRow, ContainerRemove, Exists, TypeOK
<1>6. ASSUME RegisterCreated(r), UNCHANGED reaper PROVE Footprint(r)
  <2>1. At(r, "create", "insert") /\ UNCHANGED <<container, server>>
    BY <1>6 DEF RegisterCreated
  <2>2. CASE Insert(req[r].id) /\ Goto(r, "idle", "alive") /\ Tells(req[r].id, HasContext(r))
    <3>1. \A id \in Ids : HasRow(id)' /\ ~HasRow(id) => id = req[r].id
      BY <2>2 DEF Insert, HasRow, TypeOK
    <3> QED
      BY <1>6, <2>1, <2>2, <3>1, GotoStays DEF Footprint, Tells, TypeOK
  <2>3. CASE Goto(r, "stop", req[r].ctx) /\ UNCHANGED <<registry, known>>
    BY <1>6, <2>1, <2>3, GotoStays DEF Footprint, HasRow, TypeOK
  <2> QED
    BY <1>6, <2>2, <2>3 DEF RegisterCreated
<1>7. ASSUME RegisterForAgent(r), UNCHANGED reaper PROVE Footprint(r)
  <2>1. /\ At(r, "agent", "insert") /\ UNCHANGED <<container, known, server>>
        /\ Goto(r, "run", req[r].ctx)
    BY <1>7 DEF RegisterForAgent
  <2>2. \A id \in Ids : HasRow(id)' /\ ~HasRow(id) => id = req[r].id
    BY <1>7 DEF RegisterForAgent, Insert, HasRow, TypeOK
  <2> QED
    BY <1>7, <2>1, <2>2, GotoStays DEF Footprint, TypeOK
<1>8. ASSUME DeleteRow(r), UNCHANGED reaper PROVE Footprint(r)
  <2>1. \A id \in Ids : HasRow(id)' => HasRow(id)
    BY <1>8 DEF DeleteRow, Delete, HasRow, NoRow, TypeOK
  <2> QED
    BY <1>8, <2>1, GotoStays DEF DeleteRow, Footprint, TypeOK
<1>9. ASSUME Lookup(r) \/ StartExec(r) \/ EndExec(r) \/ EndRun(r), UNCHANGED reaper
      PROVE  Footprint(r)
  <2>1. /\ req[r].pc \in {"lookup", "exec", "attached", "run"}
        /\ UNCHANGED <<container, registry, known, server>>
    BY <1>9 DEF Lookup, StartExec, EndExec, EndRun
  <2>2. PICK pc \in {"exec", "run", "attached", "touch", "idle"}, ctx \in {"alive", "ended"} :
           Goto(r, pc, ctx)
    BY <1>9 DEF Lookup, StartExec, EndExec, EndRun, TypeOK
  <2> QED
    BY <1>9, <2>1, <2>2, GotoStays DEF Footprint, HasRow, TypeOK
<1>10. ASSUME Touch(r), UNCHANGED reaper PROVE Footprint(r)
  <2>1. \A id \in Ids : HasRow(id)' => HasRow(id)
    BY <1>10 DEF Touch, TouchLastActive, HasRow, TypeOK
  <2>2. known' \subseteq known \cup {req[r].id}
    BY <1>10 DEF Touch, Tells
  <2> QED
    BY <1>10, <2>1, <2>2, GotoStays DEF Touch, Footprint, TypeOK
<1> QED
  BY <1>1, <1>2, <1>3, <1>4, <1>5, <1>6, <1>7, <1>8, <1>9, <1>10
     DEF Serve, Handle, EndCommand

LEMMA HandlerLineage ==
    ASSUME TypeOK, TypeOK', Lineage, NEW r \in Requests, Serve(r) \/ EndCommand(r)
    PROVE  Lineage'
<1>1. Footprint(r)
  BY HandlerFootprint
<1>2. UnusedUntouched'
  <2> SUFFICES ASSUME NEW id \in Ids, container'[id] = "unused"
               PROVE  /\ id \notin known' /\ ~HasRow(id)' /\ ~ReaperHolds(id)'
                      /\ \A q \in Requests : req'[q].id = id => req'[q].pc = "create"
    BY DEF UnusedUntouched
  <2>1. container[id] = "unused"
    BY <1>1 DEF Footprint
  <2>2. /\ id \notin known /\ ~HasRow(id) /\ ~ReaperHolds(id)
        /\ \A q \in Requests : req[q].id = id => req[q].pc = "create"
    BY <2>1 DEF Lineage, UnusedUntouched
  <2>3. id \notin known' /\ ~HasRow(id)'
    BY <1>1, <2>2 DEF Footprint
  <2>4. ~ReaperHolds(id)'
    BY <1>1, <2>2 DEF Footprint, ReaperHolds
  <2>5. req'[r].id # id
    BY <1>1, <2>2, ServerProcessAssumption DEF Footprint
  <2> QED
    BY <1>1, <2>2, <2>3, <2>4, <2>5 DEF Footprint
<1>3. CreatorAlone'
  <2> SUFFICES ASSUME NEW q \in Requests, NEW id \in Ids, Creating(q, id)'
               PROVE  (id \notin known /\ ~HasRow(id) /\ ~ReaperHolds(id)
                         /\ \A p \in Requests \ {q} : req[p].id # id)'
    BY DEF CreatorAlone
  <2>1. Creating(q, id)
    BY <1>1 DEF Footprint, Creating, At
  <2>2. /\ id \notin known /\ ~HasRow(id) /\ ~ReaperHolds(id)
        /\ \A p \in Requests \ {q} : req[p].id # id
    BY <2>1 DEF Lineage, CreatorAlone
  <2>3. req[q].id = id
    BY <2>1 DEF Creating
  <2>4. r # q => req[r].id # id
    BY <2>2
  <2>7. id \notin known' /\ ~HasRow(id)'
    BY <1>1, <2>2, <2>4 DEF Footprint
  <2>5. \A p \in Requests \ {q} : req'[p].id # id
    BY <1>1, <2>2, <2>3, ServerProcessAssumption DEF Footprint
  <2>6. ~ReaperHolds(id)'
    BY <1>1, <2>2 DEF Footprint, ReaperHolds
  <2> QED
    BY <2>5, <2>6, <2>7
<1> QED
  BY <1>2, <1>3 DEF Lineage

(***************************************************************************)
(* What a step of the reaper may do to the lineage of any id.              *)
(***************************************************************************)
ReaperFootprint ==
    /\ UNCHANGED <<req, known>>
    /\ \A id \in Ids : HasRow(id)' => HasRow(id)
    /\ \A id \in Ids : container'[id] = "unused" => container[id] = "unused"
    /\ \A id \in Ids : ReaperHolds(id)' => ReaperHolds(id) \/ HasRow(id)

LEMMA ReaperLeaves ==
    ASSUME TypeOK, Reap
    PROVE  ReaperFootprint
<1> USE ServerProcessAssumption DEF TypeOK, Reap, ReaperFootprint, ReaperHolds, HasRow
<1>1. ASSUME ListForSleep PROVE ReaperFootprint
  <2>1. PICK ids : reaper' = [reaper EXCEPT !.pc = "sleep", !.toSleep = ids]
    BY <1>1, Zenon DEF ListForSleep
  <2> QED
    BY <1>1, <2>1 DEF ListForSleep
<1>2. ASSUME MarkSleeping PROVE ReaperFootprint
  <2>1. \A id \in Ids : HasRow(id)' => HasRow(id)
    BY <1>2 DEF MarkSleeping, SetStatus
  <2> QED
    BY <1>2, <2>1 DEF MarkSleeping
<1>3. ASSUME ListForDestroy PROVE ReaperFootprint
  <2>1. PICK ids \in Listed(IdleDestroyMin, reaper.elapsed, "sleeping") :
           reaper' = [reaper EXCEPT !.pc = "destroy", !.toDestroy = ids]
    BY <1>3 DEF ListForDestroy
  <2>2. \A id \in ids : HasRow(id)
    BY <2>1 DEF Listed, ListOlderThan
  <2> QED
    BY <1>3, <2>1, <2>2 DEF ListForDestroy
<1>4. ASSUME StopNext PROVE ReaperFootprint
  <2>1. PICK id \in reaper.toDestroy :
           /\ reaper' = [reaper EXCEPT !.pc = "remove", !.cur = id,
                                       !.toDestroy = @ \ {id}]
           /\ ContainerStop(id) \/ UNCHANGED container
    BY <1>4, Zenon DEF StopNext, Answer
  <2> QED
    BY <1>4, <2>1 DEF StopNext, ContainerStop
<1>5. ASSUME RemoveCurrent PROVE ReaperFootprint
  <2>1. ContainerRemove(reaper.cur) \/ UNCHANGED container
    BY <1>5, Zenon DEF RemoveCurrent, Answer
  <2> QED
    BY <1>5, <2>1 DEF RemoveCurrent, ContainerRemove, Exists
<1>6. ASSUME DeleteCurrent PROVE ReaperFootprint
  <2>1. \A id \in Ids : HasRow(id)' => HasRow(id)
    BY <1>6 DEF DeleteCurrent, Delete, NoRow
  <2> QED
    BY <1>6, <2>1 DEF DeleteCurrent
<1>7. ASSUME EndPass PROVE ReaperFootprint
  BY <1>7 DEF EndPass, Waiting
<1> QED
  BY <1>1, <1>2, <1>3, <1>4, <1>5, <1>6, <1>7 DEF ReaperStep

LEMMA ReaperLineage ==
    ASSUME TypeOK, Lineage, Reap
    PROVE  Lineage'
<1>1. ReaperFootprint
  BY ReaperLeaves
<1>2. UnusedUntouched'
  BY <1>1 DEF ReaperFootprint, Lineage, UnusedUntouched
<1>3. \A r \in Requests, id \in Ids : Creating(r, id)' => Creating(r, id)
  BY <1>1 DEF ReaperFootprint, Creating, At
<1>4. CreatorAlone'
  BY <1>1, <1>3 DEF ReaperFootprint, Lineage, CreatorAlone
<1> QED
  BY <1>2, <1>4 DEF Lineage

LEMMA ClientLineage ==
    ASSUME TypeOK, Lineage, NEW r \in Requests, Client(r)
    PROVE  Lineage'
<1> USE ServerProcessAssumption
       DEF TypeOK, Lineage, UnusedUntouched, CreatorAlone, Creating, At, HasRow, ReaperHolds
<1>1. ASSUME NEW op \in Ops, AcceptCreate(r, op), UNCHANGED reaper PROVE Lineage'
  <2>1. PICK id \in Ids :
           /\ Fresh(id)
           /\ req' = [req EXCEPT ![r] = [op |-> op, pc |-> "create", id |-> id,
                                         ctx |-> "alive"]]
    BY <1>1 DEF AcceptCreate
  <2>2. UnusedUntouched'
    BY <1>1, <2>1 DEF AcceptCreate, Fresh
  <2>3. CreatorAlone'
    BY <1>1, <2>1 DEF AcceptCreate, Fresh
  <2> QED
    BY <2>2, <2>3
<1>2. ASSUME NEW op \in Ops, NEW pc \in Pcs, AcceptOn(r, op, pc), UNCHANGED reaper,
             \/ op \in {"exec", "agent"} /\ pc = "lookup"
             \/ op = "delete" /\ pc = "stop"
      PROVE  Lineage'
  <2>1. PICK id \in known :
           req' = [req EXCEPT ![r] = [op |-> op, pc |-> pc, id |-> id,
                                      ctx |-> "alive"]]
    BY <1>2 DEF AcceptOn
  <2>2. UnusedUntouched'
    BY <1>2, <2>1 DEF AcceptOn
  <2>3. CreatorAlone'
    BY <1>2, <2>1 DEF AcceptOn
  <2> QED
    BY <2>2, <2>3
<1>3. ASSUME ContextEnds(r), UNCHANGED reaper PROVE Lineage'
  BY <1>3 DEF ContextEnds
<1>4. ASSUME Accept(r), UNCHANGED reaper PROVE Lineage'
  <2>1. CASE \E op \in {"create", "agent"} : AcceptCreate(r, op)
    BY <1>4, <1>1, <2>1
  <2>2. CASE \E op \in {"exec", "agent"} : AcceptOn(r, op, "lookup")
    BY <1>4, <1>2, <2>2
  <2>3. CASE AcceptOn(r, "delete", "stop")
    BY <1>4, <1>2, <2>3
  <2> QED
    BY <1>4, <2>1, <2>2, <2>3 DEF Accept
<1> QED
  BY <1>3, <1>4 DEF Client

LEMMA SystemLineage ==
    ASSUME TypeOK, Lineage,
           \/ \E id \in Ids : ClientReads(id) \/ Die(id)
           \/ Minute \/ Signal \/ Exit \/ Restart
    PROVE  Lineage'
<1> USE ServerProcessAssumption
       DEF TypeOK, Lineage, UnusedUntouched, CreatorAlone, Creating, At, HasRow, ReaperHolds
<1>1. ASSUME NEW id \in Ids, ClientReads(id) PROVE Lineage'
  BY <1>1 DEF ClientReads, ReadRow
<1>2. ASSUME NEW id \in Ids, Die(id) PROVE Lineage'
  BY <1>2 DEF Die, ContainerDies, Running
<1>3. ASSUME Minute PROVE Lineage'
  <2>1. \A id \in Ids : HasRow(id)' => HasRow(id)
    BY <1>3 DEF Minute, Ages
  <2>2. \A id \in Ids : ReaperHolds(id)' => ReaperHolds(id)
    BY <1>3 DEF Minute
  <2> QED
    BY <1>3, <2>1, <2>2 DEF Minute
<1>4. ASSUME Signal PROVE Lineage'
  BY <1>4 DEF Signal, Stopping
<1>5. ASSUME Exit PROVE Lineage'
  BY <1>5 DEF Exit, Waiting, NoRequest
<1>6. ASSUME Restart PROVE Lineage'
  BY <1>6 DEF Restart
<1> QED
  BY <1>1, <1>2, <1>3, <1>4, <1>5, <1>6

(***************************************************************************)
(* A sandbox under creation belongs to the request that creates it.        *)
(***************************************************************************)
THEOREM LineageHolds == Spec => []Lineage
<1>1. Init => Lineage
  BY ServerProcessAssumption
     DEF Init, Lineage, UnusedUntouched, CreatorAlone, Creating, At, HasRow, NoRow,
         ReaperHolds, Waiting, NoRequest
<1>2. TypeOK /\ TypeOK' /\ Lineage /\ [Next]_vars => Lineage'
  <2> SUFFICES ASSUME TypeOK, TypeOK', Lineage, [Next]_vars PROVE Lineage'
    OBVIOUS
  <2>1. CASE UNCHANGED vars
    BY <2>1 DEF vars, Lineage, UnusedUntouched, CreatorAlone, Creating, At, HasRow,
                ReaperHolds
  <2>2. CASE Next
    BY <2>2, ReaperLineage, HandlerLineage, ClientLineage, SystemLineage DEF Next
  <2> QED
    BY <2>1, <2>2
<1> QED
  BY <1>1, <1>2, TypeCorrect, PTL DEF Spec

\* A new row is the Insert of a request that is creating the sandbox.
LEMMA RowFromCreator ==
    ASSUME TypeOK, [Next]_vars, NEW id \in Ids, ~HasRow(id), HasRow(id)'
    PROVE  \E r \in Requests : req[r].id = id /\ req[r].pc = "insert"
<1>1. ASSUME NEW r \in Requests, Serve(r) \/ EndCommand(r)
      PROVE  req[r].id = id /\ req[r].pc = "insert"
  BY <1>1, HandlerFootprint DEF Footprint
<1>2. ASSUME Reap PROVE FALSE
  BY <1>2, ReaperLeaves DEF ReaperFootprint
<1>3. ASSUME Minute PROVE FALSE
  BY <1>3 DEF Minute, Ages, HasRow
<1>4. ASSUME \/ \E r \in Requests : Client(r)
             \/ \E i \in Ids : ClientReads(i) \/ Die(i)
             \/ Signal \/ Exit \/ Restart \/ UNCHANGED vars
      PROVE  FALSE
  <2>1. UNCHANGED registry
    BY <1>4 DEF Client, Accept, AcceptCreate, AcceptOn, ContextEnds, ClientReads,
                ReadRow, Die, Signal, Exit, Restart, vars
  <2> QED
    BY <2>1 DEF HasRow
<1> QED
  BY <1>1, <1>2, <1>3, <1>4 DEF Next

(***************************************************************************)
(* A row that was deleted never comes back: the only statement that adds a *)
(* row is its creator's Insert, and its creator is the only one to know of *)
(* the sandbox until then.                                                 *)
(***************************************************************************)
THEOREM DeletedForGood == Spec => RowNeverReturns
<1>1. ASSUME TypeOK, Lineage, [Next]_vars
      PROVE  [\A id \in known : ~HasRow(id) => ~HasRow(id)']_vars
  <2> SUFFICES ASSUME NEW id \in known, ~HasRow(id), HasRow(id)' PROVE FALSE
    BY Zenon
  <2>1. id \in Ids
    BY <1>1 DEF TypeOK
  <2>2. PICK r \in Requests : req[r].id = id /\ req[r].pc = "insert"
    BY <1>1, <2>1, RowFromCreator
  <2>3. Creating(r, id)
    BY <2>2 DEF Creating
  <2> QED
    BY <1>1, <2>1, <2>3 DEF Lineage, CreatorAlone
<1> QED
  BY <1>1, TypeCorrect, LineageHolds, PTL DEF Spec, RowNeverReturns

-----------------------------------------------------------------------------
(***************************************************************************)
(* The registry and the daemon agree: no leak, no ghost, and nothing that  *)
(* clients know is lost, each for the faults it withstands.                *)
(***************************************************************************)

(***************************************************************************)
(* Rows are deleted only after their containers.  A handler deletes a row  *)
(* only when the removal has succeeded; the reaper deletes it in any case, *)
(* so of the reaper this holds only where its calls cannot fail.           *)
(***************************************************************************)
HandlerForgetsRemoved ==
    \A r \in Requests : req[r].pc = "unrow" => container[req[r].id] = "removed"

ReaperForgetsRemoved ==
    /\ reaper.pc # "idle" => Alive
    /\ reaper.pc \in {"remove", "unrow"} => reaper.cur \in Ids
    /\ reaper.pc = "unrow" => container[reaper.cur] = "removed" \/ ReaperCutShort

\* The process is never asked to stop, and the daemon answers every call.
ReaperUndisturbed == "docker" \notin Faults /\ "shutdown" \notin Faults

NeverDrains == server # "draining"

(***************************************************************************)
(* Once a container is there it never turns unused; once it is removed it  *)
(* stays removed, and nothing but its creator brings a container about.    *)
(***************************************************************************)
DaemonForward ==
    \A id \in Ids :
        /\ container[id] = "removed" => container'[id] = "removed"
        /\ container[id] # "unused" /\ Exists(id)' => Exists(id)
        /\ container'[id] = "unused" => container[id] = "unused"

\* What a step may do to the daemon: one of its effects, on some id, or none.
DaemonStep ==
    \/ \E id : \/ ContainerCreate(id) \/ ContainerStart(id)
               \/ ContainerStop(id)   \/ ContainerRemove(id)
               \/ ContainerDies(id)
    \/ UNCHANGED container

LEMMA EffectForward ==
    ASSUME ContainerType, DaemonStep
    PROVE  DaemonForward
<1> USE DEF DaemonForward, Exists
<1>1. ASSUME NEW id, ContainerCreate(id) PROVE DaemonForward
  BY <1>1 DEF ContainerCreate
<1>2. ASSUME NEW id, ContainerStart(id) PROVE DaemonForward
  BY <1>2 DEF ContainerStart
<1>3. ASSUME NEW id, ContainerStop(id) PROVE DaemonForward
  BY <1>3 DEF ContainerStop
<1>4. ASSUME NEW id, ContainerRemove(id) PROVE DaemonForward
  BY <1>4 DEF ContainerRemove
<1>5. ASSUME NEW id, ContainerDies(id) PROVE DaemonForward
  BY <1>5 DEF ContainerDies, Running
<1>6. ASSUME UNCHANGED container PROVE DaemonForward
  BY <1>6
<1> QED
  BY <1>1, <1>2, <1>3, <1>4, <1>5, <1>6 DEF DaemonStep

\* The steps that leave the daemon alone.
LEMMA QuietSteps ==
    ASSUME NEW r \in Requests,
           \/ RegisterCreated(r) \/ RegisterForAgent(r) \/ DeleteRow(r)
           \/ Lookup(r) \/ StartExec(r) \/ EndExec(r) \/ EndRun(r) \/ Touch(r)
    PROVE  UNCHANGED container
  BY DEF RegisterCreated, RegisterForAgent, DeleteRow, Lookup, StartExec, EndExec,
         EndRun, Touch

LEMMA StepEffect ==
    ASSUME [Next]_vars
    PROVE  DaemonStep
<1>1. ASSUME UNCHANGED container PROVE DaemonStep
  BY <1>1 DEF DaemonStep
<1>2. ASSUME NEW r \in Requests, Serve(r) \/ EndCommand(r) PROVE DaemonStep
  <2>1. CASE \/ CreateContainer(r) \/ StartContainer(r) \/ DiscardContainer(r)
             \/ StopContainer(r) \/ RemoveContainer(r)
    <3>1. \/ ContainerCreate(req[r].id) \/ ContainerStart(req[r].id)
          \/ ContainerStop(req[r].id) \/ ContainerRemove(req[r].id)
          \/ UNCHANGED container
      BY <2>1, Zenon DEF CreateContainer, StartContainer, DiscardContainer,
                         StopContainer, RemoveContainer, Call, Answer
    <3> QED
      BY <3>1, Zenon DEF DaemonStep
  <2> QED
    BY <1>1, <1>2, <2>1, QuietSteps DEF Serve, Handle, EndCommand
<1>3. ASSUME Reap PROVE DaemonStep
  <2>1. \/ \E id \in reaper.toDestroy : ContainerStop(id)
        \/ ContainerRemove(reaper.cur)
        \/ UNCHANGED container
    BY <1>3, Zenon DEF Reap, ReaperStep, ListForSleep, MarkSleeping, ListForDestroy,
                       StopNext, RemoveCurrent, DeleteCurrent, EndPass, Answer
  <2> QED
    BY <2>1, Zenon DEF DaemonStep
<1>4. ASSUME NEW r \in Requests, Client(r) PROVE DaemonStep
  BY <1>1, <1>4 DEF Client, Accept, AcceptCreate, AcceptOn, ContextEnds
<1>5. ASSUME NEW id \in Ids, Die(id) PROVE DaemonStep
  BY <1>5, Zenon DEF Die, DaemonStep
<1>6. ASSUME \/ \E id \in Ids : ClientReads(id)
             \/ Minute \/ Signal \/ Exit \/ Restart
      PROVE  DaemonStep
  BY <1>1, <1>6 DEF ClientReads, ReadRow, Minute, Signal, Exit, Restart
<1> QED
  BY <1>1, <1>2, <1>3, <1>4, <1>5, <1>6 DEF Next, vars

LEMMA StepForward ==
    ASSUME TypeOK, [Next]_vars
    PROVE  DaemonForward
  BY StepEffect, EffectForward DEF TypeOK

(***************************************************************************)
(* Of the steps of a handler only RemoveContainer leads to "unrow".        *)
(***************************************************************************)
LEMMA OnlyRemovalForgets ==
    ASSUME TypeOK, NEW r \in Requests, Serve(r) \/ EndCommand(r), req'[r].pc = "unrow"
    PROVE  RemoveContainer(r)
<1>1. ASSUME \/ CreateContainer(r) \/ StartContainer(r) \/ DiscardContainer(r)
             \/ StopContainer(r)
      PROVE  FALSE
  <2>1. /\ \E pc \in {"start", "insert", "discard", "remove", "idle"},
                ctx \in {"alive", "ended"} : Goto(r, pc, ctx)
        /\ req[r].pc # "idle"
    BY <1>1, CallGoes DEF CreateContainer, StartContainer, DiscardContainer, StopContainer
  <2> QED
    BY <2>1, GotoStays
<1>2. ASSUME \/ RegisterCreated(r) \/ RegisterForAgent(r) \/ DeleteRow(r) \/ Touch(r)
             \/ Lookup(r) \/ StartExec(r) \/ EndExec(r) \/ EndRun(r)
      PROVE  FALSE
  <2>1. /\ \E pc \in {"stop", "run", "exec", "attached", "touch", "idle"},
                ctx \in {"alive", "ended"} : Goto(r, pc, ctx)
        /\ req[r].pc # "idle"
    BY <1>2 DEF RegisterCreated, RegisterForAgent, DeleteRow, Touch, Lookup, StartExec,
                EndExec, EndRun, At, TypeOK
  <2> QED
    BY <2>1, GotoStays
<1> QED
  BY <1>1, <1>2 DEF Serve, Handle, EndCommand

(***************************************************************************)
(* A handler comes to delete a row with its container removed.             *)
(***************************************************************************)
LEMMA RemovalForgets ==
    ASSUME TypeOK, Lineage, NEW r \in Requests, RemoveContainer(r), req'[r].pc = "unrow"
    PROVE  /\ container'[req'[r].id] = "removed"
           /\ req[r].op = "delete"
           /\ req'[r].id = req[r].id
<1>1. req[r].pc = "remove" /\ req[r].id \in Ids
  BY DEF RemoveContainer, TypeOK
<1>2. \/ /\ Goto(r, IF req[r].op = "delete" THEN "unrow" ELSE "idle", "alive")
         /\ ContainerRemove(req[r].id)
      \/ Goto(r, "idle", "ended")
      \/ Goto(r, "idle", req[r].ctx)
  BY Zenon DEF RemoveContainer, Call, Answer
<1>3. ~Goto(r, "idle", "ended") /\ ~Goto(r, "idle", req[r].ctx)
  BY <1>1, GotoStays
<1>4. req[r].op = "delete"
  BY <1>1, <1>2, <1>3, GotoStays
<1>5. req'[r].id = req[r].id
  BY <1>1, <1>2, <1>3, <1>4, GotoStays
<1>6. container[req[r].id] # "unused"
  BY <1>1 DEF Lineage, UnusedUntouched
<1> QED
  BY <1>1, <1>2, <1>3, <1>4, <1>5, <1>6 DEF ContainerRemove, Exists, TypeOK

LEMMA HandlerForgetsStep ==
    ASSUME TypeOK, Lineage, HandlerForgetsRemoved, [Next]_vars
    PROVE  HandlerForgetsRemoved'
<1>0. DaemonForward
  BY StepForward
<1>1. SUFFICES ASSUME NEW q \in Requests, req'[q].pc = "unrow"
               PROVE  container'[req'[q].id] = "removed"
  BY DEF HandlerForgetsRemoved
<1>2. ASSUME req'[q].pc = req[q].pc, req'[q].id = req[q].id
      PROVE  container'[req'[q].id] = "removed"
  BY <1>0, <1>1, <1>2 DEF TypeOK, HandlerForgetsRemoved, DaemonForward
<1>3. ASSUME NEW r \in Requests, Serve(r) \/ EndCommand(r)
      PROVE  container'[req'[q].id] = "removed"
  <2>1. CASE q # r
    BY <1>2, <1>3, <2>1, HandlerFootprint DEF Footprint
  <2>2. CASE q = r
    BY <1>1, <1>3, <2>2, OnlyRemovalForgets, RemovalForgets
  <2> QED
    BY <2>1, <2>2
<1>4. ASSUME NEW r \in Requests, Client(r)
      PROVE  container'[req'[q].id] = "removed"
  <2>1. /\ \A p \in Requests \ {r} : req'[p] = req[p]
        /\ req'[r].pc = "unrow" => req'[r].pc = req[r].pc /\ req'[r].id = req[r].id
    BY <1>4 DEF Client, Accept, AcceptCreate, AcceptOn, ContextEnds, TypeOK
  <2> QED
    BY <1>1, <1>2, <2>1
<1>5. ASSUME Exit PROVE container'[req'[q].id] = "removed"
  BY <1>1, <1>5 DEF Exit, NoRequest
<1>6. ASSUME \/ UNCHANGED vars \/ Reap \/ Minute \/ Signal \/ Restart
             \/ \E id \in Ids : ClientReads(id) \/ Die(id)
      PROVE  container'[req'[q].id] = "removed"
  <2>1. UNCHANGED req
    BY <1>6 DEF vars, Reap, Minute, Signal, Restart, ClientReads, ReadRow, Die
  <2> QED
    BY <1>2, <2>1
<1> QED
  BY <1>3, <1>4, <1>5, <1>6 DEF Next

LEMMA ReaperForgetsStep ==
    ASSUME TypeOK, Lineage, ReaperForgetsRemoved, [Next]_vars
    PROVE  ReaperForgetsRemoved'
<1>0. DaemonForward
  BY StepForward
<1> USE DEF ReaperForgetsRemoved, Alive, ReaperCutShort, SignalContextAlive, May
<1>1. ASSUME UNCHANGED <<reaper, server>> PROVE ReaperForgetsRemoved'
  BY <1>0, <1>1 DEF DaemonForward
<1>2. ASSUME Reap PROVE ReaperForgetsRemoved'
  <2> USE <1>2, ServerProcessAssumption DEF Reap, TypeOK
  <2>1. CASE ListForSleep
    <3>1. PICK ids : reaper' = [reaper EXCEPT !.pc = "sleep", !.toSleep = ids]
      BY <2>1, Zenon DEF ListForSleep
    <3> QED
      BY <2>1, <3>1 DEF ListForSleep, Alive
  <2>2. CASE MarkSleeping
    BY <2>2 DEF MarkSleeping
  <2>3. CASE ListForDestroy
    <3>1. PICK ids : reaper' = [reaper EXCEPT !.pc = "destroy", !.toDestroy = ids]
      BY <2>3, Zenon DEF ListForDestroy
    <3> QED
      BY <2>3, <3>1 DEF ListForDestroy
  <2>4. CASE StopNext
    <3>1. PICK id \in reaper.toDestroy :
             reaper' = [reaper EXCEPT !.pc = "remove", !.cur = id, !.toDestroy = @ \ {id}]
      BY <2>4, Zenon DEF StopNext
    <3> QED
      BY <2>4, <3>1 DEF StopNext
  <2>5. CASE RemoveCurrent
    <3>1. ContainerRemove(reaper.cur) \/ ReaperCutShort
      BY <2>5, Zenon DEF RemoveCurrent, Answer
    <3>2. container[reaper.cur] # "unused"
      BY <2>5 DEF RemoveCurrent, Lineage, UnusedUntouched, ReaperHolds
    <3> QED
      BY <2>5, <3>1, <3>2 DEF RemoveCurrent, ContainerRemove, Exists
  <2>6. CASE DeleteCurrent
    BY <2>6 DEF DeleteCurrent
  <2>7. CASE EndPass
    BY <2>7 DEF EndPass, Waiting
  <2> QED
    BY <2>1, <2>2, <2>3, <2>4, <2>5, <2>6, <2>7 DEF ReaperStep
<1>3. ASSUME \/ \E r \in Requests : Serve(r) \/ EndCommand(r) \/ Client(r)
             \/ \E id \in Ids : ClientReads(id) \/ Die(id)
             \/ UNCHANGED vars
      PROVE  ReaperForgetsRemoved'
  <2>1. ASSUME NEW r \in Requests, Serve(r) \/ EndCommand(r)
        PROVE  UNCHANGED <<reaper, server>>
    BY <2>1, CallGoes DEF Serve, EndCommand, Handle, CreateContainer, StartContainer,
         DiscardContainer, StopContainer, RemoveContainer, RegisterCreated,
         RegisterForAgent, DeleteRow, Touch, Lookup, StartExec, EndExec, EndRun
  <2>2. ASSUME NEW r \in Requests, Client(r) PROVE UNCHANGED <<reaper, server>>
    BY <2>2 DEF Client, Accept, AcceptCreate, AcceptOn, ContextEnds
  <2>3. ASSUME NEW id \in Ids, ClientReads(id) \/ Die(id)
        PROVE  UNCHANGED <<reaper, server>>
    BY <2>3 DEF ClientReads, ReadRow, Die
  <2>4. ASSUME UNCHANGED vars PROVE UNCHANGED <<reaper, server>>
    BY <2>4 DEF vars
  <2> QED
    BY <1>1, <1>3, <2>1, <2>2, <2>3, <2>4
<1>4. ASSUME Minute PROVE ReaperForgetsRemoved'
  BY <1>0, <1>4 DEF Minute, DaemonForward, TypeOK
<1>5. ASSUME Signal PROVE ReaperForgetsRemoved'
  BY <1>5 DEF Signal, Stopping
<1>6. ASSUME Exit PROVE ReaperForgetsRemoved'
  BY <1>6 DEF Exit, Waiting
<1>7. ASSUME Restart PROVE ReaperForgetsRemoved'
  BY <1>7 DEF Restart, TypeOK
<1> QED
  BY <1>2, <1>3, <1>4, <1>5, <1>6, <1>7 DEF Next

\* Only a signal makes the process drain.
LEMMA ServerMoves ==
    ASSUME TypeOK, [Next]_vars, server' = "draining"
    PROVE  server = "draining" \/ May("shutdown")
<1>1. ASSUME NEW r \in Requests, Serve(r) \/ EndCommand(r) PROVE UNCHANGED server
  BY <1>1, CallGoes DEF Serve, EndCommand, Handle, CreateContainer, StartContainer,
       DiscardContainer, StopContainer, RemoveContainer, RegisterCreated,
       RegisterForAgent, DeleteRow, Touch, Lookup, StartExec, EndExec, EndRun
<1>2. ASSUME \/ Reap \/ Minute \/ UNCHANGED vars
             \/ \E r \in Requests : Client(r)
             \/ \E id \in Ids : ClientReads(id) \/ Die(id)
      PROVE  UNCHANGED server
  BY <1>2 DEF Reap, ReaperStep, ListForSleep, MarkSleeping, ListForDestroy, StopNext,
       RemoveCurrent, DeleteCurrent, EndPass, Minute, vars, Client, Accept, AcceptCreate,
       AcceptOn, ContextEnds, ClientReads, ReadRow, Die
<1>3. ASSUME Signal \/ Exit \/ Restart PROVE server = "draining" \/ May("shutdown")
  BY <1>3 DEF Signal, Stopping, Exit, Restart
<1> QED
  BY <1>1, <1>2, <1>3 DEF Next

(***************************************************************************)
(* A row that goes leaves no container behind, unless the reaper deletes   *)
(* it after a Destroy that may have failed.                                *)
(***************************************************************************)
LEMMA RowGoesLast ==
    ASSUME TypeOK, HandlerForgetsRemoved, ReaperForgetsRemoved, [Next]_vars,
           NEW id \in Ids, HasRow(id), ~HasRow(id)'
    PROVE  container[id] = "removed" \/ (ReaperForgets(id) /\ ReaperCutShort)
<1> DEFINE Excused == container[id] = "removed" \/ (ReaperForgets(id) /\ ReaperCutShort)
<1> USE DEF HasRow
<1>1. ASSUME NEW r \in Requests, Serve(r) \/ EndCommand(r) PROVE Excused
  <2>1. CASE DeleteRow(r)
    <3>1. id = req[r].id /\ req[r].pc = "unrow"
      BY <2>1 DEF DeleteRow, Delete, TypeOK
    <3> QED
      BY <3>1 DEF HandlerForgetsRemoved
  <2>2. CASE Touch(r)
    BY <2>2 DEF Touch, TouchLastActive, TypeOK
  <2>3. CASE RegisterCreated(r) \/ RegisterForAgent(r)
    BY <2>3 DEF RegisterCreated, RegisterForAgent, Insert, TypeOK
  <2>4. CASE \/ CreateContainer(r) \/ StartContainer(r) \/ DiscardContainer(r)
             \/ StopContainer(r) \/ RemoveContainer(r)
             \/ Lookup(r) \/ StartExec(r) \/ EndExec(r) \/ EndRun(r)
    <3>1. UNCHANGED registry
      BY <2>4, CallGoes DEF CreateContainer, StartContainer, DiscardContainer,
           StopContainer, RemoveContainer, Lookup, StartExec, EndExec, EndRun
    <3> QED
      BY <3>1
  <2> QED
    BY <1>1, <2>1, <2>2, <2>3, <2>4 DEF Serve, Handle, EndCommand
<1>2. ASSUME Reap PROVE Excused
  <2>1. CASE DeleteCurrent
    <3>1. id = reaper.cur /\ reaper.pc = "unrow"
      BY <2>1 DEF DeleteCurrent, Delete, TypeOK
    <3> QED
      BY <3>1 DEF ReaperForgetsRemoved, ReaperForgets
  <2>2. CASE MarkSleeping
    BY <2>2 DEF MarkSleeping, SetStatus, TypeOK
  <2>3. CASE ListForSleep \/ ListForDestroy \/ StopNext \/ RemoveCurrent \/ EndPass
    BY <2>3 DEF ListForSleep, ListForDestroy, StopNext, RemoveCurrent, EndPass
  <2> QED
    BY <1>2, <2>1, <2>2, <2>3 DEF Reap, ReaperStep
<1>3. ASSUME Minute PROVE Excused
  BY <1>3 DEF Minute, Ages, TypeOK
<1>4. ASSUME \/ \E r \in Requests : Client(r)
             \/ \E i \in Ids : ClientReads(i) \/ Die(i)
             \/ Signal \/ Exit \/ Restart \/ UNCHANGED vars
      PROVE Excused
  <2>1. UNCHANGED registry
    BY <1>4 DEF Client, Accept, AcceptCreate, AcceptOn, ContextEnds, ClientReads,
                ReadRow, Die, Signal, Exit, Restart, vars
  <2> QED
    BY <2>1
<1> QED
  BY <1>1, <1>2, <1>3, <1>4 DEF Next

-----------------------------------------------------------------------------
(* Nothing that clients know is lost.                                      *)

Tracked(id) == Exists(id) => HasRow(id)

\* The sandbox of an agent run that is about to name it to its client.
Names(r, id) ==
    req[r].id = id /\ req[r].op = "agent" /\ req[r].pc \in {"run", "touch"}

RunsTracked == \A r \in Requests, id \in Ids : Names(r, id) => Tracked(id)

CommandsAreExecs ==
    \A r \in Requests : req[r].pc \in {"exec", "attached"} => req[r].op = "exec"

Bookkeeping ==
    /\ HandlerForgetsRemoved
    /\ ReaperForgetsRemoved
    /\ NeverDrains
    /\ CommandsAreExecs
    /\ RunsTracked
    /\ KnownTracked

LEMMA StaysTracked ==
    ASSUME TypeOK, HandlerForgetsRemoved, ReaperForgetsRemoved, NeverDrains,
           ReaperUndisturbed, [Next]_vars,
           NEW id \in Ids, container[id] # "unused", Tracked(id)
    PROVE  Tracked(id)'
<1>1. DaemonForward
  BY StepForward
<1>2. ~(ReaperForgets(id) /\ ReaperCutShort)
  BY DEF ReaperForgets, ReaperForgetsRemoved, ReaperCutShort, SignalContextAlive, Alive,
         NeverDrains, ReaperUndisturbed, May, TypeOK
<1>3. HasRow(id) /\ ~HasRow(id)' => container[id] = "removed"
  BY <1>2, RowGoesLast
<1> QED
  BY <1>1, <1>3 DEF DaemonForward, Tracked, Exists

\* A request that works on an existing sandbox, as opposed to creating one.
LEMMA BusyOnUsed ==
    ASSUME TypeOK, Lineage, NEW r \in Requests, req[r].pc \notin {"idle", "create"}
    PROVE  req[r].id \in Ids /\ container[req[r].id] # "unused"
  BY DEF TypeOK, Lineage, UnusedUntouched

(***************************************************************************)
(* How a request comes to "run" or "touch", and a client to know an id.    *)
(***************************************************************************)
HandlerBooks(r) ==
    /\ req'[r].pc \in {"exec", "attached"} => req'[r].op = "exec"
    /\ \A id \in Ids : Names(r, id)' => Tracked(id)'
    /\ \A id \in known' \ known : Tracked(id)'

LEMMA HandlerTracks ==
    ASSUME TypeOK, Lineage, Bookkeeping, "registry" \notin Faults,
           ReaperUndisturbed, [Next]_vars,
           NEW r \in Requests, Serve(r) \/ EndCommand(r)
    PROVE  HandlerBooks(r)
<1> USE DEF HandlerBooks, Names
<1>1. CASE \/ CreateContainer(r) \/ StartContainer(r) \/ DiscardContainer(r)
           \/ StopContainer(r) \/ RemoveContainer(r)
  <2>1. /\ \E pc \in {"start", "insert", "discard", "remove", "unrow", "idle"},
                ctx \in {"alive", "ended"} : Goto(r, pc, ctx)
        /\ req[r].pc # "idle"
        /\ known' = known
    BY <1>1, CallGoes DEF CreateContainer, StartContainer, DiscardContainer,
                          StopContainer, RemoveContainer
  <2> QED
    BY <2>1, GotoStays
<1>2. CASE RegisterCreated(r)
  <2>1. PICK id \in Ids : id = req[r].id
    BY <1>2 DEF RegisterCreated, At, TypeOK
  <2>2. CASE Goto(r, "stop", req[r].ctx) /\ UNCHANGED known
    BY <1>2, <2>2, GotoStays DEF RegisterCreated, At
  <2>3. CASE /\ Insert(req[r].id) /\ Goto(r, "idle", "alive")
             /\ Tells(req[r].id, HasContext(r))
    <3>1. HasRow(id)'
      BY <2>1, <2>3 DEF Insert, HasRow, TypeOK
    <3> QED
      BY <1>2, <2>1, <2>3, <3>1, GotoStays DEF RegisterCreated, At, Tells, Tracked
  <2> QED
    BY <1>2, <2>2, <2>3 DEF RegisterCreated
<1>3. CASE RegisterForAgent(r)
  <2>1. PICK id \in Ids : id = req[r].id
    BY <1>3 DEF RegisterForAgent, At, TypeOK
  <2>2. HasRow(id)'
    BY <1>3, <2>1 DEF RegisterForAgent, May, Insert, HasRow, TypeOK
  <2> QED
    BY <1>3, <2>1, <2>2, GotoStays DEF RegisterForAgent, At, Tracked
<1>4. CASE DeleteRow(r)
  BY <1>4, GotoStays DEF DeleteRow
<1>5. CASE Lookup(r)
  <2>1. /\ req[r].pc = "lookup" /\ UNCHANGED <<registry, known>>
        /\ \/ /\ HasRow(req[r].id)
              /\ Goto(r, IF req[r].op = "exec" THEN "exec" ELSE "run", req[r].ctx)
           \/ Goto(r, "idle", "alive")
    BY <1>5 DEF Lookup
  <2> QED
    BY <2>1, GotoStays DEF Tracked, HasRow
<1>6. CASE StartExec(r) \/ EndExec(r)
  <2>1. /\ UNCHANGED known
        /\ req[r].op = "exec" /\ req[r].pc # "idle"
        /\ \E pc \in {"attached", "touch", "idle"} : Goto(r, pc, "alive")
    BY <1>6 DEF StartExec, EndExec, Bookkeeping, CommandsAreExecs
  <2> QED
    BY <2>1, GotoStays
<1>7. CASE EndRun(r)
  <2>1. /\ UNCHANGED <<container, registry, known>>
        /\ req[r].pc = "run"
        /\ \E pc \in {"touch", "idle"} : Goto(r, pc, req[r].ctx)
    BY <1>7 DEF EndRun
  <2>2. \A id \in Ids : Names(r, id)' => Names(r, id)
    BY <2>1, GotoStays, ServerProcessAssumption
  <2>3. \A id \in Ids : Tracked(id) => Tracked(id)'
    BY <2>1 DEF Tracked, Exists, HasRow
  <2>4. req'[r].pc \notin {"exec", "attached"}
    BY <2>1, GotoStays
  <2> QED
    BY <2>1, <2>2, <2>3, <2>4 DEF Bookkeeping, RunsTracked
<1>8. CASE Touch(r)
  <2>1. /\ req[r].pc = "touch" /\ Goto(r, "idle", "alive")
        /\ \A id \in known' \ known : id = req[r].id /\ req[r].op = "agent"
    BY <1>8 DEF Touch, Tells
  <2>2. \A id \in Ids : Names(r, id) => Tracked(id)'
    BY <2>1, BusyOnUsed, StaysTracked DEF Bookkeeping, RunsTracked
  <2> QED
    BY <2>1, <2>2, GotoStays DEF TypeOK
<1> QED
  BY <1>1, <1>2, <1>3, <1>4, <1>5, <1>6, <1>7, <1>8 DEF Serve, Handle, EndCommand

LEMMA BookkeepingStep ==
    ASSUME TypeOK, Lineage, Bookkeeping, [Next]_vars,
           "registry" \notin Faults, ReaperUndisturbed
    PROVE  Bookkeeping'
<1>1. HandlerForgetsRemoved' /\ ReaperForgetsRemoved' /\ NeverDrains'
  <2>1. HandlerForgetsRemoved' /\ ReaperForgetsRemoved'
    BY HandlerForgetsStep, ReaperForgetsStep DEF Bookkeeping
  <2>2. NeverDrains'
    BY ServerMoves DEF Bookkeeping, NeverDrains, ReaperUndisturbed, May
  <2> QED
    BY <2>1, <2>2
<1>2. \A id \in known : Tracked(id)'
  <2> SUFFICES ASSUME NEW id \in known PROVE Tracked(id)'
    OBVIOUS
  <2>1. id \in Ids /\ container[id] # "unused" /\ Tracked(id)
    BY DEF TypeOK, Lineage, UnusedUntouched, Bookkeeping, KnownTracked, Tracked
  <2> QED
    BY <2>1, StaysTracked DEF Bookkeeping
<1>3. \A r \in Requests, id \in Ids : Names(r, id) => Tracked(id)'
  <2> SUFFICES ASSUME NEW r \in Requests, NEW id \in Ids, Names(r, id) PROVE Tracked(id)'
    OBVIOUS
  <2>1. container[id] # "unused" /\ Tracked(id)
    BY DEF Names, Lineage, UnusedUntouched, Bookkeeping, RunsTracked
  <2> QED
    BY <2>1, StaysTracked DEF Bookkeeping
\* Requests of another kind of step do not move on.
<1>4. ASSUME \A r \in Requests : req'[r] # req[r] =>
                 req'[r].pc \notin {"exec", "attached", "run", "touch"}
             \/ (/\ req'[r].op = req[r].op /\ req'[r].pc = req[r].pc
                 /\ req'[r].id = req[r].id),
             \A id \in known' \ known : Tracked(id)'
      PROVE  Bookkeeping'
  <2>1. CommandsAreExecs'
    BY <1>4 DEF CommandsAreExecs, Bookkeeping
  <2>2. RunsTracked'
    BY <1>3, <1>4 DEF RunsTracked, Names
  <2>3. KnownTracked'
    BY <1>2, <1>4 DEF KnownTracked, Tracked
  <2> QED
    BY <1>1, <2>1, <2>2, <2>3 DEF Bookkeeping
<1>5. ASSUME NEW r \in Requests, Serve(r) \/ EndCommand(r) PROVE Bookkeeping'
  <2>1. HandlerBooks(r)
    BY <1>5, HandlerTracks
  <2>2. \A q \in Requests \ {r} : req'[q] = req[q]
    BY <1>5, HandlerFootprint DEF Footprint
  <2>3. CommandsAreExecs'
    BY <2>1, <2>2 DEF CommandsAreExecs, Bookkeeping, HandlerBooks
  <2>4. RunsTracked'
    BY <1>3, <2>1, <2>2 DEF RunsTracked, Names, HandlerBooks
  <2>5. KnownTracked'
    BY <1>2, <2>1 DEF KnownTracked, Tracked, HandlerBooks
  <2> QED
    BY <1>1, <2>3, <2>4, <2>5 DEF Bookkeeping
<1>6. ASSUME NEW r \in Requests, Client(r) PROVE Bookkeeping'
  <2>1. /\ known' = known
        /\ \A q \in Requests \ {r} : req'[q] = req[q]
        /\ \/ req'[r].pc \in {"create", "lookup", "stop"}
           \/ /\ req'[r].op = req[r].op /\ req'[r].pc = req[r].pc
              /\ req'[r].id = req[r].id
    BY <1>6 DEF Client, Accept, AcceptCreate, AcceptOn, ContextEnds, TypeOK
  <2> QED
    BY <1>4, <2>1
<1>7. ASSUME NEW i \in Ids, ClientReads(i) PROVE Bookkeeping'
  <2>1. UNCHANGED <<req, registry>> /\ HasRow(i) /\ known' = known \cup {i}
    BY <1>7 DEF ClientReads, ReadRow
  <2>2. Tracked(i)'
    BY <2>1 DEF Tracked, HasRow
  <2> QED
    BY <1>4, <2>1, <2>2
<1>8. ASSUME Exit PROVE Bookkeeping'
  <2>1. known' = known /\ \A r \in Requests : req'[r].pc = "idle"
    BY <1>8 DEF Exit, NoRequest
  <2> QED
    BY <1>4, <2>1
<1>9. ASSUME \/ Reap \/ Minute \/ Signal \/ Restart \/ UNCHANGED vars
             \/ \E i \in Ids : Die(i)
      PROVE  Bookkeeping'
  <2>1. UNCHANGED <<req, known>>
    BY <1>9 DEF Reap, Minute, Signal, Restart, vars, Die
  <2> QED
    BY <1>4, <2>1
<1> QED
  BY <1>5, <1>6, <1>7, <1>8, <1>9 DEF Next

(***************************************************************************)
(* While the daemon and the database answer and nobody asks the process to *)
(* stop, no client's sandbox drops out of the registry before its          *)
(* container is gone, however clients disconnect and the process crashes.  *)
(***************************************************************************)
THEOREM KnownStaysTracked ==
    ASSUME "docker" \notin Faults, "shutdown" \notin Faults, "registry" \notin Faults
    PROVE  Spec => []KnownTracked
<1>1. Init => Bookkeeping
  BY DEF Init, Bookkeeping, HandlerForgetsRemoved, ReaperForgetsRemoved, NeverDrains,
         CommandsAreExecs, RunsTracked, Names, KnownTracked, Waiting, NoRequest
<1>2. TypeOK /\ Lineage /\ Bookkeeping /\ [Next]_vars => Bookkeeping'
  BY BookkeepingStep DEF ReaperUndisturbed
<1>3. Bookkeeping => KnownTracked
  BY DEF Bookkeeping
<1> QED
  BY <1>1, <1>2, <1>3, TypeCorrect, LineageHolds, PTL DEF Spec

-----------------------------------------------------------------------------
(* No leak and no ghost, while no call made for the process is cut short.  *)

\* The process never stops, and no request loses its client.
Unbroken == server = "up" /\ \A r \in Requests : req[r].ctx = "alive"

LEMMA UnbrokenStep ==
    ASSUME TypeOK, Unbroken, [Next]_vars,
           "cancel" \notin Faults, "crash" \notin Faults, "shutdown" \notin Faults
    PROVE  Unbroken'
<1> USE DEF Unbroken
<1>1. ASSUME NEW r \in Requests, Serve(r) \/ EndCommand(r) PROVE Unbroken'
  <2>1. CASE \/ CreateContainer(r) \/ StartContainer(r) \/ DiscardContainer(r)
             \/ StopContainer(r) \/ RemoveContainer(r)
    <3>1. /\ \E pc : Goto(r, pc, "alive") \/ Goto(r, pc, req[r].ctx)
          /\ UNCHANGED server
      BY <2>1, Zenon DEF CreateContainer, StartContainer, DiscardContainer,
           StopContainer, RemoveContainer, Call, Answer, May
    <3> QED
      BY <3>1 DEF Goto, NoRequest, TypeOK
  <2>2. CASE \/ RegisterCreated(r) \/ RegisterForAgent(r) \/ DeleteRow(r) \/ Lookup(r)
             \/ StartExec(r) \/ EndExec(r) \/ EndRun(r) \/ Touch(r)
    <3>1. /\ \E pc : Goto(r, pc, "alive") \/ Goto(r, pc, req[r].ctx)
          /\ UNCHANGED server
      BY <2>2 DEF RegisterCreated, RegisterForAgent, DeleteRow, Lookup, StartExec,
                  EndExec, EndRun, Touch
    <3> QED
      BY <3>1 DEF Goto, NoRequest, TypeOK
  <2> QED
    BY <1>1, <2>1, <2>2 DEF Serve, Handle, EndCommand
<1>2. ASSUME NEW r \in Requests, Client(r) PROVE Unbroken'
  BY <1>2 DEF Client, Accept, AcceptCreate, AcceptOn, ContextEnds, May, TypeOK
<1>3. ASSUME Signal \/ Exit \/ Restart PROVE Unbroken'
  BY <1>3 DEF Signal, Stopping, Exit, Restart, May
<1>4. ASSUME \/ Reap \/ Minute \/ UNCHANGED vars
             \/ \E id \in Ids : ClientReads(id) \/ Die(id)
      PROVE Unbroken'
  <2>1. UNCHANGED <<req, server>>
    BY <1>4 DEF Reap, ReaperStep, ListForSleep, MarkSleeping, ListForDestroy, StopNext,
         RemoveCurrent, DeleteCurrent, EndPass, Minute, vars, ClientReads, ReadRow, Die
  <2> QED
    BY <2>1
<1> QED
  BY <1>1, <1>2, <1>3, <1>4 DEF Next

(***************************************************************************)
(* A container is removed by a request on its sandbox, or by the reaper.   *)
(***************************************************************************)
Removal(id) ==
    \/ \E r \in Requests :
          /\ req[r].id = id
          /\ DiscardContainer(r) \/ RemoveContainer(r)
    \/ RemoveCurrent /\ reaper.cur = id

LEMMA OnlyRemovalRemoves ==
    ASSUME TypeOK, [Next]_vars, NEW id \in Ids, container[id] # container'[id],
           container'[id] = "removed"
    PROVE  Removal(id) /\ UNCHANGED registry
<1>1. ASSUME NEW r \in Requests, Serve(r) \/ EndCommand(r)
      PROVE  Removal(id) /\ UNCHANGED registry
  <2>1. CASE CreateContainer(r)
    <3>1. ContainerCreate(req[r].id) \/ UNCHANGED container
      BY <2>1, Zenon DEF CreateContainer, Call, Answer
    <3> QED
      BY <3>1 DEF ContainerCreate, TypeOK
  <2>2. CASE StartContainer(r)
    <3>1. ContainerStart(req[r].id) \/ UNCHANGED container
      BY <2>2, Zenon DEF StartContainer, Call, Answer
    <3> QED
      BY <3>1 DEF ContainerStart, TypeOK
  <2>3. CASE StopContainer(r)
    <3>1. ContainerStop(req[r].id) \/ UNCHANGED container
      BY <2>3, Zenon DEF StopContainer, Call, Answer
    <3> QED
      BY <3>1 DEF ContainerStop, TypeOK
  <2>4. CASE DiscardContainer(r) \/ RemoveContainer(r)
    <3>1. ContainerRemove(req[r].id) \/ UNCHANGED container
      BY <2>4, Zenon DEF DiscardContainer, RemoveContainer, Call, Answer
    <3>2. req[r].id = id
      BY <3>1 DEF ContainerRemove, TypeOK
    <3>3. UNCHANGED registry
      BY <2>4, CallGoes DEF DiscardContainer, RemoveContainer
    <3> QED
      BY <2>4, <3>2, <3>3 DEF Removal
  <2> QED
    BY <1>1, <2>1, <2>2, <2>3, <2>4, QuietSteps DEF Serve, Handle, EndCommand
<1>2. ASSUME Reap PROVE Removal(id) /\ UNCHANGED registry
  <2>1. CASE StopNext
    <3>1. \E i \in reaper.toDestroy : ContainerStop(i) \/ UNCHANGED container
      BY <2>1, Zenon DEF StopNext, Answer
    <3> QED
      BY <3>1 DEF ContainerStop, TypeOK
  <2>2. CASE RemoveCurrent
    <3>1. ContainerRemove(reaper.cur) \/ UNCHANGED container
      BY <2>2, Zenon DEF RemoveCurrent, Answer
    <3> QED
      BY <2>2, <3>1 DEF ContainerRemove, RemoveCurrent, Removal, TypeOK
  <2>3. CASE ListForSleep \/ MarkSleeping \/ ListForDestroy \/ DeleteCurrent \/ EndPass
    BY <2>3 DEF ListForSleep, MarkSleeping, ListForDestroy, DeleteCurrent, EndPass
  <2> QED
    BY <1>2, <2>1, <2>2, <2>3 DEF Reap, ReaperStep
<1>3. ASSUME NEW i \in Ids, Die(i) PROVE FALSE
  BY <1>3 DEF Die, ContainerDies, TypeOK
<1>4. ASSUME \/ \E r \in Requests : Client(r)
             \/ \E i \in Ids : ClientReads(i)
             \/ Minute \/ Signal \/ Exit \/ Restart \/ UNCHANGED vars
      PROVE FALSE
  BY <1>4 DEF Client, Accept, AcceptCreate, AcceptOn, ContextEnds, ClientReads,
              ReadRow, Minute, Signal, Exit, Restart, vars
<1> QED
  BY <1>1, <1>2, <1>3, <1>4 DEF Next

\* A container that was unused is one that its creator has just made.
LEMMA OnlyCreatorsCreate ==
    ASSUME TypeOK, [Next]_vars, NEW id \in Ids,
           container[id] = "unused", container'[id] # "unused"
    PROVE  \E r \in Requests : CreateContainer(r) /\ req[r].id = id
<1>1. container' # container
  OBVIOUS
<1>2. ASSUME NEW r \in Requests, CreateContainer(r)
      PROVE  req[r].id = id
  <2>1. ContainerCreate(req[r].id)
    BY <1>1, <1>2, Zenon DEF CreateContainer, Call, Answer
  <2> QED
    BY <2>1 DEF ContainerCreate, TypeOK
<1>3. ASSUME NEW r \in Requests, Serve(r) \/ EndCommand(r)
      PROVE  CreateContainer(r)
  <2>1. CASE StartContainer(r)
    <3>1. ContainerStart(req[r].id) \/ UNCHANGED container
      BY <2>1, Zenon DEF StartContainer, Call, Answer
    <3> QED
      BY <3>1 DEF ContainerStart, TypeOK
  <2>2. CASE StopContainer(r)
    <3>1. ContainerStop(req[r].id) \/ UNCHANGED container
      BY <2>2, Zenon DEF StopContainer, Call, Answer
    <3> QED
      BY <3>1 DEF ContainerStop, TypeOK
  <2>3. CASE DiscardContainer(r) \/ RemoveContainer(r)
    <3>1. ContainerRemove(req[r].id) \/ UNCHANGED container
      BY <2>3, Zenon DEF DiscardContainer, RemoveContainer, Call, Answer
    <3> QED
      BY <3>1 DEF ContainerRemove, Exists, TypeOK
  <2> QED
    BY <1>1, <1>3, <2>1, <2>2, <2>3, QuietSteps DEF Serve, Handle, EndCommand
<1>4. ASSUME Reap PROVE FALSE
  <2>1. \/ \E i \in reaper.toDestroy : ContainerStop(i)
        \/ ContainerRemove(reaper.cur)
        \/ UNCHANGED container
    BY <1>4, Zenon DEF Reap, ReaperStep, ListForSleep, MarkSleeping, ListForDestroy,
                       StopNext, RemoveCurrent, DeleteCurrent, EndPass, Answer
  <2> QED
    BY <2>1 DEF ContainerStop, ContainerRemove, Exists, TypeOK
<1>5. ASSUME NEW i \in Ids, Die(i) PROVE FALSE
  BY <1>5 DEF Die, ContainerDies, Running, TypeOK
<1>6. ASSUME \/ \E r \in Requests : Client(r)
             \/ \E i \in Ids : ClientReads(i)
             \/ Minute \/ Signal \/ Exit \/ Restart \/ UNCHANGED vars
      PROVE FALSE
  BY <1>1, <1>6 DEF Client, Accept, AcceptCreate, AcceptOn, ContextEnds, ClientReads,
                    ReadRow, Minute, Signal, Exit, Restart, vars
<1> QED
  BY <1>2, <1>3, <1>4, <1>5, <1>6 DEF Next

(***************************************************************************)
(* The container of a sandbox under creation is not there before its       *)
(* creator has asked for it and there when its row is inserted; Destroy    *)
(* serves only deletes and failed creates.                                 *)
(***************************************************************************)
Created(r) ==
    /\ req[r].pc = "create" => container[req[r].id] = "unused"
    /\ req[r].pc \in {"start", "insert"} => Exists(req[r].id)
    /\ req[r].pc \in {"stop", "remove"} => req[r].op \in {"create", "delete"}

CreationState == \A r \in Requests : Created(r)

LEMMA HandlerCreates ==
    ASSUME TypeOK, CreationState, NEW r \in Requests, Serve(r) \/ EndCommand(r)
    PROVE  Created(r)'
<1> USE DEF Created
<1>1. CASE CreateContainer(r)
  <2>1. \/ Goto(r, "start", "alive") /\ ContainerCreate(req[r].id)
        \/ \E ctx : Goto(r, "idle", ctx)
    BY <1>1, Zenon DEF CreateContainer, Call, Answer
  <2>2. req[r].pc = "create" /\ req[r].id \in Ids
    BY <1>1 DEF CreateContainer, TypeOK
  <2>3. ContainerCreate(req[r].id) => container'[req[r].id] = "created"
    BY <2>2 DEF ContainerCreate, TypeOK
  <2> QED
    BY <2>1, <2>2, <2>3, GotoStays DEF Exists
<1>2. CASE StartContainer(r)
  <2>1. \/ Goto(r, "insert", "alive") /\ ContainerStart(req[r].id)
        \/ \E ctx : Goto(r, "discard", ctx)
    BY <1>2, Zenon DEF StartContainer, Call, Answer
  <2>2. req[r].pc = "start" /\ req[r].id \in Ids
    BY <1>2 DEF StartContainer, TypeOK
  <2>3. ContainerStart(req[r].id) => container'[req[r].id] = "running"
    BY <2>2 DEF ContainerStart, TypeOK
  <2> QED
    BY <2>1, <2>2, <2>3, GotoStays DEF Exists
<1>3. CASE StopContainer(r)
  <2>1. req[r].pc = "stop" /\ \E ctx \in {"alive", "ended"} : Goto(r, "remove", ctx)
    BY <1>3, CallGoes DEF StopContainer
  <2> QED
    BY <2>1, GotoStays DEF CreationState
<1>4. CASE RegisterCreated(r)
  <2>1. At(r, "create", "insert") /\ \E pc \in {"idle", "stop"} : \E ctx : Goto(r, pc, ctx)
    BY <1>4 DEF RegisterCreated
  <2> QED
    BY <2>1, GotoStays DEF At
<1>5. CASE DiscardContainer(r) \/ RemoveContainer(r)
  <2>1. /\ req[r].pc # "idle"
        /\ \E pc \in {"unrow", "idle"}, ctx \in {"alive", "ended"} : Goto(r, pc, ctx)
    BY <1>5, CallGoes DEF DiscardContainer, RemoveContainer
  <2> QED
    BY <2>1, GotoStays
<1>6. CASE \/ RegisterForAgent(r) \/ DeleteRow(r) \/ Lookup(r) \/ StartExec(r)
           \/ EndExec(r) \/ EndRun(r) \/ Touch(r)
  <2>1. /\ req[r].pc # "idle"
        /\ \E pc \in {"run", "exec", "attached", "touch", "idle"} : \E ctx : Goto(r, pc, ctx)
    BY <1>6 DEF RegisterForAgent, At, DeleteRow, Lookup, StartExec, EndExec, EndRun, Touch
  <2> QED
    BY <2>1, GotoStays
<1> QED
  BY <1>1, <1>2, <1>3, <1>4, <1>5, <1>6 DEF Serve, Handle, EndCommand

LEMMA CreationStep ==
    ASSUME TypeOK, TypeOK', Lineage, CreationState, [Next]_vars
    PROVE  CreationState'
<1> SUFFICES ASSUME NEW q \in Requests PROVE Created(q)'
  BY DEF CreationState
<1> USE DEF Created
<1>1. ASSUME req'[q].pc = req[q].pc, req'[q].id = req[q].id, req'[q].op = req[q].op
      PROVE  Created(q)'
  <2>1. CASE req[q].pc \in {"start", "insert"}
    <3>1. PICK id \in Ids : id = req[q].id
      BY <2>1 DEF TypeOK, Lineage, UnusedUntouched
    <3>2. Creating(q, id) /\ Exists(id)
      BY <2>1, <3>1 DEF Creating, CreationState
    <3>3. ~Removal(id)
      BY <2>1, <3>1, <3>2 DEF Removal, Lineage, CreatorAlone, ReaperHolds,
                              DiscardContainer, RemoveContainer
    <3>4. container'[id] # "removed"
      BY <3>2, <3>3, OnlyRemovalRemoves DEF Exists
    <3>5. container'[id] # "unused"
      BY <3>2, StepForward DEF DaemonForward, Exists
    <3> QED
      BY <1>1, <2>1, <3>1, <3>4, <3>5 DEF Exists, TypeOK
  <2>2. CASE req[q].pc = "create"
    <3>1. PICK id \in Ids : id = req[q].id
      BY <2>2 DEF TypeOK
    <3>2. Creating(q, id) /\ container[id] = "unused"
      BY <2>2, <3>1 DEF Creating, CreationState
    <3>3. ASSUME container'[id] # "unused" PROVE FALSE
      <4>1. PICK r \in Requests : CreateContainer(r) /\ req[r].id = id
        BY <3>2, <3>3, OnlyCreatorsCreate
      <4>2. r = q
        BY <3>2, <4>1 DEF Lineage, CreatorAlone
      <4>3. \E pc \in {"start", "idle"}, ctx \in {"alive", "ended"} : Goto(q, pc, ctx)
        BY <4>1, <4>2, CallGoes DEF CreateContainer
      <4> QED
        BY <1>1, <2>2, <4>3, GotoStays
    <3> QED
      BY <1>1, <2>2, <3>1, <3>3
  <2>3. CASE req[q].pc \notin {"create", "start", "insert"}
    BY <1>1, <2>3 DEF CreationState
  <2> QED
    BY <2>1, <2>2, <2>3
<1>2. ASSUME NEW r \in Requests, Serve(r) \/ EndCommand(r) PROVE Created(q)'
  <2>1. CASE q = r
    BY <1>2, <2>1, HandlerCreates
  <2>2. CASE q # r
    BY <1>1, <1>2, <2>2, HandlerFootprint DEF Footprint
  <2> QED
    BY <2>1, <2>2
<1>3. ASSUME NEW r \in Requests, Client(r) PROVE Created(q)'
  <2>1. /\ \A p \in Requests \ {r} : req'[p] = req[p]
        /\ \/ req'[r].pc = "create" /\ container'[req'[r].id] = "unused"
           \/ req'[r].pc = "lookup"
           \/ req'[r].pc = "stop" /\ req'[r].op = "delete"
           \/ /\ req'[r].op = req[r].op /\ req'[r].pc = req[r].pc
              /\ req'[r].id = req[r].id
    BY <1>3 DEF Client, Accept, AcceptCreate, AcceptOn, ContextEnds, Fresh, TypeOK
  <2> QED
    BY <1>1, <2>1
<1>4. ASSUME Exit PROVE Created(q)'
  BY <1>4 DEF Exit, NoRequest
<1>5. ASSUME \/ Reap \/ Minute \/ Signal \/ Restart \/ UNCHANGED vars
             \/ \E i \in Ids : ClientReads(i) \/ Die(i)
      PROVE  Created(q)'
  <2>1. UNCHANGED req
    BY <1>5 DEF Reap, Minute, Signal, Restart, vars, ClientReads, ReadRow, Die
  <2> QED
    BY <1>1, <2>1
<1> QED
  BY <1>2, <1>3, <1>4, <1>5 DEF Next

-----------------------------------------------------------------------------
(***************************************************************************)
(* A request that is creating a sandbox goes on, registers it, leaves no   *)
(* container, or fails.                                                    *)
(***************************************************************************)
LEMMA CreatorGoesOn ==
    ASSUME TypeOK, CreationState, NEW r \in Requests, Serve(r) \/ EndCommand(r),
           NEW id \in Ids, Creating(r, id), Exists(id)'
    PROVE  Creating(r, id)' \/ HasRow(id)' \/ CreatorFails(r)
<1> USE DEF Creating, At
<1>0. req[r].id = id
  OBVIOUS
<1>1. CASE CreateContainer(r)
  <2>1. req[r].pc = "create" /\ container[id] = "unused"
    BY <1>0, <1>1 DEF CreateContainer, CreationState, Created
  <2>2. Goto(r, "start", "alive") \/ May("cancel")
    <3>1. \/ Goto(r, "start", "alive") \/ May("cancel")
          \/ UNCHANGED container
      BY <1>1, Zenon DEF CreateContainer, Call, Answer
    <3> QED
      BY <2>1, <3>1 DEF Exists
  <2> QED
    BY <1>0, <2>1, <2>2, GotoStays DEF CreatorFails
<1>2. CASE StartContainer(r)
  <2>1. /\ req[r].pc = "start"
        /\ \E pc \in {"insert", "discard"}, ctx \in {"alive", "ended"} : Goto(r, pc, ctx)
    BY <1>2, CallGoes DEF StartContainer
  <2> QED
    BY <1>0, <2>1, GotoStays
<1>3. CASE DiscardContainer(r) \/ RemoveContainer(r)
  <2>1. ContainerRemove(req[r].id) \/ ~HasContext(r) \/ May("docker")
    BY <1>3, Zenon DEF DiscardContainer, RemoveContainer, Call, Answer
  <2>2. ~ContainerRemove(req[r].id)
    BY <1>0 DEF ContainerRemove, Exists, TypeOK
  <2> QED
    BY <1>3, <2>1, <2>2 DEF DiscardContainer, RemoveContainer, CreatorFails
<1>4. CASE StopContainer(r)
  <2>1. req[r].pc = "stop" /\ \E ctx \in {"alive", "ended"} : Goto(r, "remove", ctx)
    BY <1>4, CallGoes DEF StopContainer
  <2> QED
    BY <1>0, <2>1, GotoStays
<1>5. CASE RegisterCreated(r)
  <2>1. \/ Insert(id)
        \/ Goto(r, "stop", req[r].ctx) /\ At(r, "create", "insert")
    BY <1>0, <1>5 DEF RegisterCreated
  <2>2. Insert(id) => HasRow(id)'
    BY DEF Insert, HasRow, TypeOK
  <2> QED
    BY <1>0, <2>1, <2>2, GotoStays
<1>6. CASE RegisterForAgent(r)
  <2>1. Insert(id) \/ CreatorFails(r)
    BY <1>0, <1>6 DEF RegisterForAgent, CreatorFails
  <2> QED
    BY <2>1 DEF Insert, HasRow, TypeOK
<1>7. CASE \/ DeleteRow(r) \/ Lookup(r) \/ StartExec(r) \/ EndExec(r) \/ EndRun(r)
           \/ Touch(r)
  BY <1>7 DEF DeleteRow, Lookup, StartExec, EndExec, EndRun, Touch
<1> QED
  BY <1>1, <1>2, <1>3, <1>4, <1>5, <1>6, <1>7 DEF Serve, Handle, EndCommand

\* What excuses a step that leaves a container without a row.
Excuse(id) ==
    \/ \E r \in Requests : Creating(r, id) /\ (CreatorFails(r) \/ server' = "down")
    \/ ReaperForgets(id) /\ ReaperCutShort

LEMMA LeakStep ==
    ASSUME TypeOK, Lineage, CreationState, HandlerForgetsRemoved, ReaperForgetsRemoved,
           [Next]_vars, NEW id \in Ids, ~Orphaned(id), Orphaned(id)'
    PROVE  Excuse(id)
<1>0. Exists(id)' /\ ~HasRow(id)' /\ \A r \in Requests : ~Creating(r, id)'
  BY DEF Orphaned
<1>1. CASE container[id] = "unused"
  <2>1. PICK r \in Requests : CreateContainer(r) /\ req[r].id = id
    BY <1>0, <1>1, OnlyCreatorsCreate DEF Exists
  <2>2. req[r].pc = "create" /\ container' # container
    BY <1>0, <1>1, <2>1 DEF Exists, CreateContainer
  <2>3. Goto(r, "start", "alive") \/ May("cancel")
    BY <2>1, <2>2, Zenon DEF CreateContainer, Call, Answer
  <2>4. ~Goto(r, "start", "alive")
    BY <1>0, <2>1, <2>2, GotoStays DEF Creating
  <2> QED
    BY <2>1, <2>2, <2>3, <2>4 DEF Excuse, CreatorFails, Creating
<1>2. CASE container[id] # "unused" /\ HasRow(id)
  <2>1. Exists(id)
    BY <1>0, <1>2, StepForward DEF DaemonForward
  <2> QED
    BY <1>0, <1>2, <2>1, RowGoesLast DEF Exists, Excuse
<1>3. CASE container[id] # "unused" /\ ~HasRow(id)
  <2>1. Exists(id)
    BY <1>0, <1>3, StepForward DEF DaemonForward
  <2>2. PICK q \in Requests : Creating(q, id)
    BY <1>3, <2>1 DEF Orphaned
  <2>3. req'[q] # req[q]
    BY <1>0, <2>2 DEF Creating, At
  <2>4. ASSUME NEW r \in Requests, Serve(r) \/ EndCommand(r) PROVE CreatorFails(q)
    <3>1. CASE r = q
      BY <1>0, <2>2, <2>4, <3>1, CreatorGoesOn
    <3>2. CASE r # q
      BY <2>3, <2>4, <3>2, HandlerFootprint DEF Footprint
    <3> QED
      BY <3>1, <3>2
  <2>5. ASSUME NEW r \in Requests, Client(r) PROVE FALSE
    <3>1. req[q].pc # "idle"
      BY <2>2 DEF Creating, At
    <3>2. req'[q].pc = req[q].pc /\ req'[q].id = req[q].id /\ req'[q].op = req[q].op
      BY <2>5, <3>1 DEF Client, Accept, AcceptCreate, AcceptOn, ContextEnds, TypeOK
    <3> QED
      BY <1>0, <2>2, <3>2 DEF Creating, At
  <2>6. ASSUME Exit PROVE server' = "down"
    BY <2>6 DEF Exit
  <2>7. ASSUME \/ Reap \/ Minute \/ Signal \/ Restart \/ UNCHANGED vars
               \/ \E i \in Ids : ClientReads(i) \/ Die(i)
        PROVE  FALSE
    BY <2>3, <2>7 DEF Reap, Minute, Signal, Restart, vars, ClientReads, ReadRow, Die
  <2> QED
    BY <2>2, <2>4, <2>5, <2>6, <2>7 DEF Next, Excuse
<1> QED
  BY <1>1, <1>2, <1>3

(***************************************************************************)
(* Whatever fails, a container is left without a row only by a failure of  *)
(* its creator, by the end of the process before the creator is done, or   *)
(* by the reaper after a Destroy that may have failed.                     *)
(***************************************************************************)
THEOREM LeaksHaveFailures == Spec => LeaksOnFailureOnly
<1> DEFINE I == CreationState /\ HandlerForgetsRemoved /\ ReaperForgetsRemoved
<1>1. Init => I
  BY DEF Init, CreationState, Created, HandlerForgetsRemoved, ReaperForgetsRemoved,
         Waiting, NoRequest
<1>2. TypeOK /\ TypeOK' /\ Lineage /\ I /\ [Next]_vars => I'
  BY CreationStep, HandlerForgetsStep, ReaperForgetsStep
<1>3. TypeOK /\ Lineage /\ I /\ [Next]_vars =>
         [\A id \in Ids : (~Orphaned(id) /\ Orphaned(id)') =>
             \/ \E r \in Requests : Creating(r, id) /\ (CreatorFails(r) \/ server' = "down")
             \/ ReaperForgets(id) /\ ReaperCutShort]_vars
  BY LeakStep DEF Excuse
<1> QED
  BY <1>1, <1>2, <1>3, TypeCorrect, LineageHolds, PTL DEF Spec, LeaksOnFailureOnly

LEMMA NoOrphanStep ==
    ASSUME TypeOK, Lineage, CreationState, Bookkeeping, Unbroken, NoOrphan, [Next]_vars,
           Faults \subseteq {"death"}
    PROVE  NoOrphan'
<1> SUFFICES ASSUME NEW id \in Ids, Orphaned(id)' PROVE FALSE
  BY DEF NoOrphan
<1>1. Excuse(id)
  BY LeakStep DEF NoOrphan, Bookkeeping
<1>2. server' = "up"
  BY UnbrokenStep DEF Unbroken
<1>3. \A r \in Requests : ~CreatorFails(r)
  BY DEF CreatorFails, HasContext, May, Unbroken
<1>4. ~ReaperCutShort
  BY DEF ReaperCutShort, SignalContextAlive, May, Unbroken
<1> QED
  BY <1>1, <1>2, <1>3, <1>4 DEF Excuse

(***************************************************************************)
(* While every call made for the process is answered, no container is      *)
(* without a row for longer than its creator is at work.                   *)
(***************************************************************************)
THEOREM NothingLeaks ==
    ASSUME Faults \subseteq {"death"}
    PROVE  Spec => []NoOrphan
<1> DEFINE I == CreationState /\ Bookkeeping /\ Unbroken /\ NoOrphan
<1>1. Init => I
  BY DEF Init, CreationState, Created, Bookkeeping, HandlerForgetsRemoved,
         ReaperForgetsRemoved, NeverDrains, CommandsAreExecs, RunsTracked, Names,
         KnownTracked, Waiting, NoRequest, Unbroken, NoOrphan, Orphaned, Exists
<1>2. TypeOK /\ TypeOK' /\ Lineage /\ I /\ [Next]_vars => I'
  BY CreationStep, BookkeepingStep, UnbrokenStep, NoOrphanStep DEF ReaperUndisturbed
<1>3. I => NoOrphan
  OBVIOUS
<1> QED
  BY <1>1, <1>2, <1>3, TypeCorrect, LineageHolds, PTL DEF Spec

-----------------------------------------------------------------------------
(***************************************************************************)
(* Whoever removes a container that has a row goes on to delete the row.   *)
(***************************************************************************)
Forgotten(id) == ReaperForgets(id) \/ \E r \in Requests : HandlerForgets(r, id)

LEMMA RemoverForgets ==
    ASSUME TypeOK, Lineage, CreationState, Unbroken, "cancel" \notin Faults,
           [Next]_vars, NEW id \in Ids, HasRow(id),
           container[id] # "removed", container'[id] = "removed"
    PROVE  Forgotten(id)'
<1>1. Removal(id)
  BY OnlyRemovalRemoves
<1>2. CASE RemoveCurrent /\ reaper.cur = id
  BY <1>2 DEF RemoveCurrent, Forgotten, ReaperForgets, TypeOK
<1>3. ASSUME NEW r \in Requests, req[r].id = id, DiscardContainer(r) PROVE FALSE
  BY <1>3 DEF DiscardContainer, Lineage, CreatorAlone, Creating
<1>4. ASSUME NEW r \in Requests, req[r].id = id, RemoveContainer(r)
      PROVE  HandlerForgets(r, id)'
  <2>1. req[r].pc = "remove"
    BY <1>4 DEF RemoveContainer
  <2>2. req[r].op = "delete"
    BY <1>4, <2>1 DEF CreationState, Created, Lineage, CreatorAlone, Creating, At
  <2>3. Goto(r, "unrow", "alive")
    BY <1>4, <2>2, Zenon DEF RemoveContainer, Call, Answer, May
  <2> QED
    BY <1>4, <2>1, <2>3, GotoStays DEF HandlerForgets
<1> QED
  BY <1>1, <1>2, <1>3, <1>4 DEF Removal, Forgotten

(***************************************************************************)
(* Whoever is about to delete a row either still is, or has deleted it.    *)
(***************************************************************************)
LEMMA ForgettingEnds ==
    ASSUME TypeOK, Unbroken, [Next]_vars, NEW id \in Ids, Forgotten(id), HasRow(id)',
           "registry" \notin Faults, "crash" \notin Faults
    PROVE  Forgotten(id)'
<1> USE DEF Forgotten
<1>1. CASE ReaperForgets(id)
  <2>1. ASSUME Reap PROVE FALSE
    <3>1. Delete(id)
      BY <1>1, <2>1 DEF Reap, ReaperStep, ListForSleep, MarkSleeping, ListForDestroy,
         StopNext, RemoveCurrent, DeleteCurrent, EndPass, ReaperForgets, May
    <3> QED
      BY <3>1 DEF Delete, NoRow, HasRow, TypeOK
  <2>2. ASSUME Minute PROVE ReaperForgets(id)'
    BY <1>1, <2>2 DEF Minute, ReaperForgets, TypeOK
  <2>3. ASSUME Exit PROVE FALSE
    BY <2>3 DEF Exit, Unbroken, May
  <2>4. ASSUME \/ \E r \in Requests : Serve(r) \/ EndCommand(r) \/ Client(r)
               \/ \E i \in Ids : ClientReads(i) \/ Die(i)
               \/ Signal \/ Restart \/ UNCHANGED vars
        PROVE  ReaperForgets(id)'
    <3>1. UNCHANGED reaper
      BY <2>4 DEF Serve, EndCommand, Client, ClientReads, Die, Signal, Restart, vars
    <3> QED
      BY <1>1, <3>1 DEF ReaperForgets
  <2> QED
    BY <2>1, <2>2, <2>3, <2>4 DEF Next
<1>2. ASSUME NEW q \in Requests, HandlerForgets(q, id) PROVE HandlerForgets(q, id)'
  <2> USE DEF HandlerForgets
  <2>1. ASSUME UNCHANGED req PROVE HandlerForgets(q, id)'
    BY <1>2, <2>1
  <2>2. ASSUME NEW r \in Requests, Serve(r) \/ EndCommand(r) PROVE HandlerForgets(q, id)'
    <3>1. CASE r = q
      <4>1. DeleteRow(q)
        BY <1>2, <2>2, <3>1 DEF Serve, EndCommand, Handle, CreateContainer, StartContainer,
           DiscardContainer, StopContainer, RemoveContainer, RegisterCreated, At,
           RegisterForAgent, Touch, Lookup, StartExec, EndExec, EndRun
      <4>2. Delete(id)
        BY <1>2, <4>1 DEF DeleteRow, May
      <4> QED
        BY <4>2 DEF Delete, NoRow, HasRow, TypeOK
    <3>2. CASE r # q
      BY <1>2, <2>2, <3>2, HandlerFootprint DEF Footprint
    <3> QED
      BY <3>1, <3>2
  <2>3. ASSUME NEW r \in Requests, Client(r) PROVE HandlerForgets(q, id)'
    BY <1>2, <2>3 DEF Client, Accept, AcceptCreate, AcceptOn, ContextEnds, TypeOK
  <2>4. ASSUME Exit PROVE FALSE
    BY <2>4 DEF Exit, Unbroken, May
  <2>5. ASSUME \/ Reap \/ Minute \/ Signal \/ Restart \/ UNCHANGED vars
               \/ \E i \in Ids : ClientReads(i) \/ Die(i)
        PROVE  UNCHANGED req
    BY <2>5 DEF Reap, Minute, Signal, Restart, vars, ClientReads, ReadRow, Die
  <2> QED
    BY <2>1, <2>2, <2>3, <2>4, <2>5 DEF Next
<1> QED
  BY <1>1, <1>2

LEMMA RowBackedStep ==
    ASSUME TypeOK, Lineage, CreationState, Unbroken, RowBacked, [Next]_vars,
           Faults \subseteq {"death", "docker"}
    PROVE  RowBacked'
<1> SUFFICES ASSUME NEW id \in Ids, HasRow(id)', container'[id] = "removed"
             PROVE  Forgotten(id)'
  BY DEF RowBacked, Forgotten
<1>1. container'[id] # container[id] => HasRow(id)
  BY OnlyRemovalRemoves DEF HasRow
<1>2. HasRow(id)
  <2> SUFFICES ASSUME ~HasRow(id), container[id] = "removed" PROVE FALSE
    BY <1>1
  <2>1. PICK r \in Requests : req[r].id = id /\ req[r].pc = "insert"
    BY RowFromCreator
  <2> QED
    BY <2>1 DEF CreationState, Created, Exists
<1>3. CASE container[id] = "removed"
  BY <1>2, <1>3, ForgettingEnds DEF RowBacked, Forgotten
<1>4. CASE container[id] # "removed"
  BY <1>2, <1>4, RemoverForgets
<1> QED
  BY <1>3, <1>4

(***************************************************************************)
(* No ghosts: while no call made for the process is cut short, a row whose *)
(* container is removed is about to be deleted, even if the daemon answers *)
(* with errors.                                                            *)
(***************************************************************************)
THEOREM NoGhosts ==
    ASSUME Faults \subseteq {"death", "docker"}
    PROVE  Spec => []RowBacked
<1> DEFINE I == CreationState /\ Unbroken /\ RowBacked
<1>1. Init => I
  BY DEF Init, CreationState, Created, Unbroken, RowBacked, NoRequest
<1>2. TypeOK /\ TypeOK' /\ Lineage /\ I /\ [Next]_vars => I'
  BY CreationStep, UnbrokenStep, RowBackedStep
<1>3. I => RowBacked
  OBVIOUS
<1> QED
  BY <1>1, <1>2, <1>3, TypeCorrect, LineageHolds, PTL DEF Spec

-----------------------------------------------------------------------------
(***************************************************************************)
(* What the reaper holds for destruction was idle for long enough when the *)
(* pass read the clock, or has been used since.                            *)
(***************************************************************************)

(***************************************************************************)
(* ReapsOnlyStale is not inductive: between passes nothing ties the age of *)
(* a row to `elapsed`, so it must be known that the reaper then holds      *)
(* nothing.                                                                *)
(***************************************************************************)
HoldsInTurn ==
    /\ reaper.pc \in {"idle", "sleep"} => reaper.toDestroy = {}
    /\ reaper.pc \notin {"remove", "unrow"} => reaper.cur = NoId

Stale(id) ==
    \/ registry[id].age > IdleDestroyMin + reaper.elapsed
    \/ registry[id].age <= reaper.elapsed

LEMMA StaleRows ==
    ReapsOnlyStale <=> \A id \in Ids : ReaperHolds(id) /\ HasRow(id) => Stale(id)
  BY DEF ReapsOnlyStale, Stale

(***************************************************************************)
(* Time apart, a step leaves the age of a row alone or resets it.          *)
(***************************************************************************)
AgesKept ==
    \A id \in Ids : HasRow(id)' =>
        \/ HasRow(id) /\ registry'[id].age = registry[id].age
        \/ registry'[id].age = 0

LEMMA StatementKeepsAges ==
    ASSUME TypeOK, NEW id \in Ids,
           \/ Insert(id) \/ TouchLastActive(id) \/ Delete(id) \/ UNCHANGED registry
           \/ SetStatus(id, "sleeping")
    PROVE  AgesKept
<1> USE DEF AgesKept, HasRow, TypeOK, RegistryType, RowType
<1>1. CASE Insert(id)
  BY <1>1 DEF Insert
<1>2. CASE TouchLastActive(id)
  BY <1>2 DEF TouchLastActive
<1>3. CASE Delete(id)
  BY <1>3 DEF Delete, NoRow
<1>4. CASE UNCHANGED registry
  BY <1>4
<1>5. CASE SetStatus(id, "sleeping")
  BY <1>5 DEF SetStatus
<1> QED
  BY <1>1, <1>2, <1>3, <1>4, <1>5

LEMMA HandlerKeepsAges ==
    ASSUME TypeOK, NEW r \in Requests, Serve(r) \/ EndCommand(r)
    PROVE  AgesKept /\ UNCHANGED reaper
<1>1. UNCHANGED reaper
  BY DEF Serve, EndCommand
<1>2. CASE \/ CreateContainer(r) \/ StartContainer(r) \/ DiscardContainer(r)
           \/ StopContainer(r) \/ RemoveContainer(r)
           \/ Lookup(r) \/ StartExec(r) \/ EndExec(r) \/ EndRun(r)
  <2>1. UNCHANGED registry
    BY <1>2, CallGoes DEF CreateContainer, StartContainer, DiscardContainer,
         StopContainer, RemoveContainer, Lookup, StartExec, EndExec, EndRun
  <2> QED
    BY <1>1, <2>1 DEF AgesKept, HasRow
<1>3. CASE RegisterCreated(r) \/ RegisterForAgent(r) \/ DeleteRow(r) \/ Touch(r)
  <2>1. req[r].id \in Ids
    BY <1>3 DEF RegisterCreated, RegisterForAgent, At, DeleteRow, Touch, TypeOK, ApiType
  <2>2. \/ Insert(req[r].id) \/ TouchLastActive(req[r].id) \/ Delete(req[r].id)
        \/ UNCHANGED registry
    BY <1>3 DEF RegisterCreated, RegisterForAgent, DeleteRow, Touch
  <2> QED
    BY <1>1, <2>1, <2>2, StatementKeepsAges
<1> QED
  BY <1>2, <1>3 DEF Serve, Handle, EndCommand

\* What the reaper held it may hold on, if it does not turn back the clock.
LEMMA KeptStaysStale ==
    ASSUME TypeOK, ReapsOnlyStale, AgesKept,
           UNCHANGED reaper.elapsed,
           \A id \in Ids : ReaperHolds(id)' => ReaperHolds(id)
    PROVE  ReapsOnlyStale'
<1> SUFFICES ASSUME NEW id \in Ids, ReaperHolds(id), HasRow(id)'
             PROVE  Stale(id)'
  BY DEF ReapsOnlyStale, Stale
<1>1. reaper.elapsed \in Nat
  BY ReaperAssumption DEF TypeOK, ReaperType
<1>2. CASE registry'[id].age = 0
  BY <1>1, <1>2 DEF Stale
<1>3. CASE HasRow(id) /\ registry'[id].age = registry[id].age
  BY <1>3, StaleRows DEF Stale
<1> QED
  BY <1>2, <1>3 DEF AgesKept

LEMMA ReapStaysStale ==
    ASSUME TypeOK, HoldsInTurn, ReapsOnlyStale, Reap
    PROVE  HoldsInTurn' /\ ReapsOnlyStale'
<1> USE DEF TypeOK, ReaperType, HoldsInTurn, ReaperHolds
<1>0. UNCHANGED registry => AgesKept
  BY DEF AgesKept, HasRow
<1>1. CASE ListForSleep
  <2>1. PICK ids : reaper' = [reaper EXCEPT !.pc = "sleep", !.toSleep = ids]
    BY <1>1, Zenon DEF ListForSleep
  <2>2. HoldsInTurn' /\ UNCHANGED reaper.elapsed /\ \A id \in Ids : ReaperHolds(id)' => ReaperHolds(id)
    BY <1>1, <2>1 DEF ListForSleep
  <2> QED
    BY <1>0, <1>1, <2>2, KeptStaysStale DEF ListForSleep
<1>2. CASE MarkSleeping
  <2>1. PICK id \in reaper.toSleep :
           /\ reaper' = [reaper EXCEPT !.toSleep = @ \ {id}]
           /\ SetStatus(id, "sleeping") \/ UNCHANGED registry
    BY <1>2, Zenon DEF MarkSleeping
  <2>2. AgesKept
    BY <2>1, StatementKeepsAges
  <2>3. HoldsInTurn' /\ UNCHANGED reaper.elapsed /\ \A i \in Ids : ReaperHolds(i)' => ReaperHolds(i)
    BY <1>2, <2>1 DEF MarkSleeping
  <2> QED
    BY <2>2, <2>3, KeptStaysStale
<1>3. CASE ListForDestroy
  <2>1. PICK ids \in Listed(IdleDestroyMin, reaper.elapsed, "sleeping") :
           reaper' = [reaper EXCEPT !.pc = "destroy", !.toDestroy = ids]
    BY <1>3, Zenon DEF ListForDestroy
  <2>2. HoldsInTurn' /\ reaper'.cur = NoId /\ reaper'.toDestroy = ids
    BY <1>3, <2>1 DEF ListForDestroy
  <2>3. ASSUME NEW id \in Ids, ReaperHolds(id)' PROVE Stale(id)'
    <3>1. id \in ids
      BY <2>2, <2>3, ServerProcessAssumption
    <3>2. registry[id].age > IdleDestroyMin + reaper.elapsed
      BY <2>1, <3>1 DEF Listed, ListOlderThan
    <3> QED
      BY <1>3, <2>1, <3>2 DEF ListForDestroy, Stale
  <2> QED
    BY <2>2, <2>3 DEF ReapsOnlyStale, Stale
<1>4. CASE StopNext
  <2>1. PICK id \in reaper.toDestroy :
           reaper' = [reaper EXCEPT !.pc = "remove", !.cur = id, !.toDestroy = @ \ {id}]
    BY <1>4, Zenon DEF StopNext
  <2>2. HoldsInTurn' /\ UNCHANGED reaper.elapsed /\ \A i \in Ids : ReaperHolds(i)' => ReaperHolds(i)
    BY <1>4, <2>1 DEF StopNext
  <2> QED
    BY <1>0, <1>4, <2>2, KeptStaysStale DEF StopNext
<1>5. CASE RemoveCurrent
  <2>1. HoldsInTurn' /\ UNCHANGED reaper.elapsed /\ \A i \in Ids : ReaperHolds(i)' => ReaperHolds(i)
    BY <1>5 DEF RemoveCurrent
  <2> QED
    BY <1>0, <1>5, <2>1, KeptStaysStale DEF RemoveCurrent
<1>6. CASE DeleteCurrent
  <2>1. HoldsInTurn' /\ UNCHANGED reaper.elapsed /\ \A i \in Ids : ReaperHolds(i)' => ReaperHolds(i)
    BY <1>6, ServerProcessAssumption DEF DeleteCurrent
  <2>2. AgesKept
    BY <1>6 DEF DeleteCurrent, Delete, NoRow, AgesKept, HasRow, RegistryType, RowType
  <2> QED
    BY <2>1, <2>2, KeptStaysStale
<1>7. CASE EndPass
  BY <1>7, ServerProcessAssumption DEF EndPass, Waiting, ReapsOnlyStale
<1> QED
  BY <1>1, <1>2, <1>3, <1>4, <1>5, <1>6, <1>7 DEF Reap, ReaperStep

(***************************************************************************)
(* A minute: the clock of the pass and the ages of its rows move together, *)
(* or the age saturates past the threshold.                                *)
(***************************************************************************)
LEMMA MinuteStaysStale ==
    ASSUME TypeOK, HoldsInTurn, ReapsOnlyStale, Minute
    PROVE  HoldsInTurn' /\ ReapsOnlyStale'
<1> USE DEF TypeOK, ReaperType, HoldsInTurn
<1>1. CASE reaper.pc = "idle"
  BY <1>1, ServerProcessAssumption DEF Minute, ReapsOnlyStale, ReaperHolds
<1>2. CASE reaper.pc # "idle"
  <2>1. /\ reaper.elapsed \in Nat /\ reaper.elapsed < PassSpan
        /\ reaper' = [reaper EXCEPT !.elapsed = @ + 1]
    BY <1>2, ReaperAssumption DEF Minute
  <2>2. SUFFICES ASSUME NEW id \in Ids, ReaperHolds(id), HasRow(id)'
                 PROVE  Stale(id)'
    BY <2>1 DEF ReapsOnlyStale, Stale, ReaperHolds
  <2>3. HasRow(id) /\ Stale(id)
    BY <2>2, StaleRows DEF Minute, Ages, HasRow
  <2>4. registry[id].age \in 0..AgeCap
    BY DEF RegistryType, RowType
  <2>5. registry'[id].age = IF registry[id].age < AgeCap THEN registry[id].age + 1
                            ELSE registry[id].age
    BY <2>3 DEF Minute, Ages, RegistryType, RowType
  <2>6. reaper'.elapsed = reaper.elapsed + 1
    BY <2>1
  <2> QED
    BY <2>1, <2>3, <2>4, <2>5, <2>6, ReaperAssumption, RegistryAssumption DEF Stale
<1> QED
  BY <1>1, <1>2

LEMMA StaleStep ==
    ASSUME TypeOK, HoldsInTurn, ReapsOnlyStale, [Next]_vars
    PROVE  HoldsInTurn' /\ ReapsOnlyStale'
<1>1. ASSUME UNCHANGED reaper, AgesKept PROVE HoldsInTurn' /\ ReapsOnlyStale'
  BY <1>1, KeptStaysStale DEF HoldsInTurn, ReaperHolds
<1>2. ASSUME UNCHANGED <<reaper, registry>> PROVE HoldsInTurn' /\ ReapsOnlyStale'
  BY <1>1, <1>2 DEF AgesKept, HasRow
<1>3. ASSUME NEW r \in Requests, Serve(r) \/ EndCommand(r)
      PROVE  HoldsInTurn' /\ ReapsOnlyStale'
  BY <1>1, <1>3, HandlerKeepsAges
<1>4. ASSUME \/ \E r \in Requests : Client(r)
             \/ \E id \in Ids : ClientReads(id) \/ Die(id)
             \/ Signal \/ Restart \/ UNCHANGED vars
      PROVE  UNCHANGED <<reaper, registry>>
  BY <1>4 DEF Client, Accept, AcceptCreate, AcceptOn, ContextEnds, ClientReads,
              ReadRow, Die, Signal, Restart, vars
<1>5. ASSUME Exit PROVE HoldsInTurn' /\ ReapsOnlyStale'
  BY <1>5, ServerProcessAssumption DEF Exit, Waiting, HoldsInTurn, ReapsOnlyStale, ReaperHolds
<1> QED
  BY <1>2, <1>3, <1>4, <1>5, ReapStaysStale, MinuteStaysStale DEF Next

(***************************************************************************)
(* Whatever fails, the reaper holds no sandbox for destruction that was in *)
(* use when its pass read the clock and has not been used since.           *)
(***************************************************************************)
THEOREM HeldIsStale == Spec => []ReapsOnlyStale
<1>1. Init => HoldsInTurn /\ ReapsOnlyStale
  BY ServerProcessAssumption DEF Init, Waiting, HoldsInTurn, ReapsOnlyStale, ReaperHolds
<1>2. TypeOK /\ (HoldsInTurn /\ ReapsOnlyStale) /\ [Next]_vars
        => (HoldsInTurn /\ ReapsOnlyStale)'
  BY StaleStep
<1> QED
  BY <1>1, <1>2, TypeCorrect, PTL DEF Spec

=============================================================================
