-------------------------- MODULE ForgeServiceProofs --------------------------
(***************************************************************************)
(* What is proved above Forge: that it implements SandboxService, for all  *)
(* constants and all faults, and that the proxy superposed on it reaches   *)
(* the sandbox a visit is for.                                             *)
(***************************************************************************)
EXTENDS ForgeProofs, ForgeProxy

USE DEF ServerType, ContainerType, ContainerStates, RegistryType, RowType,
        ReaperType, ApiType, Ops, Pcs

(***************************************************************************)
(* What a step does to the life of one sandbox, name by name of the        *)
(* actions of SandboxService.                                              *)
(***************************************************************************)
Keeps(id) == StageOf(id)' = StageOf(id) /\ ResourcesOf(id)' = ResourcesOf(id)

Reserves(id) ==
    /\ StageOf(id) = "unborn" /\ ResourcesOf(id) = "none"
    /\ ResourcesOf(id)' = "held"
    /\ StageOf(id)' \in {"unborn", "retired"}
    /\ known' = known

Lists(id) ==
    /\ StageOf(id) = "unborn" /\ ResourcesOf(id) = "held"
    /\ StageOf(id)' = "listed" /\ ResourcesOf(id)' = "held"
    /\ known' \in {known, known \cup {id}}

Reported(id) ==
    /\ StageOf(id) # "unborn"
    /\ Keeps(id)
    /\ known' = known \cup {id}

Frees(id) ==
    /\ ResourcesOf(id) = "held" /\ ResourcesOf(id)' = "freed"
    /\ StageOf(id)' = StageOf(id)
    /\ known' = known

Retires(id) ==
    /\ StageOf(id) # "retired" /\ StageOf(id)' = "retired"
    /\ \/ ResourcesOf(id) # "none" /\ ResourcesOf(id)' = ResourcesOf(id)
       \/ ResourcesOf(id) = "held" /\ ResourcesOf(id)' = "freed"
    /\ known' = known

Lives(id) ==
    \/ Keeps(id) /\ known' = known
    \/ Reserves(id) \/ Lists(id) \/ Reported(id) \/ Frees(id) \/ Retires(id)

ServiceStep == [Service!ServiceNext]_(Service!serviceVars)

LEMMA OneLife ==
    ASSUME NEW id \in Ids, \A j \in Ids \ {id} : Keeps(j), Lives(id)
    PROVE  ServiceStep
<1> DEFINE stage == [j \in Ids |-> StageOf(j)]
           resources == [j \in Ids |-> ResourcesOf(j)]
<1>0. /\ \A j \in Ids \ {id} : stage'[j] = stage[j] /\ resources'[j] = resources[j]
      /\ stage'[id] = StageOf(id)' /\ resources'[id] = ResourcesOf(id)'
      /\ stage[id] = StageOf(id) /\ resources[id] = ResourcesOf(id)
  BY DEF Keeps
<1>1. stage' = [stage EXCEPT ![id] = StageOf(id)']
  BY <1>0
<1>2. resources' = [resources EXCEPT ![id] = ResourcesOf(id)']
  BY <1>0
<1>3. StageOf(id)' = StageOf(id) => stage' = stage
  BY <1>0
<1>4. ResourcesOf(id)' = ResourcesOf(id) => resources' = resources
  BY <1>0
<1>5. CASE Keeps(id) /\ known' = known
  BY <1>3, <1>4, <1>5 DEF Keeps, ServiceStep, Service!serviceVars
<1>6. CASE Reserves(id)
  <2>1. Service!Reserve(id)
    BY <1>0, <1>1, <1>2, <1>3, <1>6 DEF Reserves, Service!Reserve
  <2> QED
    BY <2>1 DEF ServiceStep, Service!ServiceNext
<1>7. CASE Lists(id)
  <2>1. Service!List(id)
    BY <1>0, <1>1, <1>4, <1>7 DEF Lists, Service!List
  <2> QED
    BY <2>1 DEF ServiceStep, Service!ServiceNext
<1>8. CASE Reported(id)
  <2>1. Service!Tell(id)
    BY <1>0, <1>3, <1>4, <1>8 DEF Reported, Keeps, Service!Tell
  <2> QED
    BY <2>1 DEF ServiceStep, Service!ServiceNext
<1>9. CASE Frees(id)
  <2>1. Service!Free(id)
    BY <1>0, <1>2, <1>3, <1>9 DEF Frees, Service!Free
  <2> QED
    BY <2>1 DEF ServiceStep, Service!ServiceNext
<1>10. CASE Retires(id)
  <2>1. Service!Retire(id)
    BY <1>0, <1>1, <1>2, <1>4, <1>10 DEF Retires, Service!Retire
  <2> QED
    BY <2>1 DEF ServiceStep, Service!ServiceNext
<1> QED
  BY <1>5, <1>6, <1>7, <1>8, <1>9, <1>10 DEF Lives


(***************************************************************************)
(* A sandbox keeps its place while its row, its container's class and its  *)
(* creator stay.                                                           *)
(***************************************************************************)
LEMMA KeepsPlace ==
    ASSUME NEW id \in Ids, HasRow(id)' <=> HasRow(id), Exists(id)' <=> Exists(id),
           container'[id] = "unused" <=> container[id] = "unused",
           container[id] = "unused" \/
               ((\E r \in Requests : Creating(r, id)') <=> \E r \in Requests : Creating(r, id))
    PROVE  Keeps(id)
<1>1. Unborn(id)' <=> Unborn(id)
  BY Zenon DEF Unborn
<1> QED
  BY <1>1 DEF Keeps, StageOf, ResourcesOf

(***************************************************************************)
(* The step of a handler touches no sandbox but its own.                   *)
(***************************************************************************)
LEMMA HandlerElsewhere ==
    ASSUME TypeOK, NEW r \in Requests, Serve(r) \/ EndCommand(r),
           NEW j \in Ids \ {req[r].id}
    PROVE  Keeps(j)
<1>1. container'[j] = container[j]
  <2>1. \/ ContainerCreate(req[r].id) \/ ContainerStart(req[r].id)
        \/ ContainerStop(req[r].id) \/ ContainerRemove(req[r].id)
        \/ UNCHANGED container
    BY Zenon DEF Serve, Handle, EndCommand, CreateContainer, StartContainer,
       DiscardContainer, StopContainer, RemoveContainer, Call, Answer, RegisterCreated,
       RegisterForAgent, DeleteRow, Lookup, StartExec, EndExec, EndRun, Touch
  <2> QED
    BY <2>1 DEF TypeOK, ContainerCreate, ContainerStart, ContainerStop, ContainerRemove
<1>2. registry'[j] = registry[j]
  <2>1. CASE \/ CreateContainer(r) \/ StartContainer(r) \/ DiscardContainer(r)
             \/ StopContainer(r) \/ RemoveContainer(r)
             \/ Lookup(r) \/ StartExec(r) \/ EndExec(r) \/ EndRun(r)
    <3>1. UNCHANGED registry
      BY <2>1, CallGoes DEF CreateContainer, StartContainer, DiscardContainer,
           StopContainer, RemoveContainer, Lookup, StartExec, EndExec, EndRun
    <3> QED
      BY <3>1
  <2>2. CASE \/ RegisterCreated(r) \/ RegisterForAgent(r) \/ DeleteRow(r) \/ Touch(r)
    BY <2>2 DEF RegisterCreated, RegisterForAgent, DeleteRow, Touch, Insert, Delete,
                TouchLastActive, TypeOK
  <2> QED
    BY <2>1, <2>2 DEF Serve, Handle, EndCommand
<1>3. \A q \in Requests : Creating(q, j)' <=> Creating(q, j)
  <2>1. /\ \A q \in Requests \ {r} : req'[q] = req[q]
        /\ req'[r].id \in {NoId, req[r].id}
    BY HandlerFootprint DEF Footprint
  <2> QED
    BY <2>1, ServerProcessAssumption DEF Creating, At
<1> QED
  BY <1>1, <1>2, <1>3, KeepsPlace DEF Exists, HasRow

\* The others are not creating the sandbox a request works on.
LEMMA NoOtherCreator ==
    ASSUME Lineage, NEW r \in Requests, NEW id \in Ids, req[r].id = id,
           NEW q \in Requests \ {r}
    PROVE  ~Creating(q, id)
  BY DEF Lineage, CreatorAlone

(***************************************************************************)
(* Where a step of request r leaves the sandbox it works on.               *)
(***************************************************************************)
LEMMA OwnStage ==
    ASSUME TypeOK, Lineage, NEW r \in Requests, Serve(r) \/ EndCommand(r),
           NEW id \in Ids, req[r].id = id
    PROVE  /\ StageOf(id) = IF HasRow(id) THEN "listed"
                            ELSE IF container[id] = "unused" \/ Creating(r, id)
                                 THEN "unborn" ELSE "retired"
           /\ StageOf(id)' = IF HasRow(id)' THEN "listed"
                             ELSE IF container'[id] = "unused" \/ Creating(r, id)'
                                  THEN "unborn" ELSE "retired"
<1>1. \A q \in Requests \ {r} : ~Creating(q, id) /\ ~Creating(q, id)'
  <2>1. \A q \in Requests \ {r} : req'[q] = req[q]
    BY HandlerFootprint DEF Footprint
  <2>2. \A q \in Requests \ {r} : ~Creating(q, id)
    BY NoOtherCreator
  <2> QED
    BY <2>1, <2>2 DEF Creating, At
<1>2. /\ (\E q \in Requests : Creating(q, id)) <=> Creating(r, id)
      /\ (\E q \in Requests : Creating(q, id)') <=> Creating(r, id)'
  BY <1>1
<1>3. /\ Unborn(id) <=> (container[id] = "unused" \/ Creating(r, id))
      /\ Unborn(id)' <=> (container'[id] = "unused" \/ Creating(r, id)')
  BY <1>2, Zenon DEF Unborn
<1> QED
  BY <1>3 DEF StageOf

LEMMA HandlerLives ==
    ASSUME TypeOK, Lineage, CreationState, NEW r \in Requests, Serve(r) \/ EndCommand(r),
           NEW id \in Ids, req[r].id = id
    PROVE  Lives(id)
<1>0. /\ StageOf(id) = IF HasRow(id) THEN "listed"
                       ELSE IF container[id] = "unused" \/ Creating(r, id)
                            THEN "unborn" ELSE "retired"
      /\ StageOf(id)' = IF HasRow(id)' THEN "listed"
                        ELSE IF container'[id] = "unused" \/ Creating(r, id)'
                             THEN "unborn" ELSE "retired"
  BY OwnStage
<1>R. /\ ResourcesOf(id) = IF container[id] = "unused" THEN "none"
                           ELSE IF Exists(id) THEN "held" ELSE "freed"
      /\ ResourcesOf(id)' = IF container'[id] = "unused" THEN "none"
                            ELSE IF Exists(id)' THEN "held" ELSE "freed"
  BY DEF ResourcesOf
<1>U. req[r].pc \notin {"idle", "create"} => container[id] # "unused"
  BY BusyOnUsed
<1>C. Creating(r, id) => ~HasRow(id)
  BY DEF Lineage, CreatorAlone
<1>1. CASE CreateContainer(r)
  <2>1. /\ req[r].pc = "create" /\ UNCHANGED <<registry, known>>
        /\ \/ Goto(r, "start", "alive") /\ ContainerCreate(id)
           \/ Goto(r, "idle", "ended") /\ ContainerCreate(id)
           \/ Goto(r, "idle", req[r].ctx) /\ UNCHANGED container
    BY <1>1, Zenon DEF CreateContainer, Call, Answer
  <2>2. Creating(r, id) /\ ~HasRow(id) /\ ~HasRow(id)'
    BY <1>C, <2>1 DEF Creating, HasRow
  <2>3. CASE Goto(r, "start", "alive") /\ ContainerCreate(id)
    <3>1. Creating(r, id)'
      BY <2>1, <2>3, GotoStays DEF Creating
    <3>2. container[id] = "unused" /\ container'[id] = "created"
      BY <2>3 DEF ContainerCreate, TypeOK
    <3> QED
      BY <1>0, <1>R, <2>1, <2>2, <3>1, <3>2 DEF Lives, Reserves, Exists
  <2>4. CASE Goto(r, "idle", "ended") /\ ContainerCreate(id)
    <3>1. ~Creating(r, id)'
      BY <2>1, <2>4, GotoStays, ServerProcessAssumption DEF Creating
    <3>2. container[id] = "unused" /\ container'[id] = "created"
      BY <2>4 DEF ContainerCreate, TypeOK
    <3> QED
      BY <1>0, <1>R, <2>1, <2>2, <3>1, <3>2 DEF Lives, Reserves, Exists
  <2>5. CASE Goto(r, "idle", req[r].ctx) /\ UNCHANGED container
    <3>1. ~Creating(r, id)'
      BY <2>1, <2>5, GotoStays, ServerProcessAssumption DEF Creating
    <3>2. container'[id] = container[id]
      BY <2>5
    <3> QED
      BY <1>0, <1>R, <2>1, <2>2, <3>1, <3>2 DEF Lives, Keeps, Retires, Exists
  <2> QED
    BY <2>1, <2>3, <2>4, <2>5
<1>2. CASE StartContainer(r)
  <2>1. /\ req[r].pc = "start" /\ UNCHANGED <<registry, known>>
        /\ \E pc \in {"insert", "discard"} : \E ctx : Goto(r, pc, ctx)
        /\ ContainerStart(id) \/ UNCHANGED container
    BY <1>2, Zenon DEF StartContainer, Call, Answer
  <2>2. Creating(r, id) /\ Creating(r, id)' /\ (HasRow(id)' <=> HasRow(id))
    BY <2>1, GotoStays DEF Creating, HasRow
  <2>3. /\ Exists(id)' <=> Exists(id)
        /\ container'[id] = "unused" <=> container[id] = "unused"
    BY <2>1 DEF ContainerStart, Exists, TypeOK
  <2> QED
    BY <1>0, <1>R, <2>1, <2>2, <2>3 DEF Lives, Keeps
<1>3. CASE DiscardContainer(r) \/ (RemoveContainer(r) /\ req[r].op = "create")
  <2>1. /\ req[r].pc \in {"discard", "remove"} /\ UNCHANGED <<registry, known>>
        /\ req[r].pc = "remove" => req[r].op = "create"
        /\ \E ctx : Goto(r, "idle", ctx)
        /\ ContainerRemove(id) \/ UNCHANGED container
    BY <1>3, Zenon DEF DiscardContainer, RemoveContainer, Call, Answer
  <2>2. Creating(r, id) /\ ~Creating(r, id)' /\ ~HasRow(id) /\ ~HasRow(id)'
    BY <1>C, <2>1, GotoStays, ServerProcessAssumption DEF Creating, At, HasRow
  <2>3. /\ container[id] # "unused" /\ container'[id] # "unused"
        /\ (Exists(id)' <=> Exists(id)) \/ (Exists(id) /\ ~Exists(id)')
    BY <1>U, <2>1 DEF ContainerRemove, Exists, TypeOK
  <2> QED
    BY <1>0, <1>R, <2>1, <2>2, <2>3 DEF Lives, Retires
<1>4. CASE RegisterCreated(r)
  <2>1. At(r, "create", "insert") /\ UNCHANGED container
    BY <1>4 DEF RegisterCreated
  <2>2. Exists(id) /\ Creating(r, id)
    BY <2>1 DEF CreationState, Created, At, Creating
  <2>3. CASE Insert(id) /\ Tells(id, HasContext(r))
    <3>1. HasRow(id)' /\ ~HasRow(id)
      BY <2>3 DEF Insert, HasRow, TypeOK
    <3>2. known' \in {known, known \cup {id}}
      BY <2>3 DEF Tells
    <3> QED
      BY <1>0, <1>R, <2>1, <2>2, <3>1, <3>2 DEF Lives, Lists, Exists
  <2>4. CASE Goto(r, "stop", req[r].ctx) /\ UNCHANGED <<registry, known>>
    <3>1. Creating(r, id)' /\ (HasRow(id)' <=> HasRow(id))
      BY <2>1, <2>4, GotoStays DEF Creating, At, HasRow
    <3> QED
      BY <1>0, <1>R, <2>1, <2>2, <2>4, <3>1 DEF Lives, Keeps, Exists
  <2> QED
    BY <1>4, <2>3, <2>4 DEF RegisterCreated
<1>5. CASE RegisterForAgent(r)
  <2>1. /\ At(r, "agent", "insert") /\ UNCHANGED <<container, known>>
        /\ Goto(r, "run", req[r].ctx)
    BY <1>5 DEF RegisterForAgent
  <2>2. Exists(id) /\ Creating(r, id) /\ ~Creating(r, id)'
    BY <2>1, GotoStays DEF CreationState, Created, At, Creating
  <2>3. CASE Insert(id)
    <3>1. HasRow(id)' /\ ~HasRow(id)
      BY <2>3 DEF Insert, HasRow, TypeOK
    <3> QED
      BY <1>0, <1>R, <2>1, <2>2, <3>1 DEF Lives, Lists, Exists
  <2>4. CASE UNCHANGED registry
    <3>1. ~HasRow(id) /\ ~HasRow(id)'
      BY <1>C, <2>2, <2>4 DEF HasRow
    <3> QED
      BY <1>0, <1>R, <2>1, <2>2, <3>1 DEF Lives, Retires, Exists
  <2> QED
    BY <1>5, <2>3, <2>4 DEF RegisterForAgent
<1>6. CASE StopContainer(r)
  <2>1. /\ req[r].pc = "stop" /\ UNCHANGED <<registry, known>>
        /\ \E ctx : Goto(r, "remove", ctx)
        /\ ContainerStop(id) \/ UNCHANGED container
    BY <1>6, Zenon DEF StopContainer, Call, Answer
  <2>2. (Creating(r, id)' <=> Creating(r, id)) /\ (HasRow(id)' <=> HasRow(id))
    BY <2>1, GotoStays DEF Creating, At, HasRow
  <2>3. /\ Exists(id)' <=> Exists(id)
        /\ container'[id] = "unused" <=> container[id] = "unused"
    BY <2>1 DEF ContainerStop, Exists, TypeOK
  <2> QED
    BY <1>0, <1>R, <2>1, <2>2, <2>3 DEF Lives, Keeps
<1>7. CASE RemoveContainer(r) /\ req[r].op # "create"
  <2>1. /\ req[r].pc = "remove" /\ UNCHANGED <<registry, known>>
        /\ \E pc \in {"unrow", "idle"} : \E ctx : Goto(r, pc, ctx)
        /\ ContainerRemove(id) \/ UNCHANGED container
    BY <1>7, Zenon DEF RemoveContainer, Call, Answer
  <2>2. ~Creating(r, id) /\ ~Creating(r, id)' /\ (HasRow(id)' <=> HasRow(id))
    BY <1>7, <2>1, GotoStays, ServerProcessAssumption DEF Creating, At, HasRow
  <2>3. /\ container[id] # "unused" /\ container'[id] # "unused"
        /\ (Exists(id)' <=> Exists(id)) \/ (Exists(id) /\ ~Exists(id)')
    BY <1>U, <2>1 DEF ContainerRemove, Exists, TypeOK
  <2> QED
    BY <1>0, <1>R, <2>1, <2>2, <2>3 DEF Lives, Keeps, Frees
<1>8. CASE DeleteRow(r)
  <2>1. /\ req[r].pc = "unrow" /\ UNCHANGED <<container, known>>
        /\ Goto(r, "idle", "alive")
        /\ Delete(id) \/ UNCHANGED registry
    BY <1>8 DEF DeleteRow
  <2>2. ~Creating(r, id) /\ ~Creating(r, id)' /\ (HasRow(id)' => HasRow(id))
    BY <2>1, GotoStays, ServerProcessAssumption DEF Creating, At, HasRow, Delete, NoRow, TypeOK
  <2> QED
    BY <1>0, <1>R, <1>U, <2>1, <2>2 DEF Lives, Keeps, Retires, Exists
<1>9. CASE Lookup(r) \/ StartExec(r) \/ EndExec(r) \/ EndRun(r)
  <2>1. /\ req[r].pc \in {"lookup", "exec", "attached", "run"}
        /\ UNCHANGED <<container, registry, known>>
        /\ \E pc \in {"run", "exec", "attached", "touch", "idle"} : \E ctx : Goto(r, pc, ctx)
    BY <1>9 DEF Lookup, StartExec, EndExec, EndRun
  <2>2. ~Creating(r, id) /\ ~Creating(r, id)' /\ (HasRow(id)' <=> HasRow(id))
    BY <2>1, GotoStays, ServerProcessAssumption DEF Creating, At, HasRow
  <2> QED
    BY <1>0, <1>R, <2>1, <2>2 DEF Lives, Keeps, Exists
<1>10. CASE Touch(r)
  <2>1. /\ req[r].pc = "touch" /\ UNCHANGED container
        /\ Goto(r, "idle", "alive")
        /\ TouchLastActive(id) \/ UNCHANGED registry
        /\ known' \in {known, known \cup {id}}
    BY <1>10 DEF Touch, Tells
  <2>2. ~Creating(r, id) /\ ~Creating(r, id)' /\ (HasRow(id)' <=> HasRow(id))
    BY <2>1, GotoStays, ServerProcessAssumption
       DEF Creating, At, HasRow, TouchLastActive, TypeOK
  <2> QED
    BY <1>0, <1>R, <1>U, <2>1, <2>2 DEF Lives, Keeps, Reported, Exists
<1> QED
  BY <1>1, <1>2, <1>3, <1>4, <1>5, <1>6, <1>7, <1>8, <1>9, <1>10
     DEF Serve, Handle, EndCommand


(***************************************************************************)
(* The reaper frees and retires what it holds, which nobody is creating.   *)
(***************************************************************************)
LEMMA ReaperStays ==
    ASSUME NEW j \in Ids, req' = req, HasRow(j)' <=> HasRow(j), Exists(j)' <=> Exists(j),
           container'[j] = "unused" <=> container[j] = "unused"
    PROVE  Keeps(j)
<1>1. \A q \in Requests : Creating(q, j)' <=> Creating(q, j)
  BY DEF Creating, At
<1> QED
  BY <1>1, KeepsPlace

LEMMA ReaperLives ==
    ASSUME TypeOK, Lineage, Reap
    PROVE  ServiceStep \/ ((\A j \in Ids : Keeps(j)) /\ known' = known)
<1>0. req' = req /\ known' = known
  BY DEF Reap
<1>1. CASE ListForSleep \/ ListForDestroy \/ EndPass
  <2>1. UNCHANGED <<container, registry>>
    BY <1>1 DEF ListForSleep, ListForDestroy, EndPass
  <2> QED
    BY <1>0, <2>1, ReaperStays DEF HasRow, Exists
<1>2. CASE MarkSleeping
  <2>1. /\ \A j \in Ids : HasRow(j)' <=> HasRow(j)
        /\ UNCHANGED container
    BY <1>2 DEF MarkSleeping, SetStatus, HasRow, TypeOK
  <2> QED
    BY <1>0, <2>1, ReaperStays DEF Exists
<1>3. CASE StopNext
  <2>1. /\ UNCHANGED registry
        /\ (\E id \in Ids : ContainerStop(id)) \/ UNCHANGED container
    BY <1>3, Zenon DEF StopNext, Answer, TypeOK
  <2>2. \A j \in Ids : /\ Exists(j)' <=> Exists(j)
                       /\ container'[j] = "unused" <=> container[j] = "unused"
    BY <2>1 DEF ContainerStop, Exists, TypeOK
  <2> QED
    BY <1>0, <2>1, <2>2, ReaperStays DEF HasRow
<1>4. CASE RemoveCurrent
  <2>1. /\ UNCHANGED registry
        /\ ContainerRemove(reaper.cur) \/ UNCHANGED container
    BY <1>4, Zenon DEF RemoveCurrent, Answer
  <2>2. \A j \in Ids \ {reaper.cur} : container'[j] = container[j]
    BY <2>1 DEF ContainerRemove, TypeOK
  <2>3. \A j \in Ids \ {reaper.cur} : Keeps(j)
    BY <1>0, <2>1, <2>2, ReaperStays DEF HasRow, Exists
  <2>4. CASE reaper.cur \in Ids
    <3>0. PICK id \in Ids : id = reaper.cur
      BY <2>4
    <3>1. \A j \in Ids \ {id} : Keeps(j)
      BY <2>3, <3>0, Zenon
    <3>2. container[id] # "unused" /\ \A q \in Requests : ~Creating(q, id)
      BY <3>0, <2>4 DEF Lineage, UnusedUntouched, CreatorAlone, ReaperHolds
    <3>3. CASE Exists(id) /\ ~Exists(id)'
      <4>1. container'[id] # "unused"
        BY <3>0, <2>1, <2>4, <3>2, <3>3 DEF ContainerRemove, Exists, TypeOK
      <4>2. StageOf(id)' = StageOf(id)
        BY <1>0, <3>0, <2>1, <3>2, <4>1 DEF StageOf, Unborn, HasRow, Creating, At
      <4>3. Frees(id)
        BY <1>0, <3>0, <3>2, <3>3, <4>1, <4>2 DEF Frees, ResourcesOf
      <4> QED
        BY <3>1, <4>3, OneLife DEF Lives
    <3>4. CASE Exists(id)' <=> Exists(id)
      <4>1. container'[id] # "unused"
        BY <3>0, <2>1, <2>4, <3>2 DEF ContainerRemove, TypeOK
      <4> QED
        BY <1>0, <3>0, <2>1, <2>3, <2>4, <3>2, <3>4, <4>1, ReaperStays DEF HasRow
    <3>5. Exists(id)' => Exists(id)
      BY <3>0, <2>1, <2>4 DEF ContainerRemove, Exists, TypeOK
    <3> QED
      BY <3>0, <3>3, <3>4, <3>5
  <2> QED
    BY <1>0, <2>3, <2>4
<1>5. CASE DeleteCurrent
  <2>1. /\ UNCHANGED container
        /\ reaper.pc = "unrow"
        /\ Delete(reaper.cur) \/ UNCHANGED registry
    BY <1>5 DEF DeleteCurrent
  <2>2. \A j \in Ids \ {reaper.cur} : HasRow(j)' <=> HasRow(j)
    BY <2>1 DEF Delete, HasRow, TypeOK
  <2>3. \A j \in Ids \ {reaper.cur} : Keeps(j)
    BY <1>0, <2>1, <2>2, ReaperStays DEF Exists
  <2>4. CASE reaper.cur \in Ids
    <3>0. PICK id \in Ids : id = reaper.cur
      BY <2>4
    <3>1. \A j \in Ids \ {id} : Keeps(j)
      BY <2>3, <3>0, Zenon
    <3>2. container[id] # "unused" /\ \A q \in Requests : ~Creating(q, id)
      BY <3>0, <2>4 DEF Lineage, UnusedUntouched, CreatorAlone, ReaperHolds
    <3>3. CASE HasRow(id) /\ ~HasRow(id)'
      <4>1. StageOf(id) = "listed" /\ StageOf(id)' = "retired"
        BY <1>0, <3>0, <2>1, <3>2, <3>3 DEF StageOf, Unborn, Creating, At
      <4>2. Retires(id)
        BY <1>0, <3>0, <2>1, <3>2, <4>1 DEF Retires, ResourcesOf, Exists
      <4> QED
        BY <3>1, <4>2, OneLife DEF Lives
    <3>4. CASE HasRow(id)' <=> HasRow(id)
      BY <1>0, <3>0, <2>1, <2>3, <2>4, <3>4, ReaperStays DEF Exists
    <3>5. HasRow(id)' => HasRow(id)
      BY <3>0, <2>1, <2>4 DEF Delete, HasRow, NoRow, TypeOK
    <3> QED
      BY <3>0, <3>3, <3>4, <3>5
  <2> QED
    BY <1>0, <2>3, <2>4
<1> QED
  BY <1>1, <1>2, <1>3, <1>4, <1>5 DEF Reap, ReaperStep

(***************************************************************************)
(* The end of the process retires what was being created.                  *)
(***************************************************************************)
LEMMA ExitCrashes ==
    ASSUME Lineage, Exit
    PROVE  Service!Crash
<1>1. /\ UNCHANGED <<container, registry, known>>
      /\ \A r \in Requests : req'[r].pc = "idle"
  BY DEF Exit, NoRequest
<1>2. \A r \in Requests, id \in Ids : ~Creating(r, id)'
  BY <1>1 DEF Creating, At
<1>3. \A id \in Ids : ResourcesOf(id)' = ResourcesOf(id)
  BY <1>1 DEF ResourcesOf, Exists
<1>4. \A id \in Ids :
         StageOf(id)' = IF StageOf(id) = "unborn" /\ ResourcesOf(id) # "none"
                        THEN "retired" ELSE StageOf(id)
  BY <1>1, <1>2 DEF StageOf, ResourcesOf, Unborn, HasRow, Exists
<1> QED
  BY <1>1, <1>3, <1>4 DEF Service!Crash

LEMMA AllKept ==
    ASSUME \A j \in Ids : Keeps(j), known' = known
    PROVE  ServiceStep
  BY DEF Keeps, ServiceStep, Service!serviceVars

LEMMA StepServes ==
    ASSUME TypeOK, Lineage, CreationState, [Next]_vars
    PROVE  ServiceStep
<1>1. ASSUME NEW r \in Requests, Serve(r) \/ EndCommand(r) PROVE ServiceStep
  <2>1. req[r].id \in Ids
    BY <1>1, Zenon DEF TypeOK, Serve, Handle, EndCommand, CreateContainer, StartContainer,
       DiscardContainer, StopContainer, RemoveContainer, RegisterCreated, At,
       RegisterForAgent, DeleteRow, Lookup, StartExec, EndExec, EndRun, Touch
  <2> QED
    BY <1>1, <2>1, HandlerElsewhere, HandlerLives, OneLife
<1>2. ASSUME NEW r \in Requests, Client(r) PROVE ServiceStep
  <2>1. UNCHANGED <<container, registry, known>>
    BY <1>2 DEF Client, Accept, AcceptCreate, AcceptOn, ContextEnds
  <2>2. /\ \A q \in Requests \ {r} : req'[q] = req[q]
        /\ \/ \A id \in Ids : Creating(r, id)' <=> Creating(r, id)
           \/ \E id \in Ids :
                 /\ container[id] = "unused"
                 /\ \A j \in Ids \ {id} : Creating(r, j)' <=> Creating(r, j)
    BY <1>2 DEF Client, Accept, AcceptCreate, AcceptOn, ContextEnds, Fresh, Creating, At, TypeOK
  <2>3. \A j \in Ids : container[j] = "unused" \/
           \A q \in Requests : Creating(q, j)' <=> Creating(q, j)
    BY <2>2 DEF Creating, At
  <2> QED
    BY <2>1, <2>3, KeepsPlace, AllKept DEF HasRow, Exists
<1>3. ASSUME NEW id \in Ids, ClientReads(id) PROVE ServiceStep
  <2>1. UNCHANGED <<container, registry, req>> /\ HasRow(id) /\ known' = known \cup {id}
    BY <1>3 DEF ClientReads, ReadRow
  <2>2. \A j \in Ids : Keeps(j)
    BY <2>1, ReaperStays DEF HasRow, Exists
  <2>3. Reported(id)
    BY <2>1, <2>2 DEF Reported, StageOf
  <2> QED
    BY <2>2, <2>3, OneLife DEF Lives
<1>4. ASSUME NEW id \in Ids, Die(id) PROVE ServiceStep
  <2>1. UNCHANGED <<registry, req, known>>
    BY <1>4 DEF Die
  <2>2. \A j \in Ids : /\ Exists(j)' <=> Exists(j)
                       /\ container'[j] = "unused" <=> container[j] = "unused"
    BY <1>4 DEF Die, ContainerDies, Running, Exists, TypeOK
  <2> QED
    BY <2>1, <2>2, ReaperStays, AllKept DEF HasRow
<1>5. ASSUME Minute PROVE ServiceStep
  <2>1. UNCHANGED <<container, req, known>> /\ \A j \in Ids : HasRow(j)' <=> HasRow(j)
    BY <1>5 DEF Minute, Ages, HasRow, TypeOK
  <2> QED
    BY <2>1, ReaperStays, AllKept DEF Exists
<1>6. ASSUME Signal \/ Restart \/ UNCHANGED vars PROVE ServiceStep
  <2>1. UNCHANGED <<container, registry, req, known>>
    BY <1>6 DEF Signal, Restart, vars
  <2> QED
    BY <2>1, ReaperStays, AllKept DEF Exists, HasRow
<1>7. ASSUME Exit PROVE ServiceStep
  BY <1>7, ExitCrashes DEF ServiceStep, Service!ServiceNext
<1>8. ASSUME Reap PROVE ServiceStep
  BY <1>8, ReaperLives, AllKept
<1> QED
  BY <1>1, <1>2, <1>3, <1>4, <1>5, <1>6, <1>7, <1>8 DEF Next

(***************************************************************************)
(* Whatever fails, FORGE gives every name one life: Forge implements       *)
(* SandboxService.                                                         *)
(***************************************************************************)
THEOREM ForgeServes == Spec => NamesLiveOnce
<1>1. Init => Service!ServiceInit /\ CreationState
  BY DEF Init, Service!ServiceInit, StageOf, ResourcesOf, Unborn, HasRow, NoRow,
         CreationState, Created, NoRequest
<1>2. TypeOK /\ TypeOK' /\ Lineage /\ CreationState /\ [Next]_vars => CreationState'
  BY CreationStep
<1>3. TypeOK /\ Lineage /\ CreationState /\ [Next]_vars
         => [Service!ServiceNext]_(Service!serviceVars)
  BY StepServes DEF ServiceStep
<1> QED
  BY <1>1, <1>2, <1>3, TypeCorrect, LineageHolds, PTL
     DEF Spec, NamesLiveOnce, Service!ServiceSpec

-----------------------------------------------------------------------------
(***************************************************************************)
(* A visit to a running sandbox reaches that sandbox.  A container starts  *)
(* once and keeps its address while it runs, so an address learnt at any   *)
(* time after the start is right for as long as the container runs; what   *)
(* is to be shown is that nothing is learnt, and nobody visits, before the *)
(* start.                                                                  *)
(***************************************************************************)

\* The container of id has been started, whatever became of it.
Begun(id) == container[id] \notin {"unused", "created"}

(***************************************************************************)
(* The Forge half: a row is inserted after the container has started, and  *)
(* a process that is down handles no request.                              *)
(***************************************************************************)
InsertsBegun == \A r \in Requests : req[r].pc = "insert" => Begun(req[r].id)

DownIdle == server = "down" => \A r \in Requests : req[r].pc = "idle"

(***************************************************************************)
(* The proxy's half: a row holds an answer, answers and visits are about   *)
(* containers that were started, and an address is the daemon's.           *)
(***************************************************************************)
RowsAnswered == \A id \in Ids : HasRow(id) => ip[id] # Unasked

AnswersBegun == \A id \in Ids : ip[id] # Unasked => Begun(id)

AnswersRight ==
    \A id \in Ids : (ip[id] \in Addresses /\ Running(id)) => ip[id] = address[id]

VisitsBegun == \A v \in Visits : visit[v].pc # "idle" => Begun(visit[v].id)

ProxyInv ==
    /\ ProxyTypeOK
    /\ InsertsBegun
    /\ DownIdle
    /\ RowsAnswered
    /\ AnswersBegun
    /\ AnswersRight
    /\ VisitsBegun
    /\ ReachesRunning

-----------------------------------------------------------------------------
(* The steps of Forge.                                                     *)

\* A container that was started stays so, and never starts again.
LEMMA StartsOnlyOnce ==
    ASSUME TypeOK, [Next]_vars, NEW id \in Ids, Begun(id)
    PROVE  Begun(id)' /\ (Running(id)' => Running(id))
<1> USE DEF Begun, Running, TypeOK, ContainerType
<1>1. ASSUME NEW i, ContainerCreate(i) \/ ContainerStart(i)
      PROVE  container'[id] = container[id]
  BY <1>1 DEF ContainerCreate, ContainerStart
<1>2. ASSUME NEW i, ContainerStop(i) \/ ContainerDies(i)
      PROVE  container'[id] \in {container[id], "exited"}
  BY <1>2 DEF ContainerStop, ContainerDies
<1>3. ASSUME NEW i, ContainerRemove(i)
      PROVE  container'[id] \in {container[id], "removed"}
  BY <1>3 DEF ContainerRemove
<1>4. ASSUME UNCHANGED container
      PROVE  container'[id] = container[id]
  BY <1>4
<1>5. container'[id] \in {container[id], "exited", "removed"}
  BY <1>1, <1>2, <1>3, <1>4, StepEffect DEF DaemonStep
<1> QED
  BY <1>5

\* A handler that acts has a request, and leaves the process alone.
LEMMA HandlerBusy ==
    ASSUME TypeOK, NEW r \in Requests, Serve(r) \/ EndCommand(r)
    PROVE  req[r].pc # "idle" /\ UNCHANGED server
<1>1. CASE \/ CreateContainer(r) \/ StartContainer(r) \/ DiscardContainer(r)
           \/ StopContainer(r) \/ RemoveContainer(r)
  BY <1>1, CallGoes DEF CreateContainer, StartContainer, DiscardContainer,
                        StopContainer, RemoveContainer
<1>2. CASE \/ RegisterCreated(r) \/ RegisterForAgent(r) \/ DeleteRow(r) \/ Lookup(r)
           \/ StartExec(r) \/ EndExec(r) \/ EndRun(r) \/ Touch(r)
  BY <1>2 DEF RegisterCreated, RegisterForAgent, DeleteRow, Lookup, StartExec,
              EndExec, EndRun, Touch, At
<1> QED
  BY <1>1, <1>2 DEF Serve, Handle, EndCommand

LEMMA DownIdleStep ==
    ASSUME TypeOK, DownIdle, [Next]_vars
    PROVE  DownIdle'
<1> USE DEF DownIdle
<1>1. ASSUME NEW r \in Requests, Serve(r) \/ EndCommand(r) PROVE DownIdle'
  BY <1>1, HandlerBusy
<1>2. ASSUME NEW r \in Requests, Client(r) PROVE DownIdle'
  BY <1>2 DEF Client, Accept, AcceptCreate, AcceptOn, ContextEnds
<1>3. ASSUME Exit PROVE DownIdle'
  BY <1>3 DEF Exit, NoRequest
<1>4. ASSUME Signal \/ Restart PROVE DownIdle'
  BY <1>4 DEF Signal, Stopping, Restart
<1>5. ASSUME \/ Reap \/ Minute \/ UNCHANGED vars
             \/ \E id \in Ids : ClientReads(id) \/ Die(id)
      PROVE DownIdle'
  <2>1. UNCHANGED <<req, server>>
    BY <1>5 DEF Reap, ReaperStep, ListForSleep, MarkSleeping, ListForDestroy, StopNext,
         RemoveCurrent, DeleteCurrent, EndPass, Minute, vars, ClientReads, ReadRow, Die
  <2> QED
    BY <2>1
<1> QED
  BY <1>1, <1>2, <1>3, <1>4, <1>5 DEF Next

\* A handler comes to insert a row by starting its container.
LEMMA OnlyStartInserts ==
    ASSUME TypeOK, NEW r \in Requests, Serve(r) \/ EndCommand(r), req'[r].pc = "insert"
    PROVE  Begun(req[r].id)'
<1> USE DEF Pcs
<1>1. CASE StartContainer(r)
  <2>1. \/ Goto(r, "insert", "alive") /\ ContainerStart(req[r].id)
        \/ \E ctx : Goto(r, "discard", ctx)
    BY <1>1, Zenon DEF StartContainer, Call, Answer
  <2>2. req[r].pc = "start" /\ req[r].id \in Ids
    BY <1>1 DEF StartContainer, TypeOK, ApiType
  <2>3. ContainerStart(req[r].id) => container'[req[r].id] = "running"
    BY <2>2 DEF ContainerStart, TypeOK, ContainerType
  <2>4. req'[r].id = req[r].id /\ ContainerStart(req[r].id)
    BY <2>1, <2>2, GotoStays
  <2> QED
    BY <2>3, <2>4 DEF Begun
<1>2. CASE \/ CreateContainer(r) \/ DiscardContainer(r) \/ StopContainer(r)
           \/ RemoveContainer(r)
  <2>1. /\ \E pc \in {"start", "unrow", "remove", "idle"},
                ctx \in {"alive", "ended"} : Goto(r, pc, ctx)
        /\ req[r].pc # "idle"
    BY <1>2, CallGoes DEF CreateContainer, DiscardContainer, StopContainer, RemoveContainer
  <2> QED
    BY <2>1, GotoStays
<1>3. CASE \/ RegisterCreated(r) \/ RegisterForAgent(r) \/ DeleteRow(r) \/ Lookup(r)
           \/ StartExec(r) \/ EndExec(r) \/ EndRun(r) \/ Touch(r)
  <2>1. /\ \E pc \in {"stop", "run", "exec", "attached", "touch", "idle"} :
              \E ctx : Goto(r, pc, ctx)
        /\ req[r].pc # "idle"
    BY <1>3 DEF RegisterCreated, RegisterForAgent, DeleteRow, Touch, Lookup, StartExec,
                EndExec, EndRun, At
  <2> QED
    BY <2>1, GotoStays
<1> QED
  BY <1>1, <1>2, <1>3 DEF Serve, Handle, EndCommand

LEMMA InsertsBegunStep ==
    ASSUME TypeOK, InsertsBegun, [Next]_vars
    PROVE  InsertsBegun'
<1> SUFFICES ASSUME NEW q \in Requests, req'[q].pc = "insert" PROVE Begun(req[q].id)'
  BY DEF InsertsBegun
<1>1. ASSUME req'[q].pc = req[q].pc, req'[q].id = req[q].id
      PROVE  Begun(req[q].id)'
  <2>1. req[q].id \in Ids /\ Begun(req[q].id)
    BY <1>1 DEF InsertsBegun, TypeOK, ApiType
  <2> QED
    BY <1>1, <2>1, StartsOnlyOnce DEF Begun
<1>2. ASSUME NEW r \in Requests, Serve(r) \/ EndCommand(r) PROVE Begun(req[q].id)'
  <2>1. CASE q # r
    BY <1>1, <1>2, <2>1, HandlerFootprint DEF Footprint
  <2>2. CASE q = r
    BY <1>2, <2>2, OnlyStartInserts
  <2> QED
    BY <2>1, <2>2
<1>3. ASSUME NEW r \in Requests, Client(r) PROVE Begun(req[q].id)'
  <2>1. /\ \A p \in Requests \ {r} : req'[p] = req[p]
        /\ req'[r].pc = "insert" => req'[r].pc = req[r].pc /\ req'[r].id = req[r].id
    BY <1>3 DEF Client, Accept, AcceptCreate, AcceptOn, ContextEnds, TypeOK, ApiType
  <2> QED
    BY <1>1, <2>1
<1>4. ASSUME Exit PROVE FALSE
  BY <1>4 DEF Exit, NoRequest
<1>5. ASSUME \/ UNCHANGED vars \/ Reap \/ Minute \/ Signal \/ Restart
             \/ \E id \in Ids : ClientReads(id) \/ Die(id)
      PROVE  Begun(req[q].id)'
  <2>1. UNCHANGED req
    BY <1>5 DEF vars, Reap, Minute, Signal, Restart, ClientReads, ReadRow, Die
  <2> QED
    BY <1>1, <2>1
<1> QED
  BY <1>2, <1>3, <1>4, <1>5 DEF Next

\* The inserting step of a creator comes after its question.
LEMMA RowAnswered ==
    ASSUME TypeOK, TypeOK', DownIdle, Next, AsksFirst, NEW id \in Ids,
           ~HasRow(id), HasRow(id)'
    PROVE  ip[id] # Unasked
<1>1. PICK r \in Requests : Serve(r) \/ EndCommand(r)
  <2>1. ASSUME Reap PROVE FALSE
    BY <2>1, ReaperLeaves DEF ReaperFootprint
  <2>2. ASSUME Minute PROVE FALSE
    BY <2>2 DEF Minute, Ages, HasRow
  <2>3. ASSUME \/ \E r \in Requests : Client(r)
               \/ \E i \in Ids : ClientReads(i) \/ Die(i)
               \/ Signal \/ Exit \/ Restart
        PROVE  FALSE
    <3>1. UNCHANGED registry
      BY <2>3 DEF Client, Accept, AcceptCreate, AcceptOn, ContextEnds, ClientReads,
                  ReadRow, Die, Signal, Exit, Restart
    <3> QED
      BY <3>1 DEF HasRow
  <2> QED
    BY <2>1, <2>2, <2>3 DEF Next
<1>2. /\ req[r].id = id /\ req[r].pc = "insert"
      /\ ~Creating(r, id)'
      /\ req'[r].id \in {NoId, id}
  BY <1>1, HandlerFootprint DEF Footprint
<1>3. req'[r].pc # "insert"
  BY <1>2, ServerProcessAssumption DEF Creating, TypeOK, ApiType
<1>4. server' # "down"
  BY <1>1, <1>2, HandlerBusy DEF DownIdle
<1> QED
  BY <1>2, <1>3, <1>4 DEF AsksFirst

-----------------------------------------------------------------------------
(* The steps of the proxy.                                                 *)

LEMMA ForgeStepKeeps ==
    ASSUME TypeOK, TypeOK', ProxyInv, ForgeStep
    PROVE  ProxyInv'
<1> USE DEF ProxyInv
<1>0. Next /\ [Next]_vars
  BY DEF ForgeStep
<1>1. \A id \in Ids : Begun(id) => Begun(id)' /\ (Running(id)' => Running(id))
  BY <1>0, StartsOnlyOnce
<1>2. \A id \in Ids : ip'[id] \in {ip[id], Unasked}
  BY DEF ForgeStep, AnswersEnd, ProxyTypeOK
<1>3. \A id \in Ids : HasRow(id)' => ip'[id] = ip[id]
  BY DEF ForgeStep, AnswersEnd
<1>4. \A v \in Visits : visit'[v] \in {visit[v], NoVisit}
  BY DEF ForgeStep, VisitsEnd, ProxyTypeOK
<1>5. PICK given \in [Starting -> Addresses \ {address[id] : id \in Ids}] :
         address' = [id \in Ids |-> IF id \in Starting THEN given[id]
                                    ELSE IF Running(id)' THEN address[id]
                                    ELSE NoAddress]
  BY Zenon DEF ForgeStep, Addressing
<1>6. \A id \in Ids : Begun(id) /\ Running(id)' => address'[id] = address[id]
  BY <1>1, <1>5 DEF Starting
<1>7. ProxyTypeOK'
  <2>1. address' \in [Ids -> Addresses \cup {NoAddress}]
    BY <1>5 DEF ProxyTypeOK
  <2>2. ip' \in [Ids -> Addresses \cup {NoAddress, Unasked}]
    BY DEF ForgeStep, AnswersEnd, ProxyTypeOK
  <2>3. visit' = visit \/ visit' = [v \in Visits |-> NoVisit]
    BY DEF ForgeStep, VisitsEnd
  <2> QED
    BY <2>1, <2>2, <2>3 DEF ProxyTypeOK, NoVisit
<1>8. InsertsBegun'
  BY <1>0, InsertsBegunStep
<1>9. DownIdle'
  BY <1>0, DownIdleStep
<1>10. RowsAnswered'
  <2> SUFFICES ASSUME NEW id \in Ids, HasRow(id)' PROVE ip[id] # Unasked
    BY <1>3 DEF RowsAnswered
  <2>1. CASE HasRow(id)
    BY <2>1 DEF RowsAnswered
  <2>2. CASE ~HasRow(id)
    BY <1>0, <2>2, RowAnswered DEF ForgeStep
  <2> QED
    BY <2>1, <2>2
<1>11. AnswersBegun'
  BY <1>1, <1>2 DEF AnswersBegun
<1>12. AnswersRight'
  <2> SUFFICES ASSUME NEW id \in Ids, ip'[id] \in Addresses, Running(id)'
               PROVE  ip'[id] = address'[id]
    BY DEF AnswersRight
  <2>1. ip'[id] = ip[id] /\ ip[id] # Unasked
    BY <1>2, ProxyAssumption
  <2>2. Begun(id) /\ Running(id)
    BY <1>1, <2>1 DEF AnswersBegun
  <2> QED
    BY <1>6, <2>1, <2>2 DEF AnswersRight
<1>13. VisitsBegun'
  <2> SUFFICES ASSUME NEW v \in Visits, visit'[v].pc # "idle"
               PROVE  Begun(visit[v].id)'
    BY DEF VisitsBegun
  <2>1. visit'[v] = visit[v] /\ visit[v].id \in Ids
    BY <1>4 DEF NoVisit, ProxyTypeOK
  <2>2. Begun(visit[v].id)
    BY <2>1 DEF VisitsBegun
  <2> QED
    BY <1>1, <2>1, <2>2 DEF Begun
<1>14. ReachesRunning'
  <2> SUFFICES ASSUME NEW v \in Visits, visit'[v].pc = "send", Running(visit[v].id)'
               PROVE  visit'[v].target = address'[visit'[v].id]
    BY DEF ReachesRunning
  <2>1. visit'[v] = visit[v] /\ visit[v].id \in Ids
    BY <1>4 DEF NoVisit, ProxyTypeOK
  <2>2. Begun(visit[v].id)
    BY <2>1 DEF VisitsBegun
  <2>3. Running(visit[v].id)' /\ Running(visit[v].id)
    BY <1>1, <2>1, <2>2 DEF Running
  <2> QED
    BY <1>6, <2>1, <2>2, <2>3 DEF ReachesRunning
<1> QED
  BY <1>7, <1>8, <1>9, <1>10, <1>11, <1>12, <1>13, <1>14

\* The steps that leave Forge alone keep its half.
LEMMA ForgeHalf ==
    ASSUME ProxyInv, UNCHANGED vars
    PROVE  InsertsBegun' /\ DownIdle'
  BY DEF ProxyInv, vars, InsertsBegun, DownIdle, Begun

LEMMA AskKeeps ==
    ASSUME TypeOK, ProxyInv, NEW r \in Requests, AskAddress(r)
    PROVE  ProxyInv'
<1> USE DEF ProxyInv
<1>0. UNCHANGED <<container, registry, address, visit>> /\ UNCHANGED vars
  BY DEF AskAddress, vars
<1>1. PICK id \in Ids : id = req[r].id /\ ip[id] = Unasked /\ Begun(id)
  BY DEF AskAddress, InsertsBegun, TypeOK, ApiType
<1>2. PICK answer \in AddressAnswers(id, HasContext(r)) : ip' = [ip EXCEPT ![id] = answer]
  BY <1>1 DEF AskAddress
<1>3. answer = NoAddress \/ (Running(id) /\ answer = address[id])
  BY <1>2 DEF AddressAnswers
<1>4. answer \in Addresses \cup {NoAddress}
  BY <1>3 DEF ProxyTypeOK
<1>5. ProxyTypeOK'
  BY <1>0, <1>2, <1>4 DEF ProxyTypeOK
<1>6. RowsAnswered' /\ AnswersBegun'
  BY <1>0, <1>1, <1>2, <1>4, ProxyAssumption
     DEF RowsAnswered, AnswersBegun, HasRow, Begun, ProxyTypeOK
<1>7. AnswersRight'
  BY <1>0, <1>2, <1>3, ProxyAssumption DEF AnswersRight, Running, ProxyTypeOK
<1>8. VisitsBegun' /\ ReachesRunning'
  BY <1>0 DEF VisitsBegun, ReachesRunning, Begun, Running
<1> QED
  BY <1>0, <1>5, <1>6, <1>7, <1>8, ForgeHalf

LEMMA VisitKeeps ==
    ASSUME TypeOK, ProxyInv, NEW v \in Visits, GetRow(v) \/ AskDriver(v) \/ Leave(v)
    PROVE  ProxyInv'
<1> USE DEF ProxyInv
<1>0. UNCHANGED <<container, registry, address, ip>> /\ UNCHANGED vars
  BY DEF GetRow, AskDriver, Leave, vars
<1>1. \/ Close(v)
      \/ \E id \in Ids, target \in Addresses \cup {NoAddress} :
            /\ Open(v, id, target)
            /\ Begun(id)
            /\ (target \in Addresses /\ Running(id)) => target = address[id]
  <2>1. CASE GetRow(v)
    <3>1. PICK id \in known : HasRow(id) /\ Open(v, id, ip[id])
      BY <2>1 DEF GetRow
    <3>2. id \in Ids
      BY <3>1 DEF TypeOK, ApiType
    <3> QED
      BY <3>1, <3>2 DEF RowsAnswered, AnswersBegun, AnswersRight, ProxyTypeOK
  <2>2. CASE AskDriver(v)
    <3>1. visit[v].id \in Ids /\ Begun(visit[v].id)
      BY <2>2 DEF AskDriver, VisitsBegun, ProxyTypeOK
    <3>2. PICK answer \in AddressAnswers(visit[v].id, TRUE) :
             IF answer = NoAddress THEN Close(v) ELSE Open(v, visit[v].id, answer)
      BY <2>2 DEF AskDriver
    <3>3. answer = NoAddress \/ (Running(visit[v].id) /\ answer = address[visit[v].id])
      BY <3>2 DEF AddressAnswers
    <3> QED
      BY <3>1, <3>2, <3>3 DEF ProxyTypeOK
  <2>3. CASE Leave(v)
    BY <2>3 DEF Leave
  <2> QED
    BY <2>1, <2>2, <2>3
<1>2. RowsAnswered' /\ AnswersBegun' /\ AnswersRight'
  BY <1>0 DEF RowsAnswered, AnswersBegun, AnswersRight, HasRow, Begun, Running
<1>3. ProxyTypeOK' /\ VisitsBegun' /\ ReachesRunning'
  <2>1. CASE Close(v)
    BY <1>0, <2>1 DEF Close, NoVisit, ProxyTypeOK, VisitsBegun, ReachesRunning, Begun, Running
  <2>2. ASSUME NEW id \in Ids, NEW target \in Addresses \cup {NoAddress},
               Open(v, id, target), Begun(id),
               (target \in Addresses /\ Running(id)) => target = address[id]
        PROVE  ProxyTypeOK' /\ VisitsBegun' /\ ReachesRunning'
    <3>1. PICK pc \in {"ask", "send"} :
             /\ visit' = [visit EXCEPT ![v] = [pc |-> pc, id |-> id, target |-> target]]
             /\ pc = "send" => target \in Addresses
      BY <2>2 DEF Open
    <3>2. ProxyTypeOK'
      BY <1>0, <3>1 DEF ProxyTypeOK
    <3>3. VisitsBegun'
      BY <1>0, <2>2, <3>1 DEF ProxyTypeOK, VisitsBegun, Begun
    <3>4. ReachesRunning'
      BY <1>0, <2>2, <3>1 DEF ProxyTypeOK, ReachesRunning, Running
    <3> QED
      BY <3>2, <3>3, <3>4
  <2> QED
    BY <1>1, <2>1, <2>2
<1> QED
  BY <1>0, <1>2, <1>3, ForgeHalf

LEMMA ProxyRunsForge == ProxySpec => Spec
<1>1. ProxyInit => Init
  BY DEF ProxyInit
<1>2. [ProxyNext]_proxyVars => [Next]_vars
  BY DEF ProxyNext, ForgeStep, AskAddress, GetRow, AskDriver, Leave, proxyVars
<1> QED
  BY <1>1, <1>2, PTL DEF ProxySpec, Spec

LEMMA ProxyInvHolds == ProxySpec => []ProxyInv
<1>1. ProxyInit => ProxyInv
  BY DEF ProxyInit, Init, ProxyInv, ProxyTypeOK, NoVisit, NoRequest, InsertsBegun,
         DownIdle, RowsAnswered, AnswersBegun, AnswersRight, VisitsBegun,
         ReachesRunning, HasRow, NoRow, Running
<1>2. TypeOK /\ TypeOK' /\ ProxyInv /\ [ProxyNext]_proxyVars => ProxyInv'
  <2> SUFFICES ASSUME TypeOK, TypeOK', ProxyInv, [ProxyNext]_proxyVars
               PROVE  ProxyInv'
    OBVIOUS
  <2>1. CASE UNCHANGED proxyVars
    BY <2>1, ForgeHalf
       DEF proxyVars, vars, ProxyInv, ProxyTypeOK, RowsAnswered, AnswersBegun,
           AnswersRight, VisitsBegun, ReachesRunning, HasRow, Running, Begun
  <2> QED
    BY <2>1, ForgeStepKeeps, AskKeeps, VisitKeeps DEF ProxyNext
<1> QED
  BY <1>1, <1>2, ProxyRunsForge, TypeCorrect, PTL DEF ProxySpec

(***************************************************************************)
(* The types of the proxy's state, whatever fails: no visit is ever sent   *)
(* to a row whose address nobody has asked for.                            *)
(***************************************************************************)
THEOREM ProxyTyping == ProxySpec => []ProxyTypeOK
<1>1. ProxyInv => ProxyTypeOK
  BY DEF ProxyInv
<1> QED
  BY <1>1, ProxyInvHolds, PTL

(***************************************************************************)
(* A visit to a running sandbox reaches that sandbox, under every fault    *)
(* and however often addresses are given out again: the stored address is  *)
(* never refreshed, and never has to be, because a container starts once.  *)
(***************************************************************************)
THEOREM VisitsReach == ProxySpec => []ReachesRunning
<1>1. ProxyInv => ReachesRunning
  BY DEF ProxyInv
<1> QED
  BY <1>1, ProxyInvHolds, PTL

=============================================================================
