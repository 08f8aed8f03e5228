-------------------------- MODULE DriverExecProofs --------------------------
(***************************************************************************)
(* What is proved of Driver.Exec, for every set of callers and sandboxes.  *)
(***************************************************************************)
EXTENDS DriverExec, TLAPS

USE DEF ServerType, ContainerType, ContainerStates, ExecTypeOK, ExecType,
        ExecPcs, Users, NoExec

\* The daemon's calls leave containers typed, and start none again.
LEMMA DaemonSteps ==
    ASSUME ContainerType, NEW id \in Ids,
           ContainerStop(id) \/ ContainerRemove(id) \/ ContainerDies(id)
    PROVE  /\ ContainerType'
           /\ \A i \in Ids : Running(i)' => Running(i)
  BY DEF ContainerStop, ContainerRemove, ContainerDies, Running, Exists

\* So do the steps of Destroy, whatever it hears.
LEMMA DestroySteps ==
    ASSUME ContainerType, NEW id \in Ids, DestroyStep(id) \/ ExecDies(id)
    PROVE  /\ ContainerType'
           /\ \A i \in Ids : Running(i)' => Running(i)
<1>1. ASSUME NEW outcome \in {"ok", "cut", "error"},
             \/ DestroyAnswers(ContainerStop(id), outcome)
             \/ DestroyAnswers(ContainerRemove(id), outcome)
      PROVE  ContainerStop(id) \/ ContainerRemove(id) \/ UNCHANGED container
  BY <1>1 DEF DestroyAnswers, Answer
<1>2. ContainerStop(id) \/ ContainerRemove(id) \/ ContainerDies(id) \/ UNCHANGED container
  BY <1>1 DEF DestroyStep, DestroyStops, DestroyRemoves, DestroyDrops, ExecDies
<1>3. CASE UNCHANGED container
  BY <1>3 DEF Running
<1> QED
  BY <1>2, <1>3, DaemonSteps

\* A failing attempt leaves the call typed.
LEMMA FailsTyped ==
    ASSUME ExecType, NEW c \in Callers, exec[c].pc # "idle",
           NEW ran \in SUBSET Users, Fails(c, ran)
    PROVE  /\ exec' \in [Callers -> [pc : ExecPcs, id : Ids \cup {NoId},
                                     user : Users, ran : SUBSET Users]]
           /\ \A d \in Callers : exec'[d].pc # "idle" => exec'[d].id \in Ids
           /\ \A d \in Callers : exec'[d].pc = "idle" => exec[d].pc = "idle"
  BY DEF Fails

\* So does an attempt that goes on.
LEMMA GoesTyped ==
    ASSUME ExecType, NEW c \in Callers, exec[c].pc # "idle",
           NEW pc \in ExecPcs \ {"idle"}, NEW ran \in SUBSET Users, Goes(c, pc, ran)
    PROVE  /\ exec' \in [Callers -> [pc : ExecPcs, id : Ids \cup {NoId},
                                     user : Users, ran : SUBSET Users]]
           /\ \A d \in Callers : exec'[d].pc # "idle" => exec'[d].id \in Ids
           /\ \A d \in Callers : exec'[d].pc = "idle" => exec[d].pc = "idle"
  BY DEF Goes

\* The types alone: what is kept whoever calls Exec.
DriverTyped == ServerType /\ ContainerType /\ ExecType

\* Every step keeps the types.
LEMMA DriverTypedStep ==
    ASSUME DriverTyped, [ExecNext]_execVars
    PROVE  DriverTyped'
<1> USE DEF DriverTyped
<1>1. CASE UNCHANGED execVars
  BY <1>1 DEF execVars
<1>2. ASSUME NEW c \in Callers, Calls(c) PROVE DriverTyped'
  BY <1>2 DEF Calls, Begin
<1>3. ASSUME NEW c \in Callers, ExecCreate(c) PROVE DriverTyped'
  BY <1>3, FailsTyped, GoesTyped DEF ExecCreate
<1>4. ASSUME NEW c \in Callers, ExecAttach(c) PROVE DriverTyped'
  <2>1. Started(c) \subseteq SUBSET Users
    BY DEF Started
  <2> QED
    BY <1>4, <2>1, FailsTyped, GoesTyped DEF ExecAttach
<1>5. ASSUME NEW c \in Callers, StreamEnds(c) PROVE DriverTyped'
  BY <1>5, GoesTyped DEF StreamEnds
<1>6. ASSUME NEW c \in Callers, ExecInspect(c) \/ Remember(c) PROVE DriverTyped'
  <2>1. hasForgeUser' \in [Ids -> {"yes", "no", "unset"}]
    BY <1>6 DEF ExecInspect, Remember, Learn
  <2> QED
    BY <1>6, <2>1, FailsTyped, GoesTyped DEF ExecInspect, Remember
<1>7. ASSUME NEW c \in Callers, Takes(c) PROVE DriverTyped'
  BY <1>7 DEF Takes
<1>8. ASSUME NEW c \in Callers, CallerEnds(c) PROVE DriverTyped'
  BY <1>8 DEF CallerEnds
<1>9. ASSUME NEW id \in Ids, DestroyStep(id) PROVE DriverTyped'
  <2>1. ContainerType'
    BY <1>9, DestroySteps
  <2> QED
    BY <1>9, <2>1 DEF DestroyStep, DestroyStops, DestroyRemoves, DestroyDrops, Learn
<1>10. ASSUME NEW id \in Ids, ExecDies(id) PROVE DriverTyped'
  BY <1>10, DaemonSteps DEF ExecDies
<1> QED
  BY <1>1, <1>2, <1>3, <1>4, <1>5, <1>6, <1>7, <1>8, <1>9, <1>10 DEF ExecNext, ExecStep

\* A context is that of a call in flight.
LEMMA ExecTypedStep ==
    ASSUME ExecTypeOK, [ExecNext]_execVars
    PROVE  ExecTypeOK'
<1>1. DriverTyped'
  BY DriverTypedStep DEF DriverTyped
<1>2. \A c \in ended' : exec'[c].pc # "idle"
  <2>1. \A c \in Callers : exec[c].pc # "idle" /\ c \in ended' => exec'[c].pc # "idle"
    BY DEF execVars, ExecNext, Calls, Begin, ExecStep, ExecCreate, ExecAttach, ExecInspect,
           Remember, StreamEnds, Takes, CallerEnds, DestroyStep, DestroyStops, DestroyRemoves,
           DestroyDrops, ExecDies, Goes, Fails
  <2>2. \A c \in ended' : c \in Callers /\ exec[c].pc # "idle"
    BY DEF execVars, ExecNext, Calls, ExecStep, ExecCreate, ExecAttach, ExecInspect,
           Remember, StreamEnds, Takes, CallerEnds, DestroyStep, DestroyStops, DestroyRemoves,
           DestroyDrops, ExecDies
  <2> QED
    BY <2>1, <2>2
<1> QED
  BY <1>1, <1>2 DEF DriverTyped

(***************************************************************************)
(* Types hold throughout, whatever the daemon does.                        *)
(***************************************************************************)
THEOREM ExecTypeCorrect == ExecSpec => []ExecTypeOK
<1>1. ExecInit => ExecTypeOK
  BY DEF ExecInit
<1>2. ExecTypeOK /\ [ExecNext]_execVars => ExecTypeOK'
  BY ExecTypedStep
<1> QED
  BY <1>1, <1>2, PTL DEF ExecSpec

-----------------------------------------------------------------------------
(***************************************************************************)
(* Where nothing but a missing user keeps a command from starting, an      *)
(* attempt that has been attached has started it, if its user exists, and  *)
(* so has one that is taken for a forge user's.                            *)
(***************************************************************************)
Attached ==
    \A c \in Callers :
        /\ Serves(exec[c].id)
        /\ \/ exec[c].pc \in {"copy", "inspect"} /\ HasUser(exec[c].id, exec[c].user)
           \/ exec[c].pc = "present"
        => exec[c].user \in exec[c].ran

ResultInv == ExecTypeOK /\ Attached /\ ResultIsOfARun

LEMMA ResultStep ==
    ASSUME ResultInv, [ExecNext]_execVars
    PROVE  ResultInv'
<1> USE DEF ResultInv, Attached, ResultIsOfARun, HasUser, Serves
<1>0. ExecTypeOK'
  BY ExecTypedStep
<1>1. CASE UNCHANGED <<exec>>
  BY <1>0, <1>1
<1>2. ASSUME NEW c \in Callers, Calls(c) PROVE ResultInv'
  BY <1>0, <1>2 DEF Calls, Begin
<1>3. ASSUME NEW c \in Callers, ExecCreate(c) PROVE ResultInv'
  BY <1>0, <1>3 DEF ExecCreate, Goes, Fails
<1>4. ASSUME NEW c \in Callers, ExecAttach(c) PROVE ResultInv'
  <2>1. ASSUME NEW ran \in Started(c), Goes(c, "copy", ran) PROVE ResultInv'
    <3>1. /\ exec[c].pc = "attach" /\ ran \in SUBSET Users
      BY <1>4 DEF ExecAttach, Started
    <3>2. Serves(exec[c].id) /\ HasUser(exec[c].id, exec[c].user) => exec[c].user \in ran
      BY <2>1 DEF Started, CanStart, HasShell
    <3> QED
      BY <1>0, <2>1, <3>1, <3>2 DEF Goes
  <2>2. ASSUME NEW ran, Fails(c, ran), exec[c].pc = "attach" PROVE ResultInv'
    BY <1>0, <2>2 DEF Fails
  <2> QED
    BY <1>4, <2>1, <2>2 DEF ExecAttach
<1>5. ASSUME NEW c \in Callers, StreamEnds(c) PROVE ResultInv'
  BY <1>0, <1>5 DEF StreamEnds, Goes
<1>6. ASSUME NEW c \in Callers, ExecInspect(c) PROVE ResultInv'
  <2>1. exec[c].pc = "inspect"
    BY <1>6 DEF ExecInspect
  <2>2. CASE Fails(c, exec[c].ran)
    BY <1>0, <2>1, <2>2 DEF Fails
  <2>3. ASSUME NEW exit \in ExitOf(c), ~SaysNoUser(exit), Serves(exec[c].id)
        PROVE  exec[c].user \in exec[c].ran
    BY <2>1, <2>3 DEF ExitOf, SaysNoUser
  <2>4. ASSUME exec[c].user = "root", Serves(exec[c].id)
        PROVE  exec[c].user \in exec[c].ran
    BY <2>1, <2>4
  <2>5. CASE Goes(c, "done", exec[c].ran) /\ exec[c].user = "root"
    BY <1>0, <2>1, <2>4, <2>5 DEF Goes
  <2>6. CASE Goes(c, "absent", exec[c].ran)
    BY <1>0, <2>1, <2>6 DEF Goes
  <2>7. ASSUME NEW exit \in ExitOf(c), ~SaysNoUser(exit), Goes(c, "present", exec[c].ran)
        PROVE  ResultInv'
    BY <1>0, <2>1, <2>3, <2>7 DEF Goes
  <2> QED
    BY <1>6, <2>2, <2>5, <2>6, <2>7 DEF ExecInspect
<1>7. ASSUME NEW c \in Callers, Remember(c) PROVE ResultInv'
  BY <1>0, <1>7 DEF Remember, Goes, Fails
<1>8. ASSUME NEW c \in Callers, Takes(c) PROVE ResultInv'
  BY <1>0, <1>8 DEF Takes
<1>9. ASSUME NEW c \in Callers, CallerEnds(c) PROVE ResultInv'
  BY <1>1, <1>9 DEF CallerEnds
<1>10. ASSUME NEW id \in Ids, DestroyStep(id) \/ ExecDies(id) PROVE ResultInv'
  BY <1>1, <1>10 DEF DestroyStep, DestroyStops, DestroyRemoves, DestroyDrops, ExecDies
<1> QED
  BY <1>1, <1>2, <1>3, <1>4, <1>5, <1>6, <1>7, <1>8, <1>9, <1>10
     DEF ExecNext, ExecStep, execVars

(***************************************************************************)
(* Where nothing but a missing user keeps a command from starting, Exec    *)
(* never hands back a result for a command that did not run, whatever      *)
(* fails on the way, whatever the command prints (docker.go:290-319).      *)
(***************************************************************************)
THEOREM ResultsAreReal == ExecSpec => []ResultIsOfARun
<1>1. ExecInit => ResultInv
  BY DEF ExecInit, ResultInv, Attached, ResultIsOfARun
<1>2. ResultInv /\ [ExecNext]_execVars => ResultInv'
  BY ResultStep
<1>3. ResultInv => ResultIsOfARun
  BY DEF ResultInv
<1> QED
  BY <1>1, <1>2, <1>3, PTL DEF ExecSpec

-----------------------------------------------------------------------------
USE DEF DriverTyped

\* The call can start nothing any more: its container or its context is gone.
Spent(c) == ~Running(exec[c].id) \/ c \in ended

\* Only forge's answer is remembered.
ForgeIsLookedAt ==
    \A c \in Callers : exec[c].pc \in {"absent", "present"} => exec[c].user = "forge"

FailInv == DriverTyped /\ ForgeIsLookedAt /\ FailsOnlySpent

LEMMA FailStep ==
    ASSUME "docker" \notin Faults, FailInv, [ExecNext]_execVars
    PROVE  FailInv'
<1> USE DEF FailInv, ForgeIsLookedAt, FailsOnlySpent, Running
<1>0. DriverTyped'
  BY DriverTypedStep
<1>1. ASSUME UNCHANGED exec, ended \subseteq ended',
             \A id \in Ids : Running(id)' => Running(id)
      PROVE  FailInv'
  BY <1>0, <1>1
<1>2. ASSUME NEW c \in Callers, Calls(c) PROVE FailInv'
  BY <1>0, <1>2 DEF Calls, Begin
<1>3. ASSUME NEW c \in Callers, ExecCreate(c) PROVE FailInv'
  BY <1>0, <1>3 DEF ExecCreate, Unanswered, CallerAlive, May, Goes, Fails
<1>4. ASSUME NEW c \in Callers, ExecAttach(c) PROVE FailInv'
  <2>1. Started(c) \subseteq SUBSET Users
    BY DEF Started
  <2> QED
    BY <1>0, <1>4, <2>1 DEF ExecAttach, Unanswered, CallerAlive, May, Goes, Fails
<1>5. ASSUME NEW c \in Callers, StreamEnds(c) PROVE FailInv'
  BY <1>0, <1>5 DEF StreamEnds, Goes
<1>6. ASSUME NEW c \in Callers, ExecInspect(c) PROVE FailInv'
  BY <1>0, <1>6 DEF ExecInspect, CallerAlive, Exists, May, Goes, Fails
<1>7. ASSUME NEW c \in Callers, Remember(c) PROVE FailInv'
  BY <1>0, <1>7 DEF Remember, Goes, Fails
<1>8. ASSUME NEW c \in Callers, Takes(c) PROVE FailInv'
  BY <1>0, <1>8 DEF Takes
<1>9. ASSUME NEW c \in Callers, CallerEnds(c) PROVE FailInv'
  BY <1>1, <1>9 DEF CallerEnds
<1>10. ASSUME NEW id \in Ids, DestroyStep(id) \/ ExecDies(id) PROVE FailInv'
  <2>1. \A i \in Ids : Running(i)' => Running(i)
    BY <1>10, DestroySteps
  <2> QED
    BY <1>1, <1>10, <2>1 DEF DestroyStep, DestroyStops, DestroyRemoves, DestroyDrops, ExecDies
<1>11. CASE UNCHANGED execVars
  BY <1>1, <1>11 DEF execVars
<1> QED
  BY <1>2, <1>3, <1>4, <1>5, <1>6, <1>7, <1>8, <1>9, <1>10, <1>11 DEF ExecNext, ExecStep

(***************************************************************************)
(* When the daemon answers, no image, no cache entry and no race with      *)
(* other calls or with Destroy makes Exec fail: its caller has left, or    *)
(* its container has stopped (docker.go:279-319).                          *)
(***************************************************************************)
THEOREM FailsWhenSpent ==
    ASSUME "docker" \notin Faults
    PROVE  ExecSpec => []FailsOnlySpent
<1>1. ExecInit => FailInv
  BY DEF ExecInit, FailInv, ForgeIsLookedAt, FailsOnlySpent
<1>2. FailInv /\ [ExecNext]_execVars => FailInv'
  BY FailStep
<1>3. FailInv => FailsOnlySpent
  BY DEF FailInv
<1> QED
  BY <1>1, <1>2, <1>3, PTL DEF ExecSpec

-----------------------------------------------------------------------------
(***************************************************************************)
(* No sandbox with a forge user is remembered, or about to be, as one that *)
(* lacks it.  An entry written after Destroy dropped it is as right as any *)
(* other.                                                                  *)
(***************************************************************************)
MissingIsTrue ==
    /\ \A id \in Ids : hasForgeUser[id] = "no" => id \notin WithForge
    /\ \A c \in Callers : exec[c].pc = "absent" => exec[c].id \notin WithForge

CacheInv == DriverTyped /\ MissingIsTrue

\* Without impostors, only a missing user reads as one.
LEMMA SaysNoUserTruly ==
    ASSUME "impostor" \notin Exits, NEW c \in Callers, NEW exit \in ExitOf(c),
           SaysNoUser(exit)
    PROVE  /\ ~HasUser(exec[c].id, exec[c].user)
           /\ exec[c].user \notin exec[c].ran
  BY DriverExecAssumption DEF ExitOf, SaysNoUser, ExitKinds

LEMMA CacheStep ==
    ASSUME "impostor" \notin Exits, CacheInv, [ExecNext]_execVars
    PROVE  CacheInv'
<1> USE DEF CacheInv, MissingIsTrue
<1>0. DriverTyped'
  BY DriverTypedStep
<1>1. CASE UNCHANGED <<exec, hasForgeUser>>
  BY <1>0, <1>1
<1>2. ASSUME NEW c \in Callers, Calls(c) \/ Takes(c) PROVE CacheInv'
  BY <1>0, <1>2 DEF Calls, Begin, Takes
<1>3. ASSUME NEW c \in Callers, ExecCreate(c) \/ StreamEnds(c) PROVE CacheInv'
  BY <1>0, <1>3 DEF ExecCreate, StreamEnds, Goes, Fails
<1>4. ASSUME NEW c \in Callers, ExecAttach(c) PROVE CacheInv'
  BY <1>0, <1>4 DEF ExecAttach, Goes, Fails
<1>5. ASSUME NEW c \in Callers, ExecInspect(c) PROVE CacheInv'
  <2>1. ASSUME NEW exit \in ExitOf(c), SaysNoUser(exit) PROVE exec[c].id \notin WithForge
    BY <2>1, SaysNoUserTruly DEF HasUser
  <2>2. CASE Fails(c, exec[c].ran)
    BY <1>0, <1>5, <2>2 DEF ExecInspect, Fails
  <2>3. CASE Goes(c, "done", exec[c].ran) \/ Goes(c, "present", exec[c].ran)
    BY <1>0, <1>5, <2>3 DEF ExecInspect, Goes
  <2>4. CASE Goes(c, "absent", exec[c].ran) /\ exec[c].id \notin WithForge
    BY <1>0, <1>5, <2>4 DEF ExecInspect, Goes
  <2> QED
    BY <1>5, <2>1, <2>2, <2>3, <2>4 DEF ExecInspect
<1>6. ASSUME NEW c \in Callers, Remember(c) PROVE CacheInv'
  BY <1>0, <1>6 DEF Remember, Learn, Goes, Fails
<1>7. ASSUME NEW id \in Ids, DestroyDrops(id) PROVE CacheInv'
  BY <1>0, <1>7 DEF DestroyDrops, Learn
<1> QED
  BY <1>1, <1>2, <1>3, <1>4, <1>5, <1>6, <1>7
     DEF ExecNext, execVars, ExecStep, CallerEnds, DestroyStep, DestroyStops,
         DestroyRemoves, ExecDies

(***************************************************************************)
(* In a sandbox with a forge user an attempt as root is one that cannot    *)
(* start anything; elsewhere an attempt as forge starts nothing.           *)
(***************************************************************************)
RootIsSpent ==
    \A c \in Callers :
        (exec[c].id \in WithForge /\ exec[c].user = "root") =>
            \/ exec[c].pc = "failed"
            \/ exec[c].pc \in {"create", "attach"} /\ Spent(c)

MeantInv == CacheInv /\ RanAsMeant /\ RootIsSpent

\* An attempt that fails without an error of the daemon's leaves c spent.
LEMMA FailsSpent ==
    ASSUME MeantInv, DriverTyped', NEW c \in Callers, exec[c].pc # "idle",
           exec[c].id \notin WithForge \/ Spent(c),
           Fails(c, exec[c].ran), UNCHANGED <<container, ended>>
    PROVE  RanAsMeant' /\ RootIsSpent'
<1> USE DEF MeantInv, Spent, Running
<1>1. \A d \in Callers : d # c => exec'[d] = exec[d]
  BY DEF Fails
<1>2. /\ exec'[c].id = exec[c].id
      /\ exec'[c].ran = exec[c].ran
      /\ exec'[c].pc \in {"create", "failed"}
  BY DEF Fails, CacheInv
<1> QED
  BY <1>1, <1>2 DEF RanAsMeant, RootIsSpent

LEMMA MeantStep ==
    ASSUME "impostor" \notin Exits, "docker" \notin Faults,
           MeantInv, [ExecNext]_execVars
    PROVE  MeantInv'
<1> USE DEF MeantInv
<1>0. CacheInv' /\ DriverTyped' /\ DriverTyped
  BY CacheStep DEF CacheInv
<1>1. ASSUME UNCHANGED exec, ended \subseteq ended',
             \A id \in Ids : Running(id)' => Running(id)
      PROVE  MeantInv'
  BY <1>0, <1>1 DEF RanAsMeant, RootIsSpent, Spent
<1>2. ASSUME NEW c \in Callers, Calls(c) PROVE MeantInv'
  <2>1. PICK id \in Ids : Begin(c, id)
    BY <1>2 DEF Calls
  <2>2. hasForgeUser[id] = "no" => id \notin WithForge
    BY DEF CacheInv, MissingIsTrue
  <2> QED
    BY <1>0, <1>2, <2>1, <2>2 DEF Calls, Begin, RanAsMeant, RootIsSpent, Spent, Running
<1>3. ASSUME NEW c \in Callers, ExecCreate(c) PROVE MeantInv'
  <2>1. CASE Answered(c) /\ Goes(c, "attach", exec[c].ran)
    BY <1>0, <1>3, <2>1 DEF ExecCreate, Answered, CallerAlive, Goes, RanAsMeant,
       RootIsSpent, Spent, Running
  <2>2. CASE Unanswered(c) /\ Fails(c, exec[c].ran)
    BY <1>0, <1>3, <2>2, FailsSpent DEF ExecCreate, Unanswered, CallerAlive, May, Spent
  <2> QED
    BY <1>3, <2>1, <2>2 DEF ExecCreate
<1>4. ASSUME NEW c \in Callers, ExecAttach(c) PROVE MeantInv'
  <2>0. exec[c].pc = "attach" /\ exec[c].id \in Ids
    BY <1>0, <1>4 DEF ExecAttach
  <2>1. ASSUME Answered(c), NEW ran \in Started(c)
        PROVE  /\ exec[c].id \in WithForge => exec[c].user = "forge"
               /\ ran \subseteq (IF exec[c].id \in WithForge THEN {"forge"} ELSE {"root"})
    BY <1>0, <2>0, <2>1 DEF Answered, CallerAlive, RootIsSpent, Spent, RanAsMeant,
       Started, CanStart, HasUser
  <2>2. ASSUME Answered(c), NEW ran \in Started(c), Goes(c, "copy", ran), UNCHANGED ended
        PROVE  MeantInv'
    BY <1>0, <1>4, <2>0, <2>1, <2>2 DEF ExecAttach, Goes, RanAsMeant, RootIsSpent,
       Spent, Running
  <2>3. CASE Unanswered(c) /\ Fails(c, exec[c].ran) /\ UNCHANGED ended
    BY <1>0, <1>4, <2>0, <2>3, FailsSpent DEF ExecAttach, Unanswered, CallerAlive, May,
       Spent
  <2>4. ASSUME Answered(c), NEW ran \in Started(c), Fails(c, ran), ended' = ended \cup {c}
        PROVE  MeantInv'
    BY <1>0, <1>4, <2>0, <2>1, <2>4 DEF ExecAttach, Fails, RanAsMeant, RootIsSpent,
       Spent, Running
  <2> QED
    BY <1>4, <2>2, <2>3, <2>4 DEF ExecAttach, May
<1>5. ASSUME NEW c \in Callers, StreamEnds(c) PROVE MeantInv'
  BY <1>0, <1>5 DEF StreamEnds, Goes, RanAsMeant, RootIsSpent, Spent, Running
<1>6. ASSUME NEW c \in Callers, ExecInspect(c) PROVE MeantInv'
  <2>0. exec[c].pc = "inspect" /\ exec[c].id \in Ids
    BY <1>0, <1>6 DEF ExecInspect
  <2>1. ASSUME NEW pc \in {"done", "absent", "present"}, Goes(c, pc, exec[c].ran)
        PROVE  MeantInv'
    BY <1>0, <1>6, <2>0, <2>1 DEF ExecInspect, Goes, RanAsMeant, RootIsSpent, Spent, Running
  <2>2. CASE Fails(c, exec[c].ran) /\ Spent(c)
    BY <1>0, <1>6, <2>0, <2>2, FailsSpent DEF ExecInspect
  <2> QED
    BY <1>6, <2>1, <2>2 DEF ExecInspect, CallerAlive, May, Spent, Running, Exists
<1>11. ASSUME NEW c \in Callers, Remember(c) PROVE MeantInv'
  <2>0. exec[c].pc \in {"absent", "present"} /\ exec[c].id \in Ids
    BY <1>0, <1>11 DEF Remember
  <2>1. CASE Goes(c, "done", exec[c].ran)
    BY <1>0, <1>11, <2>0, <2>1 DEF Remember, Goes, RanAsMeant, RootIsSpent, Spent, Running
  <2>2. CASE exec[c].pc = "absent" /\ Fails(c, exec[c].ran)
    <3>1. exec[c].id \notin WithForge
      BY <2>2 DEF CacheInv, MissingIsTrue
    <3> QED
      BY <1>0, <1>11, <2>0, <2>2, <3>1, FailsSpent DEF Remember
  <2> QED
    BY <1>11, <2>1, <2>2 DEF Remember
<1>7. ASSUME NEW c \in Callers, Takes(c) PROVE MeantInv'
  BY <1>0, <1>7, ServerProcessAssumption, DriverExecAssumption
     DEF Takes, RanAsMeant, RootIsSpent, Spent, Running
<1>8. ASSUME NEW c \in Callers, CallerEnds(c) PROVE MeantInv'
  BY <1>1, <1>8 DEF CallerEnds, Running
<1>9. ASSUME NEW id \in Ids, DestroyStep(id) \/ ExecDies(id) PROVE MeantInv'
  <2>1. \A i \in Ids : Running(i)' => Running(i)
    BY <1>0, <1>9, DestroySteps
  <2> QED
    BY <1>1, <1>9, <2>1 DEF DestroyStep, DestroyStops, DestroyRemoves, DestroyDrops, ExecDies
<1>10. CASE UNCHANGED execVars
  BY <1>1, <1>10 DEF execVars, Running
<1> QED
  BY <1>2, <1>3, <1>4, <1>5, <1>6, <1>7, <1>8, <1>9, <1>10, <1>11 DEF ExecNext, ExecStep

(***************************************************************************)
(* When the daemon answers every call, and no command prints what it would *)
(* print, a command is run by the user it is meant for and by no other,    *)
(* though callers leave and containers die and are destroyed under it.     *)
(***************************************************************************)
THEOREM RunsAsMeant ==
    ASSUME "impostor" \notin Exits, "docker" \notin Faults
    PROVE  ExecSpec => []RanAsMeant
<1>1. ExecInit => MeantInv
  BY DriverExecAssumption, ServerProcessAssumption
     DEF ExecInit, MeantInv, CacheInv, MissingIsTrue, RanAsMeant, RootIsSpent
<1>2. MeantInv /\ [ExecNext]_execVars => MeantInv'
  BY MeantStep
<1>3. MeantInv => RanAsMeant
  BY DEF MeantInv
<1> QED
  BY <1>1, <1>2, <1>3, PTL DEF ExecSpec

=============================================================================
