------------------------- MODULE AgentEngineProofs -------------------------
(***************************************************************************)
(* What is proved of agent runs, for every set of requests and sandboxes,  *)
(* every cap on iterations, retries and tool calls, and every fault.       *)
(***************************************************************************)
EXTENDS AgentEngine, DriverExecProofs, FiniteSetTheorems

USE DEF ServerType, ContainerType, ContainerStates, ExecType, ExecPcs, Users, NoExec,
        RunPcs, Tools, NoRun, NoStats, Keeps, Leads, ToolDone
USE AgentEngineAssumption

RunType == [pc : RunPcs, iteration : 0..MaxIterations, calls : 0..MaxCalls,
            tool : Tools, attempt : 0..MaxToolRetries, started : Nat,
            id : Ids \cup {NoId}]

(***************************************************************************)
(* What is true of a run on its own: a tool call has an attempt under way, *)
(* and each attempt before it started its command twice at most.           *)
(***************************************************************************)
Fits(r) ==
    /\ r \in RunType
    /\ r.pc # "idle" => r.id \in Ids
    /\ r.pc \notin {"idle", "loop"} => r.iteration >= 1
    /\ r.pc \in {"try", "exec"} => r.attempt >= 1 /\ r.started <= 2 * (r.attempt - 1)
    /\ r.pc = "backoff" => r.attempt \in 1..(MaxToolRetries - 1) /\ r.started <= 2 * r.attempt
    /\ r.pc \notin {"try", "exec", "backoff"} => r.started = 0

\* The driver works for a run only while its tool waits.
DriverFollows == \A c \in Callers : run[c].pc # "exec" => exec[c] = NoExec

Runs ==
    /\ run \in [Callers -> RunType]
    /\ \A c \in Callers : Fits(run[c])

LatestType == latest \in [run : Callers, iterations : 1..MaxIterations] \cup {NoStats}

AgentInv == DriverTyped /\ Runs /\ LatestType /\ DriverFollows

LEMMA AgentTyped == AgentInv => AgentTypeOK
  BY DEF AgentInv, DriverTyped, Runs, LatestType, RunType, AgentTypeOK

\* At most two users may have run a command.
LEMMA AtMostTwo ==
    ASSUME NEW ran \in SUBSET Users
    PROVE  Cardinality(ran) \in 0..2
<1>1. IsFiniteSet({"forge"}) /\ Cardinality({"forge"}) = 1
  BY FS_Singleton
<1>2. IsFiniteSet(Users) /\ Cardinality(Users) = 2
  <2>1. Users = {"forge"} \cup {"root"} /\ "root" \notin {"forge"}
    OBVIOUS
  <2> QED
    BY <1>1, <2>1, FS_AddElement
<1>3. IsFiniteSet(ran) /\ Cardinality(ran) <= Cardinality(Users)
  BY <1>2, FS_Subset
<1>4. Cardinality(ran) \in Nat
  BY <1>3, FS_CardinalityType
<1> QED
  BY <1>2, <1>3, <1>4

\* A step that replaces one run by one that fits.
LEMMA OneRun ==
    ASSUME AgentInv, NEW c \in Callers, NEW r, Fits(r),
           run' = [run EXCEPT ![c] = r],
           DriverTyped', LatestType',
           r.pc # "exec" => exec'[c] = NoExec,
           \A d \in Callers \ {c} : exec'[d] = exec[d]
    PROVE  AgentInv'
<1>1. Runs'
  BY DEF AgentInv, Runs, Fits
<1>2. DriverFollows'
  BY DEF AgentInv, Runs, DriverFollows
<1> QED
  BY <1>1, <1>2 DEF AgentInv

\* A step that leaves the driver and the statistics alone.
LEMMA OnlyRun ==
    ASSUME AgentInv, NEW c \in Callers, NEW r, Fits(r),
           run' = [run EXCEPT ![c] = r],
           UNCHANGED <<execVars, latest>>,
           r.pc # "exec" => exec[c] = NoExec
    PROVE  AgentInv'
<1>1. DriverTyped' /\ LatestType'
  BY DEF AgentInv, DriverTyped, LatestType, execVars
<1> QED
  BY <1>1, OneRun DEF execVars

\* The end of a run.
LEMMA EndsWell ==
    ASSUME AgentInv, NEW c \in Callers, run[c].pc # "exec", Ends(c), Keeps, LatestType'
    PROVE  AgentInv'
<1>1. Fits(NoRun)
  BY DEF Fits, RunType
<1>2. DriverTyped'
  BY DEF AgentInv, DriverTyped, Ends
<1>3. exec'[c] = NoExec
  BY DEF AgentInv, DriverFollows, Ends
<1> QED
  BY <1>1, <1>2, <1>3, OneRun DEF Ends

\* The end of a tool call.
LEMMA DoneFits ==
    ASSUME NEW r, Fits(r), r.pc \in {"try", "exec", "backoff"}
    PROVE  Fits([r EXCEPT !.pc = "tools", !.tool = "none", !.attempt = 0, !.started = 0])
<1> DEFINE done == [r EXCEPT !.pc = "tools", !.tool = "none", !.attempt = 0, !.started = 0]
<1>1. done \in RunType
  <2>1. 0 \in 0..MaxToolRetries /\ 0 \in Nat /\ "none" \in Tools /\ "tools" \in RunPcs
    OBVIOUS
  <2>2. r \in RunType
    BY DEF Fits
  <2> QED
    BY <2>1, <2>2, Zenon DEF RunType
<1>2. /\ done.pc = "tools" /\ done.started = 0
      /\ done.iteration = r.iteration /\ done.id = r.id
  BY DEF Fits, RunType
<1>3. r.pc \notin {"idle", "loop"}
  OBVIOUS
<1> HIDE DEF done
<1>4. Fits(done)
  BY <1>1, <1>2, <1>3 DEF Fits
<1> QED
  BY <1>4 DEF done

\* An attempt that failed: another one follows, or the call is done.
LEMMA ErrsFit ==
    ASSUME AgentInv, NEW c \in Callers, run[c].pc \in {"try", "exec"},
           NEW started \in Nat, started <= 2 * run[c].attempt,
           ToolErrs(c, started)
    PROVE  \E r : Fits(r) /\ r.pc # "exec" /\ run' = [run EXCEPT ![c] = r]
<1>1. Fits(run[c])
  BY DEF AgentInv, Runs
<1>2. CASE run[c].attempt < MaxToolRetries
  <2>1. Fits([run[c] EXCEPT !.pc = "backoff", !.started = started])
    <3> DEFINE r == [run[c] EXCEPT !.pc = "backoff", !.started = started]
    <3>1. r \in RunType
      BY <1>1 DEF Fits, RunType
    <3>2. /\ r.pc = "backoff" /\ r.started = started /\ r.attempt = run[c].attempt
          /\ r.iteration = run[c].iteration /\ r.id = run[c].id
      BY <1>1 DEF Fits, RunType
    <3>3. run[c].attempt \in 1..(MaxToolRetries - 1) /\ run[c].pc \notin {"idle", "loop"}
      BY <1>1, <1>2 DEF Fits, RunType
    <3> HIDE DEF r
    <3>4. Fits(r)
      BY <1>1, <3>1, <3>2, <3>3 DEF Fits
    <3> QED
      BY <3>4 DEF r
  <2>2. run' = [run EXCEPT ![c] = [run[c] EXCEPT !.pc = "backoff", !.started = started]]
    BY <1>2 DEF ToolErrs, AgentInv, Runs, RunType
  <2>3. [run[c] EXCEPT !.pc = "backoff", !.started = started].pc = "backoff"
    BY <1>1 DEF Fits, RunType
  <2> QED
    BY <2>1, <2>2, <2>3
<1>3. CASE ~(run[c].attempt < MaxToolRetries)
  <2> DEFINE r == [run[c] EXCEPT !.pc = "tools", !.tool = "none", !.attempt = 0, !.started = 0]
  <2>1. Fits(r)
    BY <1>1, DoneFits
  <2>2. run' = [run EXCEPT ![c] = r]
    BY <1>3 DEF ToolErrs, AgentInv, Runs, RunType
  <2>3. r.pc = "tools"
    BY <1>1 DEF Fits, RunType
  <2> QED
    BY <2>1, <2>2, <2>3
<1> QED
  BY <1>2, <1>3

\* A step of the driver for a call it has in hand.
LEMMA DriverWorks ==
    ASSUME AgentInv, NEW c \in Callers, ExecStep(c) \/ StreamEnds(c)
    PROVE  /\ DriverTyped'
           /\ exec[c].pc # "idle"
           /\ \A d \in Callers \ {c} : exec'[d] = exec[d]
<1> USE DEF AgentInv, DriverTyped
<1>1. CASE ExecCreate(c)
  BY <1>1, FailsTyped, GoesTyped DEF ExecCreate, Goes, Fails
<1>2. CASE ExecAttach(c)
  <2>1. Started(c) \subseteq SUBSET Users /\ exec[c].ran \in SUBSET Users
    BY DEF Started
  <2>2. DriverTyped'
    BY <1>2, <2>1, FailsTyped, GoesTyped DEF ExecAttach
  <2> QED
    BY <1>2, <2>2 DEF ExecAttach, Goes, Fails
<1>3. CASE ExecInspect(c) \/ Remember(c)
  <2>1. hasForgeUser' \in [Ids -> {"yes", "no", "unset"}]
    BY <1>3 DEF ExecInspect, Remember, Learn
  <2>2. DriverTyped'
    BY <1>3, <2>1, FailsTyped, GoesTyped DEF ExecInspect, Remember
  <2> QED
    BY <1>3, <2>2 DEF ExecInspect, Remember, Goes, Fails
<1>4. CASE StreamEnds(c)
  BY <1>4, GoesTyped DEF StreamEnds, Goes
<1> QED
  BY <1>1, <1>2, <1>3, <1>4 DEF ExecStep

\* A step of the driver alone.
LEMMA DriverStep ==
    ASSUME AgentInv, NEW c \in Callers, ExecStep(c) \/ StreamEnds(c),
           UNCHANGED <<run, latest>>
    PROVE  AgentInv'
<1>1. run[c].pc = "exec"
  BY DriverWorks DEF AgentInv, DriverFollows
<1>2. DriverFollows'
  BY <1>1, DriverWorks DEF AgentInv, DriverFollows
<1> QED
  BY <1>2, DriverWorks DEF AgentInv, Runs, LatestType

LEMMA RunStarts ==
    ASSUME AgentInv, NEW c \in Callers, StartRun(c)
    PROVE  AgentInv'
<1>1. PICK id \in Ids : run' = [run EXCEPT ![c] = [NoRun EXCEPT !.pc = "loop", !.id = id]]
  BY DEF StartRun
<1>2. Fits([NoRun EXCEPT !.pc = "loop", !.id = id])
  <2> DEFINE r == [NoRun EXCEPT !.pc = "loop", !.id = id]
  <2>1. NoRun \in RunType /\ id \in Ids \cup {NoId} /\ "loop" \in RunPcs
    <3>1. 0 \in 0..MaxIterations /\ 0 \in 0..MaxCalls /\ 0 \in 0..MaxToolRetries
      OBVIOUS
    <3> QED
      BY <3>1 DEF RunType
  <2>2. r \in RunType
    BY <2>1, Zenon DEF RunType
  <2>3. r.pc = "loop" /\ r.started = 0 /\ r.id = id
    OBVIOUS
  <2> HIDE DEF r
  <2>4. Fits(r)
    BY <2>2, <2>3 DEF Fits
  <2> QED
    BY <2>4 DEF r
<1>3. exec[c] = NoExec
  BY DEF AgentInv, DriverFollows, StartRun
<1>4. UNCHANGED <<execVars, latest>>
  BY DEF StartRun, execVars
<1> HIDE DEF NoRun, NoExec
<1> QED
  BY <1>1, <1>2, <1>3, <1>4, OnlyRun

\* A run that goes on to another place of its loop fits there.
LEMMA LeadsFit ==
    ASSUME AgentInv, NEW c \in Callers, run[c].pc \notin {"idle", "try", "exec", "backoff"},
           NEW pc \in {"loop", "finish", "reply"}, Leads(c, pc),
           run[c].iteration >= 1
    PROVE  /\ Fits([run[c] EXCEPT !.pc = pc])
           /\ run' = [run EXCEPT ![c] = [run[c] EXCEPT !.pc = pc]]
           /\ [run[c] EXCEPT !.pc = pc].pc # "exec"
<1>1. Fits(run[c])
  BY DEF AgentInv, Runs
<1> DEFINE r == [run[c] EXCEPT !.pc = pc]
<1>2. /\ r \in RunType /\ r.pc = pc /\ r.started = run[c].started
      /\ r.iteration = run[c].iteration /\ r.id = run[c].id
  BY <1>1 DEF Fits, RunType
<1>3. run' = [run EXCEPT ![c] = r]
  BY DEF AgentInv, Runs, RunType
<1> HIDE DEF r
<1>4. Fits(r)
  BY <1>1, <1>2 DEF Fits
<1>5. r.pc # "exec"
  BY <1>2
<1> QED
  BY <1>3, <1>4, <1>5 DEF r

LEMMA RunIterates ==
    ASSUME AgentInv, NEW c \in Callers, Iterate(c)
    PROVE  AgentInv'
<1>1. Fits(run[c]) /\ run[c].pc = "loop" /\ exec[c] = NoExec
  BY DEF AgentInv, Runs, DriverFollows, Iterate
<1>2. CASE run[c].iteration = MaxIterations /\ Leads(c, "finish") /\ UNCHANGED <<exec, ended>>
  <2>1. run[c].iteration >= 1
    BY <1>2
  <2>2. UNCHANGED <<execVars, latest>>
    BY <1>2 DEF Iterate, execVars
  <2>3. /\ Fits([run[c] EXCEPT !.pc = "finish"])
        /\ run' = [run EXCEPT ![c] = [run[c] EXCEPT !.pc = "finish"]]
        /\ [run[c] EXCEPT !.pc = "finish"].pc # "exec"
    BY <1>1, <1>2, <2>1, LeadsFit
  <2> QED
    BY <1>1, <2>2, <2>3, OnlyRun
<1>3. CASE /\ run[c].iteration < MaxIterations
           /\ run' = [run EXCEPT ![c].pc = "chat", ![c].iteration = @ + 1]
           /\ UNCHANGED <<exec, ended>>
  <2> DEFINE r == [run[c] EXCEPT !.pc = "chat", !.iteration = @ + 1]
  <2>1. /\ r \in RunType /\ r.pc = "chat" /\ r.started = run[c].started
        /\ r.iteration >= 1 /\ r.id = run[c].id
    <3>1. run[c].iteration + 1 \in 0..MaxIterations /\ run[c].iteration + 1 >= 1
      BY <1>1, <1>3 DEF Fits, RunType
    <3> QED
      BY <1>1, <3>1 DEF Fits, RunType
  <2>2. run' = [run EXCEPT ![c] = r]
    BY <1>3 DEF AgentInv, Runs, RunType
  <2> HIDE DEF r
  <2>3. Fits(r)
    BY <1>1, <2>1 DEF Fits
  <2>4. UNCHANGED <<execVars, latest>>
    BY <1>3 DEF Iterate, execVars
  <2> QED
    BY <1>1, <2>1, <2>2, <2>3, <2>4, OnlyRun
<1>4. CASE Ends(c)
  BY <1>1, <1>4, EndsWell DEF Iterate, AgentInv, LatestType
<1> QED
  BY <1>2, <1>3, <1>4 DEF Iterate

LEMMA ModelAnswers ==
    ASSUME AgentInv, NEW c \in Callers, Chat(c)
    PROVE  AgentInv'
<1>1. Fits(run[c]) /\ run[c].pc = "chat" /\ exec[c] = NoExec
  BY DEF AgentInv, Runs, DriverFollows, Chat
<1>2. run[c].iteration >= 1
  BY <1>1 DEF Fits
<1>3. CASE Leads(c, "finish") /\ UNCHANGED <<exec, ended>>
  <2>1. UNCHANGED <<execVars, latest>>
    BY <1>3 DEF Chat, execVars
  <2>2. /\ Fits([run[c] EXCEPT !.pc = "finish"])
        /\ run' = [run EXCEPT ![c] = [run[c] EXCEPT !.pc = "finish"]]
        /\ [run[c] EXCEPT !.pc = "finish"].pc # "exec"
    BY <1>1, <1>2, <1>3, LeadsFit
  <2> QED
    BY <1>1, <2>1, <2>2, OnlyRun
<1>4. ASSUME NEW n \in 1..MaxCalls, UNCHANGED <<exec, ended>>,
             run' = [run EXCEPT ![c].pc = "tools", ![c].calls = n]
      PROVE  AgentInv'
  <2> DEFINE r == [run[c] EXCEPT !.pc = "tools", !.calls = n]
  <2>1. r \in RunType
    <3>1. n \in 0..MaxCalls /\ "tools" \in RunPcs /\ run[c] \in RunType
      BY <1>1 DEF Fits
    <3> QED
      BY <3>1, Zenon DEF RunType
  <2>5. /\ r.pc = "tools" /\ r.started = run[c].started
        /\ r.iteration = run[c].iteration /\ r.id = run[c].id
    BY <1>1 DEF Fits, RunType
  <2>2. run' = [run EXCEPT ![c] = r]
    BY <1>4 DEF AgentInv, Runs, RunType
  <2> HIDE DEF r
  <2>3. Fits(r)
    BY <1>1, <2>1, <2>5 DEF Fits
  <2>4. UNCHANGED <<execVars, latest>>
    BY <1>4 DEF Chat, execVars
  <2> QED
    BY <1>1, <2>2, <2>3, <2>4, <2>5, OnlyRun
<1>5. CASE Ends(c)
  BY <1>1, <1>5, EndsWell DEF Chat, AgentInv, LatestType
<1> QED
  BY <1>3, <1>4, <1>5 DEF Chat

LEMMA ToolCalled ==
    ASSUME AgentInv, NEW c \in Callers, CallTool(c)
    PROVE  AgentInv'
<1>1. Fits(run[c]) /\ run[c].pc = "tools" /\ exec[c] = NoExec
  BY DEF AgentInv, Runs, DriverFollows, CallTool
<1>2. run[c].iteration >= 1 /\ run[c] \in RunType
  BY <1>1 DEF Fits
<1>3. UNCHANGED <<execVars, latest>>
  BY DEF CallTool, execVars
<1>4. CASE Leads(c, "loop")
  <2>1. /\ Fits([run[c] EXCEPT !.pc = "loop"])
        /\ run' = [run EXCEPT ![c] = [run[c] EXCEPT !.pc = "loop"]]
        /\ [run[c] EXCEPT !.pc = "loop"].pc # "exec"
    BY <1>1, <1>2, <1>4, LeadsFit
  <2> QED
    BY <1>1, <1>3, <2>1, OnlyRun
<1>5. CASE run[c].calls > 0 /\ run' = [run EXCEPT ![c].calls = @ - 1]
  <2> DEFINE r == [run[c] EXCEPT !.calls = @ - 1]
  <2>1. r \in RunType
    <3>1. run[c].calls - 1 \in 0..MaxCalls
      BY <1>2, <1>5 DEF RunType
    <3> QED
      BY <1>2, <3>1, Zenon DEF RunType
  <2>2. /\ r.pc = "tools" /\ r.started = run[c].started
        /\ r.iteration = run[c].iteration /\ r.id = run[c].id
    BY <1>1, <1>2 DEF RunType
  <2>3. run' = [run EXCEPT ![c] = r]
    BY <1>5 DEF AgentInv, Runs, RunType
  <2> HIDE DEF r
  <2>4. Fits(r)
    BY <1>1, <2>1, <2>2 DEF Fits
  <2> QED
    BY <1>1, <1>3, <2>2, <2>3, <2>4, OnlyRun
<1>6. ASSUME run[c].calls > 0, NEW tool \in Tools \ {"none"},
             run' = [run EXCEPT ![c].pc = "try", ![c].calls = @ - 1, ![c].tool = tool,
                                ![c].attempt = 1, ![c].started = 0]
      PROVE  AgentInv'
  <2> DEFINE r == [run[c] EXCEPT !.pc = "try", !.calls = @ - 1, !.tool = tool,
                                 !.attempt = 1, !.started = 0]
  <2>1. r \in RunType
    <3>1. /\ run[c].calls - 1 \in 0..MaxCalls
          /\ 1 \in 0..MaxToolRetries /\ 0 \in Nat /\ "try" \in RunPcs
      BY <1>2, <1>6 DEF RunType
    <3> QED
      BY <1>2, <3>1, Zenon DEF RunType
  <2>2. /\ r.pc = "try" /\ r.started = 0 /\ r.attempt = 1
        /\ r.iteration = run[c].iteration /\ r.id = run[c].id
    BY <1>1, <1>2 DEF RunType
  <2>3. run' = [run EXCEPT ![c] = r]
    BY <1>6 DEF AgentInv, Runs, RunType
  <2> HIDE DEF r
  <2>4. Fits(r)
    BY <1>1, <2>1, <2>2 DEF Fits
  <2> QED
    BY <1>1, <1>3, <2>2, <2>3, <2>4, OnlyRun
<1> QED
  BY <1>4, <1>5, <1>6 DEF CallTool

\* A tool call ends.
LEMMA ToolEnds ==
    ASSUME AgentInv, NEW c \in Callers, run[c].pc \in {"try", "exec", "backoff"},
           ToolDone(c)
    PROVE  \E r : Fits(r) /\ r.pc # "exec" /\ run' = [run EXCEPT ![c] = r]
<1> DEFINE r == [run[c] EXCEPT !.pc = "tools", !.tool = "none", !.attempt = 0, !.started = 0]
<1>1. Fits(run[c])
  BY DEF AgentInv, Runs
<1>2. Fits(r)
  BY <1>1, DoneFits
<1>3. run' = [run EXCEPT ![c] = r]
  BY DEF AgentInv, Runs, RunType
<1>4. r.pc = "tools"
  BY <1>1 DEF Fits, RunType
<1> QED
  BY <1>2, <1>3, <1>4

LEMMA ToolTried ==
    ASSUME AgentInv, NEW c \in Callers, Try(c)
    PROVE  AgentInv'
<1>1. Fits(run[c]) /\ run[c].pc = "try" /\ exec[c] = NoExec
  BY DEF AgentInv, Runs, DriverFollows, Try
<1>2. run[c] \in RunType /\ run[c].id \in Ids
  BY <1>1 DEF Fits
<1>3. UNCHANGED <<container, server, hasForgeUser, destroying, ended, latest>>
  BY DEF Try
<1>4. CASE ToolDone(c) /\ UNCHANGED exec
  <2>1. PICK r : Fits(r) /\ r.pc # "exec" /\ run' = [run EXCEPT ![c] = r]
    BY <1>1, <1>4, ToolEnds
  <2> QED
    BY <1>1, <1>3, <1>4, <2>1, OnlyRun DEF execVars
<1>5. CASE ToolErrs(c, run[c].started) /\ UNCHANGED exec
  <2>1. run[c].started \in Nat /\ run[c].started <= 2 * run[c].attempt
    BY <1>1, <1>2 DEF Fits, RunType
  <2>2. PICK r : Fits(r) /\ r.pc # "exec" /\ run' = [run EXCEPT ![c] = r]
    BY <1>1, <1>5, <2>1, ErrsFit
  <2> QED
    BY <1>1, <1>3, <1>5, <2>2, OnlyRun DEF execVars
<1>6. CASE Begin(c, run[c].id) /\ Leads(c, "exec")
  <2> DEFINE r == [run[c] EXCEPT !.pc = "exec"]
  <2>1. /\ r \in RunType /\ r.pc = "exec" /\ r.started = run[c].started
        /\ r.attempt = run[c].attempt
        /\ r.iteration = run[c].iteration /\ r.id = run[c].id
    BY <1>2 DEF RunType
  <2>2. run' = [run EXCEPT ![c] = r]
    BY <1>6 DEF AgentInv, Runs, RunType
  <2> HIDE DEF r
  <2>3. Fits(r)
    BY <1>1, <2>1 DEF Fits
  <2>4. DriverTyped' /\ LatestType'
    BY <1>2, <1>3, <1>6 DEF AgentInv, DriverTyped, LatestType, Begin
  <2>5. \A d \in Callers \ {c} : exec'[d] = exec[d]
    BY <1>6 DEF Begin, AgentInv, DriverTyped
  <2> QED
    BY <2>1, <2>2, <2>3, <2>4, <2>5, OneRun
<1> QED
  BY <1>4, <1>5, <1>6 DEF Try, StubAnswers, CopiesFile, Refuses, RunsCommand

LEMMA ToolAnswers ==
    ASSUME AgentInv, NEW c \in Callers, ToolReturns(c)
    PROVE  AgentInv'
<1>1. Fits(run[c]) /\ run[c].pc = "exec"
  BY DEF AgentInv, Runs, ToolReturns
<1>2. exec[c].ran \in SUBSET Users
  BY DEF AgentInv, DriverTyped
<1> DEFINE started == run[c].started + Cardinality(exec[c].ran)
<1>3. started \in Nat /\ started <= 2 * run[c].attempt
  <2>1. Cardinality(exec[c].ran) \in 0..2
    BY <1>2, AtMostTwo
  <2> QED
    BY <1>1, <2>1 DEF Fits, RunType
<1>4. /\ exec' = [exec EXCEPT ![c] = NoExec]
      /\ UNCHANGED <<container, server, hasForgeUser, destroying, ended, latest>>
  BY DEF ToolReturns
<1>5. ToolDone(c) \/ ToolErrs(c, started)
  BY DEF ToolReturns
<1> HIDE DEF started
<1>6. PICK r : Fits(r) /\ r.pc # "exec" /\ run' = [run EXCEPT ![c] = r]
  BY <1>1, <1>3, <1>5, ToolEnds, ErrsFit
<1>7. DriverTyped' /\ LatestType'
  BY <1>4 DEF AgentInv, DriverTyped, LatestType
<1>8. exec'[c] = NoExec /\ \A d \in Callers \ {c} : exec'[d] = exec[d]
  BY <1>4 DEF AgentInv, DriverTyped
<1> QED
  BY <1>6, <1>7, <1>8, OneRun

LEMMA BacksOff ==
    ASSUME AgentInv, NEW c \in Callers, BackOff(c)
    PROVE  AgentInv'
<1>1. Fits(run[c]) /\ run[c].pc = "backoff" /\ exec[c] = NoExec
  BY DEF AgentInv, Runs, DriverFollows, BackOff
<1>2. run[c] \in RunType
  BY <1>1 DEF Fits
<1>3. UNCHANGED <<execVars, latest>>
  BY DEF BackOff, execVars
<1>4. CASE run' = [run EXCEPT ![c].pc = "try", ![c].attempt = @ + 1]
  <2> DEFINE r == [run[c] EXCEPT !.pc = "try", !.attempt = @ + 1]
  <2>1. run[c].attempt \in 1..(MaxToolRetries - 1) /\ run[c].started <= 2 * run[c].attempt
    BY <1>1 DEF Fits
  <2>2. r \in RunType
    <3>1. run[c].attempt + 1 \in 0..MaxToolRetries /\ "try" \in RunPcs
      BY <2>1
    <3> QED
      BY <1>2, <3>1, Zenon DEF RunType
  <2>3. /\ r.pc = "try" /\ r.started = run[c].started /\ r.attempt = run[c].attempt + 1
        /\ r.iteration = run[c].iteration /\ r.id = run[c].id
    BY <1>2 DEF RunType
  <2>4. run' = [run EXCEPT ![c] = r]
    BY <1>4 DEF AgentInv, Runs, RunType
  <2> HIDE DEF r
  <2>5. Fits(r)
    BY <1>1, <2>1, <2>2, <2>3 DEF Fits
  <2> QED
    BY <1>1, <1>3, <2>3, <2>4, <2>5, OnlyRun
<1>5. CASE ToolDone(c)
  <2>1. PICK r : Fits(r) /\ r.pc # "exec" /\ run' = [run EXCEPT ![c] = r]
    BY <1>1, <1>5, ToolEnds
  <2> QED
    BY <1>1, <1>3, <2>1, OnlyRun
<1> QED
  BY <1>4, <1>5 DEF BackOff

LEMMA RunRecords ==
    ASSUME AgentInv, NEW c \in Callers, Record(c)
    PROVE  AgentInv'
<1>1. Fits(run[c]) /\ run[c].pc = "finish" /\ exec[c] = NoExec
  BY DEF AgentInv, Runs, DriverFollows, Record
<1>2. run[c].iteration \in 1..MaxIterations
  BY <1>1 DEF Fits, RunType
<1>3. /\ Fits([run[c] EXCEPT !.pc = "reply"])
      /\ run' = [run EXCEPT ![c] = [run[c] EXCEPT !.pc = "reply"]]
      /\ [run[c] EXCEPT !.pc = "reply"].pc # "exec"
  <2>1. Leads(c, "reply") /\ run[c].iteration >= 1
    BY <1>2 DEF Record
  <2> QED
    BY <1>1, <2>1, LeadsFit
<1>4. DriverTyped' /\ LatestType'
  BY <1>2 DEF Record, AgentInv, DriverTyped, LatestType
<1>5. exec' = exec
  BY DEF Record
<1> QED
  BY <1>1, <1>3, <1>4, <1>5, OneRun

\* Every step keeps the invariant.
LEMMA AgentStep ==
    ASSUME AgentInv, [AgentNext]_agentVars
    PROVE  AgentInv'
<1>1. CASE UNCHANGED agentVars
  BY <1>1 DEF agentVars, execVars, AgentInv, DriverTyped, Runs, LatestType, DriverFollows
<1>2. ASSUME NEW c \in Callers, Reply(c) PROVE AgentInv'
  BY <1>2, EndsWell DEF Reply, AgentInv, LatestType
<1>3. ASSUME NEW c \in Callers, RunContextEnds(c) PROVE AgentInv'
  BY <1>3 DEF RunContextEnds, AgentInv, DriverTyped, Runs, LatestType, DriverFollows
<1>4. ASSUME NEW c \in Callers, StartRun(c) \/ Advance(c) \/ CommandEnds(c)
      PROVE  AgentInv'
  BY <1>2, <1>4, RunStarts, RunIterates, ModelAnswers, ToolCalled, ToolTried, ToolAnswers,
     BacksOff, RunRecords, DriverStep DEF Advance, CommandEnds
<1>5. CASE Environment
  <2>1. PICK id \in Ids : DestroyStep(id) \/ ExecDies(id)
    BY <1>5 DEF Environment
  <2>2. ContainerType'
    BY <2>1, DestroySteps DEF AgentInv, DriverTyped
  <2>3. DriverTyped' /\ UNCHANGED <<exec, run, latest>>
    BY <1>5, <2>1, <2>2 DEF Environment, AgentInv, DriverTyped, DestroyStep, DestroyStops,
       DestroyRemoves, DestroyDrops, ExecDies, Learn
  <2> QED
    BY <2>3 DEF AgentInv, Runs, LatestType, DriverFollows
<1> QED
  BY <1>1, <1>3, <1>4, <1>5 DEF AgentNext

LEMMA AgentStarts == AgentInit => AgentInv
<1> SUFFICES ASSUME AgentInit PROVE AgentInv
  OBVIOUS
<1>1. DriverTyped /\ LatestType /\ DriverFollows
  BY DEF AgentInit, ExecInit, DriverTyped, LatestType, DriverFollows
<1>2. NoRun \in RunType
  <2>1. 0 \in 0..MaxIterations /\ 0 \in 0..MaxCalls /\ 0 \in 0..MaxToolRetries
    OBVIOUS
  <2> QED
    BY <2>1 DEF RunType
<1>3. Runs
  BY <1>2 DEF AgentInit, Runs, Fits
<1> QED
  BY <1>1, <1>3 DEF AgentInv

(***************************************************************************)
(* Types hold throughout: iterations, tool calls and attempts stay within  *)
(* their caps, whatever the daemon and the model answer (agent.go:74-188). *)
(***************************************************************************)
THEOREM AgentTypeCorrect == AgentSpec => []AgentTypeOK
<1>1. AgentInv /\ [AgentNext]_agentVars => AgentInv'
  BY AgentStep
<1> QED
  BY AgentStarts, AgentTyped, <1>1, PTL DEF AgentSpec

(***************************************************************************)
(* The two layers of retries start the command of one tool call at most    *)
(* twice per attempt (agent.go:167, docker.go:309-319), for every cap.     *)
(***************************************************************************)
THEOREM StartsStayBounded == AgentSpec => []StartsBounded
<1>1. AgentInv /\ [AgentNext]_agentVars => AgentInv'
  BY AgentStep
<1>2. ASSUME AgentInv, NEW c \in Callers PROVE Starts(c) <= 2 * MaxToolRetries
  <2>1. Fits(run[c]) /\ exec[c].ran \in SUBSET Users
    BY <1>2 DEF AgentInv, Runs, DriverTyped
  <2>2. Cardinality(exec[c].ran) \in 0..2
    BY <2>1, AtMostTwo
  <2>3. CASE run[c].pc = "exec"
    BY <2>1, <2>2, <2>3 DEF Fits, RunType, Starts
  <2>4. CASE run[c].pc # "exec"
    <3>1. exec[c].ran = {}
      BY <1>2, <2>4 DEF AgentInv, DriverFollows
    <3>2. Cardinality(exec[c].ran) = 0
      BY <3>1, FS_EmptySet
    <3> QED
      BY <2>1, <2>4, <3>2 DEF Fits, RunType, Starts
  <2> QED
    BY <2>3, <2>4
<1>3. AgentInv => StartsBounded
  BY <1>2 DEF StartsBounded
<1> QED
  BY AgentStarts, <1>1, <1>3, PTL DEF AgentSpec

(***************************************************************************)
(* Once the context of a run has ended, no step of it or of anyone else    *)
(* starts a command for it (docker.go:288-319, agent.go:113-187).          *)
(***************************************************************************)
THEOREM QuietOnceEnded == AgentSpec => QuietAfterDeadline
<1>1. AgentInv /\ [AgentNext]_agentVars => AgentInv'
  BY AgentStep
<1>2. ASSUME AgentInv, [AgentNext]_agentVars, NEW c \in Callers, c \in ended
      PROVE  exec'[c].ran \subseteq exec[c].ran
  <2>1. CASE UNCHANGED exec
    BY <2>1
  <2>2. ASSUME NEW d \in Callers, Ends(d) PROVE exec'[c].ran \subseteq exec[c].ran
    BY <2>1, <2>2 DEF Ends
  <2>3. ASSUME NEW d \in Callers, ExecStep(d) \/ StreamEnds(d)
        PROVE  exec'[c].ran \subseteq exec[c].ran
    <3>1. CASE d = c
      BY <1>2, <2>3, <3>1 DEF AgentInv, DriverTyped, ExecStep, ExecCreate, ExecAttach,
         ExecInspect, Remember, StreamEnds, Answered, CallerAlive, Goes, Fails
    <3>2. CASE d # c
      BY <1>2, <2>3, <3>2, DriverWorks
    <3> QED
      BY <3>1, <3>2
  <2>4. ASSUME NEW d \in Callers, Begin(d, run[d].id) \/ ToolReturns(d)
        PROVE  exec'[c].ran \subseteq exec[c].ran
    BY <1>2, <2>4 DEF AgentInv, DriverTyped, Begin, ToolReturns
  <2> QED
    BY <1>2, <2>1, <2>2, <2>3, <2>4
       DEF AgentNext, agentVars, execVars, StartRun, Advance, CommandEnds, RunContextEnds,
           Iterate, Chat, CallTool, Try, StubAnswers, CopiesFile, Refuses, RunsCommand,
           BackOff, Record, Reply, Environment, DestroyStep, DestroyStops, DestroyRemoves,
           DestroyDrops, ExecDies
<1>3. AgentInv /\ [AgentNext]_agentVars =>
         [\A c \in Callers : c \in ended => exec'[c].ran \subseteq exec[c].ran]_agentVars
  BY <1>2
<1> QED
  BY AgentStarts, <1>1, <1>3, PTL DEF AgentSpec, QuietAfterDeadline

-----------------------------------------------------------------------------
(***************************************************************************)
(* When the daemon answers: a call that has started its command and does   *)
(* not have its result can start nothing more, and a first attempt has     *)
(* started nothing as root.                                                *)
(***************************************************************************)
StartedIsSpent ==
    \A c \in Callers :
        /\ exec[c].user = "forge" => "root" \notin exec[c].ran
        /\ exec[c].pc = "absent" => exec[c].ran = {}
        /\ (exec[c].pc \in {"create", "attach", "failed"} /\ exec[c].ran # {}) => Spent(c)

LEMMA StartedStep ==
    ASSUME "impostor" \notin Exits, "docker" \notin Faults,
           MeantInv, StartedIsSpent, [ExecNext]_execVars
    PROVE  StartedIsSpent'
<1>0. DriverTyped /\ DriverTyped'
  BY DriverTypedStep DEF MeantInv, CacheInv
<1> USE DEF DriverTyped, Spent, Running
<1>1. ASSUME UNCHANGED exec, ended \subseteq ended',
             \A id \in Ids : Running(id)' => Running(id)
      PROVE  StartedIsSpent'
  BY <1>0, <1>1 DEF StartedIsSpent
<1>2. ASSUME NEW c \in Callers, Calls(c) PROVE StartedIsSpent'
  BY <1>0, <1>2 DEF Calls, Begin, StartedIsSpent
<1>3. ASSUME NEW c \in Callers, ExecCreate(c) PROVE StartedIsSpent'
  <2>1. CASE Goes(c, "attach", exec[c].ran)
    BY <1>0, <1>3, <2>1 DEF ExecCreate, Goes, StartedIsSpent
  <2>2. CASE Unanswered(c) /\ Fails(c, exec[c].ran)
    BY <1>0, <1>3, <2>2 DEF ExecCreate, Unanswered, CallerAlive, May, Fails, StartedIsSpent
  <2> QED
    BY <1>3, <2>1, <2>2 DEF ExecCreate
<1>4. ASSUME NEW c \in Callers, ExecAttach(c) PROVE StartedIsSpent'
  <2>1. ASSUME NEW ran \in Started(c), Goes(c, "copy", ran), UNCHANGED ended
        PROVE  StartedIsSpent'
    BY <1>0, <1>4, <2>1 DEF ExecAttach, Goes, Started, StartedIsSpent
  <2>2. CASE Unanswered(c) /\ Fails(c, exec[c].ran) /\ UNCHANGED ended
    BY <1>0, <1>4, <2>2 DEF ExecAttach, Unanswered, CallerAlive, May, Fails, StartedIsSpent
  <2>3. ASSUME NEW ran \in Started(c), Fails(c, ran), ended' = ended \cup {c}
        PROVE  StartedIsSpent'
    BY <1>0, <1>4, <2>3 DEF ExecAttach, Fails, StartedIsSpent
  <2> QED
    BY <1>4, <2>1, <2>2, <2>3 DEF ExecAttach, May
<1>5. ASSUME NEW c \in Callers, StreamEnds(c) PROVE StartedIsSpent'
  BY <1>0, <1>5 DEF StreamEnds, Goes, StartedIsSpent
<1>6. ASSUME NEW c \in Callers, ExecInspect(c) PROVE StartedIsSpent'
  <2>0. exec[c].pc = "inspect" /\ exec[c].id \in Ids
    BY <1>0, <1>6 DEF ExecInspect
  <2>1. CASE Goes(c, "done", exec[c].ran) \/ Goes(c, "present", exec[c].ran)
    BY <1>0, <1>6, <2>0, <2>1 DEF ExecInspect, Goes, StartedIsSpent
  <2>2. ASSUME NEW exit \in ExitOf(c), SaysNoUser(exit), exec[c].user # "root",
               Goes(c, "absent", exec[c].ran)
        PROVE  StartedIsSpent'
    <3>1. exec[c].ran = {}
      BY <1>0, <2>0, <2>2, SaysNoUserTruly DEF StartedIsSpent
    <3> QED
      BY <1>0, <1>6, <2>0, <2>2, <3>1 DEF ExecInspect, Goes, StartedIsSpent
  <2>3. CASE Fails(c, exec[c].ran) /\ Spent(c)
    BY <1>0, <1>6, <2>0, <2>3 DEF ExecInspect, Fails, StartedIsSpent
  <2> QED
    BY <1>6, <2>1, <2>2, <2>3 DEF ExecInspect, CallerAlive, Exists, May
<1>11. ASSUME NEW c \in Callers, Remember(c) PROVE StartedIsSpent'
  BY <1>0, <1>11 DEF Remember, Goes, Fails, StartedIsSpent
<1>7. ASSUME NEW c \in Callers, Takes(c) PROVE StartedIsSpent'
  BY <1>0, <1>7 DEF Takes, StartedIsSpent
<1>8. ASSUME NEW c \in Callers, CallerEnds(c) PROVE StartedIsSpent'
  BY <1>1, <1>8 DEF CallerEnds
<1>9. ASSUME NEW id \in Ids, DestroyStep(id) \/ ExecDies(id) PROVE StartedIsSpent'
  <2>1. \A i \in Ids : Running(i)' => Running(i)
    BY <1>0, <1>9, DestroySteps
  <2> QED
    BY <1>1, <1>9, <2>1 DEF DestroyStep, DestroyStops, DestroyRemoves, DestroyDrops, ExecDies
<1>10. CASE UNCHANGED execVars
  BY <1>1, <1>10 DEF execVars
<1> QED
  BY <1>2, <1>3, <1>4, <1>5, <1>6, <1>7, <1>8, <1>9, <1>10, <1>11 DEF ExecNext, ExecStep

\* The sandbox of the run is not running, or its context has ended.
RunSpent(c) == ~Running(run[c].id) \/ c \in ended

(***************************************************************************)
(* The driver works in the run's sandbox, and a bash call whose command    *)
(* has been started by an earlier attempt is only tried again in vain.     *)
(***************************************************************************)
RetriesInVain ==
    \A c \in Callers :
        /\ run[c].pc = "exec" => exec[c].id = run[c].id
        /\ (run[c].tool = "bash" /\ run[c].started > 0) =>
              run[c].started = 1 /\ exec[c].ran = {} /\ RunSpent(c)

OnceInv == AgentInv /\ MeantInv /\ StartedIsSpent /\ RetriesInVain

\* Whatever the step, a run that is spent stays so.
Fading ==
    /\ \A id \in Ids : Running(id)' => Running(id)
    /\ \A c \in Callers : c \in ended /\ run'[c].pc # "idle" => c \in ended'

\* The run only goes on with the starts it has counted.
KeepsCount(c) ==
    /\ run'[c].pc = "exec" => run[c].pc = "exec" /\ run'[c].id = run[c].id
    /\ (run'[c].tool = "bash" /\ run'[c].started > 0) =>
          /\ run[c].tool = "bash" /\ run'[c].started = run[c].started
          /\ run'[c].id = run[c].id /\ run'[c].pc # "idle"

LEMMA VainStays ==
    ASSUME AgentInv, RetriesInVain, Fading, UNCHANGED exec,
           \A c \in Callers : KeepsCount(c)
    PROVE  RetriesInVain'
<1> SUFFICES ASSUME NEW c \in Callers
             PROVE  /\ run'[c].pc = "exec" => exec'[c].id = run'[c].id
                    /\ (run'[c].tool = "bash" /\ run'[c].started > 0) =>
                          run'[c].started = 1 /\ exec'[c].ran = {} /\ RunSpent(c)'
  BY DEF RetriesInVain
<1>1. run[c].id \in Ids \cup {NoId} /\ run[c].started \in Nat /\ Fits(run[c])
  BY DEF AgentInv, Runs, RunType
<1>2. run'[c].pc = "exec" => exec'[c].id = run'[c].id
  BY DEF KeepsCount, RetriesInVain
<1>3. ASSUME run'[c].tool = "bash", run'[c].started > 0
      PROVE  run'[c].started = 1 /\ exec'[c].ran = {} /\ RunSpent(c)'
  <2>1. /\ run[c].tool = "bash" /\ run'[c].started = run[c].started
        /\ run'[c].id = run[c].id /\ run'[c].pc # "idle"
    BY <1>3 DEF KeepsCount
  <2>2. run[c].started = 1 /\ exec[c].ran = {} /\ RunSpent(c)
    BY <1>3, <2>1 DEF RetriesInVain
  <2>3. run[c].id \in Ids
    BY <1>1, <2>2 DEF Fits
  <2>4. RunSpent(c)'
    BY <2>1, <2>2, <2>3 DEF RunSpent, Fading
  <2> QED
    BY <2>1, <2>2, <2>4
<1> QED
  BY <1>2, <1>3

\* A step that changes one run, whose count it keeps.
LEMMA OneCount ==
    ASSUME AgentInv, NEW c \in Callers, NEW r, run' = [run EXCEPT ![c] = r],
           r.pc # "exec",
           (r.tool = "bash" /\ r.started > 0) =>
              /\ run[c].tool = "bash" /\ r.started = run[c].started
              /\ r.id = run[c].id /\ r.pc # "idle"
    PROVE  \A d \in Callers : KeepsCount(d)
<1>1. run'[c] = r /\ \A d \in Callers \ {c} : run'[d] = run[d]
  BY DEF AgentInv, Runs
<1>2. \A d \in Callers : run[d].started > 0 => run[d].pc # "idle"
  BY DEF AgentInv, Runs, Fits
<1> QED
  BY <1>1, <1>2 DEF KeepsCount

\* Steps of a run that leave the driver alone count no start.
LEMMA CountKept ==
    ASSUME AgentInv, NEW c \in Callers,
           \/ StartRun(c) \/ Iterate(c) \/ Chat(c) \/ CallTool(c) \/ BackOff(c)
           \/ Record(c) \/ Reply(c) \/ RunContextEnds(c)
           \/ Try(c) /\ ~Begin(c, run[c].id)
    PROVE  \A d \in Callers : KeepsCount(d)
<1>0. Fits(run[c]) /\ run[c] \in RunType
  BY DEF AgentInv, Runs
<1> USE DEF RunType
<1>1. CASE StartRun(c)
  <2>1. PICK id \in Ids : run' = [run EXCEPT ![c] = [NoRun EXCEPT !.pc = "loop", !.id = id]]
    BY <1>1 DEF StartRun
  <2> DEFINE r == [NoRun EXCEPT !.pc = "loop", !.id = id]
  <2>2. r.pc = "loop" /\ ~(r.started > 0)
    OBVIOUS
  <2> HIDE DEF r
  <2>3. run' = [run EXCEPT ![c] = r]
    BY <2>1 DEF r
  <2> QED
    BY <2>2, <2>3, OneCount
<1>2. CASE Ends(c)
  <2>1. NoRun.pc = "idle" /\ ~(NoRun.started > 0)
    OBVIOUS
  <2>2. run' = [run EXCEPT ![c] = NoRun]
    BY <1>2 DEF Ends
  <2> HIDE DEF NoRun
  <2> QED
    BY <2>1, <2>2, OneCount
<1>3. ASSUME NEW pc \in {"finish", "loop", "reply"}, Leads(c, pc),
             run[c].pc \notin {"try", "exec", "backoff"}
      PROVE  \A d \in Callers : KeepsCount(d)
  <2> DEFINE r == [run[c] EXCEPT !.pc = pc]
  <2>1. r.pc = pc /\ ~(r.started > 0)
    BY <1>0, <1>3 DEF Fits
  <2>2. run' = [run EXCEPT ![c] = r]
    BY <1>3 DEF AgentInv, Runs
  <2> HIDE DEF r
  <2> QED
    BY <1>3, <2>1, <2>2, OneCount
<1>4. CASE run' = [run EXCEPT ![c].pc = "chat", ![c].iteration = @ + 1] /\ run[c].pc = "loop"
  <2> DEFINE r == [run[c] EXCEPT !.pc = "chat", !.iteration = @ + 1]
  <2>1. r.pc = "chat" /\ ~(r.started > 0)
    BY <1>0, <1>4 DEF Fits
  <2>2. run' = [run EXCEPT ![c] = r]
    BY <1>4 DEF AgentInv, Runs
  <2> HIDE DEF r
  <2> QED
    BY <2>1, <2>2, OneCount
<1>5. ASSUME NEW n \in 1..MaxCalls, run[c].pc = "chat",
             run' = [run EXCEPT ![c].pc = "tools", ![c].calls = n]
      PROVE  \A d \in Callers : KeepsCount(d)
  <2> DEFINE r == [run[c] EXCEPT !.pc = "tools", !.calls = n]
  <2>1. r.pc = "tools" /\ ~(r.started > 0)
    BY <1>0, <1>5 DEF Fits
  <2>2. run' = [run EXCEPT ![c] = r]
    BY <1>5 DEF AgentInv, Runs
  <2> HIDE DEF r
  <2> QED
    BY <2>1, <2>2, OneCount
<1>6. CASE run[c].pc = "tools" /\ run' = [run EXCEPT ![c].calls = @ - 1]
  <2> DEFINE r == [run[c] EXCEPT !.calls = @ - 1]
  <2>1. r.pc = "tools" /\ ~(r.started > 0)
    BY <1>0, <1>6 DEF Fits
  <2>2. run' = [run EXCEPT ![c] = r]
    BY <1>6 DEF AgentInv, Runs
  <2> HIDE DEF r
  <2> QED
    BY <2>1, <2>2, OneCount
<1>7. ASSUME NEW tool \in Tools,
             run' = [run EXCEPT ![c].pc = "try", ![c].calls = @ - 1, ![c].tool = tool,
                                ![c].attempt = 1, ![c].started = 0]
      PROVE  \A d \in Callers : KeepsCount(d)
  <2> DEFINE r == [run[c] EXCEPT !.pc = "try", !.calls = @ - 1, !.tool = tool,
                                 !.attempt = 1, !.started = 0]
  <2>1. r.pc = "try" /\ ~(r.started > 0)
    BY <1>0
  <2>2. run' = [run EXCEPT ![c] = r]
    BY <1>7 DEF AgentInv, Runs
  <2> HIDE DEF r
  <2> QED
    BY <2>1, <2>2, OneCount
<1>8. CASE ToolDone(c)
  <2> DEFINE r == [run[c] EXCEPT !.pc = "tools", !.tool = "none", !.attempt = 0, !.started = 0]
  <2>1. r.pc = "tools" /\ ~(r.started > 0)
    BY <1>0
  <2>2. run' = [run EXCEPT ![c] = r]
    BY <1>8 DEF AgentInv, Runs
  <2> HIDE DEF r
  <2> QED
    BY <2>1, <2>2, OneCount
<1>9. CASE run' = [run EXCEPT ![c].pc = "backoff", ![c].started = run[c].started]
  <2> DEFINE r == [run[c] EXCEPT !.pc = "backoff", !.started = run[c].started]
  <2>1. r.pc = "backoff" /\ r.started = run[c].started /\ r.tool = run[c].tool /\ r.id = run[c].id
    BY <1>0
  <2>2. run' = [run EXCEPT ![c] = r]
    BY <1>9 DEF AgentInv, Runs
  <2> HIDE DEF r
  <2> QED
    BY <2>1, <2>2, OneCount
<1>10. CASE run' = [run EXCEPT ![c].pc = "try", ![c].attempt = @ + 1]
  <2> DEFINE r == [run[c] EXCEPT !.pc = "try", !.attempt = @ + 1]
  <2>1. r.pc = "try" /\ r.started = run[c].started /\ r.tool = run[c].tool /\ r.id = run[c].id
    BY <1>0
  <2>2. run' = [run EXCEPT ![c] = r]
    BY <1>10 DEF AgentInv, Runs
  <2> HIDE DEF r
  <2> QED
    BY <2>1, <2>2, OneCount
<1>11. CASE RunContextEnds(c)
  BY <1>11 DEF RunContextEnds, KeepsCount, AgentInv, Runs, Fits
<1>12. ASSUME Iterate(c) \/ Chat(c) PROVE \A d \in Callers : KeepsCount(d)
  BY <1>2, <1>3, <1>4, <1>5, <1>12 DEF Iterate, Chat
<1>13. CASE CallTool(c)
  BY <1>3, <1>6, <1>7, <1>13 DEF CallTool
<1>14. CASE Try(c) /\ ~Begin(c, run[c].id)
  BY <1>8, <1>9, <1>14 DEF Try, StubAnswers, CopiesFile, Refuses, RunsCommand, ToolErrs
<1>15. CASE BackOff(c)
  BY <1>8, <1>10, <1>15 DEF BackOff
<1>16. CASE Record(c) \/ Reply(c)
  BY <1>2, <1>3, <1>16 DEF Record, Reply
<1> QED
  BY <1>1, <1>11, <1>12, <1>13, <1>14, <1>15, <1>16

\* Steps that leave the driver alone.
LEMMA OnceKept ==
    ASSUME "impostor" \notin Exits, "docker" \notin Faults, OnceInv, AgentInv',
           UNCHANGED execVars, \A c \in Callers : KeepsCount(c)
    PROVE  OnceInv'
<1>1. MeantInv' /\ StartedIsSpent'
  BY MeantStep, StartedStep DEF OnceInv
<1>2. Fading /\ UNCHANGED exec
  BY DEF Fading, execVars, Running
<1>3. RetriesInVain'
  BY <1>2, VainStays DEF OnceInv
<1> QED
  BY <1>1, <1>3 DEF OnceInv

\* Contexts come to their end, and go with their run.
LEMMA OnceEnds ==
    ASSUME OnceInv, AgentInv', NEW c \in Callers,
           UNCHANGED <<container, server, exec, hasForgeUser, destroying>>,
           \A d \in Callers : KeepsCount(d),
           \/ ended' = ended \cup {c}
           \/ ended' = ended \ {c} /\ exec[c] = NoExec /\ run'[c].pc = "idle"
    PROVE  OnceInv'
<1>0. exec[c] = NoExec => exec[c].id \notin WithForge /\ exec[c].ran = {}
  BY ServerProcessAssumption, DriverExecAssumption
<1>1. CacheInv' /\ RanAsMeant'
  BY DEF OnceInv, AgentInv, DriverTyped, MeantInv, CacheInv, MissingIsTrue, RanAsMeant
<1>2. \A d \in Callers : Spent(d) /\ ~(exec[d] = NoExec) => Spent(d)'
  BY DEF Spent, Running
<1>3. RootIsSpent'
  BY <1>0, <1>2 DEF OnceInv, MeantInv, RootIsSpent
<1>4. StartedIsSpent'
  BY <1>0, <1>2 DEF OnceInv, StartedIsSpent
<1>5. Fading
  BY DEF Fading, Running
<1>6. RetriesInVain'
  BY <1>5, VainStays DEF OnceInv
<1> QED
  BY <1>1, <1>3, <1>4, <1>6 DEF OnceInv, MeantInv

\* An attempt begins.
LEMMA OnceBegins ==
    ASSUME "impostor" \notin Exits, "docker" \notin Faults, OnceInv, AgentInv',
           NEW c \in Callers, Try(c), Begin(c, run[c].id), Leads(c, "exec")
    PROVE  OnceInv'
<1>1. run[c].pc = "try" /\ exec[c] = NoExec /\ run[c].id \in Ids
  BY DEF OnceInv, AgentInv, Runs, Fits, DriverFollows, Try
<1>2. Calls(c)
  BY <1>1 DEF Calls, Try
<1>3. MeantInv' /\ StartedIsSpent'
  BY <1>2, MeantStep, StartedStep DEF OnceInv, ExecNext
<1>4. exec'[c].id = run[c].id /\ exec'[c].ran = {} /\ \A d \in Callers \ {c} : exec'[d] = exec[d]
  BY DEF Begin, OnceInv, AgentInv, DriverTyped
<1>5. /\ run'[c].id = run[c].id /\ run'[c].tool = run[c].tool
      /\ run'[c].started = run[c].started
      /\ \A d \in Callers \ {c} : run'[d] = run[d]
  BY DEF OnceInv, AgentInv, Runs, RunType
<1>6. \A d \in Callers : RunSpent(d)' <=> RunSpent(d)
  BY <1>5 DEF RunSpent, Running, Try
<1>7. RetriesInVain'
  BY <1>4, <1>5, <1>6 DEF OnceInv, RetriesInVain
<1> QED
  BY <1>3, <1>7 DEF OnceInv

\* Exec returns: what a failed one has started is spent.
LEMMA OnceReturns ==
    ASSUME OnceInv, AgentInv', NEW c \in Callers, ToolReturns(c)
    PROVE  OnceInv'
<1>1. run[c].pc = "exec" /\ exec[c].id = run[c].id /\ Fits(run[c]) /\ exec[c].ran \in SUBSET Users
  BY DEF OnceInv, AgentInv, Runs, DriverTyped, RetriesInVain, ToolReturns
<1>2. /\ exec' = [exec EXCEPT ![c] = NoExec]
      /\ UNCHANGED <<container, server, hasForgeUser, destroying, ended>>
  BY DEF ToolReturns
<1>3. exec'[c] = NoExec /\ \A d \in Callers \ {c} : exec'[d] = exec[d]
  BY <1>2 DEF OnceInv, AgentInv, DriverTyped
<1>4. CacheInv'
  BY <1>2 DEF OnceInv, AgentInv, DriverTyped, MeantInv, CacheInv, MissingIsTrue
<1>5. RanAsMeant' /\ RootIsSpent' /\ StartedIsSpent'
  BY <1>2, <1>3, ServerProcessAssumption, DriverExecAssumption
     DEF OnceInv, MeantInv, RanAsMeant, RootIsSpent, StartedIsSpent, Spent, Running
<1>6. \A d \in Callers \ {c} : run'[d] = run[d]
  BY DEF ToolReturns, ToolErrs, OnceInv, AgentInv, Runs, RunType
<1>7. \A d \in Callers \ {c} : RunSpent(d)' <=> RunSpent(d)
  BY <1>2, <1>6 DEF RunSpent, Running
<1>8. run'[c].pc # "exec" /\ (run'[c].tool = "bash" /\ run'[c].started > 0) =>
          run'[c].started = 1 /\ exec'[c].ran = {} /\ RunSpent(c)'
  <2> DEFINE started == run[c].started + Cardinality(exec[c].ran)
  <2>1. CASE ToolDone(c)
    BY <2>1 DEF OnceInv, AgentInv, Runs, RunType
  <2>2. CASE exec[c].pc = "failed" /\ ToolErrs(c, started) /\ ~ToolDone(c)
    <3>1. run' = [run EXCEPT ![c].pc = "backoff", ![c].started = started]
      BY <2>2 DEF ToolErrs
    <3>2. /\ run'[c].tool = run[c].tool /\ run'[c].id = run[c].id
          /\ run'[c].started = started /\ run'[c].pc = "backoff"
      BY <3>1 DEF OnceInv, AgentInv, Runs, RunType
    <3>3. ASSUME run[c].tool = "bash", started > 0
          PROVE  started = 1 /\ RunSpent(c)
      <4>1. CASE run[c].started > 0
        <5>1. run[c].started = 1 /\ exec[c].ran = {} /\ RunSpent(c)
          BY <3>3, <4>1 DEF OnceInv, RetriesInVain
        <5>2. Cardinality(exec[c].ran) = 0
          BY <5>1, FS_EmptySet
        <5> QED
          BY <5>1, <5>2
      <4>2. CASE run[c].started = 0
        <5>1. Cardinality(exec[c].ran) \in 0..2
          BY <1>1, AtMostTwo
        <5>2. exec[c].ran # {}
          BY <3>3, <4>2, FS_EmptySet
        <5>3. exec[c].ran = {"forge"} \/ exec[c].ran = {"root"}
          BY <5>2 DEF OnceInv, MeantInv, RanAsMeant
        <5>4. Cardinality(exec[c].ran) = 1
          BY <5>3, FS_Singleton
        <5>5. Spent(c)
          BY <2>2, <5>2 DEF OnceInv, StartedIsSpent
        <5>6. RunSpent(c)
          BY <1>1, <5>5 DEF Spent, RunSpent
        <5> QED
          BY <4>2, <5>4, <5>6
      <4> QED
        BY <1>1, <4>1, <4>2 DEF Fits, RunType
    <3>4. RunSpent(c)' <=> RunSpent(c)
      BY <1>2, <3>2 DEF RunSpent, Running
    <3> HIDE DEF started
    <3> QED
      BY <1>3, <3>2, <3>3, <3>4
  <2>3. CASE run[c].tool = "write_file" /\ ToolErrs(c, started) /\ ~ToolDone(c)
    <3>1. run' = [run EXCEPT ![c].pc = "backoff", ![c].started = started]
      BY <2>3 DEF ToolErrs
    <3>2. run'[c].tool = "write_file" /\ run'[c].pc = "backoff"
      BY <2>3, <3>1 DEF OnceInv, AgentInv, Runs, RunType
    <3> QED
      BY <3>2
  <2> QED
    BY <2>1, <2>2, <2>3 DEF ToolReturns
<1>9. RetriesInVain'
  <2>1. run'[c].pc # "exec"
    BY DEF ToolReturns, ToolErrs, OnceInv, AgentInv, Runs, RunType
  <2> QED
    BY <1>3, <1>6, <1>7, <1>8, <2>1 DEF OnceInv, RetriesInVain
<1> QED
  BY <1>4, <1>5, <1>9 DEF OnceInv, MeantInv

\* The driver goes on with a call: one that is spent starts nothing.
LEMMA OnceWorks ==
    ASSUME "impostor" \notin Exits, "docker" \notin Faults, OnceInv, AgentInv',
           NEW c \in Callers, ExecStep(c) \/ StreamEnds(c), UNCHANGED run
    PROVE  OnceInv'
<1>1. MeantInv' /\ StartedIsSpent'
  BY MeantStep, StartedStep DEF OnceInv, ExecNext
<1>2. /\ exec[c].pc # "idle" /\ run[c].pc = "exec" /\ exec[c].id = run[c].id
      /\ \A d \in Callers \ {c} : exec'[d] = exec[d]
  <2>1. exec[c].pc # "idle" /\ \A d \in Callers \ {c} : exec'[d] = exec[d]
    BY DriverWorks DEF OnceInv
  <2>2. run[c].pc = "exec"
    BY <2>1 DEF OnceInv, AgentInv, DriverFollows
  <2> QED
    BY <2>1, <2>2 DEF OnceInv, RetriesInVain
<1>3. exec'[c].id = exec[c].id
  BY DEF OnceInv, AgentInv, DriverTyped, ExecStep, ExecCreate, ExecAttach, ExecInspect,
         Remember, StreamEnds, Goes, Fails
<1>4. ended \subseteq ended' /\ UNCHANGED container
  BY DEF ExecStep, ExecCreate, ExecAttach, ExecInspect, Remember, StreamEnds
<1>5. RunSpent(c) => exec'[c].ran = exec[c].ran
  BY <1>2 DEF RunSpent, OnceInv, AgentInv, DriverTyped, ExecStep, ExecCreate, ExecAttach,
     ExecInspect, Remember, StreamEnds, Answered, CallerAlive, Goes, Fails
<1>6. \A d \in Callers : RunSpent(d) => RunSpent(d)'
  BY <1>4 DEF RunSpent, Running
<1>7. RetriesInVain'
  BY <1>2, <1>3, <1>5, <1>6 DEF OnceInv, RetriesInVain
<1> QED
  BY <1>1, <1>7 DEF OnceInv

LEMMA OnceStep ==
    ASSUME "impostor" \notin Exits, "docker" \notin Faults, OnceInv, [AgentNext]_agentVars
    PROVE  OnceInv'
<1>0. AgentInv'
  BY AgentStep DEF OnceInv
<1>1. CASE UNCHANGED agentVars
  BY <1>0, <1>1, OnceKept DEF agentVars, KeepsCount, OnceInv, AgentInv, Runs, Fits
<1>2. ASSUME NEW c \in Callers, ExecStep(c) \/ StreamEnds(c), UNCHANGED run
      PROVE  OnceInv'
  BY <1>0, <1>2, OnceWorks
<1>3. ASSUME NEW c \in Callers,
             \/ StartRun(c) \/ CallTool(c) \/ BackOff(c) \/ Record(c)
             \/ (Iterate(c) /\ ~Ends(c)) \/ (Chat(c) /\ ~Ends(c))
             \/ Try(c) /\ ~Begin(c, run[c].id)
      PROVE  OnceInv'
  <2>1. \A d \in Callers : KeepsCount(d)
    BY <1>3, CountKept DEF OnceInv
  <2>2. UNCHANGED execVars
    BY <1>3 DEF execVars, StartRun, CallTool, BackOff, Record, Iterate, Chat, Try,
       StubAnswers, CopiesFile, Refuses, RunsCommand
  <2> QED
    BY <1>0, <2>1, <2>2, OnceKept
<1>4. ASSUME NEW c \in Callers, RunContextEnds(c) PROVE OnceInv'
  <2>1. \A d \in Callers : KeepsCount(d)
    BY <1>4, CountKept DEF OnceInv
  <2> QED
    BY <1>0, <1>4, <2>1, OnceEnds DEF RunContextEnds
<1>5. ASSUME NEW c \in Callers, Iterate(c) \/ Chat(c) \/ Reply(c), Ends(c) PROVE OnceInv'
  <2>1. \A d \in Callers : KeepsCount(d)
    BY <1>5, CountKept DEF OnceInv
  <2>2. run[c].pc # "exec" /\ UNCHANGED <<container, server, hasForgeUser, destroying>>
    BY <1>5 DEF Iterate, Chat, Reply
  <2>3. exec[c] = NoExec /\ run'[c].pc = "idle"
    BY <1>5, <2>2 DEF Ends, OnceInv, AgentInv, DriverFollows, Runs
  <2> QED
    BY <1>0, <1>5, <2>1, <2>2, <2>3, OnceEnds DEF Ends
<1>6. ASSUME NEW c \in Callers, Try(c), Begin(c, run[c].id) PROVE OnceInv'
  <2>1. exec[c] = NoExec
    BY <1>6 DEF OnceInv, AgentInv, DriverFollows, Try
  <2>2. Leads(c, "exec")
    BY <1>6, <2>1 DEF Try, StubAnswers, CopiesFile, Refuses, RunsCommand, Begin,
       OnceInv, AgentInv, DriverTyped
  <2> QED
    BY <1>0, <1>6, <2>2, OnceBegins
<1>7. ASSUME NEW c \in Callers, ToolReturns(c) PROVE OnceInv'
  BY <1>0, <1>7, OnceReturns
<1>8. CASE Environment
  <2>1. PICK id \in Ids : DestroyStep(id) \/ ExecDies(id)
    BY <1>8 DEF Environment
  <2>2. ExecNext
    BY <2>1 DEF ExecNext
  <2>3. MeantInv' /\ StartedIsSpent'
    BY <2>2, MeantStep, StartedStep DEF OnceInv
  <2>4. \A i \in Ids : Running(i)' => Running(i)
    BY <2>1, DestroySteps DEF OnceInv, AgentInv, DriverTyped
  <2>5. UNCHANGED <<exec, ended, run>>
    BY <1>8, <2>1 DEF Environment, DestroyStep, DestroyStops, DestroyRemoves,
       DestroyDrops, ExecDies
  <2>6. Fading /\ \A c \in Callers : KeepsCount(c)
    BY <2>4, <2>5 DEF Fading, KeepsCount, OnceInv, AgentInv, Runs, Fits
  <2> QED
    BY <1>0, <2>3, <2>5, <2>6, VainStays DEF OnceInv
<1>9. ASSUME NEW c \in Callers, Advance(c) PROVE OnceInv'
  <2>1. CASE Reply(c)
    BY <1>5, <2>1 DEF Reply
  <2>2. CASE ExecStep(c) /\ UNCHANGED <<run, latest>>
    BY <1>2, <2>2
  <2> QED
    BY <1>3, <1>5, <1>6, <1>7, <1>9, <2>1, <2>2 DEF Advance
<1> QED
  BY <1>1, <1>2, <1>3, <1>4, <1>8, <1>9 DEF AgentNext, CommandEnds

(***************************************************************************)
(* When the daemon answers every call, and no command prints what it would *)
(* print of a missing user, the command of a bash call is started once at  *)
(* most, over all its attempts and both users, though deadlines pass,      *)
(* containers die and sandboxes are destroyed under it.                    *)
(***************************************************************************)
THEOREM StartsOnce ==
    ASSUME "impostor" \notin Exits, "docker" \notin Faults
    PROVE  AgentSpec => []StartedOnce
<1>1. AgentInit => OnceInv
  <2> SUFFICES ASSUME AgentInit PROVE OnceInv
    OBVIOUS
  <2>1. AgentInv
    BY AgentStarts
  <2>2. MeantInv /\ StartedIsSpent
    BY <2>1, DriverExecAssumption, ServerProcessAssumption
       DEF AgentInit, ExecInit, AgentInv, DriverTyped, MeantInv, CacheInv, MissingIsTrue,
           RanAsMeant, RootIsSpent, StartedIsSpent
  <2>3. RetriesInVain
    BY DEF AgentInit, RetriesInVain
  <2> QED
    BY <2>1, <2>2, <2>3 DEF OnceInv
<1>2. OnceInv /\ [AgentNext]_agentVars => OnceInv'
  BY OnceStep
<1>3. ASSUME OnceInv, NEW c \in Callers, run[c].tool = "bash" PROVE Starts(c) <= 1
  <2>1. run[c].started \in Nat
    BY <1>3 DEF OnceInv, AgentInv, Runs, RunType
  <2>2. CASE run[c].started > 0
    <3>1. run[c].started = 1 /\ exec[c].ran = {}
      BY <1>3, <2>2 DEF OnceInv, RetriesInVain
    <3>2. Cardinality(exec[c].ran) = 0
      BY <3>1, FS_EmptySet
    <3> QED
      BY <3>1, <3>2 DEF Starts
  <2>3. CASE run[c].started = 0
    <3>1. exec[c].ran = {} \/ exec[c].ran = {"forge"} \/ exec[c].ran = {"root"}
      BY <1>3 DEF OnceInv, MeantInv, RanAsMeant
    <3>2. Cardinality(exec[c].ran) \in {0, 1}
      BY <3>1, FS_EmptySet, FS_Singleton
    <3> QED
      BY <2>3, <3>2 DEF Starts
  <2> QED
    BY <2>1, <2>2, <2>3
<1>4. OnceInv => StartedOnce
  BY <1>3 DEF StartedOnce
<1> QED
  BY <1>1, <1>2, <1>4, PTL DEF AgentSpec

=============================================================================
