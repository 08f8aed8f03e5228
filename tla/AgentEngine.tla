---------------------------- MODULE AgentEngine ----------------------------
(***************************************************************************)
(* Engine.Run: think, call tools, observe, repeat.  Each request for an    *)
(* agent run is a goroutine; the runs share the driver, their sandboxes    *)
(* and the statistics.  A run is a caller of Exec, one command at a time.  *)
(***************************************************************************)
EXTENDS DriverExec, FiniteSets, Naturals

CONSTANTS
    MaxIterations,      \* the cap on iterations of a run
    MaxToolRetries,     \* how often a failing tool is tried
    MaxCalls            \* tool calls one message may carry (a bound)

ASSUME AgentEngineAssumption ==
    /\ MaxIterations \in Nat \ {0}
    /\ MaxToolRetries \in Nat \ {0}
    /\ MaxCalls \in Nat

VARIABLES
    run,        \* run[c]: where the run of request c is
    latest      \* the last entry of Accounting.runs

agentVars == <<execVars, run, latest>>

(***************************************************************************)
(* run[c].pc         "idle"                                                *)
(*                   "loop"     at the head of the loop                    *)
(*                   "chat"     waiting for the model                      *)
(*                   "tools"    about to make the next tool call           *)
(*                   "try"      about to execute the tool                  *)
(*                   "exec"     its command is in the driver's hands       *)
(*                   "backoff"  waiting before the tool is tried again     *)
(*                   "finish"   with an answer, before Record              *)
(*                   "reply"    recorded, before the handler's reply       *)
(* run[c].calls      tool calls of the message still to make               *)
(* run[c].started    how often this tool call has started its command      *)
(***************************************************************************)
RunPcs == {"idle", "loop", "chat", "tools", "try", "exec", "backoff", "finish", "reply"}

\* "stub" stands for the five tools of the GitHub layer.
Tools == {"none", "bash", "read_file", "write_file", "stub"}

NoRun == [pc |-> "idle", iteration |-> 0, calls |-> 0, tool |-> "none",
          attempt |-> 0, started |-> 0, id |-> NoId]

NoStats == [run |-> "none", iterations |-> 0]

AgentTypeOK ==
    /\ ServerType
    /\ ContainerType
    /\ ExecType
    /\ run \in [Callers -> [pc : RunPcs, iteration : 0..MaxIterations,
                            calls : 0..MaxCalls, tool : Tools,
                            attempt : 0..MaxToolRetries,
                            started : Nat,
                            id : Ids \cup {NoId}]]
    /\ latest \in [run : Callers, iterations : 1..MaxIterations] \cup {NoStats}

AgentInit ==
    /\ ExecInit
    /\ run = [c \in Callers |-> NoRun]
    /\ latest = NoStats

Keeps == UNCHANGED <<container, server, hasForgeUser, destroying>>

Leads(c, pc) == run' = [run EXCEPT ![c].pc = pc]

Ends(c) ==
    /\ run' = [run EXCEPT ![c] = NoRun]
    /\ ended' = ended \ {c}
    /\ UNCHANGED exec

-----------------------------------------------------------------------------
StartRun(c) ==
    /\ run[c].pc = "idle"
    /\ \E id \in Ids : run' = [run EXCEPT ![c] = [NoRun EXCEPT !.pc = "loop", !.id = id]]
    /\ Keeps /\ UNCHANGED <<exec, ended, latest>>

\* The head of the loop: the cap, then the context.
Iterate(c) ==
    /\ run[c].pc = "loop"
    /\ \/ /\ run[c].iteration = MaxIterations
          /\ Leads(c, "finish")
          /\ UNCHANGED <<exec, ended>>
       \/ /\ run[c].iteration < MaxIterations
          /\ CallerAlive(c)
          /\ run' = [run EXCEPT ![c].pc = "chat", ![c].iteration = @ + 1]
          /\ UNCHANGED <<exec, ended>>
       \/ /\ run[c].iteration < MaxIterations
          /\ ~CallerAlive(c)
          /\ Ends(c)
    /\ Keeps /\ UNCHANGED latest

(***************************************************************************)
(* What OllamaClient.Chat returns: a final answer, a message that calls    *)
(* tools, or an error, and nothing but an error once the context ended.    *)
(***************************************************************************)
ChatResults(c) ==
    IF ~CallerAlive(c) THEN {"error"}
    ELSE {"answer", "tools"} \cup {e \in {"error"} : May("model")}

Chat(c) ==
    /\ run[c].pc = "chat"
    /\ \/ /\ "answer" \in ChatResults(c)
          /\ Leads(c, "finish")
          /\ UNCHANGED <<exec, ended>>
       \/ /\ "tools" \in ChatResults(c)
          /\ \E n \in 1..MaxCalls :
                run' = [run EXCEPT ![c].pc = "tools", ![c].calls = n]
          /\ UNCHANGED <<exec, ended>>
       \/ /\ "error" \in ChatResults(c)
          /\ Ends(c)
    /\ Keeps /\ UNCHANGED latest

\* The next tool call of the message: its tool may be one nobody registered.
CallTool(c) ==
    /\ run[c].pc = "tools"
    /\ \/ /\ run[c].calls = 0
          /\ Leads(c, "loop")
       \/ /\ run[c].calls > 0
          /\ run' = [run EXCEPT ![c].calls = @ - 1]
       \/ /\ run[c].calls > 0
          /\ \E tool \in Tools \ {"none"} :
                run' = [run EXCEPT ![c].pc = "try", ![c].calls = @ - 1,
                                   ![c].tool = tool, ![c].attempt = 1,
                                   ![c].started = 0]
    /\ Keeps /\ UNCHANGED <<exec, ended, latest>>

ToolDone(c) ==
    run' = [run EXCEPT ![c].pc = "tools", ![c].tool = "none", ![c].attempt = 0,
                       ![c].started = 0]

\* Wrong on purpose: one attempt too many.
ToolErrsLate(c, started) ==
    IF run[c].attempt <= MaxToolRetries
    THEN run' = [run EXCEPT ![c].pc = "backoff", ![c].started = started]
    ELSE ToolDone(c)

\* An error of the last attempt is what the model gets to read.
ToolErrs(c, started) ==
    IF run[c].attempt < MaxToolRetries
    THEN run' = [run EXCEPT ![c].pc = "backoff", ![c].started = started]
    ELSE ToolDone(c)

\* The stubs answer on the spot, whatever the context and their arguments.
StubAnswers(c) ==
    /\ run[c].tool = "stub"
    /\ ToolDone(c)
    /\ UNCHANGED exec

\* A file is copied; write_file had no directory to make.
CopiesFile(c) ==
    /\ run[c].tool \in {"read_file", "write_file"}
    /\ CallerAlive(c) /\ Exists(run[c].id)
    /\ ToolDone(c)
    /\ UNCHANGED exec

\* An argument is missing, or the file is not copied.
Refuses(c) ==
    /\ run[c].tool # "stub"
    /\ ToolErrs(c, run[c].started)
    /\ UNCHANGED exec

\* bash runs its command, and write_file `mkdir -p` where there is a directory.
RunsCommand(c) ==
    /\ run[c].tool \in {"bash", "write_file"}
    /\ Begin(c, run[c].id)
    /\ Leads(c, "exec")

\* The tool executes.
Try(c) ==
    /\ run[c].pc = "try"
    /\ StubAnswers(c) \/ CopiesFile(c) \/ Refuses(c) \/ RunsCommand(c)
    /\ Keeps /\ UNCHANGED <<ended, latest>>

\* Exec returns to its tool; write_file goes on to copy the file.
ToolReturns(c) ==
    /\ run[c].pc = "exec"
    /\ LET started == run[c].started + Cardinality(exec[c].ran)
       IN  \/ exec[c].pc = "done" /\ ToolDone(c)
           \/ exec[c].pc = "done" /\ run[c].tool = "write_file" /\ ToolErrs(c, started)
           \/ exec[c].pc = "failed" /\ ToolErrs(c, started)
    /\ exec' = [exec EXCEPT ![c] = NoExec]
    /\ Keeps /\ UNCHANGED <<ended, latest>>

\* Wrong on purpose: the attempts are not counted.
BackOffUncounted(c) ==
    /\ run[c].pc = "backoff"
    /\ \/ Leads(c, "try")
       \/ ~CallerAlive(c) /\ ToolDone(c)
    /\ Keeps /\ UNCHANGED <<exec, ended, latest>>

\* The timer fires, or the context ends first.
BackOff(c) ==
    /\ run[c].pc = "backoff"
    /\ \/ run' = [run EXCEPT ![c].pc = "try", ![c].attempt = @ + 1]
       \/ ~CallerAlive(c) /\ ToolDone(c)
    /\ Keeps /\ UNCHANGED <<exec, ended, latest>>

\* Accounting.Record, for runs that have an answer only.
Record(c) ==
    /\ run[c].pc = "finish"
    /\ latest' = [run |-> c, iterations |-> run[c].iteration]
    /\ Leads(c, "reply")
    /\ Keeps /\ UNCHANGED <<exec, ended>>

\* The handler replies with the last entry of the statistics.
Reply(c) ==
    /\ run[c].pc = "reply"
    /\ Ends(c)
    /\ Keeps /\ UNCHANGED latest

RunContextEnds(c) ==
    /\ May("cancel")
    /\ run[c].pc # "idle"
    /\ ended' = ended \cup {c}
    /\ Keeps /\ UNCHANGED <<exec, run, latest>>

-----------------------------------------------------------------------------
\* What a run and the driver do for it, the command itself apart.
Advance(c) ==
    \/ Iterate(c)
    \/ Chat(c)
    \/ CallTool(c)
    \/ Try(c)
    \/ ToolReturns(c)
    \/ BackOff(c)
    \/ Record(c)
    \/ Reply(c)
    \/ ExecStep(c) /\ UNCHANGED <<run, latest>>

CommandEnds(c) == StreamEnds(c) /\ UNCHANGED <<run, latest>>

Environment ==
    /\ \E id \in Ids : DestroyStep(id) \/ ExecDies(id)
    /\ UNCHANGED <<run, latest>>

AgentNext ==
    \/ \E c \in Callers : StartRun(c) \/ Advance(c) \/ CommandEnds(c) \/ RunContextEnds(c)
    \/ Environment

AgentSpec == AgentInit /\ [][AgentNext]_agentVars

\* The model answers, the driver's calls return and commands end.
AgentFairSpec ==
    /\ AgentSpec
    /\ \A c \in Callers : WF_agentVars(Advance(c)) /\ WF_agentVars(CommandEnds(c))

-----------------------------------------------------------------------------
(***************************************************************************)
(* How often one tool call has its command started, over the attempts of   *)
(* executeToolWithRetry and the two of each Exec.                          *)
(***************************************************************************)
Starts(c) == run[c].started + Cardinality(exec[c].ran)

(***************************************************************************)
(* Whatever the daemon answers, the two layers of retries (agent.go:167,   *)
(* docker.go:309-319) start the command of one call a bounded number of    *)
(* times.                                                                  *)
(***************************************************************************)
StartsBounded == \A c \in Callers : Starts(c) <= 2 * MaxToolRetries

(***************************************************************************)
(* When the daemon answers, a command is started once per tool call: an    *)
(* attempt is only repeated if it did not get that far, even if deadlines  *)
(* pass, containers die and sandboxes are destroyed under it.              *)
(***************************************************************************)
StartedOnce ==
    \A c \in Callers : run[c].tool = "bash" => Starts(c) <= 1

(***************************************************************************)
(* A run whose context has ended starts no further command, though its     *)
(* fall-back, its retries and the rest of the message's tool calls go on   *)
(* (docker.go:288-319, agent.go:113-187).                                  *)
(***************************************************************************)
QuietAfterDeadline ==
    [][\A c \in Callers : c \in ended => exec'[c].ran \subseteq exec[c].ran]_agentVars

(***************************************************************************)
(* Every run ends, by an answer, the cap on iterations or an error, if the *)
(* model answers and commands end (agent.go:74-157, 166-188).              *)
(***************************************************************************)
RunEnds ==
    \A c \in Callers : (run[c].pc # "idle") ~> (run[c].pc = "idle")

=============================================================================
