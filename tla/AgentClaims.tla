---------------------------- MODULE AgentClaims ----------------------------
(***************************************************************************)
(* What a comment of FORGE says of agent runs and the code does not keep.  *)
(***************************************************************************)
EXTENDS AgentEngine

CONSTANT Grace      \* minutes a run may take to end after its deadline

VARIABLE overdue    \* overdue[c]: minutes the run of c has outlived its context

overdueVars == <<agentVars, overdue>>

AgentClaimsInit == AgentInit /\ overdue = [c \in Callers |-> 0]

(***************************************************************************)
(* To be fair to the claims, no minute goes by while a run, or the driver  *)
(* for it, has something to do: every run waits for its model or command.  *)
(***************************************************************************)
AllWait ==
    \A c \in Callers :
        \/ run[c].pc = "idle"
        \/ run[c].pc = "chat" /\ CallerAlive(c)
        \/ exec[c].pc = "copy" /\ Running(exec[c].id)

MinutePasses ==
    /\ AllWait
    /\ overdue' = [c \in Callers |->
          IF CallerAlive(c) THEN 0
          ELSE IF overdue[c] > Grace THEN overdue[c] ELSE overdue[c] + 1]
    /\ UNCHANGED agentVars

AgentClaimsNext ==
    \/ MinutePasses
    \/ /\ AgentNext
       /\ overdue' = [c \in Callers |-> IF c \in ended' THEN overdue[c] ELSE 0]

AgentClaimsSpec == AgentClaimsInit /\ [][AgentClaimsNext]_overdueVars

-----------------------------------------------------------------------------
(***************************************************************************)
(* agents.go:81: the deadline is a "Guard against hung tool calls (for     *)
(* example, long-running server processes)": past it, a run soon ends.     *)
(***************************************************************************)
GuardsAgainstHungCalls == \A c \in Callers : overdue[c] <= Grace

=============================================================================
