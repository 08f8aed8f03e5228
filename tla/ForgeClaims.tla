----------------------------- MODULE ForgeClaims -----------------------------
(***************************************************************************)
(* What the documentation and comments of FORGE say of sandbox lifecycles  *)
(* and the code does not keep.  Each claim is stated as its text reads.    *)
(***************************************************************************)
EXTENDS Forge

CONSTANT RunLimit       \* minutes an agent run may last

VARIABLE runFor         \* runFor[r]: for how many minutes r has been running an agent

claimVars == <<vars, runFor>>

ClaimsInit ==
    /\ Init
    /\ runFor = [r \in Requests |-> 0]

RunsAgent(r) == req[r].pc = "run"

Remember(minutes) ==
    runFor' = [r \in Requests |->
        IF RunsAgent(r) /\ RunsAgent(r)' THEN runFor[r] + minutes ELSE 0]

(***************************************************************************)
(* To be fair to the claims, time is as kind as it can be: no minute goes  *)
(* by while the reaper is late, and no run outlasts its deadline.          *)
(***************************************************************************)
KindMinute ==
    /\ ListOlderThan(IdleSleepMin, 0, "running") = {}
    /\ ListOlderThan(IdleDestroyMin, 0, "sleeping") = {}
    /\ \A r \in Requests : RunsAgent(r) => runFor[r] < RunLimit
    /\ Minute

ClaimsNext ==
    \/ KindMinute /\ Remember(1)
    \/ Next /\ ~Minute /\ Remember(0)

ClaimsSpec == ClaimsInit /\ [][ClaimsNext]_claimVars

\* The turn of id to be destroyed has come.
ReaperTakes(id) == reaper.cur # id /\ reaper'.cur = id

-----------------------------------------------------------------------------
(***************************************************************************)
(* ARCHITECTURE.md:79: "sleeping -> destroyed after ... min of continued   *)
(* inactivity": a sandbox whose turn to be destroyed comes has not been    *)
(* touched for that long, nor is an agent at work in it.  The reaper goes  *)
(* by an earlier query (reaper.go:83-88), and a run touches its sandbox    *)
(* only when it is over (agents.go:116).                                   *)
(***************************************************************************)
DestroysInactiveOnly ==
    [][\A id \in Ids :
          (ReaperTakes(id) /\ HasRow(id)) =>
             /\ registry[id].age >= IdleDestroyMin
             /\ \A r \in Requests : RunsAgent(r) => req[r].id # id]_claimVars

(***************************************************************************)
(* ARCHITECTURE.md:198: "let the idle reaper collect it": what the reaper  *)
(* strikes off the registry is gone from the daemon.                       *)
(***************************************************************************)
ReaperCollects ==
    [][\A id \in Ids :
          (ReaperForgets(id) /\ HasRow(id) /\ ~HasRow(id)') => ~Exists(id)]_claimVars

=============================================================================
