----------------------------- MODULE DriverExec -----------------------------
(***************************************************************************)
(* DockerDriver.Exec: a command is run as `forge` under bash, and again as *)
(* root under sh when that fails.  What the driver has learnt of a         *)
(* container's forge user is cached, and dropped by Destroy.  Handlers and *)
(* agents call Exec concurrently, on containers that may go away.          *)
(***************************************************************************)
EXTENDS Docker

CONSTANTS
    Callers,    \* the calls of Exec that may be in flight at once (a bound)
    WithForge,  \* the sandboxes whose image has the forge user
    WithBash,   \* the sandboxes whose image has bash; sh starts every container
    Homeless,   \* the sandboxes whose work directory some command may remove
    Exits       \* how the commands of this instance may end

(***************************************************************************)
(* "done"     an exit code other than 126                                  *)
(* "refused"  126, as a shell reports what it cannot execute               *)
(* "impostor" 126 and a text that reads "unable to find user", printed by  *)
(*            the command itself (a docker client run in the sandbox)      *)
(***************************************************************************)
ExitKinds == {"done", "refused", "impostor"}

ASSUME DriverExecAssumption ==
    /\ WithForge \subseteq Ids
    /\ WithBash \subseteq Ids
    /\ Homeless \subseteq Ids
    /\ Exits \subseteq ExitKinds
    /\ "done" \in Exits

VARIABLES
    exec,           \* exec[c]: where the call of c is
    hasForgeUser,   \* hasForgeUser[id]: "yes", "no", or "unset"
    ended,          \* the callers whose context has ended
    destroying      \* destroying[id]: where Driver.Destroy(id) is

execVars == <<container, server, exec, hasForgeUser, ended, destroying>>

(***************************************************************************)
(* exec[c].pc    "idle"                                                    *)
(*               "create"   before ContainerExecCreate                     *)
(*               "attach"   before ContainerExecAttach, which starts it    *)
(*               "copy"     reading the output stream                      *)
(*               "inspect"  before ContainerExecInspect                    *)
(*               "absent", "present"  about to remember that forge is      *)
(*                          missing, or that it is there                   *)
(*               "done", "failed"  Exec has a result, or an error          *)
(* exec[c].user  as whom this attempt runs                                 *)
(* exec[c].ran   as whom the command has been started by this call         *)
(***************************************************************************)
ExecPcs == {"idle", "create", "attach", "copy", "inspect", "absent", "present",
            "done", "failed"}

Users == {"forge", "root"}

NoExec == [pc |-> "idle", id |-> NoId, user |-> "forge", ran |-> {}]

ExecType ==
    /\ exec \in [Callers -> [pc : ExecPcs, id : Ids \cup {NoId}, user : Users,
                             ran : SUBSET Users]]
    /\ \A c \in Callers : exec[c].pc # "idle" => exec[c].id \in Ids
    /\ hasForgeUser \in [Ids -> {"yes", "no", "unset"}]
    /\ ended \subseteq Callers
    /\ destroying \in [Ids -> {"no", "remove", "drop", "done"}]

ExecTypeOK ==
    /\ ServerType
    /\ ContainerType
    /\ ExecType
    \* a context is that of a call in flight
    /\ \A c \in ended : exec[c].pc # "idle"

\* Sandboxes are up, nothing is known of them yet.
ExecInit ==
    /\ server = "up"
    /\ container = [id \in Ids |-> "running"]
    /\ exec = [c \in Callers |-> NoExec]
    /\ hasForgeUser = [id \in Ids |-> "unset"]
    /\ ended = {}
    /\ destroying = [id \in Ids |-> "no"]

-----------------------------------------------------------------------------
HasUser(id, user) == user = "root" \/ id \in WithForge

\* forge's command is run by bash, root's by sh.
HasShell(id, user) == user = "root" \/ id \in WithBash

CanStart(id, user) == HasUser(id, user) /\ HasShell(id, user)

CallerAlive(c) == c \notin ended

\* Wrong on purpose: the calls are made whatever became of the context.
AnsweredAnyway(c) == Running(exec[c].id)

\* A daemon that takes execs on the container of c, and its answer reaches c.
Answered(c) == CallerAlive(c) /\ Running(exec[c].id)

Unanswered(c) == ~CallerAlive(c) \/ ~Running(exec[c].id) \/ May("docker")

(***************************************************************************)
(* As whom the command has been started once the daemon has tried, too.  A *)
(* start that fails, for want of the user, the shell or the work           *)
(* directory, is no error of the call.                                     *)
(***************************************************************************)
Started(c) ==
    {exec[c].ran \cup {u \in {exec[c].user} : CanStart(exec[c].id, u)}}
        \cup {ran \in {exec[c].ran} : exec[c].id \in Homeless}

Goes(c, pc, ran) ==
    exec' = [exec EXCEPT ![c] = [pc |-> pc, id |-> @.id, user |-> @.user, ran |-> ran]]

\* Wrong on purpose: the second attempt is as forge again.
FailsAsForge(c, ran) ==
    exec' = [exec EXCEPT ![c] =
        [pc |-> IF @.user = "forge" THEN "create" ELSE "failed",
         id |-> @.id, user |-> @.user, ran |-> ran]]

\* Wrong on purpose: there is no second attempt.
FailsAtOnce(c, ran) ==
    exec' = [exec EXCEPT ![c] = [pc |-> "failed", id |-> @.id, user |-> @.user, ran |-> ran]]

\* An attempt as forge that fails is followed by one as root.
Fails(c, ran) ==
    exec' = [exec EXCEPT ![c] =
        [pc |-> IF @.user = "forge" THEN "create" ELSE "failed",
         id |-> @.id, user |-> "root", ran |-> ran]]

-----------------------------------------------------------------------------
\* Wrong on purpose: no entry is taken for "no".
BeginUnchecked(c, id) ==
    exec' = [exec EXCEPT ![c] =
        [pc |-> "create", id |-> id, ran |-> {},
         user |-> IF hasForgeUser[id] = "yes" THEN "forge" ELSE "root"]]

\* The cache is read once, at the start of the call.
Begin(c, id) ==
    exec' = [exec EXCEPT ![c] =
        [pc |-> "create", id |-> id, ran |-> {},
         user |-> IF hasForgeUser[id] = "no" THEN "root" ELSE "forge"]]

ExecCreate(c) ==
    /\ exec[c].pc = "create"
    /\ \/ Answered(c)   /\ Goes(c, "attach", exec[c].ran)
       \/ Unanswered(c) /\ Fails(c, exec[c].ran)
    /\ UNCHANGED <<container, server, hasForgeUser, ended, destroying>>

\* Attaching starts the command; the caller may see an error all the same.
ExecAttach(c) ==
    /\ exec[c].pc = "attach"
    /\ \/ /\ Answered(c)
          /\ \E ran \in Started(c) :
                \/ Goes(c, "copy", ran) /\ UNCHANGED ended
                \/ Fails(c, ran) /\ May("docker") /\ UNCHANGED ended
                \/ Fails(c, ran) /\ May("cancel") /\ ended' = ended \cup {c}
       \/ Unanswered(c) /\ Fails(c, exec[c].ran) /\ UNCHANGED ended
    /\ UNCHANGED <<container, server, hasForgeUser, destroying>>

(***************************************************************************)
(* The stream ends with the command, or with its container.  Copying it    *)
(* does not look at the context of the caller.                             *)
(***************************************************************************)
StreamEnds(c) ==
    /\ exec[c].pc = "copy"
    /\ Goes(c, "inspect", exec[c].ran)
    /\ UNCHANGED <<container, server, hasForgeUser, ended, destroying>>

(***************************************************************************)
(* What the attempt answers: how its command ended, or why the daemon did  *)
(* not start it ("missing" the user, or "unstarted" for another reason).   *)
(* An attempt has started its command if the call has, as its user.        *)
(***************************************************************************)
ExitOf(c) ==
    IF exec[c].user \in exec[c].ran THEN Exits
    ELSE IF HasUser(exec[c].id, exec[c].user) THEN {"unstarted"}
    ELSE {"missing"}

\* Wrong on purpose: exit code 126 alone is taken for a missing user.
SaysNoUserByCode(exit) == exit \in {"missing", "impostor", "refused"}

\* Wrong on purpose: the daemon's complaint goes unnoticed.
SaysNoUserNever(exit) == exit = "impostor"

SaysNoUser(exit) == exit \in {"missing", "impostor"}

Learn(id, answer) == hasForgeUser' = [hasForgeUser EXCEPT ![id] = answer]

\* An exec is forgotten with its container.  Only forge's answer is looked at.
ExecInspect(c) ==
    /\ exec[c].pc = "inspect"
    /\ \/ /\ CallerAlive(c)
          /\ Exists(exec[c].id)
          /\ \E exit \in ExitOf(c) :
                Goes(c, IF exec[c].user = "root" THEN "done"
                        ELSE IF SaysNoUser(exit) THEN "absent" ELSE "present",
                     exec[c].ran)
       \/ /\ ~CallerAlive(c) \/ ~Exists(exec[c].id) \/ May("docker")
          /\ Fails(c, exec[c].ran)
    /\ UNCHANGED <<container, server, hasForgeUser, ended, destroying>>

\* What was learnt is written later: Destroy may have dropped the entry by then.
Remember(c) ==
    /\ \/ /\ exec[c].pc = "absent"
          /\ Learn(exec[c].id, "no")
          /\ Fails(c, exec[c].ran)
       \/ /\ exec[c].pc = "present"
          /\ Learn(exec[c].id, "yes")
          /\ Goes(c, "done", exec[c].ran)
    /\ UNCHANGED <<container, server, ended, destroying>>

ExecStep(c) == ExecCreate(c) \/ ExecAttach(c) \/ ExecInspect(c) \/ Remember(c)

-----------------------------------------------------------------------------
(* Driver.Destroy, under a context of its own, which may end.              *)

DestroyAnswers(Effect, outcome) ==
    \E alive \in {TRUE} \cup {b \in {FALSE} : May("cancel")} : Answer(alive, Effect, outcome)

\* An error of the first call is not fatal.
DestroyStops(id) ==
    /\ destroying[id] = "no"
    /\ \E outcome \in {"ok", "cut", "error"} : DestroyAnswers(ContainerStop(id), outcome)
    /\ destroying' = [destroying EXCEPT ![id] = "remove"]
    /\ UNCHANGED <<server, exec, hasForgeUser, ended>>

DestroyRemoves(id) ==
    /\ destroying[id] = "remove"
    /\ \E outcome \in {"ok", "cut", "error"} :
          /\ DestroyAnswers(ContainerRemove(id), outcome)
          /\ destroying' = [destroying EXCEPT ![id] = IF outcome = "ok" THEN "drop" ELSE "no"]
    /\ UNCHANGED <<server, exec, hasForgeUser, ended>>

\* The entry goes last.
DestroyDrops(id) ==
    /\ destroying[id] = "drop"
    /\ Learn(id, "unset")
    /\ destroying' = [destroying EXCEPT ![id] = "done"]
    /\ UNCHANGED <<container, server, exec, ended>>

DestroyStep(id) == DestroyStops(id) \/ DestroyRemoves(id) \/ DestroyDrops(id)

ExecDies(id) ==
    ContainerDies(id) /\ UNCHANGED <<server, exec, hasForgeUser, ended, destroying>>

CallerEnds(c) ==
    /\ May("cancel")
    /\ exec[c].pc # "idle"
    /\ ended' = ended \cup {c}
    /\ UNCHANGED <<container, server, exec, hasForgeUser, destroying>>

-----------------------------------------------------------------------------
\* A caller of Exec: it calls, and takes what comes back.
Calls(c) ==
    /\ exec[c].pc = "idle"
    /\ \E id \in Ids : Begin(c, id)
    /\ UNCHANGED <<container, server, hasForgeUser, ended, destroying>>

\* Wrong on purpose: the next call inherits the context.
TakesKeepingContext(c) ==
    /\ exec[c].pc \in {"done", "failed"}
    /\ exec' = [exec EXCEPT ![c] = NoExec]
    /\ UNCHANGED <<container, server, hasForgeUser, ended, destroying>>

Takes(c) ==
    /\ exec[c].pc \in {"done", "failed"}
    /\ exec' = [exec EXCEPT ![c] = NoExec]
    /\ ended' = ended \ {c}
    /\ UNCHANGED <<container, server, hasForgeUser, destroying>>

ExecNext ==
    \/ \E c \in Callers : Calls(c) \/ ExecStep(c) \/ StreamEnds(c) \/ Takes(c)
    \/ \E c \in Callers : CallerEnds(c)
    \/ \E id \in Ids : DestroyStep(id) \/ ExecDies(id)

ExecSpec == ExecInit /\ [][ExecNext]_execVars

(***************************************************************************)
(* The driver's own calls go on.  A command owes nothing, but its stream   *)
(* ends once its container does not run.                                   *)
(***************************************************************************)
ExecFairSpec ==
    /\ ExecSpec
    /\ \A c \in Callers :
          /\ WF_execVars(ExecStep(c))
          /\ WF_execVars(StreamEnds(c) /\ ~Running(exec[c].id))

-----------------------------------------------------------------------------
(***************************************************************************)
(* A command is run by the user it is meant for, and so only once: forge   *)
(* where the image has one, root elsewhere (docker.go:288-319).  Needs a   *)
(* daemon that answers, and no command that prints what the daemon prints. *)
(***************************************************************************)
RanAsMeant ==
    \A c \in Callers :
        exec[c].ran \subseteq (IF exec[c].id \in WithForge THEN {"forge"} ELSE {"root"})

\* Nothing but a missing user keeps the commands of this sandbox from starting.
Serves(id) == id \notin Homeless /\ (id \in WithForge => id \in WithBash)

(***************************************************************************)
(* A result stands for a command that did run, whatever failed on the way: *)
(* no caller takes the daemon's complaint about a missing user for the     *)
(* output of its command (docker.go:290-307).  Where bash is missing, or   *)
(* the work directory, the complaint does come as a result.                *)
(***************************************************************************)
ResultIsOfARun ==
    \A c \in Callers :
        (exec[c].pc = "done" /\ Serves(exec[c].id)) => exec[c].ran # {}

(***************************************************************************)
(* When the daemon answers, a call fails only if its caller has left or    *)
(* its container has stopped: whatever image, cache entry and race with    *)
(* other calls sent it through the fall-back (docker.go:279-319).          *)
(***************************************************************************)
FailsOnlySpent ==
    \A c \in Callers :
        exec[c].pc = "failed" => c \in ended \/ ~Running(exec[c].id)

(***************************************************************************)
(* Once a container has stopped, every call on it returns (docker.go:259,  *)
(* 309-319): neither the stream nor the fall-back holds it for ever.       *)
(***************************************************************************)
StoppedReleases ==
    \A c \in Callers :
        (exec[c].pc # "idle" /\ ~Running(exec[c].id)) ~>
            exec[c].pc \in {"idle", "done", "failed"}

=============================================================================
