--------------------------------- MODULE Api ---------------------------------
(***************************************************************************)
(* The HTTP handlers that change sandboxes, each request a goroutine of    *)
(* its own: POST /sandboxes, POST /agent/run, POST /sandboxes/{id}/exec    *)
(* and DELETE /sandboxes/{id}.  A handler calls the driver and the         *)
(* registry with no lock held across the calls.                            *)
(***************************************************************************)
EXTENDS Docker, Registry

CONSTANT Requests       \* the requests that may be in flight at once (a bound)

VARIABLES
    req,          \* req[r]: what the handler of request r is doing
    known         \* the ids some client has been told of

Ops == {"none", "create", "agent", "exec", "delete"}

(***************************************************************************)
(* req[r].pc     "idle"     no request                                     *)
(*   create      "create", "start", "discard" inside Driver.Create;        *)
(*               "insert" before Registry.Insert;                          *)
(*               "stop", "remove" undoing, after Insert failed             *)
(*   agent       as create up to "insert", or "lookup"; then "run", "touch"*)
(*   exec        "lookup", "exec" before the command is started,           *)
(*               "attached" while its output is read, "touch"              *)
(*   delete      "stop", "remove" inside Driver.Destroy, "unrow"           *)
(* req[r].id     the sandbox it works on                                   *)
(* req[r].ctx    whether its context is alive or has ended                 *)
(***************************************************************************)
Pcs == {"idle", "create", "start", "discard", "insert", "lookup", "exec",
        "attached", "run", "touch", "stop", "remove", "unrow"}

NoRequest == [op |-> "none", pc |-> "idle", id |-> NoId, ctx |-> "alive"]

ApiType ==
    /\ req \in [Requests -> [op : Ops, pc : Pcs, id : Ids \cup {NoId},
                             ctx : {"alive", "ended"}]]
    /\ \A r \in Requests : req[r].pc # "idle" => req[r].id \in Ids
    /\ known \subseteq Ids

At(r, op, pc) == req[r].op = op /\ req[r].pc = pc

Goto(r, pc, ctx) ==
    req' = [req EXCEPT ![r] = IF pc = "idle" THEN NoRequest
                              ELSE [op |-> @.op, pc |-> pc, id |-> @.id,
                                    ctx |-> ctx]]

HasContext(r) == req[r].ctx = "alive"

\* A Docker call made under the request's context, and where it leads.
Call(r, Effect, onOk, onError) ==
    /\ \/ Answer(HasContext(r), Effect, "ok")    /\ Goto(r, onOk, "alive")
       \/ Answer(HasContext(r), Effect, "cut")   /\ Goto(r, onError, "ended")
       \/ Answer(HasContext(r), Effect, "error") /\ Goto(r, onError, req[r].ctx)
    /\ UNCHANGED <<registry, known, server>>

\* The response names id; a client that has left never reads it.
Tells(id, heard) == known' = IF heard THEN known \cup {id} ELSE known

-----------------------------------------------------------------------------
\* uuid.New: a name no container has had and no other request has drawn.
Fresh(id) == container[id] = "unused" /\ \A q \in Requests : req[q].id # id

AcceptCreate(r, op) ==
    /\ server = "up"
    /\ req[r].pc = "idle"
    /\ \E id \in Ids :
          /\ Fresh(id)
          /\ req' = [req EXCEPT ![r] = [op |-> op, pc |-> "create", id |-> id,
                                        ctx |-> "alive"]]
    /\ UNCHANGED <<container, registry, known, server>>

\* Wrong on purpose: a request that names no sandbox is looked up.
AcceptOnUnnamed(r, op, pc) ==
    /\ server = "up"
    /\ req[r].pc = "idle"
    /\ \E id \in known \cup {NoId} :
          req' = [req EXCEPT ![r] = [op |-> op, pc |-> pc, id |-> id,
                                     ctx |-> "alive"]]
    /\ UNCHANGED <<container, registry, known, server>>

\* A request on a sandbox the client has heard of.
AcceptOn(r, op, pc) ==
    /\ server = "up"
    /\ req[r].pc = "idle"
    /\ \E id \in known :
          req' = [req EXCEPT ![r] = [op |-> op, pc |-> pc, id |-> id,
                                     ctx |-> "alive"]]
    /\ UNCHANGED <<container, registry, known, server>>

\* GET /sandboxes or GET /sandboxes/{id}: the answer shows the row of id.
ReadRow(id) ==
    /\ server = "up"
    /\ HasRow(id)
    /\ known' = known \cup {id}
    /\ UNCHANGED <<container, registry, req, server>>

-----------------------------------------------------------------------------
(* Driver.Create, called by handleCreateSandbox and handleAgentRun.        *)

CreateContainer(r) ==
    /\ req[r].pc = "create"
    /\ Call(r, ContainerCreate(req[r].id), "start", "idle")

\* Wrong on purpose: a container that does not start is left as it is.
StartContainerOrLeave(r) ==
    /\ req[r].pc = "start"
    /\ Call(r, ContainerStart(req[r].id), "insert", "idle")

StartContainer(r) ==
    /\ req[r].pc = "start"
    /\ Call(r, ContainerStart(req[r].id), "insert", "discard")

\* The container did not start: remove it, with the same context.
DiscardContainer(r) ==
    /\ req[r].pc = "discard"
    /\ Call(r, ContainerRemove(req[r].id), "idle", "idle")

\* handleCreateSandbox: 201, or Destroy and 500.
RegisterCreated(r) ==
    /\ At(r, "create", "insert")
    /\ \/ /\ Insert(req[r].id)
          /\ Goto(r, "idle", "alive")
          /\ Tells(req[r].id, HasContext(r))
       \/ /\ May("registry")
          /\ Goto(r, "stop", req[r].ctx)
          /\ UNCHANGED <<registry, known>>
    /\ UNCHANGED <<container, server>>

\* handleAgentRun: a failed Insert is ignored and the run goes on.
RegisterForAgent(r) ==
    /\ At(r, "agent", "insert")
    /\ \/ Insert(req[r].id)
       \/ May("registry") /\ UNCHANGED registry
    /\ Goto(r, "run", req[r].ctx)
    /\ UNCHANGED <<container, known, server>>

-----------------------------------------------------------------------------
(* Driver.Destroy, called by handleDeleteSandbox and by the failed create. *)

\* An error of ContainerStop is not fatal.
StopContainer(r) ==
    /\ req[r].pc = "stop"
    /\ Call(r, ContainerStop(req[r].id), "remove", "remove")

\* Wrong on purpose: a removed sandbox's row is left in the registry.
RemoveContainerKeepingRow(r) ==
    /\ req[r].pc = "remove"
    /\ Call(r, ContainerRemove(req[r].id), "idle", "idle")

\* Wrong on purpose: the error of the removal is ignored.
RemoveContainerIgnoringError(r) ==
    /\ req[r].pc = "remove"
    /\ LET next == IF req[r].op = "delete" THEN "unrow" ELSE "idle"
       IN  Call(r, ContainerRemove(req[r].id), next, next)

\* Wrong on purpose: a create whose container is cleaned up inserts its row again.
RemoveContainerThenInsert(r) ==
    /\ req[r].pc = "remove"
    /\ Call(r, ContainerRemove(req[r].id),
            IF req[r].op = "delete" THEN "unrow" ELSE "insert", "idle")

RemoveContainer(r) ==
    /\ req[r].pc = "remove"
    /\ Call(r, ContainerRemove(req[r].id),
            IF req[r].op = "delete" THEN "unrow" ELSE "idle", "idle")

DeleteRow(r) ==
    /\ req[r].pc = "unrow"
    /\ \/ Delete(req[r].id)
       \/ May("registry") /\ UNCHANGED registry
    /\ Goto(r, "idle", "alive")
    /\ UNCHANGED <<container, known, server>>

-----------------------------------------------------------------------------
(* handleExecSandbox, and handleAgentRun on an existing sandbox.           *)

\* Registry.Get: any error, a missing row or a failed query, answers 404.
Lookup(r) ==
    /\ req[r].pc = "lookup"
    /\ \/ /\ HasRow(req[r].id)
          /\ Goto(r, IF req[r].op = "exec" THEN "exec" ELSE "run", req[r].ctx)
       \/ /\ ~HasRow(req[r].id) \/ May("registry")
          /\ Goto(r, "idle", "alive")
    /\ UNCHANGED <<container, registry, known, server>>

\* Create the exec and attach to it: only a running container takes one.
StartExec(r) ==
    /\ req[r].pc = "exec"
    /\ \/ /\ HasContext(r)
          /\ Running(req[r].id)
          /\ Goto(r, "attached", "alive")
       \/ /\ ~HasContext(r) \/ ~Running(req[r].id) \/ May("docker")
          /\ Goto(r, "idle", "alive")
    /\ UNCHANGED <<container, registry, known, server>>

(***************************************************************************)
(* The output stream ends: the command is done, or its container stopped.  *)
(* Reading it ignores the request's context; asking for the exit code does *)
(* not, and fails once the container is gone.                              *)
(***************************************************************************)
EndExec(r) ==
    /\ req[r].pc = "attached"
    /\ \/ /\ HasContext(r)
          /\ Exists(req[r].id)
          /\ Goto(r, "touch", "alive")
       \/ /\ ~HasContext(r) \/ ~Exists(req[r].id) \/ May("docker")
          /\ Goto(r, "idle", "alive")
    /\ UNCHANGED <<container, registry, known, server>>

\* Agent.Run returns an answer, or an error that ends the request.
EndRun(r) ==
    /\ req[r].pc = "run"
    /\ \E pc \in {"touch", "idle"} : Goto(r, pc, req[r].ctx)
    /\ UNCHANGED <<container, registry, known, server>>

(***************************************************************************)
(* TouchLastActive, its error ignored, and the reply.  An agent run whose  *)
(* deadline has just passed still has a client that reads the reply.       *)
(***************************************************************************)
Touch(r) ==
    /\ req[r].pc = "touch"
    /\ \/ TouchLastActive(req[r].id)
       \/ May("registry") /\ UNCHANGED registry
    /\ \E heard \in IF HasContext(r) THEN {TRUE} ELSE BOOLEAN :
          Tells(req[r].id, heard /\ req[r].op = "agent")
    /\ Goto(r, "idle", "alive")
    /\ UNCHANGED <<container, server>>

\* The context of a request in flight ends.
ContextEnds(r) ==
    /\ May("cancel")
    /\ req[r].pc # "idle"
    /\ HasContext(r)
    /\ req' = [req EXCEPT ![r].ctx = "ended"]
    /\ UNCHANGED <<container, registry, known, server>>

-----------------------------------------------------------------------------
Accept(r) ==
    \/ \E op \in {"create", "agent"} : AcceptCreate(r, op)
    \/ \E op \in {"exec", "agent"} : AcceptOn(r, op, "lookup")
    \/ AcceptOn(r, "delete", "stop")

\* The steps a handler takes on its own, whatever a command in a sandbox does.
Handle(r) ==
    \/ CreateContainer(r)
    \/ StartContainer(r)
    \/ DiscardContainer(r)
    \/ RegisterCreated(r)
    \/ RegisterForAgent(r)
    \/ StopContainer(r)
    \/ RemoveContainer(r)
    \/ DeleteRow(r)
    \/ Lookup(r)
    \/ StartExec(r)
    \/ Touch(r)

\* The request is creating the sandbox id and has not registered it yet.
Creating(r, id) ==
    /\ req[r].id = id
    /\ \/ req[r].pc \in {"create", "start", "discard", "insert"}
       \/ At(r, "create", "stop") \/ At(r, "create", "remove")

\* The request is about to delete the row of id.
HandlerForgets(r, id) == req[r].pc = "unrow" /\ req[r].id = id

=============================================================================
