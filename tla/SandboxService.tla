---------------------------- MODULE SandboxService ----------------------------
(***************************************************************************)
(* What FORGE promises of a sandbox whatever fails: the life of a name.    *)
(* It is unborn, then perhaps listed, then retired, never to come back;    *)
(* its container is reserved and freed once each, and only an unborn name  *)
(* gets one; it is listed while its container is there; and clients are    *)
(* told of it only when it is born.  What is not promised is that a        *)
(* container is freed before or after its name is retired.                 *)
(***************************************************************************)
CONSTANT Ids

VARIABLES
    stage,      \* stage[id]: "unborn", "listed" or "retired"
    resources,  \* resources[id]: "none", "held" or "freed"
    told        \* the names clients have been told

serviceVars == <<stage, resources, told>>

ServiceInit ==
    /\ stage = [id \in Ids |-> "unborn"]
    /\ resources = [id \in Ids |-> "none"]
    /\ told = {}

\* A container for a name nobody has; the caller may give up at once.
Reserve(id) ==
    /\ stage[id] = "unborn"
    /\ resources[id] = "none"
    /\ resources' = [resources EXCEPT ![id] = "held"]
    /\ \/ UNCHANGED stage
       \/ stage' = [stage EXCEPT ![id] = "retired"]
    /\ UNCHANGED told

List(id) ==
    /\ stage[id] = "unborn"
    /\ resources[id] = "held"
    /\ stage' = [stage EXCEPT ![id] = "listed"]
    /\ told' \in {told, told \cup {id}}
    /\ UNCHANGED resources

Tell(id) ==
    /\ stage[id] # "unborn"
    /\ told' = told \cup {id}
    /\ UNCHANGED <<stage, resources>>

Free(id) ==
    /\ resources[id] = "held"
    /\ resources' = [resources EXCEPT ![id] = "freed"]
    /\ UNCHANGED <<stage, told>>

\* A sandbox is deleted, or its creation is given up, perhaps by freeing it.
Retire(id) ==
    /\ stage[id] # "retired"
    /\ resources[id] # "none"
    /\ stage' = [stage EXCEPT ![id] = "retired"]
    /\ \/ UNCHANGED resources
       \/ /\ resources[id] = "held"
          /\ resources' = [resources EXCEPT ![id] = "freed"]
    /\ UNCHANGED told

\* The process ends; creations under way are never finished.
Crash ==
    /\ stage' = [id \in Ids |-> IF stage[id] = "unborn" /\ resources[id] # "none"
                                THEN "retired" ELSE stage[id]]
    /\ UNCHANGED <<resources, told>>

ServiceNext ==
    \/ \E id \in Ids : Reserve(id) \/ List(id) \/ Tell(id) \/ Free(id) \/ Retire(id)
    \/ Crash

ServiceSpec == ServiceInit /\ [][ServiceNext]_serviceVars

=============================================================================
