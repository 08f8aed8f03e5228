------------------------------ MODULE ForgeProxy ------------------------------
(***************************************************************************)
(* The port proxy, superposed on Forge.  The daemon gives a container an   *)
(* address when it starts and takes it back when it stops; the creator of  *)
(* a sandbox asks for the address once and stores the answer in the row,   *)
(* which nothing ever updates; a visit through the proxy goes to the       *)
(* stored address, or asks the daemon when none was stored.                *)
(***************************************************************************)
EXTENDS ForgeService

CONSTANTS
    Addresses,    \* the addresses of sandbox-net (a bound)
    NoAddress,    \* no address, the empty string of the code
    Unasked,      \* the creator has not asked yet
    Visits        \* the visits under way at once (a bound)

ASSUME ProxyAssumption ==
    /\ NoAddress \notin Addresses
    /\ Unasked \notin Addresses \cup {NoAddress}

VARIABLES
    address,      \* address[id]: what the daemon has given the container
    ip,           \* ip[id]: what its creator was told, later the row's column
    visit         \* visit[v]: what the proxy's handler is doing

proxyVars == <<vars, address, ip, visit>>

(***************************************************************************)
(* visit[v].pc  "ask"   the row held no address: before Driver.IP          *)
(*              "send"  the request goes to http://target                  *)
(***************************************************************************)
NoVisit == [pc |-> "idle", id |-> NoId, target |-> NoAddress]

ProxyTypeOK ==
    /\ address \in [Ids -> Addresses \cup {NoAddress}]
    /\ ip \in [Ids -> Addresses \cup {NoAddress, Unasked}]
    /\ visit \in [Visits -> [pc : {"idle", "ask", "send"},
                             id : Ids \cup {NoId},
                             target : Addresses \cup {NoAddress}]]
    /\ \A v \in Visits : visit[v].pc # "idle" => visit[v].id \in Ids

ProxyInit ==
    /\ Init
    /\ address = [id \in Ids |-> NoAddress]
    /\ ip = [id \in Ids |-> Unasked]
    /\ visit = [v \in Visits |-> NoVisit]

-----------------------------------------------------------------------------
(* What the steps of Forge do to addresses and visits.                     *)

Starting == {id \in Ids : Running(id)' /\ ~Running(id)}

\* A container gets a free address when it starts and loses it when it stops.
Addressing ==
    \E given \in [Starting -> Addresses \ {address[id] : id \in Ids}] :
        address' = [id \in Ids |-> IF id \in Starting THEN given[id]
                                   ELSE IF Running(id)' THEN address[id]
                                   ELSE NoAddress]

\* Wrong on purpose: handleAgentRun inserts its row without asking.
AsksToCreate ==
    \A r \in Requests :
        (At(r, "create", "insert") /\ req'[r].pc # "insert" /\ server' # "down") =>
            ip[req[r].id] # Unasked

\* The row is inserted only once the creator has asked for the address.
AsksFirst ==
    \A r \in Requests :
        (req[r].pc = "insert" /\ req'[r].pc # "insert" /\ server' # "down") =>
            ip[req[r].id] # Unasked

\* The handlers of the proxy go on, unless the process ends.
VisitsEnd == visit' = IF server' = "down" THEN [v \in Visits |-> NoVisit] ELSE visit

\* The answer is dropped with the row, and with a creation that is given up.
AnswersEnd ==
    ip' = [id \in Ids |->
              IF HasRow(id)' \/ \E r \in Requests : Creating(r, id)' THEN ip[id] ELSE Unasked]

ForgeStep ==
    /\ Next
    /\ AsksFirst
    /\ Addressing
    /\ VisitsEnd
    /\ AnswersEnd

-----------------------------------------------------------------------------
(* Driver.IP, called by the creator and by the proxy.                      *)

\* The answers of Driver.IP to a caller whose context is alive or not.
AddressAnswers(id, alive) ==
    IF alive /\ Running(id)
    THEN {address[id]} \cup (IF May("docker") THEN {NoAddress} ELSE {})
    ELSE {NoAddress}

\* After Driver.Create; an error is not fatal, and "" is stored instead.
AskAddress(r) ==
    /\ req[r].pc = "insert"
    /\ ip[req[r].id] = Unasked
    /\ \E answer \in AddressAnswers(req[r].id, HasContext(r)) :
          ip' = [ip EXCEPT ![req[r].id] = answer]
    /\ UNCHANGED <<vars, address, visit>>

-----------------------------------------------------------------------------
(* handleSandboxProxy.                                                     *)

\* The exchange of a visit with id goes on with target, or asks for it.
Open(v, id, target) ==
    visit' = [visit EXCEPT ![v] = [pc |-> IF target = NoAddress THEN "ask" ELSE "send",
                                   id |-> id, target |-> target]]

Close(v) == visit' = [visit EXCEPT ![v] = NoVisit]

\* Wrong on purpose: the row is looked up without its id.
GetAnyRow(v) ==
    /\ server = "up"
    /\ visit[v].pc = "idle"
    /\ \E id \in known, other \in Ids : HasRow(other) /\ Open(v, id, ip[other])
    /\ UNCHANGED <<vars, address, ip>>

\* A browser opens /sandboxes/{id}/port/{port}/.  Registry.Get is the first
\* step that sees any state; without a row the answer is 404 and nothing happens.
GetRow(v) ==
    /\ server = "up"
    /\ visit[v].pc = "idle"
    /\ \E id \in known : HasRow(id) /\ Open(v, id, ip[id])
    /\ UNCHANGED <<vars, address, ip>>

\* The fall-back: 502 without an answer.
AskDriver(v) ==
    /\ visit[v].pc = "ask"
    /\ \E answer \in AddressAnswers(visit[v].id, TRUE) :
          IF answer = NoAddress THEN Close(v) ELSE Open(v, visit[v].id, answer)
    /\ UNCHANGED <<vars, address, ip>>

\* The exchange is over, with a response or a 502, or the browser has left.
Leave(v) ==
    /\ visit[v].pc = "send" \/ (visit[v].pc = "ask" /\ May("cancel"))
    /\ Close(v)
    /\ UNCHANGED <<vars, address, ip>>

ProxyNext ==
    \/ ForgeStep
    \/ \E r \in Requests : AskAddress(r)
    \/ \E v \in Visits : GetRow(v) \/ AskDriver(v) \/ Leave(v)

ProxySpec == ProxyInit /\ [][ProxyNext]_proxyVars

-----------------------------------------------------------------------------
(***************************************************************************)
(* A visit to a running sandbox reaches that sandbox, although the row's   *)
(* address is never refreshed and addresses are given out again: what was  *)
(* stored or asked for is still right while the container runs             *)
(* (proxy.go:42-58, sandboxes.go:66-75, agents.go:97-104).                 *)
(***************************************************************************)
ReachesRunning ==
    \A v \in Visits :
        (visit[v].pc = "send" /\ Running(visit[v].id)) =>
            visit[v].target = address[visit[v].id]

=============================================================================
