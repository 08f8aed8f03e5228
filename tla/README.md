# FORGE in TLA+

FORGE runs coding agents in throw-away Docker sandboxes. One Go process serves an
HTTP API, keeps a registry of sandboxes in SQLite, drives the Docker daemon, runs
agents against a local language model, and reaps sandboxes nobody uses. The
process is small, but it is concurrent throughout: every request is a goroutine,
the reaper is another, and they share the registry, the daemon, the driver and the
engine with hardly a lock between them. The registry and the containers outlive the
process; nothing compares them when it starts again.

This directory models that behaviour, model-checks it on small instances and proves
the central properties for instances of any size.

## 1. The system

| Part | Source | State | Operations | Hard behaviour |
|---|---|---|---|---|
| Registry | `internal/sandbox/registry.go` | rows (id, status, last_active, ...) | Insert, Get, List, Delete, TouchLastActive, ListOlderThan, SetStatus | one statement is atomic (one connection), a sequence of them is not |
| Reaper | `internal/sandbox/reaper.go` | none between passes; two snapshots within one | one pass per minute: list, mark sleeping, list, destroy, delete | snapshots are stale when acted on; errors are logged and passed over |
| Docker driver | `internal/sandbox/docker.go` | client, Once for the network, cache of forge users | Create, Exec, Destroy, files, status, IP | several daemon calls per operation, each may fail or be cut; Exec falls back; the Once is overwritten |
| Sandbox handlers | `internal/api/sandboxes.go` | none | create, list, get, exec, delete | driver and registry are changed by separate steps, under the request's context |
| Agent run handler | `internal/api/agents.go` | none | create or look up, register, run, touch, reply | a run lasts up to ten minutes; its sandbox is shared and may go |
| Agent engine | `internal/agent/agent.go`, `tools.go` | one conversation per run, shared statistics | Run, executeToolWithRetry | two layers of retries; the deadline is looked at in a few places only |
| Server process | `cmd/forge/main.go`, `internal/api/server.go` | signal context | start, drain, exit | the reaper's context ends at the signal, requests go on for ten seconds |
| Agent tools | `internal/agent/tools.go` | none | bash, read_file, write_file, five stubs | write_file is two daemon calls that read its path differently |
| Model client | `internal/agent/ollama.go` | none | Chat | a call that may last until the deadline |
| Port proxy | `internal/api/proxy.go` | none | forward | uses the address stored in the row, which is never refreshed |
| Coordinator, context, GitHub, Firecracker, dashboard | | | | stubs |

What makes each part correct, in one line:

* registry and driver together: no container without a row (a leak), no row without a
  container (a ghost), except while somebody is at work on it;
* the whole: a sandbox's name lives once (unborn, listed, retired), whatever fails;
* reaper: takes only what has been idle, and takes it in the end;
* handlers: a deleted sandbox stays deleted, a known one stays reachable;
* Exec: a command is run by the user it is meant for, once, and its result is its own;
  a call fails only when it has to;
* files: what was reported as written is where its path says, and is what is read back;
  command words arrive as sent;
* proxy: a visit to a running sandbox reaches that sandbox;
* engine: bounded retries, nothing started after the deadline, every run ends;
* network: failed attempts are retried, the Once settles only once the network is there,
  and a queue of Creates drains.

## 2. The modules

```
ServerProcess -+- Docker --+-- Reaper --+
               |           +-- Api -----+-- Forge -+- ForgeClaims
               +- Registry +                      +- ForgeService -- ForgeProxy
               |                                        | INSTANCE
               |                                  SandboxService
               |
               +- Docker ----- DriverExec -+- AgentEngine -- AgentClaims
               +- EnsureNetwork

Shell -- FileTools

Proofs:  ForgeProofs -- ForgeServiceProofs (with ForgeService and ForgeProxy)
         DriverExecProofs -- AgentEngineProofs
         EnsureNetworkProofs
         LeftFold (INSTANCE) -- ShellProofs -- FileToolsProofs
```

* **ServerProcess**: life of the process (`up`, `draining`, `down`), and the kinds of
  fault an instance lets happen (`Faults`).
* **Docker**: what the daemon holds under a name, the effect of each call, and how a
  call answers a caller: `ok`, `error` (nothing done), or `cut` (done, but the context
  ended before the answer).
* **Registry**: rows reduced to status and age. The age is the number of minutes since
  `last_active`; it saturates at `AgeCap`, which is past both thresholds of the reaper.
* **Reaper**: one action per statement of `tick` that touches shared state. `toSleep`,
  `toDestroy` are the snapshots, `elapsed` the minutes since the pass read the clock.
  The two calls of `Destroy` are two steps.
* **Api**: `req[r]` is the goroutine of a request: operation, program counter, sandbox,
  and whether its context still lives. `CreateContainer`, `StartContainer`,
  `DiscardContainer` are `Driver.Create`; `StopContainer`, `RemoveContainer` are
  `Driver.Destroy`; `Register...`, `DeleteRow`, `Lookup`, `Touch` the registry calls.
  `known` is what some client has been told.
* **Forge**: the composition, with time, deaths of containers, signals, crashes and
  restarts. `known` belongs to the clients and survives restarts, as do `registry` and
  `container`.
* **SandboxService**: what FORGE promises of a name whatever fails, without handlers,
  reaper or process: `Reserve`, `List`, `Tell`, `Free`, `Retire`, `Crash`.
* **ForgeService**: the mapping of Forge to it. A name is *listed* while it has a row;
  *unborn* while its container is unused or its creator has not registered it; *retired*
  otherwise. Its resources are *held* while the daemon has the container.
* **ForgeProxy**: Forge, and on top of it addresses, what creators were told of them
  (`ip`, later the row's column), and the proxy's visits. Every step of Forge is a
  `ForgeStep`: it starts and stops containers, so it also gives and takes addresses.
  A freed address may go to the next container.
* **Shell**: pure functions: `basename`, `dirOf`, the directory of `write_file`,
  `shellQuote`, `buildCmd`; and, external, the names in a path and the words a POSIX
  shell makes of a line. Strings are sequences of characters there (of Go's runes: the
  loop of `shellQuote` goes over runes, and what JSON decodes to is valid UTF-8). Each
  loop of the code is a fold whose step is a definition of its own.
* **FileTools**: a tree of directories and files in one container, under concurrent
  `write_file`, `read_file` and exec calls; `promised` records what was reported as
  written.
* **DriverExec**: `Exec` attempt by attempt (create, attach, copy, inspect, remember), the
  cache, and `Destroy` racing with it. `ran` records as whom a call has started its
  command. A start may fail without an error of the call: for want of the user
  (`WithForge`), of bash (`WithBash`), or of the work directory, which a command may have
  removed (`Homeless`); only the first is told by its text. What an attempt as forge has
  taught is written by a step of its own (`Remember`), also after `Destroy` has dropped the
  entry.
* **AgentEngine**: `Engine.Run` on top of `DriverExec`: loop head, chat, tool calls,
  attempts, back-off, `Record`, reply. The model's client is its set of results; the five
  stub tools are one that answers at once.
* **EnsureNetwork**: `ensureNetwork` with the words of the `sync.Once` and of the mutex
  inside it, since the code overwrites them. The runtime's part is external: it is
  modelled from the documented behaviour of Go's normal-mode mutex, including its two
  fatal errors ("unlock of unlocked mutex", "inconsistent mutex state").
* **LeftFold**: not a model. It takes the step and the base of a fold as constants and
  proves how the fold goes on; ShellProofs has one instance for each fold of Shell.
* **ForgeClaims**, **AgentClaims**: statements of comments and documents that the code
  does not keep, each stated as its text reads, with the history variables they need.
  Time is made as kind to them as possible (no minute passes while the reaper is late,
  or while a run has anything to do).

Definitions marked *Wrong on purpose* are plausible bugs of the definition below them.
No specification uses them; putting one in the place of the right definition shows that
the property guarding it can fail.

### Abstractions

* Names. `uuid.New` gives a name never used before (`Fresh`), so a removed container
  does not return. The code cuts the uuid to eight hex digits; a collision would make
  ContainerCreate fail and is not modelled.
* Docker calls are atomic at the daemon. That a daemon refuses a second removal while
  one is under way is an error answer, i.e. part of the fault `"docker"`.
* The image pull of a Create changes nothing and is indistinguishable from a failing
  ContainerCreate; the IP lookup is a step of ForgeProxy only. Decoding, formatting and logging
  are left out; a request refused for its body changes nothing.
* In Api the whole agent run is one step, `EndRun`, and an exec two; DriverExec and
  AgentEngine look inside them.
* The reaper has no `cut` outcome of its own: its errors are only logged, so a cut call
  is a successful one followed by the signal.
* The proxy's checks of the port and the rewriting of the path are left out; an exchange
  is one state (`send`) that lasts as long as it likes.
* FileTools keeps of permissions only where a command may write: as forge below the work
  directory, as root everywhere. Paths are not empty (the tool refuses those), not made
  of slashes only, and do not use `.`, `..` or links. The directory of a path goes to a
  shell unquoted: it is a text the shell reads as words (`WordsOnly`: no line that a quote,
  a backslash at the end, or one of `; & | $ ( ) < > * ? [ ] { } ~ # ! =`, a double quote,
  a backtick, a tab or a newline takes elsewhere; a blank is allowed and splits it), none
  of which is an option of mkdir. The same is asked of a command sent as one string. The
  words of a command list are quoted by `shellQuote` and may hold anything. `rm -r`
  refuses the root directory and goes on with its other arguments; an unquoted path of
  `write_file` may split into such arguments of mkdir, and a command of a client into
  such arguments of rm.
* A GET is one step that shows one row; a list shows several, one at a time.

## 3. The runs

Sandbox and request sets are model values. Three requests on one sandbox let two
handlers (create, delete, exec, run) race with a third and the reaper; `disconnects` has
two sandboxes and one request, for what one sandbox's visit may find of another.
In the first two runs thresholds of 1 and 2 minutes, a pass that may last one minute and ages up to 4 are the
smallest values for which the sleep and destroy cutoffs differ, a row can be old enough
for one and not the other, and a minute can pass in the middle of a pass.

| Run | Faults | Instance | Shows |
|---|---|---|---|
| `reliable` | container deaths | 1 sandbox, 3 requests, fair | `NoOrphan`: no leak while calls are answered; `RowBacked`: no ghost rows; `IdleRowReaped`; `HungExecReleased` |
| `everything_fails` | all | 1 sandbox, 3 requests | `TypeOK`, `ReapsOnlyStale`, `RowNeverReturns`; `LeaksOnFailureOnly`: which failures leak a container, and that nothing else does; `NamesLiveOnce`: Forge implements SandboxService |
| `disconnects` | disconnects, crashes, deaths | 2 sandboxes, 1 request, 1 visit, 2 addresses, thresholds 0 and 1 | `ProxyTypeOK`; `KnownTracked`: what a client knows stays reachable; `ReachesRunning`: a visit reaches its sandbox; `LeaksOnFailureOnly` |
| `exec_calm` | deaths, disconnects | 2 calls, an image with forge whose work directory may vanish and one without forge, fair | `ExecTypeOK`; `ResultIsOfARun`: no complaint of the daemon about a missing user is a result; `FailsOnlySpent`: a call fails only when its caller has left or its container has stopped; `RanAsMeant`; `StoppedReleases`: a call on a stopped container returns |
| `agent_calm` | deaths, deadlines, model errors | 2 runs in one sandbox with forge, 2 iterations, 2 tries | `AgentTypeOK`, `StartedOnce` |
| `agent_errors` | + daemon errors | 1 run in one sandbox with forge, 2 tries, 2 calls per message, fair | `StartsBounded`, `QuietAfterDeadline`, `RunEnds` |
| `network_errors` | daemon errors | 3 Creates, fair | `NetTypeOK`, `SettlesOnNetwork`, `QueueDrains` |
| `files` | any call may fail, before or after its effect | 2 calls, 6 paths, 2 contents, 5 commands, with and without forge | `FileTypeOK`, `PromisesKept`, `ParentsMade`, `WordsArrive`; `ReadsBack`: what is read is what was written |

Two sandboxes are enough for the proxy: a visit can be led astray only by one other
container that got the address of the first. The paths of `files` are one of each shape
the two computations of a directory treat differently (plain, deep, outside the work
directory, relative, with a blank, with a trailing slash); the words are the empty one, a
blank, and quotes at each end. Three Creates are one that holds the mutex and two that
queue; four were checked once (434,154 states) with the same result.

The restrictions on faults are part of the result: `NoOrphan` fails as soon as the
daemon errs or a client leaves (`LeaksOnFailureOnly` says by which steps), `KnownTracked` as soon as the database errs or the
process is asked to stop during a pass, `StartedOnce` and `RanAsMeant` as soon as the
daemon errs after a command has started (the attempt as root then repeats it). For two requests `KnownTracked`, and for
daemon errors `RowBacked`, are covered by the theorems below for any instance.
`ResultIsOfARun` is about sandboxes in which nothing but a missing user keeps a command
from starting: without bash, or without its work directory, the daemon's complaint does
come as a result. The two agent runs have one image; `RanAsMeant` is checked on both, and
`StartsOnce` is proved for all.
Errors of the daemon inside `Exec` are part of `agent_errors`, and `ExecTypeCorrect` and
`ResultsAreReal` hold under them. `IdleRowReaped` was checked once with disconnects as
well, for two requests: a row that outlives its container because the client left in the
middle of a delete is collected too.
The code tries a tool three times; two tries already show a retry that is the last.
Symmetry (sandboxes, requests, calls) is used in runs without liveness properties only.
Deadlock is checked everywhere except in `network_errors`, where the runtime's fatal
error stops the process.

### What the code does not keep

| Run | Statement | What happens |
|---|---|---|
| `claim_inuse` | ARCHITECTURE.md:79, "continued inactivity" | a sandbox comes up for destruction while an agent is at work in it, since a run touches it only when it is over (agents.go:116), or after it was used since the reaper's query (reaper.go:88) |
| `claim_collects` | ARCHITECTURE.md:198, "let the idle reaper collect it" | during shutdown `Destroy` fails at once and the row is deleted all the same: the container is lost |
| `agent_hung` | agents.go:81, a guard against hung tool calls | copying a command's output does not look at the deadline |
| `network_fatal` | docker.go:97, "reset so next call retries" | the reset may hit a mutex another call holds; its unlock ends the process |

Met while modelling, kept in the models, and not given a run of their own because they
follow from a line or two:

* reaper.go:13 says *sleeping* for the threshold; both queries look at `last_active`, so
  one pass may put a sandbox to sleep and destroy it.
* A touch leaves the status alone, so a sandbox just used may read "sleeping".
* reaper.go:74 goes by the list of an earlier query: a sandbox used in between is marked
  sleeping, against ARCHITECTURE.md:78 "after `FORGE_IDLE_SLEEP_MIN` (default 10) min of
  inactivity". Only the status is wrong, and only listings show it.
* docker.go:314 "Fallback for custom images that don't have the forge user or bash": the
  text looked for is that of a missing user only (docker.go:292). On an image with forge
  and without bash, or without the work directory, the daemon's complaint is returned as
  the result of a command that never ran, and forge is remembered as present.
* docker.go:216 "Commands run as the non-root `forge` user": any error of the attempt as
  forge leads to the one as root (docker.go:309-315), an error after the command has
  started included: on the stock image the command then runs again, as root.
* ARCHITECTURE.md:55 "Reverse-proxy HTTP/WS to a server inside the sandbox": the row keeps
  the address of a container that has died (proxy.go:43, 58); when it is given to another
  one, visits to the dead sandbox go there. `ReachesRunning` is about running sandboxes
  for that reason.
* sandboxes.go:87 cleans up under the request's context; a client that has left makes
  the clean-up fail. This is one of the leaks `LeaksOnFailureOnly` allows.
* docker.go:305 may write the cache entry of a container that `Destroy` has just dropped;
  its name is never drawn again, so nobody reads it and nobody drops it.
* agents.go:30 says sandbox_id is always returned; a failed run answers with an error
  text only.
* agents.go:141 replies with the last entry of statistics all runs append to.
* docker.go:71: a Create that waited for another's failed attempt goes on without a
  network (its own `ensureErr` is nil) and is refused later by the daemon.
* docker.go:97: the reset also zeroes the count of waiters and their wake-ups, so a Create
  that sleeps in the old mutex may never be woken. `QueueDrains` is stated for histories
  in which no attempt fails.
* tools.go:188 "Creates parent directories as needed": the directory is made by a shell, as
  forge, from the work directory, with the path unquoted and the exit code not looked at;
  the file is unpacked from the root directory. With a blank in it, other directories are
  made (tools.go:207). With a relative path, a directory only root
  may write, or a trailing slash, the directory is made elsewhere or not at all, too, and
  the write fails unless it was there. `ParentsMade` states for which paths
  the sentence holds.
* docker.go:373 returns "" for a directory: the first entry of its archive has no bytes.

### Fairness

`Forge` assumes that time passes (`Minute`), that the reaper's loop goes on (`Reap`) and
that a handler's own calls return (`Serve`): goroutines are scheduled, the ticker fires
every minute, a Docker or SQLite call answers. Nothing is assumed of clients, faults or
restarts. A command may run for ever; `EndCommand` is fair only while the container is
not running, for then the stream is closed by the daemon and the tools of an agent fail.
`HungExecReleased` therefore shows that the reaper, and nothing else, frees a handler
from a hung command. `DriverExec` assumes the same. `AgentEngine` assumes in addition
that the model answers and commands end; `agent_hung` shows why the latter is needed.
`EnsureNetwork` assumes that a call that can go on does, the daemon's answer included;
nobody has to call Create. Calls enter the queue only before the first attempt is done,
so no call is overtaken for ever and the mutex's starvation mode, which is not modelled,
is not needed.

## 4. The proofs

All proofs are for every `Ids`, `Requests`, `Callers`, `Creators`, `Visits`, every set of faults not excluded
in the statement, and all thresholds. The only assumptions on constants are those named
in the modules: `NoId` is not an id, faults are fault kinds, thresholds are naturals and
`AgeCap` exceeds them, `Creators` is finite, `NoAddress` and
`Unasked` are not addresses, caps on iterations and tries are positive; for files, the
characters the code looks at are among `Chars`, every path has a character that is not a
slash, the directory of a path and a command of one string are lines that a shell reads as
words, none of them an option, a command list is not empty (sandboxes.go:135), and no
content is mistaken for a directory; for Exec, the sets of images are sets of sandboxes and
a command may end with another code than 126.

**ForgeProofs**

* `TypeCorrect`: `Spec => []TypeOK`.
* `LineageHolds`: `Spec => []Lineage`. `Lineage` has two parts. `UnusedUntouched`: a name
  no container has had yet has no row, is known to no client, and the reaper does not
  hold it; only its creator works on it. `CreatorAlone`: until a sandbox is registered
  its creator is the only request on it, and there is no row. It is the strengthening
  everything else needs: a row can only come from `Insert`, `Insert` is only
  reached by a creator, and a creator's sandbox is known to nobody.
* `DeletedForGood`: `Spec => RowNeverReturns`, from `TypeOK` and `Lineage` (lemma
  `RowFromCreator`: a new row is its creator's).
* `KnownStaysTracked`: without daemon errors, database errors and shutdown,
  `Spec => []KnownTracked`. The argument: a row is deleted only by somebody who removed
  the container first (`OnlyRemovalForgets`, `RowGoesLast`; for the reaper `ServerMoves`
  adds that its context has not ended in between), containers only move
  forward (`StepForward`), and a client is told only of registered sandboxes
  (`Bookkeeping`).
* `LeaksHaveFailures`: `Spec => LeaksOnFailureOnly`, under all faults. `CreationState`
  says in which state the container of a creator is at each of its steps, so a creator that
  gives up either leaves no container or fails as `CreatorFails` says (`CreatorGoesOn`,
  `LeakStep`); rows are deleted after the removal, or by a reaper whose Destroy failed.
* `NothingLeaks`: with container deaths only, `Spec => []NoOrphan`. `Unbroken` says that
  no request's context has ended and the process is up; then a creator goes on until the
  row is in (`CreatorGoesOn`), only creators create (`OnlyCreatorsCreate`).
* `NoGhosts`: with container deaths and daemon errors, `Spec => []RowBacked`. Two facts
  strengthen it: `CreationState` (a row is inserted while the container is there, since
  nobody else works on a sandbox under creation) and `Unbroken`. Whoever removes a
  container that has a row goes on to delete the row (`RemoverForgets`) and is not
  stopped (`ForgettingEnds`).
* `HeldIsStale`: `Spec => []ReapsOnlyStale`, under all faults. `HoldsInTurn` strengthens
  it: the reaper holds nothing between passes. Within a pass ages and `elapsed` move
  together (`MinuteStaysStale`), and every other step leaves an age alone or resets it
  (`AgesKept`).

**DriverExecProofs**

* `ExecTypeCorrect`: types.
* `ResultsAreReal`: `ExecSpec => []ResultIsOfARun`, under all faults and outputs.
  `Attached`: in a sandbox that serves, an attempt that reads the stream has started the
  command if its user exists; so has a call about to remember that forge is there.
* `FailsWhenSpent`: if the daemon answers, `ExecSpec => []FailsOnlySpent`. A call
  fails where an attempt as root goes unanswered, which a spent one only does; what forge's
  answer has taught ends no call by itself (`ForgeIsLookedAt`), and being spent does not
  pass.
* `RunsAsMeant`: if moreover no command prints the daemon's complaint,
  `ExecSpec => []RanAsMeant`. The cache says "no" only of an image without forge, however
  late it is written, and where the image has one, an attempt as root comes after its call
  was spent, so it starts nothing.

**ForgeServiceProofs**

* `ForgeServes`: `Spec => NamesLiveOnce`, i.e. Forge implements `SandboxService` under all
  faults. Initial states map to initial states. A handler's or the reaper's step works on
  one id: its mapped step is one of `Reserves`, `Lists`, `Reported`, `Frees`, `Retires` on
  it (`OneLife` turns each into the service's action) and a stutter elsewhere
  (`HandlerElsewhere`). `Lineage` does the work: only one request can be creating a
  sandbox (`NoOtherCreator`), so its failure alone retires the name. The end of the
  process maps to `Crash` (`ExitCrashes`).
* `ProxyTyping`, `VisitsReach`: `ProxySpec => []ReachesRunning`, under all faults. A
  container starts once (`StartsOnlyOnce`) and keeps its address while it runs, so an
  address learnt after the start stays right as long as it matters. The invariant says
  that nothing is learnt before: a row is inserted after the start (`InsertsBegun`) and
  after the question (`RowsAnswered`), answers and visits are about containers that have
  been started (`AnswersBegun`, `VisitsBegun`).

**EnsureNetworkProofs**

* `NetTyping`: types, strengthened by a count: waiters and wake-ups in the Once never
  exceed the calls that wait, through resets that forget them.
* `SettlesAlways`: `NetSpec => []SettlesOnNetwork`. `FailureResets`: while the Once is done
  and there is no network, some call with an error of its own is still to return, and will
  reset it; an attempt about to store `done` without an error has seen or made the network.

**AgentEngineProofs** (on top of the lemmas of DriverExecProofs)

* `AgentTypeCorrect`: types of engine and driver together.
* `StartsStayBounded`: a tool call has started its command at most twice per try that is
  over, and at most twice in the one under way.
* `QuietOnceEnded`: each of the steps that could start a command needs a living context.
* `StartsOnce`: when the daemon answers and no command prints its complaint, a bash call
  starts its command once. A call of `Exec` that has started its command and has no result
  is spent, its context ended or its container stopped (`StartedIsSpent`), and being spent
  does not pass; so an attempt after one that started the command starts nothing
  (`RetriesInVain`).

**LeftFold**, **ShellProofs** (what the functions on strings compute, for every string)

* Induction over data is done with sets. `NatSetInduction` and `SeqSetInduction` say that
  a set of numbers, or of sequences, with the first one and closed under the next is all
  of them; they come from the least element of a well-founded set. To prove a fact of all
  texts one takes the set of the texts it holds of. `FoldedEmpty` and `FoldedAppend` then
  unfold `FoldLeft`, which the community modules define by recursion over sets of indices:
  a solution of that recursion is shown to exist (`SolutionExists`), and those for a
  sequence and for its extension to agree (`FoldedAppend`).
* `QuotingRoundTrip`: for every list of at least two words,
  `ShellWords(BuildCmd(cmd)) = cmd`. The reader enters the quotes of a word and leaves
  them with that word read (`QuotedWord`, by induction over its characters; a quote in it
  leaves the quotes, is read behind a backslash, and enters them again); the blank between
  two words ends one and no other does (`JoinedReads`, by induction over the list).
* `SamePlace`: directory and base name of a path, put together, are the place of the path.
  A walk over a path has at every point the names up to the last slash and the text after
  it (`WalkSplits`), and cutting the trailing slashes changes no name (`TrimFacts`).
* `PlainWord`, `ParentOfAbsolute`, `MadeOrBelow`: a text without blanks, quotes,
  backslashes and the characters of `Specials` is one word; the directory of an absolute path without them is such a text;
  it names the directory of the copy or, after a trailing slash, the file itself.

**FileToolsProofs**

* `TreeStands`, `WritesAreKept`, `ReadsWhatWasWritten`, `DirectoriesAreMade`,
  `CommandsArriveWhole`: `FileSpec` implies `[]FileTypeOK`, `[]PromisesKept`, `ReadsBack`,
  `[]ParentsMade`, `[]WordsArrive`. The
  inductive invariant is `FileInv`: these, and `Callers` (a call holds what a client
  sent), and `HomeStands` (while commands run as forge, nobody takes the work directory
  away or one above it). A step changes the disk in one of three ways: mkdir -p loses
  nothing (`MakeStep`), rm -r takes away with a directory all that is in it
  (`RemoveStep`), the copy puts a file where a directory is (`CopyStep`). `PromisesKept`
  then rests on `SamePlace` for the copy, and on `AskedIs` for commands: what runs is what
  was asked for, so what is removed was revoked. `ParentsMade` needs `HomeStands`: each
  directory on the way is the work directory or above, and stands, or below it, and forge
  may make it (`DirectoryMade`).
* The proof found an error of an earlier model, in which root could remove the root
  directory: no tree was left then, which the bounded instance had no command to show.

Only model-checked: liveness (`IdleRowReaped`, `HungExecReleased`, `StoppedReleases`,
`RunEnds`, `QueueDrains`), since fairness and ENABLED are beyond the prover. Every
invariant and every action property of a passing run is a theorem.

## 5. Not modelled, and next

Not modelled: the image pull and the lazy client, decoding and formatting, registry
schema and timestamps, the roles' tables, the stubs of later layers, the dashboard.

* Timestamps are compared as texts. The order is right because every path converts to
  UTC and the driver ends a fraction with a blank, which sorts before the point and the
  digits; the format is the library's and is not part of the sources.
* `Registry.Update`, `Engine.RunSingle`, `Accounting.Summary` and `Driver.Status` have no
  caller in the repository.
* The tool list of a role is only what the model is offered: the engine executes any
  registered tool the model names, and AgentEngine lets it.
* Loss of the database (the compose file keeps it inside the container) would leave every
  container an orphan; the model's registry is durable.

What could follow: `DriverExec` inside `Forge`, so that commands of agents and handlers
run in one composition with a deadline that counts minutes; the proxy's rewriting of
paths; the mutex's starvation mode, to say which Creates a reset can strand.
