# Task Agent: a verification project

Task Agent turns a *plan* (a graph of small tasks) into isolated executions. A Go
command line tool, `task-agent`, walks the graph; every execution is a *Task* of
AX, a control plane whose API server, Redis store and controller drive *actors*
of Agent Substrate; inside each actor a runner prepares a workspace, supervises
one command and leaves a receipt of its exit.

This directory holds TLA+ models of that system, the TLC configurations that
check them on small instances, and proofs that TLAPS checks for every instance.
All paths below are relative to the repository; `engine/ax` is abbreviated to `ax`.

1. [The system](#the-system)
2. [The modules](#the-modules)
3. [TaskGraph](#taskgraph) · [AXControl](#axcontrol) · [TaskRunner](#taskrunner) · [Store](#store) · [Tunnel](#tunnel)
4. [The runs](#the-runs) · [Fairness](#fairness) · [Where code and documents disagree](#where-code-and-documents-disagree)
5. [The proofs](#the-proofs)
6. [What is not modelled](#what-is-not-modelled)
7. [The plan](#the-plan)

## The system

```text
 skill ─► task-agent CLI ─────────────┐  one process per command
             │  taskgraph.Engine      │
             │  taskgraph.Store       │ AXBackend
             ▼                        ▼
     Redis: state, lock       ax-server (stateless gRPC)
                                      │  read, then MULTI/EXEC
                                      ▼
                     Redis: records, index, event stream
                                      │  XREADGROUP / XACK
                                      ▼
                            ax-controller: Worker, TaskReconciler
                                      │
                                      ▼
                     Agent Substrate: actors, templates, snapshots
                                      │
                                      ▼
             ax-task-runner in the actor: workspace, command, receipt
```

| component | state it keeps | operations | what makes it correct |
|---|---|---|---|
| **task graph engine** `ax/internal/taskgraph/{engine,store}.go` | graph state and lock in Redis, a copy per command | `Apply`, `Tick`, `Pause`, `Resume`, `Locked`, `Save` | a lost reply or a death between two calls never leads to a second or an unaccounted execution; nothing unvalidated is adopted; no revision starts over running actors; the graph settles |
| **AX backend** `ax/internal/taskgraph/backend.go` | none | `Ensure`, `Start`, `Result`, `Suspend` | retries are idempotent; a stop that is confirmed has happened |
| **graph model** `ax/internal/taskgraph/{model,sort}.go` | none | `Validate`, `Files`, `Complete` | the graph is acyclic |
| **task-agent CLI** `ax/cmd/task-agent` | none | the subcommands | commands that change state run under the lock; `impact` names all that a revision runs again |
| **AX server** `ax/internal/server` | none | `CreateTask`, `SuspendTask`, `ResumeTask`, `DeleteTask`, lists, watches | Tasks are immutable; an acknowledged request is not forgotten |
| **Redis store** `ax/internal/store/redis` | records, index sets, stream, consumer group | one command or one MULTI/EXEC each | records and index agree; events reach a worker |
| **memory store** `ax/internal/store/memory` | maps, an event queue of 1000, watchers with room for ten | as above, under one lock | what it drops is dropped for want of room only, and no watch hangs for it |
| **controller** `ax/internal/controller` | none between events | event loop, `Reconcile`, `ReconcileDelete` | the actor follows the record; deletion leaves nothing behind |
| **Substrate client** `ax/internal/substrate` | none | `EnsureActor`, `SuspendActor`, `ResumeActor`, `DeleteActor`, templates | a crashed actor is recreated once the old one is gone |
| **task runner** `ax/runner`, `ax/cmd/ax-task-runner`, `ax/cmd/task-agent-exec` | marker, activation and receipt files in the durable workspace | set up, supervise, report the exit, restore | the command runs once; a receipt is of this Task and complete |
| **workspace setup, metadata server** `ax/internal/{workspace,metadata}` | marker file, readiness flag | clone, write files, serve | initialised once; a retry overwrites nothing |
| **tunnel** `ax/internal/tunnel`, used by every command of the **ax CLI** `ax/cmd/ax` | state files, logs and kubectl processes, one pipe per session | find, probe, start, record, stop a tunnel; forward a session | a command reaches its own cluster and is answered; tunnels are found again and stopped; a session's forward ends with it |
| guest file API, model client, API types, Codex adapter, infrastructure and build scripts | – | single requests, conversions, scripts | – |

The hard behaviours are of six kinds: (1) a command line process that may die or
lose a reply between any two external calls and is simply invoked again; (2) a
stateless server and a controller that both read a record and write it back later;
(3) a suspension whose completion must be confirmed across three asynchronous
layers; (4) events that are delivered once, to one member of a group, which may
die; (5) executions that are snapshotted, restored and restarted; (6) queues, channels and
pipes of fixed size, and files and process numbers that commands share without a lock. `PROJECT.json`
lists each hazard at its line, with the properties that would catch it.

## The modules

| module | what it is |
|---|---|
| `TaskGraph` | the graph engine, its store and lock, the CLI's commands and the backend |
| `GraphContract` | abstract: what the graph promises whoever drives it, as jobs, orders and verdicts |
| `TaskGraphProofs` | the inductive invariant of `TaskGraph` and ten theorems |
| `ContractProofs` | results over revisions, what `impact` covers, the refinement of `GraphContract`, and that attempts advance |
| `AXControl` | API server, Redis store, controller and Substrate client |
| `AXControlProofs` | its inductive invariant for one controller and four theorems |
| `AXQuietProofs` | what one controller comes to once the events are processed |
| `TaskExecution` | abstract: what the graph relies on when it hands a launch to an actor |
| `TaskRunner` | the life of one actor: setup, gate, command, receipt, snapshot, suspension, crash |
| `TaskRunnerProofs` | its inductive invariant, four theorems and the refinement of `TaskExecution` |
| `Registry` | abstract: what a store promises about one resource |
| `Store` | one resource in the Redis or the memory store and the clients that use it |
| `StoreProofs` | its inductive invariant, two theorems, and what a deletion waits for |
| `StoreRefinement` | what its watches hold, its types, and the refinement of `Registry` |
| `Tunnel` | the CLI's background tunnels and the port-forward of `ax ssh` |
| `TunnelProofs` | its inductive invariants and four theorems |
| `MC*`, `*.cfg` | instances for TLC |

How they fit together: `TaskGraph` sees an actor through three actions only (`Converge`, it
follows its order; `Finish`, its command leaves a receipt; `Start`, its activation).
`AXControl` is what becomes of the order, `TaskRunner` of the activation and the
receipt; `TaskExecution` is the interface: the runner implements it, and the graph
uses no more of it. `GraphContract` is the interface on the other side, of the graph to
the person or skill that drives it. `Store` looks closer at the records `AXControl` keeps in Redis
(lists, watches, the kinds of resource without a controller), and at the other store.

Operators named in a comment as *mutant* are plausible faults of the code. Each
changes one definition, and makes one property of one run fail; `PROJECT.json`
pairs them. They are no part of `Spec`.

## TaskGraph

One **session** of an operator is one CLI command. It takes the lock
(`store.go:42`), loads the state, works on its own copy, and writes it back after
each phase change; it ends by releasing the lock.

| model | code |
|---|---|
| `db` | the JSON state under the graph's key (`store.go`) |
| `lock` | the key of `Locked`, which has no expiry |
| `pc[o]`, `mem[o]`, `at[o]`, `todo[o]` | where operator `o`'s process is, its `*State`, the plan index of `Tick`'s loop, the attempts `Pause` has yet to visit |
| `created` | AX Task records and what each was created from |
| `wanted`, `ordered` | actors whose last acknowledged order is to run; actors that were ever ordered to run |
| `stray` | actors whose Task record does not say what was ordered last, since a status was written over it |
| `running` | actors Substrate reports RUNNING |
| `receipt` | `result.json` of each actor |
| `faults` | bound on failures and deaths of commands and on orders written over, as far as `Faults` names these kinds |

`Apply`, `Resume` and `Pause`'s marking are the pure operators `Applied`,
`Resumed`, guarded by `Applicable` and `Settled`; `Stopped` is the decision the
engine takes after a confirmed stop. `Tick` is one action per call it makes:
`Visit…` (choose what to do with the next task), `SaveNew` (store an identity
before anything is created under it, `engine.go:76-82`), `Ensure`, `Start`,
`Read`, `Stop`, `Observe`, `Save`. `Pause` picks any of the remaining attempts, as
Go's iteration over a map does. `Fail` ends a command after any of its calls, which may have
taken effect; `Crash` leaves the lock behind and `Recover` is the operator who
deletes it by hand, as `engine/extensions.md` requires. `Overwrite`, `Converge` and `Finish`
are what the engine sees of AX: a reconcile writes the status it computed from an older copy over the
order just acknowledged (`redis/store.go:260-279`), or a later such write puts it back; an
actor comes to follow its record (`ToRun`), whatever was ordered; commands exit with any outcome.
A new order sets the record right: `Start` gives one again as long as the actor does not run
(`backend.go:187-206`), `Stop` always.

Abstractions. A digest of revision, node definition and input bytes is the record
of these three, hence injective. File contents are members of `Value`. A receipt
with exit code 0 carries every declared output (the hook in `task_agent.go` ensures
it) and belongs to the actor it is read from. Left out of the backend: actors in
the state CRASHED, the retry of a Failed Task whose resumption failed
(`backend.go:124-139`), errors of the golden snapshot, egress policies, the 32 KiB limit.
A call that timed out takes effect before its command ends or not at all. An actor follows its
record in one step: how a reconcile comes to hold an older copy is the subject of `AXControl`
(`StopIsFinal`). `wanted` is what AX was asked for last and has acknowledged, not what its record
says after an `Overwrite`. `WantedIsOwned`, `RevisionStartsQuiet` and the contract's *active* speak
of `wanted`: they say that the graph leaves no order behind, not that AX keeps to it.
A Task that AX has marked Failed for another reason than its resumption is an error at every later
`Result`; the fairness of `Observe` leaves it out of `RunSettles`.

Properties.

- `LockCoversCopies`, `IdentityStoredFirst`, `WantedIsOwned`: two invocations never
  work on copies at once; a Task is only created under a stored identity; and no
  acknowledged order is left to run an actor that is not the current step of a stored, live
  attempt, whatever reply is lost and whoever dies.
- `EnsureIsIdempotent`: no retry asks for a different Task under an existing name,
  which AX would refuse on every later run.
- `AdoptedWasValidated`: adopted outputs are those of the executor's receipt,
  approved by a validator that was created from exactly these bytes.
- `ImpactCovers`: what the `impact` of a revision does not list keeps its identity and
  its result, however often the tasks before it run again; in `chain` one of the second revisions
  takes `b` out, so that `a` with its result is outside the impact. It is stated for the impact on
  every plan whose results the graph may have started with (`ResultsOf`): the predecessor
  of the plan in force is one of these (`ResultsFollowPlan`, proved), and the state does
  not tell it from another plan that agrees with it on the tasks that had succeeded.
- `ImplementsContract`: the engine implements `GraphContract`. There a task has a *job*,
  which is live, decided (`done`, `failed`) or suspended; it is *active* while AX has the
  order to run one of its actors; and a *verdict* is what a validator approved, under the
  job's name. A job begins only when its inputs are there and no earlier result stands;
  it is decided, or its suspension confirmed, only while it is not active; a result is
  adopted only as a verdict of the same name has it, of which there is one at most; no job
  begins, is ordered or decided while the graph is marked as suspended; and plans
  and resumptions come into force only at rest. Locks, copies, phases, the second actor of
  an attempt, retries, lost replies and dead commands are not there: each is one of these
  steps or none.
- `AttemptsFitPlan`: a stored attempt, reused or fresh, is for the definition
  in force and for the outputs its dependencies have *now*.
- `AttemptsArePermanent`, `RevisionStartsQuiet` (actions): within a revision,
  identities and successes never change; a plan is replaced only by the next
  revision and only when no actor has the order to run.
- `PhasesAdvance` (action): within a revision a write takes one task one phase on, along the
  lifecycle of `model.go` or, on a marked graph, to `suspended`, and leaves all else alone; only
  `resume` takes attempts back, and only settled ones.
- `SomethingIsDue`: the tasks of a plan in force never all wait for each other. Unless it is
  complete, failed or marked, one that is not settled has its inputs.
- `RunSettles`, `SuspensionSettles` (liveness): repeated runs end a plan or fail a task, unless
  an order is `Forgotten`; a requested suspension is completed, though its orders may be written
  over too. See [Fairness](#fairness) for what they assume.

## AXControl

Every Redis command or MULTI/EXEC and every Substrate call is one step.

| model | code |
|---|---|
| `rec`, `index` | Task records and the sorted sets behind `ListTasks` (`redis/store.go`) |
| `stream`, `joined`, `position`, `pending` | the event stream, its consumer group, what the group was given, what is not acknowledged |
| `cpc[c]`, `ctask[c]`, `crec[c]` | a request in the server: it has read a record and is about to write one |
| `wpc[w]`, `wrec[w]`, `batch[w]` | a controller's worker: its step, the copy it reconciles, the claimed events |
| `actor`, `template` | Substrate's actors and the per-Task templates |
| `wish`, `stopped`, `lost` | history: the last acknowledged request, the stops a caller has confirmed, the Tasks an event of which was given up |

A request is a read (`CreateTask`, `SuspendTask`, `ResumeTask`, `DeleteTask`) and a
write (`SaveTask`, `MarkTaskDeleting`); the caller of a suspension then looks at the
actor, as the graph's backend does (`Observe`, `backend.go:173-183`). A worker
subscribes (a new group starts at the tail, `redis/store.go:595`), reads a batch,
and handles each event: `GetTask`, `EnsureTemplate`, `EnsureActor` and, for a
crashed actor, `Recreate`, then `SuspendActor` or `ResumeActor`, and the status
update as the read and the write it is (`UpdateGet`, `UpdateSet`). A delete event goes
through `DeleteActor`, `DeleteTemplates`, `RemoveTask`. `CallFails`,
`RedisFails`, `Crash` and `ActorCrashes` are the faults; each event is acknowledged
whatever became of it, as in `worker.go:89-103`.

Abstractions. One atespace. A manifest is a model value and the digest in a
template's name is injective. Conditions of a Task and the wait for its workspaces
(`reconciler.go:220-291`), which only sets conditions, are in `TaskRunner` (`Poll`), not here. Substrate's
transitional states are folded into the call that completes them, and "suspended"
means SUSPENDED without a worker. A failing call has no effect; one whose reply is lost is
covered by the success followed by a crash of the worker. An acknowledgement does not
fail: nothing reads the pending list. A dead worker's last call has taken effect or
never will. A new actor is SUSPENDED until it is resumed.

Properties, for one controller unless said otherwise.

- `NoOrphanActor`: an actor that is not being deleted has a record, by which it can
  be found, and the template it resumes from. This needs the order of the
  deletion's steps, the check in `GetTask`, the failed deletion that keeps the record, and
  that one worker handles reconcile and delete events in turn.
- `QuietAgrees`: once no event of a Task is on its way, record and actor agree:
  no request that crossed the worker's steps leaves a Task that says Suspended over a
  running actor or the reverse. It excepts Tasks of which an event was given up or was never
  delivered, and a Task that is Failed agrees with any actor.
- `DeletePrevails`: a deletion that was acknowledged last wins over any status
  written from an older copy.
- `UnlistedIsTerminating`: the only record the lists miss is one brought back
  by a second deletion, which removes it.
- `DeletionCompletes` (liveness): a Task that is being deleted disappears.

## TaskRunner

One Task, from the creation of its actor to its receipt. The *volume* is the durable
workspace, which suspension and resumption keep; the *container* is the process with
the container's own file system, which they do not. For a task-agent Task both the
markers and the receipt are in the volume, for a plain Task the markers are in the
container (`AXDir`, `cmd/ax-task-runner/main.go`).

| model | code |
|---|---|
| `task` | the launch configuration: whether task-agent's hook is set, and of each mount its path, whether it has a repository and whether a goal |
| `place`, `golden` | what Substrate does with the actor; the template's snapshot, of volume and container |
| `vol` | per mount the files and the repository (`none`, as set up, or changed by the command), markers, `activation`, `receipt` |
| `box.pc` | where runner and command are: `attach` (`attachTaskAgent`), `mount`, `git`, `boot`, `bootUnmarked`, `mark` (`SetupWorkspace`), `start`, `gate` and `asleep` (`task-agent-exec`), `working`, `exited`, `collect`, `rename` (`OnCommandExit`), `idle` |
| `box.ready`, `box.served`, `condition` | setup without error, `/readyz`, the `WorkspaceReady` condition |
| `box.cancelled` | the context of the runner is cancelled (SIGTERM) |
| `granted`, `ended`, `failed` | history: an activation was delivered, how the command ended by itself, what an I/O error or a kill has cost |

Each mount is set up by its marker, its files, its repository and its goal (`SetupWorkspace`, `FetchRepo`,
`FetchFails`, `Bootstrap`, `WriteMarker` and their failures); a clone is tried `GitRetries` times. Files that cannot be
written are only logged and the marker is written all the same (`FilesFail`). A goal is handed to an agent
that may change the workspace, do nothing or be cut short, all of which the runner only logs; after a clone
that failed it runs just as well, and the mount gets no marker (`bootUnmarked`).
`Exit`, `Killed` and `StopCommand` are the three ways a command ends; `ReportExit` is the
hook's decision, `Collect` and `Persist` its two steps. `OpenActivation` and `FillActivation`
are one file write seen by the gate, which polls. `Snapshot`, `ResumeActor`, `SuspendActor`,
`Signal`, `Suspended`, `Crash` and `Recreate` are Substrate's; a resumed actor may start the
runner anew or continue the golden container's.

Abstractions. The Workspace of a task-agent Task holds files only, no repository and no goal
(`TasksAssumption`): the backend creates no
other. Mounts of a Task may share a marker: the code maps both `/w/a-b` and
`/w/a/b` to one name (`MarkerName`), and one of the Tasks checked has such mounts. The files of a mount
are there or not as a whole. MCP files and
skills, the command's environment, and which declared outputs are refused and why
(only that they can be) are left out. `Work` changes everything that is there at once.

Properties.

- `ImplementsExecution`: the runner implements `TaskExecution`: the command begins only after an
  activation of this actor, never in the golden container, and never again once a receipt
  is there.
- `ReceiptIsEvidence`: a receipt is whole and says how the command ended by itself: not one
  that a suspension stopped, whose exit code may be 0 all the same.
- `MarkedIsPrepared`: every marker is that of some mount whose repository, if it has one, is there,
  wherever marker and mount are kept and whichever of them a resume brings back. It promises nothing of files,
  nor of a second mount with the same marker.
- `WorkIsKept`: what the command of a task-agent Task changed is not overwritten by a later setup.
- `Answered` (liveness): a running task-agent Task comes to its receipt through suspensions,
  resumptions and a crash.

## Store

One resource, a Task or a Model (which stands for a Workspace, kept in the same way).
`impl` chooses the store: for Redis every command or MULTI/EXEC is a step, for the memory
store every critical section.

| model | code |
|---|---|
| `rec`, `listed` | the record; Redis: its name in the index sets |
| `queue` | the event stream, or the memory store's channel of 1000 (`QueueSize`) |
| `worker` | the controller's worker as reader and writer of the record |
| `cmd[c]` | the command a client has under way: apply, suspend, resume, delete with its poll, list, watch |
| `wire[c]`, `chan[c]` | a watch: messages under way from Redis, the channel of ten (`ChannelSize`) |
| `losses`, `commands` | bounds: one-off failures (an interrupted subscription, a failed lookup, an event given up), commands |
| `writes`, `absent`, `misread`, `told`, `skipped`, `seen`, `resaved`, `lost` | history |

`SaveTask` and `SaveModel` are `Save`; in the memory store the event follows after the
lock is released (`Announce`), and is dropped when the queue is full. `Notify` is the watch: Redis publishes
and a goroutine forwards (`Forward`, which waits for room; `WireLost` is a subscription whose
connection was away, or whose own buffer stayed full); the memory store drops what has no room. The memory store also
hands its own copy to the watchers and changes it in place afterwards (`Retold`). `WatchTask`
subscribes before it reads (`Initial`); `Send` and `Check` are apart because the
record may change in between.

A request may bring a creation time of its own, which is kept (`Supplied`; `server.go:385`). Otherwise
`DefaultMetadata` looks the resource up, and any error of the lookup, also a Redis failure, counts as a
resource that is not there (`server.go:297-300`, `363-366`): the times noted then are in `misread`. The
worker may fail to handle an event or die over it at any step (`GiveUp`): the event is acknowledged or belongs for ever to a dead worker, and a
Terminating record stays (`worker.go:107-119`).

Abstractions. What exactly fails in a worker's calls to Substrate, and their
interplay, is `AXControl`. A string torn by the memory store's unlocked writes, paging, and records
that cannot be parsed are left out.

Properties.

- `ImplementsRegistry`: both stores implement `Registry`: an announced event waits until the
  worker takes it (the memory store may lose one, only when its queue is full); a watcher is
  told every change since its subscription in order, except for gaps that a full channel, a
  changed copy or a lost connection made.
- `StableIsListed`: a list shows what is there throughout and nothing that never is, although
  Redis reads names and records apart.
- `CreatedIsTrue`: the creation time survives updates; with overlapping updates and
  deletions it is still one at which there was no such resource, unless the client brought it
  or it was noted after a failed lookup.
- `WatchEnds`, `DeleteAnswers` (liveness): a watcher whose feed was not cut ends on a
  final phase; a deletion is answered, unless a delete event was lost after the last deletion the
  client asked for (a full queue, or a worker that failed or died) or the resource was saved again.

## Tunnel

Commands of the ax CLI share the files under `~/.ax/tunnels` and the machine's process and port
numbers, and no lock.

| model | code |
|---|---|
| `SanitizeContext` | constant: the file name of each context; any function, so several contexts may share a file |
| `file[f]`, `log[f]` | the state file of a name (absent, torn, or port and PID), the port in the log beside it |
| `proc[p]` | kubectl processes by number: their state, the file they were started for, port, parent, and where they write |
| `cli[c]` | a command: `probe`, `kill`, `remove`, `spawn`, `port`, `health`, `save`, `saving` (`EnsureServerURL`), `done`, `forward` (`PortForward`), `session` |
| `session[c]` | a session's pipe, its reader, the channel for the port |
| `spoiled`, `ended` | history: files with overlapping, interrupted or hindered commands; files whose kubectl ended otherwise than by a command for the file |

A number is given out again once its process is over and, if it is a child, its parent too: an
exited child that nobody waits for can still be signalled. `Interrupt` ends a command at
any step and leaves kubectl, which is in a process group of its own. `SaveTunnel` empties the file before
it writes it; `SaveFails` is ignored as in the code.

Abstractions. The log shows one "Forwarding" line; an orphan is reaped at once; the worker
of a session cannot be reached directly (else there is no port-forward); `ax tunnel list` is left out. So is
the kubectl call that resolves the current context (`tunnel/context.go:62`), which has no time limit: `Answered`
begins after it.

Properties.

- `UsesItsOwnTunnel` (action): the server that answers a command's last probe is that of the tunnel of its own
  state file, however files are torn and numbers reused. Two ways around it are what the code does, and are
  stated: the file's kubectl has ended behind its back and another one has its port (`ended`), and commands
  overlapped or were interrupted (`spoiled`). That it is the server of the command's *context* is not claimed: see
  the [disagreements](#where-code-and-documents-disagree).
- `TunnelIsRecorded`: as long as commands neither overlap nor die at a file, there is
  one tunnel of it at most and the file names its process and port.
- `OutputFlows`: a reader that cannot hand on the port again (`Room`) is no problem before
  kubectl has printed three lines and filled a pipe.
- `Answered` (liveness): every command gets its answer.

## The runs

| run | instance | states | what it shows |
|---|---|---|---|
| `chain` | `a → b`, the first plan lists `b` first, revision 2 changes `a` or takes `b` out; two operators, all commands, two values, 1 failure or death | 708 519 | the safety properties, the contract and the inductive invariant `IInv` |
| `settling` | the same chain, revision 2 takes `b` out, fair; one operator, one value, 2 faults of any kind | 264 354 | `RunSettles`, `SuspensionSettles` |
| `one_controller` | one Task, 2 manifests, 2 concurrent of 3 requests, 1 controller, 2 faults | 476 666 | the safety properties, `IInv` and `DeletionCompletes` |
| `runner` | a task-agent Task, a plain one with a repository and a goal, a plain one whose mounts share a marker; 2 clone attempts, 1 fault, 2 suspensions (plain: 1) | 474 092 | the properties above |
| `store` | both stores, both kinds, 2 clients with 3 commands, room for 1 event and 2 messages, 1 loss of any kind | 303 654 | the properties above |
| `tunnel` | 2 terminals with 3 commands, 3 contexts of which 2 share a file, 2 process and 2 port numbers, 1 fault | 597 424 | the properties above |
| `suspension_wedge` | one task, no faults | – | a violation, see below |
| `reuse_lost` | `a → b`, revisions 1, 2, 3 = 1; no faults | – | a violation |
| `stop_not_final` | one request at a time, no faults | – | a violation |
| `events_stranded` | one fault, fair | – | a violation |
| `workspace_ready` | the plain Task with a repository, without faults and suspensions | – | a violation |
| `ssh_leak` | one terminal, no faults | – | a violation |

**Why these bounds.** A task of a plan depends on the others only through
readiness and input bytes, and two tasks in a chain are the least that have both;
two values let an upstream change or not. A second revision that changes `a` has everything in its
impact, one without `b` has `a` outside it: together they meet every case of
`Apply` but the dropped `Previous`, which takes a third (`reuse_lost`). More than
two operators add nothing as the lock serialises them, and by symmetry the second costs
nothing either. One fault already hits every step. `chain` has no `Overwrite`: none of its properties mentions
`stray`, `running` only moves on to where a record has it, and the proofs cover all kinds of faults.
In `settling` the second fault covers an order written over after a lost reply, or written over twice. There liveness needs neither a second value nor a changed definition: they decide what is reused,
not whether a run comes to its end, and fairness names operators, so one takes the place of two. The Tasks of AX share only the
stream, in which events of other Tasks merely delay, so one Task is enough; three
requests are what it takes to create, resume and suspend or delete one, two of them
concurrent. Batches of two events let a worker hold a claimed event while it handles
another. Where a property needs more, the proofs give it for any number.

In `runner`, a plain Task with one mount of files and one with a repository and a goal shows a marker of
one with a failure of the other; in the other plain Task the mount that is set up first leaves the marker of a mount
with a repository; two clone attempts have a first and a last one; two
suspensions let the second interrupt what the first restored (a plain Task's markers go with its container, so its second
would find what the first found), and one fault crosses each of
their steps. `WorkIsKept` and `Answered` are about task-agent Tasks only. In `store`, two messages are the least with which the memory store's changed
copies come out of order, one event fills a queue, and of three commands one can watch while
two others save and delete. One loss meets each step of a watch, a lookup and the worker in turn. In `tunnel`, two commands that overlap and a third that finds
what they left, over two files, are the least in which a number is given out
again to the other file's tunnel, and a third context lets two share a file; a session prints up to four lines, one more than its channel, its
reader and a pipe of one line take.

`CHECK_DEADLOCK FALSE` stands in all configurations but those of `TaskGraph`: requests, commands
and suspensions are bounded, and a control plane that has processed them, a runner that is idle
and a terminal without commands rightly rest. The graph never rests: a command can always be issued again,
so deadlock is checked there.

### Fairness

`TaskGraph` (`FairSpec`):

- `SF BeginRun`: whoever drives the graph invokes `run` again and again, as README.md
  says; strong, as the lock is taken by others in between.
- `WF (Commit ∨ Tick ∨ Pause)`, `WF Recover`: a live process goes on; a dead one's
  lock is recovered.
- `SF Start`, `SF Observe`: the provisioning an `ErrPending` or NotFound waits for is
  done some day; commands end on these errors and are repeated, hence strong.
- `WF (∃ a ∈ ordered \ stray: Converge(a))`, `WF Finish`: AX carries out an order that stands,
  commands exit. A record that was written over may be followed or not: its reconcile may be long done. Nothing
  else is assumed: apply, suspend and resume need not happen, faults
  are bounded in number but not in time.

`AXControl` (`FairSpec`): `WF Run(w)`, the controller's deployment restarts it and it goes
on; `WF (SaveTask ∨ MarkTaskDeleting ∨ Observe)`, a request that has read goes
on to write; `WF ActorGone`, Substrate completes a deletion. A new request is never forced.

`TaskRunner` (`FairSpec`): `WF Run`, `WF Exit`, the runner and the command go on; `SF Gate`, it looks every
200 ms while the activation is rewritten only by a new `run`, hence strong; `SF OpenActivation`,
`SF FillActivation`, the graph's `run` is repeated whenever the actor is there; `WF Snapshot`, `ResumeActor`,
`Suspended`, `Recreate`, Substrate and the controller follow the orders. Nothing forces
`SuspendActor`, `Signal` or a fault.

`Store` (`FairSpec`): `WF Controller`, `WF Forward(c)` and `WF Carry(c)`, a command that has begun goes on. `TimeOut`, which
would make `DeleteAnswers` trivial, is not forced. `Tunnel` (`FairSpec`): `WF Ensure(c)` and
`WF (Forwarded ∨ ForwardTimeout)`: calls go on and their time limits pass. kubectl does nothing fairly:
it may hang.

`SuspensionSettles` is about a suspension requested while the Task of every live
attempt exists or is one `Pause` creates; the other case is `suspension_wedge`.
`RunSettles` says "or is suspended", so it also covers what happens after each resumption. And it excepts
an attempt that is `Forgotten`: stored as `running`, its actor not running and its record, written over by a status, saying
that it need not. From `running` on the engine only reads (`engine.go:92-95`), and `Result` answers
`ErrPending` as long as there is no receipt (`backend.go:192`), so repeated runs do not settle; TLC finds this
when the exception is dropped. An attempt that is `starting` or `validating` is ordered again, and a suspension asks AX
at every run, so these get over a lost order.
`DeletionCompletes` and `DeleteAnswers` except a Task of which a fault made the worker give an event up:
nothing delivers it again.

### Where code and documents disagree

Each of these runs checks one sentence of the repository and ends in a
counterexample; `PROJECT.json` has sources and quotations.

- **`suspension_wedge`**: README.md says that after `suspend` the stop is confirmed
  and `resume` goes on. If the suspension arrives after `validating` is stored and
  before the validator's Task is created, `Pause` suspends a Task that does not exist:
  NotFound, on every later `run`, and `resume` and `apply` stay refused.
- **`reuse_lost`**: extensions.md says an unchanged task reuses its earlier verified
  result. `Apply` carries only the successes of the revision in force; a
  revision that had not come to the task yet drops it.
- **`stop_not_final`**: the stop must be confirmed before a revision changes; the backend
  takes SUSPENDED for it. A reconcile under way, which read the phase before the
  suspension, resumes the actor afterwards and then stores the phase Running over the
  suspension, so that no later event stops the actor again.
- **`events_stranded`**: store.go says a crashed worker's events can be picked up
  again; nothing ever reads them.
- **`workspace_ready`** (without faults, so not about a crash): concepts.md says that `WorkspaceReady` means every workspace has finished
  setting up, runner.go that a task whose setup failed never reports ready. A
  repository that cannot be fetched is no error to `SetupWorkspace`: no marker, but ready.
- **`ssh_leak`**: the port-forward of `ax ssh` is cleaned up by a deferred call, which
  `os.Exit` with the command's exit code skips: kubectl stays, and nothing records it.

Seen with earlier configurations of the same modules, without a run of their own
now: with two clients the status update takes back a `resume` or `suspend` acknowledged in
between, as it writes a whole record computed from an older copy (in `TaskGraph` this is `Overwrite`, and what
it does to a plan is the exception of `RunSettles`); two concurrent creations
are both acknowledged and the second replaces a Task DESIGN.md calls immutable; with two
controllers, which DESIGN.md suggests for scale and extensions.md forbids, a delete overtakes
a reconcile and leaves an actor without a record.

Observed while modelling; where a property would say the opposite, it states the exception:

- `setup.go:333-335` says that the marker's name lets several workspaces track their setup independently. `/w/a-b` and
  `/w/a/b` have the same: the second one is taken for prepared and gets neither files nor repository.
- `ax/README.md:170` says that `ax` follows the active context and tunnels to that cluster. Contexts whose names
  differ only in characters other than letters, digits, `-` and `_` (`a/b`, `a:b`) share a state file
  (`SanitizeContext`, `tunnel.go:52-66`), and the context and namespace recorded in it are never compared with the command's: the
  second one's commands go to the first one's cluster.
- A recorded port that was given out again to another cluster's tunnel passes the probe, which only sees *an* AX server.
- An existing resource whose lookup fails for a moment gets a new creation time (`server.go:363-366`).
- A deletion whose cleanup failed is acknowledged and not tried again; `ax delete` polls until somebody deletes once more.
- After the recreation of a crashed actor, whose workspace is empty again, `WorkspaceReady` stays True: the poll does not
  look again (`reconciler.go:231`).
- Tasks created before the first controller subscribes are never reconciled: the group starts at the tail of the stream.
- `CreateActor` gives up after twenty tries while the old actor is being deleted; the Task is Failed and stays so.

- `memory/store.go:34-36` says events and watchers get copies. The stored record itself goes into the
  channels and later operations change it in place: a watcher may be told a state twice,
  never, or before an earlier one; it is also a data race.
- `ax delete model` of a name that does not exist prints that it was deleted.
- The watch of a Task that is removed never ends by itself: removal is announced to nobody.
- A watcher that leaves while its Redis channel is full leaves the forwarding goroutine waiting.
- A creation time written back by overlapping updates may be older than a deletion in
  between (`CreatedIsTrue` is stated for what holds).
- The error branch of `PortForward` for an early exit of kubectl is not reached: the CLI holds the pipe's
  write end itself, so only the time limit ends the wait; likewise an exited kubectl still answers
  signal 0 until it is waited for.
- When `guest.DialTarget` fails (`cmd/ax/main.go:1096-1098`) `runSSH` returns before the cleanup is registered.
- A tunnel is reused by its file alone: namespace and service of a later command are not compared either.
- Each further line of kubectl's output sends the port once more; the third send blocks the reader for good (`OutputFlows` says when).

## The proofs

TLAPS checks the eight proof modules to the last leaf, for all values of the constants
that satisfy the assumptions.

**TaskGraphProofs.** Assumed of the constants: plans are what `Validate` accepts
(`PlansAssumption`: distinct tasks, inputs within the plan, no cycle), `NoFiles` is
no file content, `Nobody` no operator. Any set of plans, operators, values, and any kinds and number of
faults, orders written over among them. The safety properties are not inductive: that an order belongs to a live attempt
depends on what a session is *about* to store. `IInv` therefore says

- `StateOK`: the stored state, and every copy, is well formed: fields of an attempt
  agree with its phase, attempts fit the plan, `Previous` holds successes of earlier
  revisions;
- `StoredEvidenceOK`, `ReceiptsOK`, `LaunchesOK`: what attempts say of receipts is true, a
  Task is what its name says, every order has a Task;
- `LockCoversCopies`, `CursorOK`, `CopyOK`: one session at a time, what it finds at its
  place in the plan, and how its copy differs from the stored state: not at all,
  or in the one attempt it works on by an admissible update (`UpdateOK`), or as
  apply, resume or suspend have prepared it;
- `WantedIsOwned` and `IdentityStoredFirst` themselves.

Since the lock leaves one session, a step has to re-establish its own part only
(`StepOfOne`, `StoringOK`, `UpdateStep`); one lemma per action does so. The theorems
`TypeCorrect`, `LockProtects`, `NoStrayActor`, `IdentityFirst`, `FittingAttempts`,
`EnsureIdempotent`, `AdoptionIsValidated` follow from the invariant, `QuietRevisions` and
`PermanentAttempts` from it and `StoredStateSteps`, which says all a step can do to
the stored state.

**ContractProofs.** Same assumptions. Four arguments, the last three with an invariant of their own next to `IInv`.

- *Impact.* `Impact` repeats one step as often as the plan has tasks. When a
  step adds nothing, no task outside the set takes inputs from it, and so it stays; a step
  that adds adds a task, and there are as many steps as tasks. This is an induction over a set of numbers
  (`SetInduction`, from the library's well-foundedness of `<`, so that no theorem with an
  operator for its parameter is needed) and a count (`ImpactIsClosed`). `ImpactIsLeast`: it is no more
  than that, hence what the loop in the code, which ends when a pass adds nothing, arrives at.
- *Results over revisions.* `HInv` says of the stored state and of every copy: an earlier
  result names inputs that are earlier results themselves, with these very bytes, and what
  was reusable when it was visited was reused. With it, a task outside the impact and
  all it takes inputs from are as they were, by the plan's lack of cycles:
  `ResultsAreInherited`, `ImpactIsComplete`, `PredecessorsResults`.
- *The contract.* Which step of `GraphContract` a `Save` is depends on how the session came to its
  copy, which `IInv` does not tell. `MInv` does: the one attempt that is about to be stored
  is new, reused, moved on, or settled in the way the graph's mark asks for (`Moving`),
  nobody visits or starts while the graph is marked, and AX has one Task per name and role
  (`CreatedOnce`, without which one job could have two verdicts). One lemma per kind of step then
  names the abstract step or shows a stutter: `SaveNewBegins`, `SaveMovesJob`, `CommitFollows`,
  `StartOrders`, `StopWithdraws`, `FinishApproves` and so on, up to `GraphKeepsContract`.
- *Phases.* What `RunSettles` rests on that is not temporal. `PInv` says that what a session is about to
  save is one phase on (`Staged`), that it only stops actors on a marked graph or on the way to
  a verdict, and that suspended attempts are found on marked graphs only. So every write
  advances (`WritesAdvance`, `AttemptsAdvance`; `AdvancesClimb`: an unmarked one raises the phase's rank, so
  that a revision sees finitely many). And were every task with inputs settled, those that have
  not succeeded would each wait for another one, against the plan's lack of cycles: `SomethingIsAlwaysDue`.

**AXControlProofs.** Each theorem assumes `OneController` (two workers are the same),
the deployment extensions.md prescribes; with two controllers `NoOrphanActor` fails. Any number
of Tasks, manifests, concurrent requests, events and faults. `IInv` adds to
`NoOrphanActor` and `UnlistedIsTerminating` what a worker relies on between its
steps (`WorkerHolds`: it has claimed the event; the record it reconciles is still
there and listed, since only this worker removes records; the template is there
before the actor; after the first step of a deletion no actor is live) and that
requests only write proper records (`RequestHolds`). Theorems: `Invariance`,
`TypeCorrect`, `OrphanFree`, `NothingHidden`.

**AXQuietProofs** builds on that, with the same assumption. That record and actor agree in the
end, and that a deletion prevails, depends on events that are still *due*: not yet delivered, or
claimed and not done with. `QInv` says: a record that is being deleted, or whose deletion was asked
for last, has a delete event that is due, and a record without events due says the truth
about its actor (`Agreed`); in the stream a delete follows every reconcile of a Task whose deletion was asked for last
(`LastWish`); a batch is a contiguous piece of the stream (`InOrder`), so that the delete
is due whenever the reconcile is at hand; and the status a worker is about to write is
true (`Doing`). A Task an event of which a fault made the worker give up is excepted. Theorems:
`QuietTasksAgree`, `DeletionsPrevail`. TLC has checked `QInv` on the instance of `one_controller`.

**TaskRunnerProofs.** Any set of Tasks with any number of mounts, whatever their marker names, any
number of retries, suspensions and faults. Assumed of a Task: a task-agent Task has neither repositories nor goals (`TasksAssumption`). `IInv` is `Typed`, `Evidence` (past the gate the actor was
activated and has no receipt; the exit code the hook goes by is that of a command that ended by itself; the
golden snapshot has neither activation nor receipt, and its command has not begun), `Prepared` (the runner is past a
repository when it writes its marker, also when an agent works on the goal in between; each marker in volume, container and snapshot is
that of a mount whose repository is there) and `Kept` (work is only where a marker is, unless setup failed). One lemma per action. Theorems: `TypeCorrect`,
`ReceiptsAreEvidence`, `MarkersAreTrue`, `ResumedWorkIsKept`, and `RunnerImplementsExecution`: every step is a step
of `TaskExecution` or none.

**StoreProofs.** Both stores, any finite number of clients, any number of commands and losses, any sizes. `IInv` is `Typed`
(each command and the worker as a record of the step it is at), `Recorded` (the record was
created when there was none, and is listed unless it is being deleted), `Knows` (what a command has read and is
about to write or show, related to the phases since; the time it is about to note is `Timely`) and `WorkerKnows` (the one worker updates a
record that nobody else can remove, and removes one for a delete event only). Theorems: `Inductive`, `ListsAreStable`, `CreationIsTrue`. `DeletionsAreDue` is what `DeleteAnswers` rests
on that is not temporal: while a client waits for a deletion, the record is gone or the event that removes it is in
the queue, in the hands of a client that has yet to announce it, or at the worker, unless an event was
lost (to a full queue or with a worker that gave it up) or the resource was saved again since. `DInv` adds that whoever will wait has a deletion to announce
(`Paired`). TLC has checked `DeletionIsDue` on the instance of `store`.

**StoreRefinement** builds on that. `FInv` says of each watch that channel and wire hold writes
(`Feed`) and, unless the watch was cut off, exactly those the watcher has not been told, in turn (`InOrder`); that
every creation time is that of a write (`Dated`), the memory store's queue keeps its size (`Full`)
and only that store announces after it has written (`Apart`). `TypeCorrect` follows. `Registry` counts the
events that wait, which here are in the queue or in the hands of a client that has yet to announce: lemmas on what
appending and taking do to that count (`CountAppend`, `CountTail`, `AnnouncersStep`) give its
steps, and `StoreImplementsRegistry` says that every step is one of `Registry` or none.

**TunnelProofs.** Any number of terminals, contexts, processes and ports, and any assignment of file names to
contexts. `IInv` is `Typed` and `Ports` (a process that listens has a port for itself): `TypeCorrect`.
`TunnelIsRecorded` speaks of the moments at which no command is at a file. `Tended` says what
holds meanwhile: at most one command is there unless the file is spoiled (`Alone`), and a live tunnel is
on record or in that command's hands, in the way its step has it (`Kept`): `TunnelsAreRecorded`.
`Trusted` adds to it what a command that uses a recorded port rests on: kubectl is a child of the command that
started it as long as that one waits for it (`Children`), so its number is not given out meanwhile; a recorded port is that of the file's own
live tunnel unless that has ended behind the file's back (`Guarded`); and who starts a tunnel has found no record
or removed it (`Cleared`): `CommandsUseTheirTunnel`.
`OutputFlows` is an account (`Counted`): each line kubectl has printed for a session is in the pipe, in the reader's
hand, in the channel or with the session, and a kubectl has one parent only (`Parents`): `SessionsFlow`.

**Only model-checked.** Liveness (`RunSettles`, `SuspensionSettles`, `DeletionCompletes`, the two of `Answered`,
`WatchEnds`, `DeleteAnswers`), which TLAPS cannot prove under fairness, though what keeps `RunSettles` and
`DeleteAnswers` from waiting in vain is proved; and of course the violations.
Every safety invariant, action property and refinement of the passing runs is a theorem.

## What is not modelled

- `Validate` as an algorithm: `ValidPlan` states what it guarantees.
- The graph's retry of Tasks whose resumption failed (`backend.go:124-139`), CRASHED actors, egress
  policies and golden snapshot errors there.
- The credentials and workspaces in a template, conditions that only inform, paging, times to live.
- MCP files and skills of a workspace, the read-only half of the metadata server, the
  framing of the guest API's streams.
- Request formatting of the model client, manifests and their validation, generated
  protobuf code, the Codex adapter, scripts that build, install and set up a cluster,
  vendored texts: stateless, or one-shot I/O, or not of this project.

## The plan

Done: all modules above with their proofs. What would add most next:

1. `SuspendEvidence`: the composition of graph and controller. The graph's `Overwrite` and `Converge` replaced by the
   controller's actual steps: what of the confirmation of stops survives a
   stale reconcile.
2. `PlanModel`: `Validate`'s search for cycles against a reference definition over all small graphs.
3. The retry of Failed/ActorResumeFailed Tasks in the graph's `Start`.
4. Proofs: what `SuspensionSettles`, `DeletionCompletes` and `Answered` rest on that is not temporal, and
   that `TaskExecution` is all the graph uses of an actor.
