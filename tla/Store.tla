------------------------------- MODULE Store -------------------------------
(***************************************************************************)
(* One resource in the Redis or the memory store, and the clients that     *)
(* apply, suspend, resume, delete, list and watch it through the API       *)
(* server while the controller works its events off.  A Model stands for a *)
(* Workspace too, which is stored in the same way.                         *)
(***************************************************************************)
EXTENDS Naturals, Sequences, FiniteSets

CONSTANTS
  Impls,         \* the stores to consider
  Kinds,         \* the kinds of resource to consider
  Client,
  Value,         \* specifications
  ChannelSize,   \* room in a watcher's channel (10)
  QueueSize,     \* room in the memory store's event queue (1000)
  MaxCommands,   \* bound on commands
  MaxLosses      \* bound on interruptions of a Redis subscription, failed lookups
                 \* and events the worker gives up

ASSUME StoreAssumption ==
  /\ Impls \subseteq {"redis", "memory"} /\ Kinds \subseteq {"Task", "Model"}
  /\ ChannelSize \in Nat \ {0} /\ QueueSize \in Nat \ {0}
  /\ MaxCommands \in Nat /\ MaxLosses \in Nat /\ IsFiniteSet(Client)

VARIABLES
  impl, kind,  \* chosen once
  rec,         \* the record
  listed,      \* Redis: the name is in the index sets
  queue,       \* events that wait for the controller
  worker,      \* the controller's worker
  cmd,         \* the command each client has under way
  wire, chan,  \* a watch: messages on their way from Redis; the channel
  commands, losses,
  writes,      \* history: the phases written so far
  absent,      \* history: after how many writes there was no record
  misread,     \* history: times noted for a resource whose lookup failed
  told,        \* history: the last write a watcher was told
  skipped,     \* history: watchers whose messages were dropped or changed
  seen,        \* history: the phases since a client that lists read the name
  resaved,     \* history: clients that wait for a deletion and a save came in between
  lost         \* history: clients that wait for a deletion and a delete event was lost

watch == <<wire, chan, told, skipped>>
history == <<seen, resaved>>
past == <<writes, absent, misread>>
bounds == <<commands, losses>>
vars == <<impl, kind, rec, listed, queue, worker, cmd, watch, bounds, past, history, lost>>

NoRecord == [phase |-> "none"]
Idle == [pc |-> "idle"]
At(c, pc) == cmd[c].pc = pc
Redis == impl = "redis"
Memory == impl = "memory"

\* A watch ends with one of these, in the server and in the CLI.
Final == {"Running", "Failed", "Completed"}

Watching == {c \in Client : cmd[c].pc \in {"initial", "stream", "sent", "leave"}}
\* The message the server is at has left the channel.
Room(c) == Len(chan[c]) < ChannelSize + (IF At(c, "sent") THEN 1 ELSE 0)

\* A resource may exist when the story begins, its events worked off.
Init ==
  /\ impl \in Impls /\ kind \in Kinds
  /\ \/ rec = NoRecord /\ writes = << >>
     \/ \E v \in Value :
          LET phase == IF kind = "Task" THEN "Suspended" ELSE "none yet"
          IN /\ rec = [value |-> v, created |-> 1, phase |-> phase, obj |-> 1]
             /\ writes = <<phase>>
  /\ listed = (rec # NoRecord) /\ absent = {0} /\ misread = {}
  /\ queue = << >> /\ worker = Idle
  /\ cmd = [c \in Client |-> Idle]
  /\ wire = [c \in Client |-> << >>] /\ chan = [c \in Client |-> << >>]
  /\ commands = 0 /\ losses = 0
  /\ told = [c \in Client |-> 0] /\ skipped = {}
  /\ seen = [c \in Client |-> {}] /\ resaved = {} /\ lost = {}

-----------------------------------------------------------------------------
(* Writing the record *)

Now == Len(writes) + 1

\* Clients that have read the name and not yet the record.
Notice(r) == seen' = [c \in Client |-> IF At(c, "mget") THEN seen[c] \cup {r.phase} ELSE seen[c]]
Look(c) == seen' = [seen EXCEPT ![c] = {rec.phase}]

\* The memory store sends its own copy of a saved Task to the watchers and
\* changes it in place later on.
Retold(ch, obj) == [i \in DOMAIN ch |-> IF ch[i].obj = obj THEN [ch[i] EXCEPT !.write = Now] ELSE ch[i]]

\* Mutant: the channel is taken to have room.
NotifyUnbounded(r, obj) ==
  IF Redis
  THEN /\ wire' = [c \in Client |-> IF c \in Watching THEN Append(wire[c], Now) ELSE wire[c]]
       /\ UNCHANGED <<chan, skipped>>
  ELSE LET now(c) == Retold(chan[c], r.obj)
       IN /\ chan' = [c \in Client |-> IF c \in Watching THEN Append(now(c), [write |-> Now, obj |-> obj]) ELSE chan[c]]
          /\ skipped' = skipped \cup {c \in Watching : now(c) # chan[c]}
          /\ UNCHANGED wire

\* Redis publishes the new record; the memory store puts it into the channels
\* that have room.
Notify(r, obj) ==
  IF Redis
  THEN /\ wire' = [c \in Client |-> IF c \in Watching THEN Append(wire[c], Now) ELSE wire[c]]
       /\ UNCHANGED <<chan, skipped>>
  ELSE LET now(c) == Retold(chan[c], r.obj)
           room(c) == c \in Watching /\ Room(c)
       IN /\ chan' = [c \in Client |->
               IF room(c) THEN Append(now(c), [write |-> Now, obj |-> obj]) ELSE now(c)]
          /\ skipped' = skipped \cup {c \in Watching : now(c) # chan[c] \/ ~ room(c)}
          /\ UNCHANGED wire

\* obj is the copy the watchers are sent, 0 for one of their own.
Put(r, obj) ==
  /\ rec' = r
  /\ writes' = Append(writes, r.phase) /\ UNCHANGED <<absent, misread>>
  /\ Notice(r)
  /\ Notify(r, obj)
  /\ UNCHANGED told

Emit(action) == queue' = IF Redis THEN Append(queue, action) ELSE queue
\* The memory store puts the event into its queue after it has let go of the lock.
Return(c, then, action) ==
  cmd' = [cmd EXCEPT ![c] = IF Redis THEN [pc |-> then]
                            ELSE [pc |-> "announce", then |-> then, action |-> action]]

\* Whoever waits for a deletion, or will when its event is announced, may now
\* wait in vain.
Waits(c) == At(c, "poll") \/ (At(c, "announce") /\ cmd[c].then = "poll")
Lose(action) == lost' = IF action = "delete" THEN lost \cup {c \in Client : Waits(c)} ELSE lost

\* Mutant: a full queue makes room.
AnnounceMakingRoom(c) ==
  /\ At(c, "announce")
  /\ IF Len(queue) < QueueSize
     THEN queue' = Append(queue, cmd[c].action) /\ UNCHANGED lost
     ELSE queue' = Append(Tail(queue), cmd[c].action) /\ UNCHANGED lost
  /\ cmd' = [cmd EXCEPT ![c] = [pc |-> cmd[c].then]]
  /\ UNCHANGED <<impl, kind, rec, listed, worker, watch, bounds, past, history>>

Announce(c) ==
  /\ At(c, "announce")
  /\ IF Len(queue) < QueueSize
     THEN queue' = Append(queue, cmd[c].action) /\ UNCHANGED lost
     ELSE Lose(cmd[c].action) /\ UNCHANGED queue
  /\ cmd' = [cmd EXCEPT ![c] = [pc |-> cmd[c].then]]
  /\ UNCHANGED <<impl, kind, rec, listed, worker, watch, bounds, past, history>>

Command(c) ==
  /\ At(c, "idle") /\ commands < MaxCommands
  /\ commands' = commands + 1
  /\ UNCHANGED losses

-----------------------------------------------------------------------------
(* Applying and steering *)

\* A request may bring a time of creation of its own, which is kept.
Supplied == 0

\* runApply: the CLI looks the resource up, for what it prints only.
Apply(c) ==
  /\ Command(c) /\ kind = "Model"
  /\ \E v \in Value, given \in BOOLEAN :
       cmd' = [cmd EXCEPT ![c] = [pc |-> "metadata", value |-> v, given |-> given]]
  /\ UNCHANGED <<impl, kind, rec, listed, queue, worker, watch, past, history, lost>>

SaveNext(c, created) ==
  cmd' = [cmd EXCEPT ![c] = [pc |-> "save", phase |-> "none yet", value |-> cmd[c].value, created |-> created]]

\* Mutant: the time of creation is always now.
DefaultMetadataNow(c) ==
  /\ At(c, "metadata")
  /\ SaveNext(c, IF cmd[c].given THEN Supplied ELSE Now)
  /\ UNCHANGED <<losses, misread>>
  /\ UNCHANGED <<impl, kind, rec, listed, queue, worker, watch, commands, writes, absent, history, lost>>

\* UpdateModel: the time of creation is carried over.  A lookup that fails, for
\* whatever reason, counts as one that found nothing.
DefaultMetadata(c) ==
  /\ At(c, "metadata")
  /\ \/ cmd[c].given /\ SaveNext(c, Supplied) /\ UNCHANGED <<losses, misread>>
     \/ /\ ~ cmd[c].given
        /\ SaveNext(c, IF rec = NoRecord THEN Now ELSE rec.created)
        /\ UNCHANGED <<losses, misread>>
     \/ /\ ~ cmd[c].given /\ Redis /\ rec # NoRecord /\ losses < MaxLosses
        /\ SaveNext(c, Now)
        /\ losses' = losses + 1 /\ misread' = misread \cup {Now}
  /\ UNCHANGED <<impl, kind, rec, listed, queue, worker, watch, commands, writes, absent, history, lost>>

\* CreateTask finds no Task of the name.
CreateTask(c) ==
  /\ Command(c) /\ kind = "Task" /\ rec = NoRecord
  /\ \E v \in Value, created \in {Supplied, Now} :
       cmd' = [cmd EXCEPT ![c] = [pc |-> "save", phase |-> "Suspended", value |-> v, created |-> created]]
  /\ UNCHANGED <<impl, kind, rec, listed, queue, worker, watch, past, history, lost>>

\* SuspendTask and ResumeTask read the Task.
SetPhase(c, phase) ==
  /\ Command(c) /\ kind = "Task" /\ rec # NoRecord
  /\ cmd' = [cmd EXCEPT ![c] = [pc |-> "save", phase |-> phase, value |-> rec.value, created |-> rec.created]]
  /\ UNCHANGED <<impl, kind, rec, listed, queue, worker, watch, past, history, lost>>

\* Mutant: the record is written without its name, as a status is.
SaveUnlisted(c) ==
  /\ At(c, "save")
  /\ Put([value |-> cmd[c].value, created |-> cmd[c].created, phase |-> cmd[c].phase, obj |-> Now], Now)
  /\ IF kind = "Task" THEN Emit("reconcile") /\ Return(c, "idle", "reconcile")
     ELSE UNCHANGED queue /\ cmd' = [cmd EXCEPT ![c] = Idle]
  /\ resaved' = resaved \cup {d \in Client : Waits(d)}
  /\ UNCHANGED <<impl, kind, worker, bounds, lost, listed>>

\* SaveTask and SaveModel: record and index together, for a Task the event.
Save(c) ==
  /\ At(c, "save")
  /\ Put([value |-> cmd[c].value, created |-> cmd[c].created, phase |-> cmd[c].phase, obj |-> Now], Now)
  /\ listed' = TRUE
  /\ IF kind = "Task" THEN Emit("reconcile") /\ Return(c, "idle", "reconcile")
     ELSE UNCHANGED queue /\ cmd' = [cmd EXCEPT ![c] = Idle]
  /\ resaved' = resaved \cup {d \in Client : Waits(d)}
  /\ UNCHANGED <<impl, kind, worker, bounds, lost>>

-----------------------------------------------------------------------------
(* Deleting *)

Erase ==
  /\ rec' = NoRecord /\ listed' = FALSE
  /\ Notice(NoRecord)
  /\ absent' = absent \cup {Len(writes)}
  /\ UNCHANGED <<writes, misread, watch>>

\* DeleteModel removes what is there; nothing there is no error.
DeleteModel(c) ==
  /\ Command(c) /\ kind = "Model"
  /\ Erase
  /\ cmd' = [cmd EXCEPT ![c] = [pc |-> "poll"]]
  /\ UNCHANGED <<impl, kind, queue, worker, resaved, lost>>

Terminated == [rec EXCEPT !.phase = "Terminating"]

\* MarkTaskDeleting: Redis reads the record and writes it back.
ReadToDelete(c) ==
  /\ Command(c) /\ kind = "Task" /\ rec # NoRecord /\ Redis
  /\ cmd' = [cmd EXCEPT ![c] = [pc |-> "mark", record |-> Terminated]]
  /\ UNCHANGED <<impl, kind, rec, listed, queue, worker, watch, past, history, lost>>
MarkTaskDeleting(c) ==
  /\ \/ At(c, "mark") /\ Put(cmd[c].record, 0) /\ UNCHANGED bounds
     \/ Command(c) /\ kind = "Task" /\ rec # NoRecord /\ Memory /\ Put(Terminated, 0)
  /\ Emit("delete") /\ Return(c, "poll", "delete")
  /\ UNCHANGED <<impl, kind, listed, worker, resaved, lost>>

StopWaiting(c) ==
  /\ cmd' = [cmd EXCEPT ![c] = Idle]
  /\ resaved' = resaved \ {c} /\ lost' = lost \ {c}
  /\ UNCHANGED <<impl, kind, rec, listed, queue, worker, watch, bounds, past, seen>>

\* waitForDeletion: until there is no record, or for five minutes.
Poll(c) ==
  /\ At(c, "poll") /\ rec = NoRecord
  /\ StopWaiting(c)
TimeOut(c) ==
  /\ At(c, "poll") /\ rec # NoRecord
  /\ StopWaiting(c)

-----------------------------------------------------------------------------
(* Listing *)

\* Redis: the names are read first, then the records; missing ones are left out.
ListNames(c) ==
  /\ Command(c) /\ Redis
  /\ cmd' = [cmd EXCEPT ![c] = [pc |-> "mget", named |-> listed]]
  /\ Look(c)
  /\ UNCHANGED <<impl, kind, rec, listed, queue, worker, watch, past, resaved, lost>>

ListRecords(c) ==
  /\ At(c, "mget")
  /\ cmd' = [cmd EXCEPT ![c] = [pc |-> "listed", shown |-> cmd[c].named /\ rec # NoRecord]]
  /\ UNCHANGED <<impl, kind, rec, listed, queue, worker, watch, bounds, past, history, lost>>
\* The memory store lists under its lock.
ListLocked(c) ==
  /\ Command(c) /\ Memory
  /\ cmd' = [cmd EXCEPT ![c] = [pc |-> "listed", shown |-> rec # NoRecord]]
  /\ Look(c)
  /\ UNCHANGED <<impl, kind, rec, listed, queue, worker, watch, past, resaved, lost>>
Listed(c) ==
  /\ At(c, "listed")
  /\ cmd' = [cmd EXCEPT ![c] = Idle]
  /\ seen' = [seen EXCEPT ![c] = {}]
  /\ UNCHANGED <<impl, kind, rec, listed, queue, worker, watch, bounds, past, resaved, lost>>

-----------------------------------------------------------------------------
(* Watching *)

\* Store.WatchTask: the subscription is there before the record is read.
WatchTask(c) ==
  /\ Command(c) /\ kind = "Task"
  /\ cmd' = [cmd EXCEPT ![c] = [pc |-> "initial"]]
  /\ wire' = [wire EXCEPT ![c] = << >>] /\ chan' = [chan EXCEPT ![c] = << >>]
  /\ told' = [told EXCEPT ![c] = Len(writes)]
  /\ skipped' = skipped \ {c}
  /\ UNCHANGED <<impl, kind, rec, listed, queue, worker, past, history, lost>>

\* The state as it is, if there is one.  The CLI may have seen enough.
Initial(c) ==
  /\ At(c, "initial")
  /\ cmd' = [cmd EXCEPT ![c] = [pc |-> IF rec.phase \in Final THEN "leave" ELSE "stream"]]
  /\ UNCHANGED <<impl, kind, rec, listed, queue, worker, watch, bounds, past, history, lost>>

Quit(c) ==
  /\ cmd' = [cmd EXCEPT ![c] = Idle]
  /\ wire' = [wire EXCEPT ![c] = << >>]
  /\ chan' = [chan EXCEPT ![c] = << >>]

\* Mutant: the goroutine drops what does not fit, as the memory store does.
ForwardOrDrop(c) ==
  /\ Redis /\ wire[c] # << >>
  /\ chan' = IF Room(c)
             THEN [chan EXCEPT ![c] = Append(@, [write |-> Head(wire[c]), obj |-> 0])] ELSE chan
  /\ wire' = [wire EXCEPT ![c] = Tail(@)]
  /\ UNCHANGED <<impl, kind, rec, listed, queue, worker, cmd, bounds, past, history, lost, told, skipped>>

\* The forwarding goroutine waits for room in the channel.
Forward(c) ==
  /\ Redis /\ wire[c] # << >> /\ Room(c)
  /\ chan' = [chan EXCEPT ![c] = Append(@, [write |-> Head(wire[c]), obj |-> 0])]
  /\ wire' = [wire EXCEPT ![c] = Tail(@)]
  /\ UNCHANGED <<impl, kind, rec, listed, queue, worker, cmd, bounds, past, history, lost, told, skipped>>

\* The connection to Redis was away: what was published is not delivered.
WireLost(c) ==
  /\ Redis /\ wire[c] # << >> /\ losses < MaxLosses
  /\ wire' = [wire EXCEPT ![c] = << >>]
  /\ skipped' = skipped \cup {c}
  /\ losses' = losses + 1
  /\ UNCHANGED <<impl, kind, rec, listed, queue, worker, cmd, chan, told, commands, past, history, lost>>

\* Server.WatchTask sends a change on ...
Send(c) ==
  /\ At(c, "stream") /\ chan[c] # << >>
  /\ told' = [told EXCEPT ![c] = Head(chan[c]).write]
  /\ cmd' = [cmd EXCEPT ![c] = [pc |-> "sent"]]
  /\ UNCHANGED <<impl, kind, rec, listed, queue, worker, wire, chan, skipped, bounds, past, history, lost>>

\* Mutant: the command at work does not end a watch.
CheckToTheEnd(c) ==
  /\ At(c, "sent")
  /\ IF writes[Head(chan[c]).write] \in Final \ {"Running"} THEN Quit(c)
     ELSE /\ cmd' = [cmd EXCEPT ![c] = [pc |-> "stream"]]
          /\ chan' = [chan EXCEPT ![c] = Tail(@)]
          /\ UNCHANGED wire
  /\ UNCHANGED <<impl, kind, rec, listed, queue, worker, told, skipped, bounds, past, history, lost>>

\* ... and returns if it is final, which the memory store may have changed in
\* between.  The CLI goes by what it was sent.
Check(c) ==
  /\ At(c, "sent")
  /\ IF writes[Head(chan[c]).write] \in Final THEN Quit(c)
     ELSE /\ cmd' = [cmd EXCEPT ![c] = [pc |-> IF writes[told[c]] \in Final THEN "leave" ELSE "stream"]]
          /\ chan' = [chan EXCEPT ![c] = Tail(@)]
          /\ UNCHANGED wire
  /\ UNCHANGED <<impl, kind, rec, listed, queue, worker, told, skipped, bounds, past, history, lost>>

\* The CLI has closed its connection; its server side notices.
Leave(c) ==
  /\ At(c, "leave")
  /\ Quit(c)
  /\ UNCHANGED <<impl, kind, rec, listed, queue, worker, told, skipped, bounds, past, history, lost>>

-----------------------------------------------------------------------------
(* The controller *)

Turn(w) == worker' = w
Others == UNCHANGED <<impl, kind, cmd, bounds, lost>>

Outcome(phase) == IF phase = "Running" THEN {"Running", "Failed"} ELSE {"Suspended", "Failed"}

Take ==
  /\ worker = Idle /\ queue # << >>
  /\ Turn([pc |-> IF Head(queue) = "delete" THEN "remove" ELSE "read", event |-> Head(queue)])
  /\ queue' = Tail(queue)
  /\ Others /\ UNCHANGED <<rec, listed, past, history, watch>>

\* processEvent: a Task that is gone or being deleted is left alone.
Read ==
  /\ worker.pc = "read"
  /\ IF rec = NoRecord \/ rec.phase = "Terminating" THEN Turn(Idle)
     ELSE \E p \in Outcome(rec.phase) :
            Turn([pc |-> IF Redis THEN "get" ELSE "update", event |-> worker.event, phase |-> p])
  /\ Others /\ UNCHANGED <<rec, listed, queue, past, history, watch>>

\* UpdateTaskStatus: Redis reads the record and writes it back.
UpdateGet ==
  /\ worker.pc = "get"
  /\ Turn(IF rec = NoRecord THEN Idle
          ELSE [pc |-> "update", event |-> worker.event, record |-> [rec EXCEPT !.phase = worker.phase]])
  /\ Others /\ UNCHANGED <<rec, listed, queue, past, history, watch>>
UpdateTaskStatus ==
  /\ worker.pc = "update"
  /\ IF Memory /\ rec = NoRecord THEN UNCHANGED <<rec, past, seen, watch>>
     ELSE Put(IF Redis THEN worker.record ELSE [rec EXCEPT !.phase = worker.phase], 0)
  /\ Turn(Idle)
  /\ Others /\ UNCHANGED <<listed, queue, resaved>>

\* DeleteTask, once the actor is gone.
RemoveTask ==
  /\ worker.pc = "remove"
  /\ Erase
  /\ Turn(Idle)
  /\ Others /\ UNCHANGED <<queue, resaved>>

\* A call failed, or the worker died: the event is acknowledged all the same, or
\* belongs for ever to a worker that is no more.
GiveUp ==
  /\ worker # Idle /\ losses < MaxLosses
  /\ Turn(Idle)
  /\ losses' = losses + 1
  /\ Lose(worker.event)
  /\ UNCHANGED <<impl, kind, rec, listed, queue, cmd, commands, past, history, watch>>

-----------------------------------------------------------------------------

Request(c) ==
  \/ Apply(c) \/ CreateTask(c) \/ SetPhase(c, "Running") \/ SetPhase(c, "Suspended")
  \/ DeleteModel(c) \/ ReadToDelete(c) \/ ListNames(c) \/ ListLocked(c) \/ WatchTask(c)
Carry(c) ==
  \/ DefaultMetadata(c) \/ Save(c) \/ MarkTaskDeleting(c) \/ Announce(c) \/ Poll(c)
  \/ ListRecords(c) \/ Listed(c) \/ Initial(c) \/ Send(c) \/ Check(c) \/ Leave(c)
Controller == Take \/ Read \/ UpdateGet \/ UpdateTaskStatus \/ RemoveTask

Next ==
  \/ Controller \/ GiveUp
  \/ \E c \in Client : Request(c) \/ Carry(c) \/ Forward(c) \/ TimeOut(c) \/ WireLost(c)

Spec == Init /\ [][Next]_vars

\* Commands under way, forwarding goroutines and the controller go on.
Fairness ==
  /\ WF_vars(Controller)
  /\ \A c \in Client :
       /\ WF_vars(Forward(c))
       /\ WF_vars(cmd[c] # Idle /\ Carry(c))
FairSpec == Spec /\ Fairness

-----------------------------------------------------------------------------
(* Properties *)

Phase == {"Suspended", "Running", "Failed", "Terminating", "none yet"}

TypeOK ==
  /\ rec # NoRecord => rec.value \in Value /\ rec.created \in 0 .. Len(writes) /\ rec.phase \in Phase
  /\ queue \in Seq({"reconcile", "delete"}) /\ (Memory => Len(queue) <= QueueSize)
  /\ \A c \in Client :
       /\ Len(chan[c]) <= ChannelSize + (IF At(c, "sent") THEN 1 ELSE 0)
       /\ \A i \in DOMAIN chan[c] : chan[c][i].write \in 1 .. Len(writes)
       /\ told[c] \in 0 .. Len(writes)

\* A list shows a resource that is there throughout and not being deleted, and
\* none that is never there, although Redis reads names and records apart.
StableIsListed ==
  \A c \in Client : At(c, "listed") =>
    /\ seen[c] \cap {"none", "Terminating"} = {} => cmd[c].shown
    /\ seen[c] = {"none"} => ~ cmd[c].shown

\* server.go, defaultMetadata: the time of creation is carried over from the
\* existing resource.  Through overlapping updates, deletions and new creations
\* it is one at which there was no such resource, unless the client brought its
\* own or a lookup failed and the server took that for a resource not there.
CreatedIsTrue ==
  rec # NoRecord =>
    \/ rec.created = Supplied
    \/ rec.created - 1 \in absent
    \/ rec.created \in misread

\* Events in the queue, and those that the memory store is about to put there.
Queued(a) == Cardinality({i \in DOMAIN queue : queue[i] = a})
Unannounced(a) == Cardinality({c \in Client : At(c, "announce") /\ cmd[c].action = a})
Waiting == [a \in {"reconcile", "delete"} |-> Queued(a) + Unannounced(a)]
Event == IF worker = Idle THEN "none" ELSE worker.event

\* store.go: events are handed to exactly one worker, watchers follow the
\* record.  What each store makes of it: Redis loses no event and leaves no gap
\* while its connection lasts; the memory store loses events only when its
\* queue is full.
Contract == INSTANCE Registry WITH
  Watcher <- Client, Capacity <- QueueSize,
  bounded <- Memory,
  version <- Len(writes),
  present <- (rec # NoRecord),
  waiting <- Waiting, handling <- Event,
  watching <- Watching, told <- told, cut <- skipped
ImplementsRegistry == Contract!Spec

\* README.md: `ax watch' streams the phases until the Task runs or has failed:
\* a watcher that is not cut off is told a final phase written since it
\* subscribed, however far its channel lags behind.
WatchEnds ==
  \A c \in Client :
    (c \in Watching /\ \E i \in told[c] + 1 .. Len(writes) : writes[i] \in Final)
      ~> (c \notin Watching \/ c \in skipped)

\* `ax delete' does not poll for ever, unless somebody saves the resource again,
\* or a delete event is lost after the last deletion it asked for: the memory
\* store had no room for it, or the worker failed to clean up, or died.  After
\* that another `ax delete' is answered again.
DeleteAnswers ==
  \A c \in Client : []<>(~ At(c, "poll") \/ c \in resaved \/ c \in lost)
=============================================================================
