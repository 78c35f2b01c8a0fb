------------------------------ MODULE AXControl ------------------------------
(***************************************************************************)
(* The AX control plane: requests of the stateless API server, Task        *)
(* records and the event stream in Redis, and the controllers' workers,    *)
(* which consume the stream as one consumer group and reconcile each Task  *)
(* against Agent Substrate.  Every read, every MULTI/EXEC of Redis and     *)
(* every call to Substrate is a step of its own, so that handlers and      *)
(* workers interleave between reading a record and writing it.             *)
(***************************************************************************)
EXTENDS Integers, Sequences, FiniteSets

CONSTANTS
  Task,         \* names of Tasks (one atespace)
  Manifest,     \* what a Task's spec can say
  Client,       \* concurrent requests to the API server
  Worker,       \* controllers of the consumer group
  BatchSize,    \* events one XREADGROUP may return
  MaxCommands,  \* bound: requests
  MaxFaults     \* bound: failed calls, crashes of workers and of actors

ASSUME TaskAssumption == Task # {}
ASSUME BatchAssumption == BatchSize \in Nat \ {0}
ASSUME BoundsAssumption == MaxCommands \in Nat /\ MaxFaults \in Nat

-----------------------------------------------------------------------------
(* Records, actors and events *)

Phase == {"Suspended", "Running", "Failed", "Terminating"}

Record == [manifest : Manifest, phase : Phase]
NoRecord == [phase |-> "none"]

\* An actor as Substrate keeps it.
Actor == [state : {"suspended", "running", "crashed", "deleting"}, manifest : Manifest]
NoActor == [state |-> "none"]

Event == [action : {"reconcile", "delete"}, task : Task]

VARIABLES
  rec,        \* Task records under their Redis keys
  index,      \* names in the sorted sets that ListTasks reads
  stream,     \* the Redis stream of events
  joined,     \* the consumer group exists
  position,   \* events delivered to the group
  pending,    \* the group's list of delivered, not acknowledged events
  cpc, ctask, crec,   \* per request: step, Task, the record it will write
  commands,   \* requests so far
  wish,       \* the phase the last finished request asked for (history)
  stopped,    \* Tasks whose suspension a caller has confirmed (history)
  wpc, wrec, batch,   \* per worker: step, its copy of the record, claimed events
  actor, template,    \* Substrate: actors and per-task ActorTemplates
  lost,       \* Tasks of which an event was given up (history)
  faults      \* faults so far

redis == <<rec, index, stream>>
group == <<joined, position, pending>>
client == <<cpc, ctask, crec, commands, wish, stopped>>
worker == <<wpc, wrec, batch>>
substrate == <<actor, template>>
vars == <<redis, group, client, worker, substrate, lost, faults>>

WorkerStep == {"down", "next", "template", "actor", "recreate", "suspend", "resume",
               "updateGet", "updateSet", "deleteTemplates", "remove", "ack"}

TypeOK ==
  /\ rec \in [Task -> Record \cup {NoRecord}]
  /\ index \subseteq Task
  /\ stream \in Seq(Event)
  /\ joined \in BOOLEAN
  /\ position \in 0 .. Len(stream)
  /\ pending \subseteq 1 .. Len(stream)
  /\ cpc \in [Client -> {"idle", "save", "suspend", "mark", "observe"}]
  /\ ctask \in [Client -> Task]
  /\ crec \in [Client -> Record \cup {NoRecord}]
  /\ commands \in Nat
  /\ wish \in [Task -> {"none", "Suspended", "Running", "Terminating"}]
  /\ stopped \subseteq Task
  /\ wpc \in [Worker -> WorkerStep]
  /\ wrec \in [Worker -> Record \cup {NoRecord}]
  /\ batch \in [Worker -> Seq(1 .. Len(stream))]
  /\ actor \in [Task -> Actor \cup {NoActor}]
  /\ template \subseteq Task \X Manifest
  /\ lost \subseteq Task
  /\ faults \in Nat

Init ==
  /\ rec = [t \in Task |-> NoRecord]
  /\ index = {}
  /\ stream = << >>
  /\ joined = FALSE /\ position = 0 /\ pending = {}
  /\ cpc = [c \in Client |-> "idle"]
  /\ ctask \in [Client -> {CHOOSE t \in Task : TRUE}]
  /\ crec = [c \in Client |-> NoRecord]
  /\ commands = 0
  /\ wish = [t \in Task |-> "none"]
  /\ stopped = {}
  /\ wpc = [w \in Worker |-> "down"]
  /\ wrec = [w \in Worker |-> NoRecord]
  /\ batch = [w \in Worker |-> << >>]
  /\ actor = [t \in Task |-> NoActor]
  /\ template = {}
  /\ lost = {}
  /\ faults = 0

-----------------------------------------------------------------------------
(* Requests: each reads the record and writes what it makes of it *)

\* The handler has read t's record and goes on to write r.
Request(c, t, r, step) ==
  /\ cpc[c] = "idle" /\ commands < MaxCommands
  /\ commands' = commands + 1
  /\ cpc' = [cpc EXCEPT ![c] = step]
  /\ ctask' = [ctask EXCEPT ![c] = t]
  /\ crec' = [crec EXCEPT ![c] = r]
  /\ UNCHANGED <<wish, redis, group, worker, substrate, lost, faults>>

CreateTask(c, t, m) ==
  /\ rec[t] = NoRecord
  /\ Request(c, t, [manifest |-> m, phase |-> "Suspended"], "save")
  /\ UNCHANGED stopped

SuspendTask(c, t) ==
  /\ rec[t] # NoRecord
  /\ Request(c, t, [rec[t] EXCEPT !.phase = "Suspended"], "suspend")
  /\ UNCHANGED stopped

ResumeTask(c, t) ==
  /\ rec[t] # NoRecord
  /\ Request(c, t, [rec[t] EXCEPT !.phase = "Running"], "save")
  /\ stopped' = stopped \ {t}

DeleteTask(c, t) ==
  /\ rec[t] # NoRecord
  /\ Request(c, t, [rec[t] EXCEPT !.phase = "Terminating"], "mark")
  /\ stopped' = stopped \ {t}

\* Mutant: only a new record is announced to the controllers.
SaveTaskAnnouncingNew(c) ==
  /\ cpc[c] \in {"save", "suspend"}
  /\ rec' = [rec EXCEPT ![ctask[c]] = crec[c]]
  /\ index' = index \cup {ctask[c]}
  /\ stream' = IF ctask[c] \in index THEN stream
               ELSE Append(stream, [action |-> "reconcile", task |-> ctask[c]])
  /\ cpc' = [cpc EXCEPT ![c] = IF cpc[c] = "suspend" THEN "observe" ELSE "idle"]
  /\ wish' = [wish EXCEPT ![ctask[c]] = crec[c].phase]
  /\ UNCHANGED <<ctask, crec, commands, stopped, group, worker, substrate, lost, faults>>

\* Mutant: a Task that is resumed is taken to be indexed already.
SaveTaskIndexingOnce(c) ==
  /\ cpc[c] \in {"save", "suspend"}
  /\ rec' = [rec EXCEPT ![ctask[c]] = crec[c]]
  /\ index' = IF crec[c].phase = "Running" THEN index ELSE index \cup {ctask[c]}
  /\ stream' = Append(stream, [action |-> "reconcile", task |-> ctask[c]])
  /\ cpc' = [cpc EXCEPT ![c] = IF cpc[c] = "suspend" THEN "observe" ELSE "idle"]
  /\ wish' = [wish EXCEPT ![ctask[c]] = crec[c].phase]
  /\ UNCHANGED <<ctask, crec, commands, stopped, group, worker, substrate, lost, faults>>

\* One MULTI/EXEC: record, index and reconcile event.
SaveTask(c) ==
  /\ cpc[c] \in {"save", "suspend"}
  /\ rec' = [rec EXCEPT ![ctask[c]] = crec[c]]
  /\ index' = index \cup {ctask[c]}
  /\ stream' = Append(stream, [action |-> "reconcile", task |-> ctask[c]])
  /\ cpc' = [cpc EXCEPT ![c] = IF cpc[c] = "suspend" THEN "observe" ELSE "idle"]
  /\ wish' = [wish EXCEPT ![ctask[c]] = crec[c].phase]
  /\ UNCHANGED <<ctask, crec, commands, stopped, group, worker, substrate, lost, faults>>

\* One MULTI/EXEC: record and delete event.
MarkTaskDeleting(c) ==
  /\ cpc[c] = "mark"
  /\ rec' = [rec EXCEPT ![ctask[c]] = crec[c]]
  /\ stream' = Append(stream, [action |-> "delete", task |-> ctask[c]])
  /\ cpc' = [cpc EXCEPT ![c] = "idle"]
  /\ wish' = [wish EXCEPT ![ctask[c]] = "Terminating"]
  /\ UNCHANGED <<index, ctask, crec, commands, stopped, group, worker, substrate, lost, faults>>

\* The caller of SuspendTask looks whether the actor is SUSPENDED, once it has
\* the answer.
Observe(c) ==
  /\ cpc[c] = "observe"
  /\ stopped' = IF actor[ctask[c]].state = "suspended" THEN stopped \cup {ctask[c]} ELSE stopped
  /\ cpc' = [cpc EXCEPT ![c] = "idle"]
  /\ UNCHANGED <<ctask, crec, commands, wish, redis, group, worker, substrate, lost, faults>>

-----------------------------------------------------------------------------
(* Workers: subscription and delivery *)

Ev(w) == stream[Head(batch[w])]
T(w) == Ev(w).task
Goto(w, step) == wpc' = [wpc EXCEPT ![w] = step]

\* A new group starts at the tail of the stream, an existing one goes on.
Subscribe(w) ==
  /\ wpc[w] = "down"
  /\ Goto(w, "next")
  /\ joined' = TRUE
  /\ position' = IF joined THEN position ELSE Len(stream)
  /\ lost' = IF joined THEN lost ELSE lost \cup {stream[i].task : i \in DOMAIN stream}
  /\ UNCHANGED <<pending, redis, client, wrec, batch, substrate, faults>>

\* Mutant: the batch is taken to be always full.
ReadGroupFull(w) ==
  /\ wpc[w] = "next" /\ batch[w] = << >> /\ position < Len(stream)
  /\ batch' = [batch EXCEPT ![w] = [i \in 1 .. BatchSize |-> position + i]]
  /\ pending' = pending \cup (position + 1 .. position + BatchSize)
  /\ position' = position + BatchSize
  /\ UNCHANGED <<joined, redis, client, wpc, wrec, substrate, lost, faults>>

\* XREADGROUP ">": entries no member of the group has been given.
ReadGroup(w) ==
  /\ wpc[w] = "next" /\ batch[w] = << >> /\ position < Len(stream)
  /\ LET last == IF position + BatchSize < Len(stream) THEN position + BatchSize
                                                       ELSE Len(stream)
     IN /\ batch' = [batch EXCEPT ![w] = [i \in 1 .. (last - position) |-> position + i]]
        /\ pending' = pending \cup (position + 1 .. last)
        /\ position' = last
  /\ UNCHANGED <<joined, redis, client, wpc, wrec, substrate, lost, faults>>

Ack(w) ==
  /\ wpc[w] = "ack"
  /\ Goto(w, "next")
  /\ batch' = [batch EXCEPT ![w] = Tail(@)]
  /\ pending' = pending \ {Head(batch[w])}
  /\ wrec' = [wrec EXCEPT ![w] = NoRecord]
  /\ UNCHANGED <<joined, position, redis, client, substrate, lost, faults>>

-----------------------------------------------------------------------------
(* Workers: a reconcile event *)

\* Mutant: a Terminating Task is reconciled like any other.
GetTaskTerminating(w) ==
  /\ wpc[w] = "next" /\ batch[w] # << >> /\ Ev(w).action = "reconcile"
  /\ IF rec[T(w)] = NoRecord
       THEN Goto(w, "ack") /\ UNCHANGED wrec
       ELSE Goto(w, "template") /\ wrec' = [wrec EXCEPT ![w] = rec[T(w)]]
  /\ lost' = IF rec[T(w)] = NoRecord THEN lost \ {T(w)} ELSE lost
  /\ UNCHANGED <<redis, group, client, batch, substrate, faults>>

\* A Task that is gone or Terminating is skipped.
GetTask(w) ==
  /\ wpc[w] = "next" /\ batch[w] # << >> /\ Ev(w).action = "reconcile"
  /\ IF rec[T(w)].phase \in {"none", "Terminating"}
       THEN Goto(w, "ack") /\ UNCHANGED wrec
       ELSE Goto(w, "template") /\ wrec' = [wrec EXCEPT ![w] = rec[T(w)]]
  /\ lost' = IF rec[T(w)] = NoRecord THEN lost \ {T(w)} ELSE lost
  /\ UNCHANGED <<redis, group, client, batch, substrate, faults>>

\* Atespace and the template named after the digest of the manifest.
\* EnsureActorTemplateWithImage: a template of the name is taken as it is.
WithTemplate(t, manifest) == template \cup {<<t, manifest>>}

EnsureTemplate(w) ==
  /\ wpc[w] = "template"
  /\ template' = WithTemplate(T(w), wrec[w].manifest)
  /\ Goto(w, "actor")
  /\ UNCHANGED <<redis, group, client, wrec, batch, actor, lost, faults>>

\* What CreateActor is tried for next: suspend or resume, as the copy says.
Drive(w) == IF wrec[w].phase = "Suspended" THEN "suspend" ELSE "resume"

NewActor(w) == [state |-> "suspended", manifest |-> wrec[w].manifest]

\* An existing actor is taken as it is; a crashed one is deleted first.
EnsureActor(w) ==
  /\ wpc[w] = "actor"
  /\ \/ /\ actor[T(w)] = NoActor
        /\ actor' = [actor EXCEPT ![T(w)] = NewActor(w)]
        /\ Goto(w, Drive(w))
     \/ /\ actor[T(w)].state \in {"suspended", "running"}
        /\ Goto(w, Drive(w)) /\ UNCHANGED actor
     \/ /\ actor[T(w)].state \in {"crashed", "deleting"}
        /\ actor' = [actor EXCEPT ![T(w)].state = "deleting"]
        /\ Goto(w, "recreate")
  /\ UNCHANGED <<redis, group, client, wrec, batch, template, lost, faults>>

\* Reconcile returns an error: the worker records the phase Failed.
Error(w) ==
  /\ wrec' = [wrec EXCEPT ![w].phase = "Failed"]
  /\ Goto(w, "updateGet")

\* CreateActor is repeated until the old actor is gone, twenty times.
Recreate(w) ==
  /\ wpc[w] = "recreate"
  /\ \/ /\ actor[T(w)] = NoActor
        /\ actor' = [actor EXCEPT ![T(w)] = NewActor(w)]
        /\ Goto(w, Drive(w)) /\ UNCHANGED wrec
     \/ /\ actor[T(w)] # NoActor
        /\ Error(w) /\ UNCHANGED actor
  /\ UNCHANGED <<redis, group, client, batch, template, lost, faults>>

SuspendActor(w) ==
  /\ wpc[w] = "suspend"
  /\ IF actor[T(w)].state \in {"suspended", "running"}
       THEN /\ actor' = [actor EXCEPT ![T(w)].state = "suspended"]
            /\ Goto(w, "updateGet") /\ UNCHANGED wrec
       ELSE Error(w) /\ UNCHANGED actor
  /\ UNCHANGED <<redis, group, client, batch, template, lost, faults>>

\* The wait for the workspaces that follows changes only conditions of the copy.
ResumeActor(w) ==
  /\ wpc[w] = "resume"
  /\ IF actor[T(w)].state \in {"suspended", "running"}
       THEN /\ actor' = [actor EXCEPT ![T(w)].state = "running"]
            /\ wrec' = [wrec EXCEPT ![w].phase = "Running"]
            /\ Goto(w, "updateGet")
       ELSE Error(w) /\ UNCHANGED actor
  /\ UNCHANGED <<redis, group, client, batch, template, lost, faults>>

\* UpdateTaskStatus reads the record again ...
UpdateGet(w) ==
  /\ wpc[w] = "updateGet"
  /\ IF rec[T(w)] = NoRecord
       THEN Goto(w, "ack") /\ UNCHANGED wrec
       ELSE /\ wrec' = [wrec EXCEPT ![w].manifest = rec[T(w)].manifest]
            /\ Goto(w, "updateSet")
  /\ UNCHANGED <<redis, group, client, batch, substrate, lost, faults>>

\* ... and writes it with the new status; no event, no index.
UpdateSet(w) ==
  /\ wpc[w] = "updateSet"
  /\ rec' = [rec EXCEPT ![T(w)] = wrec[w]]
  /\ lost' = lost \ {T(w)}
  /\ Goto(w, "ack")
  /\ UNCHANGED <<index, stream, group, client, wrec, batch, substrate, faults>>

-----------------------------------------------------------------------------
(* Workers: a delete event *)

\* Mutant: a delete event is only acted upon while the record says Terminating.
DeleteActorIfTerminating(w) ==
  /\ wpc[w] = "next" /\ batch[w] # << >> /\ Ev(w).action = "delete"
  /\ IF rec[T(w)].phase # "Terminating"
       THEN UNCHANGED actor /\ Goto(w, "ack")
       ELSE /\ actor' = IF actor[T(w)] = NoActor THEN actor
                        ELSE [actor EXCEPT ![T(w)].state = "deleting"]
            /\ Goto(w, "deleteTemplates")
  /\ UNCHANGED <<redis, group, client, wrec, batch, template, lost, faults>>

\* The actor's deletion is requested, whatever the record says by now; an actor
\* that is not there counts as deleted.
DeleteActor(w) ==
  /\ wpc[w] = "next" /\ batch[w] # << >> /\ Ev(w).action = "delete"
  /\ actor' = IF actor[T(w)] = NoActor THEN actor
              ELSE [actor EXCEPT ![T(w)].state = "deleting"]
  /\ Goto(w, "deleteTemplates")
  /\ UNCHANGED <<redis, group, client, wrec, batch, template, lost, faults>>

DeleteTemplates(w) ==
  /\ wpc[w] = "deleteTemplates"
  /\ template' = template \ ({T(w)} \X Manifest)
  /\ Goto(w, "remove")
  /\ UNCHANGED <<redis, group, client, wrec, batch, actor, lost, faults>>

\* Mutant: the record is kept unless it still says Terminating.
RemoveTaskIfTerminating(w) ==
  /\ wpc[w] = "remove"
  /\ IF rec[T(w)].phase = "Terminating"
       THEN rec' = [rec EXCEPT ![T(w)] = NoRecord] /\ index' = index \ {T(w)}
       ELSE UNCHANGED <<rec, index>>
  /\ lost' = lost \ {T(w)}
  /\ Goto(w, "ack")
  /\ UNCHANGED <<stream, group, client, wrec, batch, substrate, faults>>

\* One MULTI/EXEC: record and index entries go, whatever the record says by now.
RemoveTask(w) ==
  /\ wpc[w] = "remove"
  /\ rec' = [rec EXCEPT ![T(w)] = NoRecord]
  /\ index' = index \ {T(w)}
  /\ lost' = lost \ {T(w)}
  /\ Goto(w, "ack")
  /\ UNCHANGED <<stream, group, client, wrec, batch, substrate, faults>>

-----------------------------------------------------------------------------
(* Faults and Substrate *)

\* Mutant: a failing deletion of the actor is only logged, too.
CallFailsLogged(w) ==
  /\ faults < MaxFaults /\ faults' = faults + 1
  /\ \/ /\ wpc[w] \in {"template", "actor", "suspend", "resume"}
        /\ Error(w) /\ UNCHANGED lost
     \/ /\ wpc[w] = "next" /\ batch[w] # << >> /\ Ev(w).action = "delete"
        /\ Goto(w, "deleteTemplates") /\ UNCHANGED <<wrec, lost>>
     \/ /\ wpc[w] = "deleteTemplates"
        /\ Goto(w, "remove") /\ UNCHANGED <<wrec, lost>>
  /\ UNCHANGED <<redis, group, client, batch, substrate>>

\* A call to Substrate fails.  The reconcile records it, a delete is given up
\* and leaves the record; failing to delete templates is only logged.
CallFails(w) ==
  /\ faults < MaxFaults /\ faults' = faults + 1
  /\ \/ /\ wpc[w] \in {"template", "actor", "suspend", "resume"}
        /\ Error(w) /\ UNCHANGED lost
     \/ /\ wpc[w] = "next" /\ batch[w] # << >> /\ Ev(w).action = "delete"
        /\ Goto(w, "ack") /\ lost' = lost \cup {T(w)} /\ UNCHANGED wrec
     \/ /\ wpc[w] = "deleteTemplates"
        /\ Goto(w, "remove") /\ UNCHANGED <<wrec, lost>>
  /\ UNCHANGED <<redis, group, client, batch, substrate>>

\* A call to Redis fails: the event is acknowledged all the same.
RedisFails(w) ==
  /\ faults < MaxFaults /\ faults' = faults + 1
  /\ \/ wpc[w] \in {"updateGet", "updateSet", "remove"}
     \/ wpc[w] = "next" /\ batch[w] # << >> /\ Ev(w).action = "reconcile"
  /\ Goto(w, "ack")
  /\ lost' = lost \cup {T(w)}
  /\ UNCHANGED <<redis, group, client, wrec, batch, substrate>>

\* A controller dies or is stopped; what it has claimed stays pending.
Crash(w) ==
  /\ wpc[w] # "down" /\ faults < MaxFaults
  /\ faults' = faults + 1
  /\ Goto(w, "down")
  /\ lost' = lost \cup {stream[batch[w][i]].task : i \in DOMAIN batch[w]}
  /\ batch' = [batch EXCEPT ![w] = << >>]
  /\ wrec' = [wrec EXCEPT ![w] = NoRecord]
  /\ UNCHANGED <<redis, group, client, substrate>>

ActorCrashes(t) ==
  /\ actor[t].state = "running" /\ faults < MaxFaults
  /\ faults' = faults + 1
  /\ actor' = [actor EXCEPT ![t].state = "crashed"]
  /\ UNCHANGED <<redis, group, client, worker, template, lost>>

\* The deletion of an actor completes.
ActorGone(t) ==
  /\ actor[t].state = "deleting"
  /\ actor' = [actor EXCEPT ![t] = NoActor]
  /\ UNCHANGED <<redis, group, client, worker, template, lost, faults>>

Handle(c) ==
  \/ \E t \in Task :
       \/ \E m \in Manifest : CreateTask(c, t, m)
       \/ SuspendTask(c, t) \/ ResumeTask(c, t) \/ DeleteTask(c, t)
  \/ SaveTask(c) \/ MarkTaskDeleting(c) \/ Observe(c)

Reconcile(w) ==
  \/ GetTask(w) \/ EnsureTemplate(w) \/ EnsureActor(w) \/ Recreate(w)
  \/ SuspendActor(w) \/ ResumeActor(w) \/ UpdateGet(w) \/ UpdateSet(w)
ReconcileDelete(w) == DeleteActor(w) \/ DeleteTemplates(w) \/ RemoveTask(w)
Run(w) == Subscribe(w) \/ ReadGroup(w) \/ Reconcile(w) \/ ReconcileDelete(w) \/ Ack(w)

Next ==
  \/ \E c \in Client : Handle(c)
  \/ \E w \in Worker : Run(w) \/ CallFails(w) \/ RedisFails(w) \/ Crash(w)
  \/ \E t \in Task : ActorCrashes(t) \/ ActorGone(t)

Spec == Init /\ [][Next]_vars

\* Controllers run and are restarted, the server carries a request through,
\* Substrate completes deletions.
Fairness ==
  /\ \A w \in Worker : WF_vars(Run(w))
  /\ \A c \in Client : WF_vars(SaveTask(c) \/ MarkTaskDeleting(c) \/ Observe(c))
  /\ \A t \in Task : WF_vars(ActorGone(t))
FairSpec == Spec /\ Fairness

-----------------------------------------------------------------------------
(* Safety *)

Live(t) == actor[t].state \in {"suspended", "running", "crashed"}

\* With one controller: an actor that is not being deleted has a Task record,
\* by which it can be found and deleted, and the template it resumes from.
NoOrphanActor ==
  \A t \in Task : Live(t) =>
    rec[t] # NoRecord /\ <<t, actor[t].manifest>> \in template

\* No event of t is on its way, and none was given up.
Quiet(t) ==
  /\ t \notin lost
  /\ \A i \in position + 1 .. Len(stream) : stream[i].task # t
  /\ \A w \in Worker : \A i \in DOMAIN batch[w] : stream[batch[w][i]].task # t

\* With one controller: once its events are processed the record tells the
\* truth about the actor, whatever requests crossed the worker's steps.
QuietAgrees ==
  \A t \in Task : Quiet(t) =>
    CASE rec[t] = NoRecord -> ~ Live(t)
      [] rec[t].phase = "Suspended" -> actor[t].state = "suspended"
      [] rec[t].phase = "Running" -> actor[t].state \in {"running", "crashed"}
      [] rec[t].phase = "Terminating" -> FALSE
      [] OTHER -> TRUE

\* With one controller: a Task that was deleted last is gone in the end; no
\* status written from an older copy of the record keeps it.
DeletePrevails ==
  \A t \in Task : Quiet(t) /\ wish[t] = "Terminating" => rec[t] = NoRecord

\* With one controller: a record that ListTasks does not show is Terminating,
\* brought back by a second delete that had read it before the first removed it.
UnlistedIsTerminating ==
  \A t \in Task \ index : rec[t] # NoRecord => rec[t].phase = "Terminating"

\* engine/extensions.md: the actual stop is confirmed, by the actor's state,
\* before anything else happens to the task.  At the latest when the events
\* under way at the confirmation are processed no actor runs.
StopIsFinal == \A t \in stopped : Quiet(t) => actor[t].state # "running"

\* A request that is to write the record has one to write.
RequestHolds ==
  \A c \in Client :
    /\ cpc[c] \in {"save", "suspend"} => crec[c] \in Record /\ crec[c].phase \in {"Suspended", "Running"}
    /\ cpc[c] = "mark" => crec[c] \in Record /\ crec[c].phase = "Terminating"

\* A worker at work has claimed the event; the record it reconciles is there and
\* listed, the template precedes the actor, a deletion has begun with the actor.
WorkerHolds ==
  \A w \in Worker :
    /\ wpc[w] \notin {"down", "next"} => batch[w] # << >>
    /\ wpc[w] \in WorkerStep \ {"down", "next", "deleteTemplates", "remove", "ack"} =>
         /\ wrec[w] \in Record /\ wrec[w].phase # "Terminating"
         /\ rec[T(w)] # NoRecord /\ T(w) \in index
    /\ wpc[w] \in {"actor", "recreate"} => <<T(w), wrec[w].manifest>> \in template
    /\ wpc[w] \in {"deleteTemplates", "remove"} => ~ Live(T(w))

\* With one controller: the inductive invariant of the proofs.
IInv == TypeOK /\ RequestHolds /\ WorkerHolds /\ NoOrphanActor /\ UnlistedIsTerminating

-----------------------------------------------------------------------------
(* Liveness *)

\* `ax delete', which polls for the end of the record, returns unless a fault
\* made a worker give the event up.
DeletionCompletes ==
  \A t \in Task : rec[t].phase = "Terminating" ~> (rec[t] = NoRecord \/ t \in lost)

\* store.go: a crashed worker's events can be picked up again.
EventsAreHandled ==
  \A i \in 1 .. MaxCommands : i \in pending ~> i \notin pending
=============================================================================
