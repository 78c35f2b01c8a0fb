--------------------------- MODULE AXControlProofs ---------------------------
(***************************************************************************)
(* What holds of AXControl with one controller, for every set of Tasks,    *)
(* manifests and requests and every number of faults: no actor is left     *)
(* behind without a record, and what ListTasks hides is being deleted.     *)
(***************************************************************************)
EXTENDS AXControl, SequenceTheorems, TLAPS

\* The deployment of engine/extensions.md: the controller runs as one replica.
OneController == \A v, w \in Worker : v = w

USE DEF redis, group, client, worker, substrate

-----------------------------------------------------------------------------
(* Records, events and batches *)

\* The records that stand for nothing are distinct from real ones.
LEMMA Absences ==
  /\ \A r \in Record : r # NoRecord /\ r.phase \in Phase /\ r.manifest \in Manifest
  /\ \A a \in Actor : a # NoActor
                      /\ a.state \in {"suspended", "running", "crashed", "deleting"}
  /\ NoRecord.phase = "none" /\ NoActor.state = "none"
  BY DEF Record, NoRecord, Phase, Actor, NoActor

\* An event a worker has claimed is one of the stream, about a Task.
LEMMA ClaimedEvent ==
  ASSUME TypeOK, NEW w \in Worker, batch[w] # << >>
  PROVE  /\ Head(batch[w]) \in 1 .. Len(stream) /\ Tail(batch[w]) \in Seq(1 .. Len(stream))
         /\ Ev(w) \in Event /\ T(w) \in Task
<1>1. batch[w] \in Seq(1 .. Len(stream)) /\ stream \in Seq(Event)
  BY DEF TypeOK
<1>2. Head(batch[w]) \in 1 .. Len(stream) /\ Tail(batch[w]) \in Seq(1 .. Len(stream))
  BY <1>1, HeadTailProperties
<1>3. Ev(w) \in Event
  BY <1>1, <1>2 DEF Ev
<1> QED
  BY <1>2, <1>3 DEF T, Event

\* A new event leaves the ones already claimed as they are.
LEMMA StreamGrows ==
  ASSUME TypeOK, NEW e \in Event, stream' = Append(stream, e), UNCHANGED <<batch, position, pending>>
  PROVE  /\ stream' \in Seq(Event) /\ position' \in 0 .. Len(stream')
         /\ pending' \subseteq 1 .. Len(stream')
         /\ batch' \in [Worker -> Seq(1 .. Len(stream'))]
         /\ \A w \in Worker : batch[w] # << >> => T(w)' = T(w)
<1>1. stream \in Seq(Event) /\ position \in 0 .. Len(stream) /\ pending \subseteq 1 .. Len(stream)
      /\ batch \in [Worker -> Seq(1 .. Len(stream))]
  BY DEF TypeOK
<1>2. stream' \in Seq(Event) /\ Len(stream') = Len(stream) + 1
      /\ \A i \in 1 .. Len(stream) : stream'[i] = stream[i]
  BY <1>1
<1>3. Len(stream) \in Nat /\ 1 .. Len(stream) \subseteq 1 .. Len(stream')
  BY <1>1, <1>2
<1>4. \A s \in Seq(1 .. Len(stream)) : s \in Seq(1 .. Len(stream'))
  BY <1>3
<1>5. \A w \in Worker : batch[w] # << >> => T(w)' = T(w)
  <2>1. SUFFICES ASSUME NEW w \in Worker, batch[w] # << >>
                 PROVE  T(w)' = T(w)
    OBVIOUS
  <2> QED
    BY <2>1, <1>2, ClaimedEvent DEF T, Ev
<1>6. batch' \in [Worker -> Seq(1 .. Len(stream'))]
  BY <1>1, <1>4
<1> QED
  BY <1>1, <1>2, <1>3, <1>5, <1>6

-----------------------------------------------------------------------------
(* Requests *)

\* What a request may do to the control plane without the workers noticing:
\* write records, list them and announce events.
LEMMA RequestStep ==
  ASSUME IInv, UNCHANGED <<worker, substrate, group>>,
         NEW e \in Event, stream' \in {stream, Append(stream, e)},
         rec' \in [Task -> Record \cup {NoRecord}],
         \A t \in Task : rec[t] # NoRecord => rec'[t] # NoRecord,
         index \subseteq index', index' \subseteq Task
  PROVE  WorkerHolds' /\ NoOrphanActor'
         /\ stream' \in Seq(Event) /\ position' \in 0 .. Len(stream')
         /\ pending' \subseteq 1 .. Len(stream')
         /\ batch' \in [Worker -> Seq(1 .. Len(stream'))]
<1>1. /\ stream' \in Seq(Event) /\ position' \in 0 .. Len(stream')
      /\ pending' \subseteq 1 .. Len(stream')
      /\ batch' \in [Worker -> Seq(1 .. Len(stream'))]
      /\ \A w \in Worker : batch[w] # << >> => T(w)' = T(w)
  <2>1. CASE stream' = stream
    BY <2>1 DEF IInv, TypeOK, T, Ev
  <2>2. CASE stream' = Append(stream, e)
    BY <2>2, StreamGrows DEF IInv
  <2> QED
    BY <2>1, <2>2
<1>2. NoOrphanActor'
  BY DEF IInv, NoOrphanActor, Live
<1>3. WorkerHolds'
  <2>1. SUFFICES ASSUME NEW w \in Worker
                 PROVE  WorkerHolds!(w)'
    BY DEF WorkerHolds
  <2>2. CASE batch[w] = << >>
    <3>1. wpc[w] \in {"down", "next"}
      BY <2>2 DEF IInv, WorkerHolds
    <3> QED
      BY <3>1 DEF WorkerStep
  <2>3. CASE batch[w] # << >>
    <3>1. T(w)' = T(w) /\ T(w) \in Task
      BY <1>1, <2>3, ClaimedEvent DEF IInv
    <3>2. wpc[w] \notin {"down", "next"} => batch'[w] # << >>
      BY <2>3
    <3>3. wpc[w] \in WorkerStep \ {"down", "next", "deleteTemplates", "remove", "ack"} =>
            /\ wrec'[w] \in Record /\ wrec'[w].phase # "Terminating"
            /\ rec'[T(w)] # NoRecord /\ T(w) \in index'
      BY <3>1 DEF IInv, WorkerHolds
    <3>4. wpc[w] \in {"actor", "recreate"} => <<T(w), wrec'[w].manifest>> \in template'
      BY DEF IInv, WorkerHolds
    <3>5. wpc[w] \in {"deleteTemplates", "remove"} => ~ Live(T(w))
      BY DEF IInv, WorkerHolds
    <3>6. Live(T(w))' <=> Live(T(w))
      BY <3>1 DEF Live
    <3> QED
      BY <3>1, <3>2, <3>3, <3>4, <3>5, <3>6
  <2> QED
    BY <2>2, <2>3
<1> QED
  BY <1>1, <1>2, <1>3

\* A request that read t's record and goes on to write what it makes of it.
LEMMA RequestBegins ==
  ASSUME IInv, NEW c \in Client, NEW t \in Task, NEW r \in Record,
         NEW step \in {"save", "suspend", "mark"}, Request(c, t, r, step),
         step \in {"save", "suspend"} => r.phase \in {"Suspended", "Running"},
         step = "mark" => r.phase = "Terminating",
         stopped' \subseteq Task
  PROVE  IInv'
<1>1. /\ UNCHANGED <<wish, rec, index, stream, group, worker, substrate, lost, faults>>
      /\ cpc' = [cpc EXCEPT ![c] = step] /\ ctask' = [ctask EXCEPT ![c] = t]
      /\ crec' = [crec EXCEPT ![c] = r] /\ commands' = commands + 1
  BY DEF Request
<1>2. TypeOK'
  BY <1>1 DEF IInv, TypeOK
<1>3. RequestHolds'
  BY <1>1 DEF IInv, TypeOK, RequestHolds
<1>4. WorkerHolds' /\ NoOrphanActor' /\ UnlistedIsTerminating'
  BY <1>1 DEF IInv, WorkerHolds, NoOrphanActor, UnlistedIsTerminating, Live, T, Ev
<1> QED
  BY <1>2, <1>3, <1>4 DEF IInv

\* The four requests of the API server.
LEMMA RequestsBegin ==
  ASSUME IInv, NEW c \in Client, NEW t \in Task
  PROVE  /\ \A m \in Manifest : CreateTask(c, t, m) => IInv'
         /\ SuspendTask(c, t) \/ ResumeTask(c, t) \/ DeleteTask(c, t) => IInv'
<1>1. ASSUME NEW m \in Manifest, CreateTask(c, t, m)
      PROVE  IInv'
  <2> DEFINE r == [manifest |-> m, phase |-> "Suspended"]
  <2>1. r \in Record
    BY DEF Record, Phase
  <2>2. stopped' \subseteq Task
    BY <1>1 DEF CreateTask, IInv, TypeOK
  <2>3. Request(c, t, r, "save")
    BY <1>1 DEF CreateTask
  <2> HIDE DEF r
  <2>4. r.phase = "Suspended"
    BY DEF r
  <2> QED
    BY <2>1, <2>2, <2>3, <2>4, RequestBegins
<1>2. ASSUME NEW p \in Phase, rec[t] # NoRecord
      PROVE  LET r == [rec[t] EXCEPT !.phase = p] IN r \in Record /\ r.phase = p
  BY <1>2 DEF IInv, TypeOK, Record, Phase
<1>3. CASE SuspendTask(c, t)
  <2> DEFINE r == [rec[t] EXCEPT !.phase = "Suspended"]
  <2>1. Request(c, t, r, "suspend") /\ stopped' \subseteq Task /\ rec[t] # NoRecord
    BY <1>3 DEF SuspendTask, IInv, TypeOK
  <2>2. r \in Record /\ r.phase = "Suspended"
    BY <1>2, <2>1 DEF Phase
  <2> HIDE DEF r
  <2> QED
    BY <2>1, <2>2, RequestBegins
<1>4. CASE ResumeTask(c, t)
  <2> DEFINE r == [rec[t] EXCEPT !.phase = "Running"]
  <2>1. Request(c, t, r, "save") /\ stopped' \subseteq Task /\ rec[t] # NoRecord
    BY <1>4 DEF ResumeTask, IInv, TypeOK
  <2>2. r \in Record /\ r.phase = "Running"
    BY <1>2, <2>1 DEF Phase
  <2> HIDE DEF r
  <2> QED
    BY <2>1, <2>2, RequestBegins
<1>5. CASE DeleteTask(c, t)
  <2> DEFINE r == [rec[t] EXCEPT !.phase = "Terminating"]
  <2>1. Request(c, t, r, "mark") /\ stopped' \subseteq Task /\ rec[t] # NoRecord
    BY <1>5 DEF DeleteTask, IInv, TypeOK
  <2>2. r \in Record /\ r.phase = "Terminating"
    BY <1>2, <2>1 DEF Phase
  <2> HIDE DEF r
  <2> QED
    BY <2>1, <2>2, RequestBegins
<1> QED
  BY <1>1, <1>3, <1>4, <1>5

\* A record saved by create, suspend or resume is listed.
LEMMA SaveTaskOK ==
  ASSUME IInv, NEW c \in Client, SaveTask(c)
  PROVE  IInv'
<1> DEFINE e == [action |-> "reconcile", task |-> ctask[c]]
           next == IF cpc[c] = "suspend" THEN "observe" ELSE "idle"
<1>1. /\ ctask[c] \in Task /\ crec[c] \in Record
      /\ crec[c].phase \in {"Suspended", "Running"}
  BY DEF SaveTask, IInv, TypeOK, RequestHolds
<1>2. /\ rec' = [rec EXCEPT ![ctask[c]] = crec[c]] /\ index' = index \cup {ctask[c]}
      /\ stream' = Append(stream, e) /\ cpc' = [cpc EXCEPT ![c] = next]
      /\ wish' = [wish EXCEPT ![ctask[c]] = crec[c].phase]
      /\ UNCHANGED <<ctask, crec, commands, stopped, group, worker, substrate, lost, faults>>
  BY DEF SaveTask
<1>3. e \in Event
  BY <1>1 DEF Event
<1>4. /\ rec' \in [Task -> Record \cup {NoRecord}]
      /\ \A t \in Task : rec[t] # NoRecord => rec'[t] # NoRecord
      /\ index \subseteq index' /\ index' \subseteq Task
  BY <1>1, <1>2, Absences DEF IInv, TypeOK
<1> HIDE DEF e
<1>5. /\ WorkerHolds' /\ NoOrphanActor'
      /\ stream' \in Seq(Event) /\ position' \in 0 .. Len(stream')
      /\ pending' \subseteq 1 .. Len(stream')
      /\ batch' \in [Worker -> Seq(1 .. Len(stream'))]
  BY <1>2, <1>3, <1>4, RequestStep
<1>6. TypeOK'
  BY <1>1, <1>2, <1>4, <1>5 DEF IInv, TypeOK
<1>7. RequestHolds'
  BY <1>2 DEF IInv, TypeOK, RequestHolds
<1>8. UnlistedIsTerminating'
  BY <1>1, <1>2 DEF IInv, TypeOK, UnlistedIsTerminating
<1> QED
  BY <1>5, <1>6, <1>7, <1>8 DEF IInv

\* A deletion leaves a record that says Terminating, listed or not.
LEMMA MarkTaskDeletingOK ==
  ASSUME IInv, NEW c \in Client, MarkTaskDeleting(c)
  PROVE  IInv'
<1> DEFINE e == [action |-> "delete", task |-> ctask[c]]
<1>1. ctask[c] \in Task /\ crec[c] \in Record /\ crec[c].phase = "Terminating"
  BY DEF MarkTaskDeleting, IInv, TypeOK, RequestHolds
<1>2. /\ rec' = [rec EXCEPT ![ctask[c]] = crec[c]] /\ UNCHANGED index
      /\ stream' = Append(stream, e) /\ cpc' = [cpc EXCEPT ![c] = "idle"]
      /\ wish' = [wish EXCEPT ![ctask[c]] = "Terminating"]
      /\ UNCHANGED <<ctask, crec, commands, stopped, group, worker, substrate, lost, faults>>
  BY DEF MarkTaskDeleting
<1>3. e \in Event
  BY <1>1 DEF Event
<1>4. /\ rec' \in [Task -> Record \cup {NoRecord}]
      /\ \A t \in Task : rec[t] # NoRecord => rec'[t] # NoRecord
      /\ index \subseteq index' /\ index' \subseteq Task
  BY <1>1, <1>2, Absences DEF IInv, TypeOK
<1> HIDE DEF e
<1>5. /\ WorkerHolds' /\ NoOrphanActor'
      /\ stream' \in Seq(Event) /\ position' \in 0 .. Len(stream')
      /\ pending' \subseteq 1 .. Len(stream')
      /\ batch' \in [Worker -> Seq(1 .. Len(stream'))]
  BY <1>2, <1>3, <1>4, RequestStep
<1>6. TypeOK'
  BY <1>1, <1>2, <1>4, <1>5 DEF IInv, TypeOK
<1>7. RequestHolds'
  BY <1>2 DEF IInv, TypeOK, RequestHolds
<1>8. UnlistedIsTerminating'
  BY <1>1, <1>2 DEF IInv, TypeOK, UnlistedIsTerminating
<1> QED
  BY <1>5, <1>6, <1>7, <1>8 DEF IInv

\* Looking at the actor changes nothing but what the caller knows.
LEMMA ObserveOK ==
  ASSUME IInv, NEW c \in Client, Observe(c)
  PROVE  IInv'
<1>1. /\ cpc' = [cpc EXCEPT ![c] = "idle"]
      /\ UNCHANGED <<ctask, crec, commands, wish, redis, group, worker, substrate, lost, faults>>
  BY DEF Observe
<1>2. stopped' \subseteq Task
  BY DEF Observe, IInv, TypeOK
<1>3. TypeOK'
  BY <1>1, <1>2 DEF IInv, TypeOK
<1>4. RequestHolds'
  BY <1>1 DEF IInv, TypeOK, RequestHolds
<1>5. WorkerHolds' /\ NoOrphanActor' /\ UnlistedIsTerminating'
  BY <1>1 DEF IInv, WorkerHolds, NoOrphanActor, UnlistedIsTerminating, Live, T, Ev
<1> QED
  BY <1>3, <1>4, <1>5 DEF IInv

-----------------------------------------------------------------------------
(* Workers *)

Reconciling == WorkerStep \ {"down", "next", "deleteTemplates", "remove", "ack"}

\* The frame of a step of the one controller on the event it has claimed.
LEMMA AtWork ==
  ASSUME OneController, IInv, NEW w \in Worker, batch[w] # << >>,
         UNCHANGED <<stream, group, client, batch>>,
         NEW step \in WorkerStep, wpc' = [wpc EXCEPT ![w] = step],
         wrec' \in [Worker -> Record \cup {NoRecord}],
         rec' \in [Task -> Record \cup {NoRecord}], index' \subseteq Task,
         actor' \in [Task -> Actor \cup {NoActor}], template' \subseteq Task \X Manifest,
         lost' \subseteq Task, faults' \in Nat,
         step \in Reconciling => /\ wrec'[w] \in Record /\ wrec'[w].phase # "Terminating"
                                /\ rec'[T(w)] # NoRecord /\ T(w) \in index',
         step \in {"actor", "recreate"} => <<T(w), wrec'[w].manifest>> \in template',
         step \in {"deleteTemplates", "remove"} =>
           actor'[T(w)].state \notin {"suspended", "running", "crashed"},
         NoOrphanActor', UnlistedIsTerminating'
  PROVE  IInv'
<1>1. TypeOK'
  BY DEF IInv, TypeOK
<1>2. RequestHolds'
  BY DEF IInv, RequestHolds
<1>3. WorkerHolds'
  <2>1. \A v \in Worker : v = w
    BY DEF OneController
  <2>2. T(w)' = T(w) /\ wpc'[w] = step /\ batch'[w] # << >>
    BY DEF T, Ev, IInv, TypeOK
  <2> QED
    BY <2>1, <2>2 DEF WorkerHolds, Reconciling, Live
<1> QED
  BY <1>1, <1>2, <1>3 DEF IInv

\* What the invariant gives a worker that has claimed an event.
LEMMA Working ==
  ASSUME IInv, NEW w \in Worker, batch[w] # << >> \/ wpc[w] \notin {"down", "next"}
  PROVE  /\ batch[w] # << >> /\ T(w) \in Task
         /\ rec[T(w)] \in Record \cup {NoRecord} /\ wrec[w] \in Record \cup {NoRecord}
         /\ actor[T(w)] \in Actor \cup {NoActor}
         /\ wpc[w] \in Reconciling =>
              /\ wrec[w] \in Record /\ wrec[w].phase # "Terminating"
              /\ rec[T(w)] # NoRecord /\ rec[T(w)] \in Record /\ T(w) \in index
         /\ wpc[w] \in {"actor", "recreate"} => <<T(w), wrec[w].manifest>> \in template
         /\ wpc[w] \in {"deleteTemplates", "remove"} => ~ Live(T(w))
<1>1. batch[w] # << >>
  BY DEF IInv, WorkerHolds
<1>2. T(w) \in Task
  BY <1>1, ClaimedEvent DEF IInv
<1>3. /\ wpc[w] \in Reconciling => /\ wrec[w] \in Record /\ wrec[w].phase # "Terminating"
                                    /\ rec[T(w)] # NoRecord /\ T(w) \in index
      /\ wpc[w] \in {"actor", "recreate"} => <<T(w), wrec[w].manifest>> \in template
      /\ wpc[w] \in {"deleteTemplates", "remove"} => ~ Live(T(w))
  BY DEF IInv, WorkerHolds, Reconciling
<1>4. /\ rec[T(w)] \in Record \cup {NoRecord} /\ wrec[w] \in Record \cup {NoRecord}
      /\ actor[T(w)] \in Actor \cup {NoActor}
  BY <1>2 DEF IInv, TypeOK
<1> QED
  BY <1>1, <1>2, <1>3, <1>4

\* A record that says Failed is one all the same.
LEMMA FailedRecord ==
  ASSUME NEW r \in Record, NEW p \in Phase
  PROVE  LET u == [r EXCEPT !.phase = p] IN
         u \in Record /\ u.phase = p /\ u.manifest = r.manifest
  BY DEF Record

\* Reading the record: only what exists and is not being deleted is reconciled.
LEMMA GetTaskOK ==
  ASSUME OneController, IInv, NEW w \in Worker, GetTask(w)
  PROVE  IInv'
<1>1. /\ batch[w] # << >> /\ lost' \subseteq Task
      /\ UNCHANGED <<redis, group, client, batch, substrate, faults>>
  BY DEF GetTask, IInv, TypeOK
<1>2. NoOrphanActor' /\ UnlistedIsTerminating'
  BY <1>1 DEF IInv, NoOrphanActor, UnlistedIsTerminating, Live
<1>3. T(w) \in Task /\ rec[T(w)] \in Record \cup {NoRecord}
  BY <1>1, Working
<1>4. CASE rec[T(w)].phase \in {"none", "Terminating"}
  <2>1. wpc' = [wpc EXCEPT ![w] = "ack"] /\ UNCHANGED wrec
    BY <1>4 DEF GetTask, Goto
  <2> QED
    BY <1>1, <1>2, <2>1, AtWork DEF IInv, TypeOK, WorkerStep, Reconciling
<1>5. CASE rec[T(w)].phase \notin {"none", "Terminating"}
  <2>1. wpc' = [wpc EXCEPT ![w] = "template"] /\ wrec' = [wrec EXCEPT ![w] = rec[T(w)]]
    BY <1>5 DEF GetTask, Goto
  <2>2. rec[T(w)] # NoRecord /\ rec[T(w)] \in Record
    BY <1>3, <1>5, Absences
  <2>3. T(w) \in index
    BY <1>3, <1>5, <2>2 DEF IInv, UnlistedIsTerminating
  <2>4. wrec'[w] = rec[T(w)] /\ wrec' \in [Worker -> Record \cup {NoRecord}]
    BY <2>1, <2>2 DEF IInv, TypeOK
  <2> QED
    BY <1>1, <1>2, <1>5, <2>1, <2>2, <2>3, <2>4, AtWork DEF IInv, TypeOK, WorkerStep, Reconciling
<1> QED
  BY <1>4, <1>5

\* A step of the reconcile that touches only the worker's own copy and place.
LEMMA CopyStep ==
  ASSUME OneController, IInv, NEW w \in Worker, batch[w] # << >>,
         NEW step \in WorkerStep \ {"actor", "recreate"}, Goto(w, step),
         NEW r \in Record \cup {NoRecord}, wrec' = [wrec EXCEPT ![w] = r],
         UNCHANGED <<redis, group, client, batch, substrate>>,
         lost' \subseteq Task, faults' \in Nat,
         step \in Reconciling => /\ r \in Record /\ r.phase # "Terminating"
                                /\ rec[T(w)] # NoRecord /\ T(w) \in index,
         step \in {"deleteTemplates", "remove"} => ~ Live(T(w))
  PROVE  IInv'
<1>1. wrec' \in [Worker -> Record \cup {NoRecord}] /\ wrec'[w] = r
  BY DEF IInv, TypeOK
<1>2. NoOrphanActor' /\ UnlistedIsTerminating'
  BY DEF IInv, NoOrphanActor, UnlistedIsTerminating, Live
<1>3. wpc' = [wpc EXCEPT ![w] = step] /\ step \in WorkerStep
  BY DEF Goto
<1>4. step \in {"deleteTemplates", "remove"} =>
        actor'[T(w)].state \notin {"suspended", "running", "crashed"}
  BY DEF Live
<1>5. TypeOK
  BY DEF IInv
<1> QED
  BY <1>1, <1>2, <1>3, <1>4, <1>5, AtWork DEF TypeOK

\* Recording the phase Failed.
LEMMA ErrorOK ==
  ASSUME OneController, IInv, NEW w \in Worker, wpc[w] \in Reconciling, Error(w),
         UNCHANGED <<redis, group, client, batch, substrate>>,
         lost' \subseteq Task, faults' \in Nat
  PROVE  IInv'
<1> DEFINE r == [wrec[w] EXCEPT !.phase = "Failed"]
<1>1. /\ batch[w] # << >> /\ wrec[w] \in Record
      /\ rec[T(w)] # NoRecord /\ T(w) \in index
  BY Working DEF Reconciling
<1>2. r \in Record /\ r.phase = "Failed"
  BY <1>1, FailedRecord DEF Phase
<1>3. Goto(w, "updateGet") /\ wrec' = [wrec EXCEPT ![w] = r]
  BY DEF Error
<1>4. /\ "updateGet" \in WorkerStep \ {"actor", "recreate"}
      /\ "updateGet" \notin {"deleteTemplates", "remove"}
  BY DEF WorkerStep
<1> HIDE DEF r
<1>5. r \in Record \cup {NoRecord} /\ r.phase # "Terminating"
  BY <1>2
<1> QED
  BY <1>1, <1>2, <1>3, <1>4, <1>5, CopyStep

\* A step of the reconcile that replaces the actor: the new one is driven by the
\* worker's template.
LEMMA ActorStep ==
  ASSUME OneController, IInv, NEW w \in Worker, wpc[w] \in Reconciling,
         NEW step \in Reconciling, Goto(w, step),
         step \in {"actor", "recreate"} => <<T(w), wrec[w].manifest>> \in template,
         NEW a \in Actor, actor' = [actor EXCEPT ![T(w)] = a],
         a.state # "deleting" => <<T(w), a.manifest>> \in template,
         UNCHANGED <<redis, group, client, batch, template, lost, faults>>,
         NEW r \in Record, wrec' = [wrec EXCEPT ![w] = r], r.phase # "Terminating",
         r.manifest = wrec[w].manifest
  PROVE  IInv'
<1>1. /\ batch[w] # << >> /\ T(w) \in Task /\ rec[T(w)] # NoRecord /\ T(w) \in index
  BY Working DEF Reconciling
<1>2. /\ wrec' \in [Worker -> Record \cup {NoRecord}] /\ wrec'[w] = r
      /\ actor' \in [Task -> Actor \cup {NoActor}]
  BY <1>1 DEF IInv, TypeOK
<1>3. actor'[T(w)] = a /\ \A t \in Task : t # T(w) => actor'[t] = actor[t]
  BY <1>1 DEF IInv, TypeOK
<1>4. NoOrphanActor'
  BY <1>1, <1>3, Absences DEF IInv, NoOrphanActor, Live
<1>5. UnlistedIsTerminating'
  BY DEF IInv, UnlistedIsTerminating
<1>6. wpc' = [wpc EXCEPT ![w] = step] /\ step \in WorkerStep
      /\ step \notin {"deleteTemplates", "remove"}
  BY DEF Goto, Reconciling
<1>7. TypeOK
  BY DEF IInv
<1> QED
  BY <1>1, <1>2, <1>4, <1>5, <1>6, <1>7, AtWork DEF TypeOK

\* The template is there before the actor is asked for.
LEMMA EnsureTemplateOK ==
  ASSUME OneController, IInv, NEW w \in Worker, EnsureTemplate(w)
  PROVE  IInv'
<1>1. /\ wpc[w] = "template" /\ wpc' = [wpc EXCEPT ![w] = "actor"]
      /\ template' = template \cup {<<T(w), wrec[w].manifest>>}
      /\ UNCHANGED <<redis, group, client, wrec, batch, actor, lost, faults>>
  BY DEF EnsureTemplate, WithTemplate, Goto
<1>2. /\ batch[w] # << >> /\ T(w) \in Task /\ wrec[w] \in Record
      /\ wrec[w].phase # "Terminating" /\ rec[T(w)] # NoRecord /\ T(w) \in index
  BY <1>1, Working DEF Reconciling, WorkerStep
<1>3. wrec[w].manifest \in Manifest
  BY <1>2, Absences
<1>4. template' \subseteq Task \X Manifest
  BY <1>1, <1>2, <1>3 DEF IInv, TypeOK
<1>5. NoOrphanActor' /\ UnlistedIsTerminating'
  BY <1>1 DEF IInv, NoOrphanActor, UnlistedIsTerminating, Live
<1>6. <<T(w), wrec'[w].manifest>> \in template' /\ wrec'[w] = wrec[w]
  BY <1>1
<1>7. TypeOK
  BY DEF IInv
<1> QED
  BY <1>1, <1>2, <1>4, <1>5, <1>6, <1>7, AtWork DEF TypeOK, WorkerStep

\* A new actor comes from the template of the worker's copy.
LEMMA NewActorOK ==
  ASSUME IInv, NEW w \in Worker, wpc[w] \in {"actor", "recreate"}
  PROVE  /\ NewActor(w) \in Actor /\ NewActor(w).manifest = wrec[w].manifest
         /\ wpc[w] \in Reconciling /\ Drive(w) \in Reconciling
         /\ Drive(w) \notin {"actor", "recreate"}
         /\ wrec[w] \in Record /\ wrec[w].phase # "Terminating"
         /\ <<T(w), wrec[w].manifest>> \in template /\ T(w) \in Task
         /\ wrec = [wrec EXCEPT ![w] = wrec[w]]
<1>1. wpc[w] \in Reconciling
  BY DEF Reconciling, WorkerStep
<1>2. /\ wrec[w] \in Record /\ wrec[w].phase # "Terminating" /\ T(w) \in Task
      /\ <<T(w), wrec[w].manifest>> \in template
  BY <1>1, Working DEF Reconciling, WorkerStep
<1>3. NewActor(w) \in Actor /\ NewActor(w).manifest = wrec[w].manifest
  BY <1>2, Absences DEF NewActor, Actor
<1>4. Drive(w) \in Reconciling /\ Drive(w) \notin {"actor", "recreate"}
  BY DEF Drive, Reconciling, WorkerStep
<1>5. wrec = [wrec EXCEPT ![w] = wrec[w]]
  BY DEF IInv, TypeOK
<1> QED
  BY <1>1, <1>2, <1>3, <1>4, <1>5

\* Creating, taking over or removing the actor under the Task's name.
LEMMA EnsureActorOK ==
  ASSUME OneController, IInv, NEW w \in Worker, EnsureActor(w)
  PROVE  IInv'
<1>1. /\ wpc[w] = "actor"
      /\ UNCHANGED <<redis, group, client, wrec, batch, template, lost, faults>>
  BY DEF EnsureActor
<1>2. CASE actor[T(w)] = NoActor /\ actor' = [actor EXCEPT ![T(w)] = NewActor(w)]
           /\ Goto(w, Drive(w))
  BY <1>1, <1>2, NewActorOK, ActorStep
<1>3. CASE Goto(w, Drive(w)) /\ UNCHANGED actor
  <2>1. /\ Drive(w) \in WorkerStep \ {"actor", "recreate"}
        /\ Drive(w) \notin {"deleteTemplates", "remove"}
    BY DEF Drive, WorkerStep
  <2>2. /\ batch[w] # << >> /\ wrec[w] \in Record /\ wrec[w].phase # "Terminating"
        /\ rec[T(w)] # NoRecord /\ T(w) \in index
    BY <1>1, NewActorOK, Working
  <2>3. wrec' = [wrec EXCEPT ![w] = wrec[w]] /\ lost' \subseteq Task /\ faults' \in Nat
    BY <1>1, NewActorOK DEF IInv, TypeOK
  <2> QED
    BY <1>1, <1>3, <2>1, <2>2, <2>3, CopyStep
<1>4. CASE /\ actor[T(w)].state \in {"crashed", "deleting"}
           /\ actor' = [actor EXCEPT ![T(w)].state = "deleting"]
           /\ Goto(w, "recreate")
  <2> DEFINE a == [actor[T(w)] EXCEPT !.state = "deleting"]
  <2>1. actor[T(w)] \in Actor
    BY <1>1, <1>4, Working, Absences
  <2>2. a \in Actor /\ a.state = "deleting"
    BY <2>1 DEF Actor
  <2>3. actor' = [actor EXCEPT ![T(w)] = a]
    BY <1>4
  <2> HIDE DEF a
  <2>4. "recreate" \in Reconciling
    BY DEF Reconciling, WorkerStep
  <2> QED
    BY <1>1, <1>4, <2>2, <2>3, <2>4, NewActorOK, ActorStep
<1> QED
  BY <1>2, <1>3, <1>4 DEF EnsureActor

\* Creating the actor anew once the old one is gone, or giving up.
LEMMA RecreateOK ==
  ASSUME OneController, IInv, NEW w \in Worker, Recreate(w)
  PROVE  IInv'
<1>1. /\ wpc[w] = "recreate"
      /\ UNCHANGED <<redis, group, client, batch, template, lost, faults>>
  BY DEF Recreate
<1>2. CASE actor' = [actor EXCEPT ![T(w)] = NewActor(w)] /\ Goto(w, Drive(w)) /\ UNCHANGED wrec
  BY <1>1, <1>2, NewActorOK, ActorStep
<1>3. CASE Error(w) /\ UNCHANGED actor
  BY <1>1, <1>3, NewActorOK, ErrorOK DEF IInv, TypeOK
<1> QED
  BY <1>2, <1>3 DEF Recreate

\* Stopping the actor: it keeps its template.
LEMMA SuspendActorOK ==
  ASSUME OneController, IInv, NEW w \in Worker, SuspendActor(w)
  PROVE  IInv'
<1>1. /\ wpc[w] = "suspend" /\ wpc[w] \in Reconciling
      /\ UNCHANGED <<redis, group, client, batch, template, lost, faults>>
  BY DEF SuspendActor, Reconciling, WorkerStep
<1>2. CASE /\ actor[T(w)].state \in {"suspended", "running"}
           /\ actor' = [actor EXCEPT ![T(w)].state = "suspended"]
           /\ Goto(w, "updateGet") /\ UNCHANGED wrec
  <2> DEFINE a == [actor[T(w)] EXCEPT !.state = "suspended"]
  <2>1. T(w) \in Task /\ actor[T(w)] \in Actor /\ wrec[w] \in Record
        /\ wrec[w].phase # "Terminating"
    BY <1>1, <1>2, Working, Absences
  <2>2. a \in Actor /\ a.manifest = actor[T(w)].manifest
    BY <2>1 DEF Actor
  <2>3. actor' = [actor EXCEPT ![T(w)] = a] /\ wrec' = [wrec EXCEPT ![w] = wrec[w]]
    BY <1>2 DEF IInv, TypeOK
  <2>4. <<T(w), actor[T(w)].manifest>> \in template
    BY <1>2, <2>1 DEF IInv, NoOrphanActor, Live
  <2>5. "updateGet" \in Reconciling /\ "updateGet" \notin {"actor", "recreate"}
    BY DEF Reconciling, WorkerStep
  <2> HIDE DEF a
  <2> QED
    BY <1>1, <1>2, <2>1, <2>2, <2>3, <2>4, <2>5, ActorStep
<1>3. CASE Error(w) /\ UNCHANGED actor
  BY <1>1, <1>3, ErrorOK DEF IInv, TypeOK
<1> QED
  BY <1>2, <1>3 DEF SuspendActor

\* Starting the actor: it keeps its template, the copy says Running.
LEMMA ResumeActorOK ==
  ASSUME OneController, IInv, NEW w \in Worker, ResumeActor(w)
  PROVE  IInv'
<1>1. /\ wpc[w] = "resume" /\ wpc[w] \in Reconciling
      /\ UNCHANGED <<redis, group, client, batch, template, lost, faults>>
  BY DEF ResumeActor, Reconciling, WorkerStep
<1>2. CASE /\ actor[T(w)].state \in {"suspended", "running"}
           /\ actor' = [actor EXCEPT ![T(w)].state = "running"]
           /\ wrec' = [wrec EXCEPT ![w].phase = "Running"]
           /\ Goto(w, "updateGet")
  <2> DEFINE a == [actor[T(w)] EXCEPT !.state = "running"]
             r == [wrec[w] EXCEPT !.phase = "Running"]
  <2>1. T(w) \in Task /\ actor[T(w)] \in Actor /\ wrec[w] \in Record
    BY <1>1, <1>2, Working, Absences
  <2>2. a \in Actor /\ a.manifest = actor[T(w)].manifest
    BY <2>1 DEF Actor
  <2>3. r \in Record /\ r.phase = "Running" /\ r.manifest = wrec[w].manifest
    BY <2>1, FailedRecord DEF Phase
  <2>4. actor' = [actor EXCEPT ![T(w)] = a] /\ wrec' = [wrec EXCEPT ![w] = r]
    BY <1>2
  <2>5. <<T(w), actor[T(w)].manifest>> \in template
    BY <1>2, <2>1 DEF IInv, NoOrphanActor, Live
  <2>6. "updateGet" \in Reconciling /\ "updateGet" \notin {"actor", "recreate"}
    BY DEF Reconciling, WorkerStep
  <2> HIDE DEF a, r
  <2>7. r.phase # "Terminating"
    BY <2>3
  <2> QED
    BY <1>1, <1>2, <2>1, <2>2, <2>3, <2>4, <2>5, <2>6, <2>7, ActorStep
<1>3. CASE Error(w) /\ UNCHANGED actor
  BY <1>1, <1>3, ErrorOK DEF IInv, TypeOK
<1> QED
  BY <1>2, <1>3 DEF ResumeActor

\* The status goes with the manifest the record has by now.
LEMMA UpdateGetOK ==
  ASSUME OneController, IInv, NEW w \in Worker, UpdateGet(w)
  PROVE  IInv'
<1>1. /\ wpc[w] = "updateGet" /\ wpc[w] \in Reconciling
      /\ UNCHANGED <<redis, group, client, batch, substrate, lost, faults>>
  BY DEF UpdateGet, Reconciling, WorkerStep
<1>2. /\ batch[w] # << >> /\ wrec[w] \in Record /\ wrec[w].phase # "Terminating"
      /\ rec[T(w)] # NoRecord /\ rec[T(w)] \in Record /\ T(w) \in index
  BY <1>1, Working
<1> DEFINE r == [wrec[w] EXCEPT !.manifest = rec[T(w)].manifest]
<1>3. r \in Record /\ r.phase # "Terminating"
  <2>1. rec[T(w)].manifest \in Manifest
    BY <1>2, Absences
  <2> QED
    BY <1>2, <2>1 DEF Record
<1>4. Goto(w, "updateSet") /\ wrec' = [wrec EXCEPT ![w] = r]
  BY <1>2 DEF UpdateGet
<1>5. /\ "updateSet" \in WorkerStep \ {"actor", "recreate"}
      /\ "updateSet" \notin {"deleteTemplates", "remove"}
      /\ lost' \subseteq Task /\ faults' \in Nat
  BY <1>1 DEF WorkerStep, IInv, TypeOK
<1> HIDE DEF r
<1>6. r \in Record \cup {NoRecord}
  BY <1>3
<1> QED
  BY <1>1, <1>2, <1>3, <1>4, <1>5, <1>6, CopyStep

\* The status is written over a record that is there and listed.
LEMMA UpdateSetOK ==
  ASSUME OneController, IInv, NEW w \in Worker, UpdateSet(w)
  PROVE  IInv'
<1>1. /\ wpc[w] = "updateSet" /\ wpc[w] \in Reconciling /\ wpc' = [wpc EXCEPT ![w] = "ack"]
      /\ rec' = [rec EXCEPT ![T(w)] = wrec[w]] /\ lost' = lost \ {T(w)}
      /\ UNCHANGED <<index, stream, group, client, wrec, batch, substrate, faults>>
  BY DEF UpdateSet, Goto, Reconciling, WorkerStep
<1>2. /\ batch[w] # << >> /\ wrec[w] \in Record /\ T(w) \in index /\ T(w) \in Task
  BY <1>1, Working
<1>3. /\ rec' \in [Task -> Record \cup {NoRecord}]
      /\ \A t \in Task : rec[t] # NoRecord => rec'[t] # NoRecord
      /\ \A t \in Task : t # T(w) => rec'[t] = rec[t]
  BY <1>1, <1>2, Absences DEF IInv, TypeOK
<1>4. NoOrphanActor' /\ UnlistedIsTerminating'
  BY <1>1, <1>2, <1>3 DEF IInv, NoOrphanActor, UnlistedIsTerminating, Live
<1>5. TypeOK /\ "ack" \in WorkerStep /\ "ack" \notin Reconciling
  BY DEF IInv, WorkerStep, Reconciling
<1>6. lost' \subseteq Task
  BY <1>1, <1>5 DEF TypeOK
<1> QED
  BY <1>1, <1>2, <1>3, <1>4, <1>5, <1>6, AtWork DEF TypeOK

-----------------------------------------------------------------------------
(* A delete event *)

\* After the first step of a deletion no actor of the Task is live.
LEMMA DeleteActorOK ==
  ASSUME OneController, IInv, NEW w \in Worker, DeleteActor(w)
  PROVE  IInv'
<1>1. /\ batch[w] # << >> /\ wpc' = [wpc EXCEPT ![w] = "deleteTemplates"]
      /\ actor' = IF actor[T(w)] = NoActor THEN actor
                  ELSE [actor EXCEPT ![T(w)].state = "deleting"]
      /\ UNCHANGED <<redis, group, client, wrec, batch, template, lost, faults>>
  BY DEF DeleteActor, Goto
<1>2. T(w) \in Task /\ actor[T(w)] \in Actor \cup {NoActor}
  BY <1>1, Working
<1>3. /\ actor' \in [Task -> Actor \cup {NoActor}]
      /\ actor'[T(w)].state \notin {"suspended", "running", "crashed"}
      /\ \A t \in Task : t # T(w) => actor'[t] = actor[t]
  <2>1. CASE actor[T(w)] = NoActor
    BY <1>1, <1>2, <2>1, Absences DEF IInv, TypeOK
  <2>2. CASE actor[T(w)] # NoActor
    <3> DEFINE a == [actor[T(w)] EXCEPT !.state = "deleting"]
    <3>1. a \in Actor /\ a.state = "deleting"
      BY <1>2, <2>2 DEF Actor
    <3>2. actor' = [actor EXCEPT ![T(w)] = a]
      BY <1>1, <2>2
    <3> HIDE DEF a
    <3> QED
      BY <1>2, <3>1, <3>2 DEF IInv, TypeOK
  <2> QED
    BY <2>1, <2>2
<1>4. NoOrphanActor' /\ UnlistedIsTerminating'
  BY <1>1, <1>3 DEF IInv, NoOrphanActor, UnlistedIsTerminating, Live
<1>5. TypeOK /\ "deleteTemplates" \in WorkerStep \ {"actor", "recreate"}
      /\ "deleteTemplates" \notin Reconciling
  BY DEF IInv, WorkerStep, Reconciling
<1> QED
  BY <1>1, <1>3, <1>4, <1>5, AtWork DEF TypeOK

\* The templates go once no actor needs them.
LEMMA DeleteTemplatesOK ==
  ASSUME OneController, IInv, NEW w \in Worker, DeleteTemplates(w)
  PROVE  IInv'
<1>1. /\ wpc[w] = "deleteTemplates" /\ wpc' = [wpc EXCEPT ![w] = "remove"]
      /\ template' = template \ ({T(w)} \X Manifest)
      /\ UNCHANGED <<redis, group, client, wrec, batch, actor, lost, faults>>
  BY DEF DeleteTemplates, Goto
<1>2. batch[w] # << >> /\ T(w) \in Task /\ ~ Live(T(w))
  BY <1>1, Working
<1>3. NoOrphanActor' /\ UnlistedIsTerminating'
  BY <1>1, <1>2 DEF IInv, NoOrphanActor, UnlistedIsTerminating, Live
<1>4. TypeOK /\ "remove" \in WorkerStep \ {"actor", "recreate"} /\ "remove" \notin Reconciling
  BY DEF IInv, WorkerStep, Reconciling
<1>5. actor'[T(w)].state \notin {"suspended", "running", "crashed"}
  BY <1>1, <1>2 DEF Live
<1> QED
  BY <1>1, <1>2, <1>3, <1>4, <1>5, AtWork DEF TypeOK

\* The record goes last.
LEMMA RemoveTaskOK ==
  ASSUME OneController, IInv, NEW w \in Worker, RemoveTask(w)
  PROVE  IInv'
<1>1. /\ wpc[w] = "remove" /\ wpc' = [wpc EXCEPT ![w] = "ack"]
      /\ rec' = [rec EXCEPT ![T(w)] = NoRecord] /\ index' = index \ {T(w)}
      /\ lost' = lost \ {T(w)}
      /\ UNCHANGED <<stream, group, client, wrec, batch, substrate, faults>>
  BY DEF RemoveTask, Goto
<1>2. batch[w] # << >> /\ T(w) \in Task /\ ~ Live(T(w))
  BY <1>1, Working
<1>3. /\ rec' \in [Task -> Record \cup {NoRecord}] /\ rec'[T(w)] = NoRecord
      /\ \A t \in Task : t # T(w) => rec'[t] = rec[t]
  BY <1>1, <1>2 DEF IInv, TypeOK
<1>4. NoOrphanActor' /\ UnlistedIsTerminating'
  BY <1>1, <1>2, <1>3 DEF IInv, NoOrphanActor, UnlistedIsTerminating, Live
<1>5. TypeOK /\ "ack" \in WorkerStep \ {"actor", "recreate"} /\ "ack" \notin Reconciling
      /\ "ack" \notin {"deleteTemplates", "remove"}
  BY DEF IInv, WorkerStep, Reconciling
<1> QED
  BY <1>1, <1>2, <1>3, <1>4, <1>5, AtWork DEF TypeOK

-----------------------------------------------------------------------------
(* Subscription, delivery and faults *)

\* A worker between events holds nothing the invariant speaks of.
LEMMA BetweenEvents ==
  ASSUME OneController, IInv, NEW w \in Worker, wpc'[w] \in {"down", "next"},
         UNCHANGED <<redis, client, substrate>>, TypeOK'
  PROVE  IInv'
<1>1. \A v \in Worker : v = w
  BY DEF OneController
<1>2. WorkerHolds'
  BY <1>1 DEF WorkerHolds, WorkerStep
<1>3. RequestHolds' /\ NoOrphanActor' /\ UnlistedIsTerminating'
  BY DEF IInv, RequestHolds, NoOrphanActor, UnlistedIsTerminating, Live
<1> QED
  BY <1>2, <1>3 DEF IInv

\* Joining the group.
LEMMA SubscribeOK ==
  ASSUME OneController, IInv, NEW w \in Worker, Subscribe(w)
  PROVE  IInv'
<1>1. /\ wpc' = [wpc EXCEPT ![w] = "next"] /\ joined' = TRUE
      /\ position' = IF joined THEN position ELSE Len(stream)
      /\ lost' = IF joined THEN lost ELSE lost \cup {stream[i].task : i \in DOMAIN stream}
      /\ UNCHANGED <<pending, redis, client, wrec, batch, substrate, faults>>
  BY DEF Subscribe, Goto
<1>2. TypeOK
  BY DEF IInv
<1>3. position' \in 0 .. Len(stream)
  BY <1>1, <1>2 DEF TypeOK
<1>4. \A i \in DOMAIN stream : stream[i].task \in Task
  <2>1. \A i \in DOMAIN stream : stream[i] \in Event
    BY <1>2 DEF TypeOK
  <2> QED
    BY <2>1 DEF Event
<1>5. lost' \subseteq Task
  BY <1>1, <1>2, <1>4 DEF TypeOK
<1>6. wpc' \in [Worker -> WorkerStep] /\ wpc'[w] = "next"
  BY <1>1, <1>2 DEF TypeOK, WorkerStep
<1>7. TypeOK'
  BY <1>1, <1>2, <1>3, <1>5, <1>6 DEF TypeOK
<1> QED
  BY <1>1, <1>6, <1>7, BetweenEvents

\* Claiming a batch.
LEMMA ReadGroupOK ==
  ASSUME OneController, IInv, NEW w \in Worker, ReadGroup(w)
  PROVE  IInv'
<1> DEFINE last == IF position + BatchSize < Len(stream) THEN position + BatchSize
                                                         ELSE Len(stream)
           claim == [i \in 1 .. (last - position) |-> position + i]
<1>1. /\ wpc[w] = "next" /\ position < Len(stream)
      /\ batch' = [batch EXCEPT ![w] = claim]
      /\ pending' = pending \cup (position + 1 .. last) /\ position' = last
      /\ UNCHANGED <<joined, redis, client, wpc, wrec, substrate, lost, faults>>
  BY DEF ReadGroup
<1>2. TypeOK /\ position \in Nat /\ Len(stream) \in Nat
  BY DEF IInv, TypeOK
<1>3. last \in Nat /\ position < last /\ last =< Len(stream)
  BY <1>1, <1>2, BatchAssumption
<1> HIDE DEF last
<1>4. claim \in Seq(1 .. Len(stream))
  <2>1. last - position \in Nat
    BY <1>2, <1>3
  <2>2. \A i \in 1 .. (last - position) : position + i \in 1 .. Len(stream)
    BY <1>2, <1>3
  <2>3. claim \in [1 .. (last - position) -> 1 .. Len(stream)]
    BY <2>2
  <2> QED
    BY <2>1, <2>3
<1>5. position + 1 .. last \subseteq 1 .. Len(stream) /\ last \in 0 .. Len(stream)
  BY <1>2, <1>3
<1> HIDE DEF claim
<1>6. TypeOK'
  BY <1>1, <1>2, <1>4, <1>5 DEF TypeOK
<1> QED
  BY <1>1, <1>6, BetweenEvents

\* Giving an event back as processed.
LEMMA AckOK ==
  ASSUME OneController, IInv, NEW w \in Worker, Ack(w)
  PROVE  IInv'
<1>1. /\ wpc[w] = "ack" /\ wpc' = [wpc EXCEPT ![w] = "next"]
      /\ batch' = [batch EXCEPT ![w] = Tail(batch[w])]
      /\ pending' = pending \ {Head(batch[w])}
      /\ wrec' = [wrec EXCEPT ![w] = NoRecord]
      /\ UNCHANGED <<joined, position, redis, client, substrate, lost, faults>>
  BY DEF Ack, Goto
<1>2. TypeOK
  BY DEF IInv
<1>3. Tail(batch[w]) \in Seq(1 .. Len(stream))
  BY <1>1, Working, ClaimedEvent DEF IInv
<1>4. wpc' \in [Worker -> WorkerStep] /\ wpc'[w] = "next"
  BY <1>1, <1>2 DEF TypeOK, WorkerStep
<1>5. TypeOK'
  BY <1>1, <1>2, <1>3, <1>4 DEF TypeOK
<1> QED
  BY <1>1, <1>4, <1>5, BetweenEvents

\* The death of a controller.
LEMMA CrashOK ==
  ASSUME OneController, IInv, NEW w \in Worker, Crash(w)
  PROVE  IInv'
<1>1. /\ wpc' = [wpc EXCEPT ![w] = "down"] /\ faults' = faults + 1
      /\ lost' = lost \cup {stream[batch[w][i]].task : i \in DOMAIN batch[w]}
      /\ batch' = [batch EXCEPT ![w] = << >>]
      /\ wrec' = [wrec EXCEPT ![w] = NoRecord]
      /\ UNCHANGED <<redis, group, client, substrate>>
  BY DEF Crash, Goto
<1>2. TypeOK
  BY DEF IInv
<1>3. \A i \in DOMAIN batch[w] : stream[batch[w][i]].task \in Task
  <2>1. batch[w] \in Seq(1 .. Len(stream)) /\ stream \in Seq(Event)
    BY <1>2 DEF TypeOK
  <2>2. \A i \in DOMAIN batch[w] : batch[w][i] \in 1 .. Len(stream)
    BY <2>1
  <2>3. \A i \in DOMAIN batch[w] : stream[batch[w][i]] \in Event
    BY <2>1, <2>2
  <2> QED
    BY <2>3 DEF Event
<1>4. lost' \subseteq Task
  BY <1>1, <1>2, <1>3 DEF TypeOK
<1>5. wpc' \in [Worker -> WorkerStep] /\ wpc'[w] = "down"
  BY <1>1, <1>2 DEF TypeOK, WorkerStep
<1>6. << >> \in Seq(1 .. Len(stream))
  OBVIOUS
<1>7. TypeOK'
  BY <1>1, <1>2, <1>4, <1>5, <1>6 DEF TypeOK
<1> QED
  BY <1>1, <1>5, <1>7, BetweenEvents

\* A failing call to Substrate.
LEMMA CallFailsOK ==
  ASSUME OneController, IInv, NEW w \in Worker, CallFails(w)
  PROVE  IInv'
<1>1. /\ faults' \in Nat /\ TypeOK
      /\ UNCHANGED <<redis, group, client, batch, substrate>>
  BY DEF CallFails, IInv, TypeOK
<1>2. CASE wpc[w] \in {"template", "actor", "suspend", "resume"} /\ Error(w) /\ UNCHANGED lost
  <2>1. wpc[w] \in Reconciling /\ lost' \subseteq Task
    BY <1>1, <1>2 DEF Reconciling, WorkerStep, TypeOK
  <2> QED
    BY <1>1, <1>2, <2>1, ErrorOK
<1>3. ASSUME NEW step \in {"ack", "remove"}, batch[w] # << >>, Goto(w, step), UNCHANGED wrec,
             lost' \subseteq Task, step = "remove" => ~ Live(T(w))
      PROVE  IInv'
  <2>1. /\ step \in WorkerStep \ {"actor", "recreate"} /\ step \notin Reconciling
        /\ step \in {"deleteTemplates", "remove"} => ~ Live(T(w))
    BY <1>3 DEF WorkerStep, Reconciling
  <2>2. wrec' = [wrec EXCEPT ![w] = wrec[w]] /\ wrec[w] \in Record \cup {NoRecord}
    BY <1>1, <1>3 DEF TypeOK
  <2> QED
    BY <1>1, <1>3, <2>1, <2>2, CopyStep
<1>4. CASE /\ wpc[w] = "next" /\ batch[w] # << >>
           /\ Goto(w, "ack") /\ lost' = lost \cup {T(w)} /\ UNCHANGED wrec
  <2>1. lost' \subseteq Task
    BY <1>1, <1>4, Working DEF TypeOK
  <2> QED
    BY <1>3, <1>4, <2>1
<1>5. CASE wpc[w] = "deleteTemplates" /\ Goto(w, "remove") /\ UNCHANGED <<wrec, lost>>
  <2>1. batch[w] # << >> /\ ~ Live(T(w)) /\ lost' \subseteq Task
    BY <1>1, <1>5, Working DEF TypeOK
  <2> QED
    BY <1>3, <1>5, <2>1
<1> QED
  BY <1>2, <1>4, <1>5 DEF CallFails

\* A failing call to Redis.
LEMMA RedisFailsOK ==
  ASSUME OneController, IInv, NEW w \in Worker, RedisFails(w)
  PROVE  IInv'
<1>1. /\ faults' \in Nat /\ TypeOK /\ Goto(w, "ack") /\ lost' = lost \cup {T(w)}
      /\ UNCHANGED <<redis, group, client, wrec, batch, substrate>>
      /\ batch[w] # << >> \/ wpc[w] \notin {"down", "next"}
  BY DEF RedisFails, IInv, TypeOK
<1>2. batch[w] # << >> /\ lost' \subseteq Task
  BY <1>1, Working DEF TypeOK
<1>3. wrec' = [wrec EXCEPT ![w] = wrec[w]] /\ wrec[w] \in Record \cup {NoRecord}
  BY <1>1 DEF TypeOK
<1>4. /\ "ack" \in WorkerStep \ {"actor", "recreate"} /\ "ack" \notin Reconciling
      /\ "ack" \notin {"deleteTemplates", "remove"}
  BY DEF WorkerStep, Reconciling
<1> QED
  BY <1>1, <1>2, <1>3, <1>4, CopyStep

\* What Substrate does by itself makes no actor live and changes no template.
LEMMA SubstrateOK ==
  ASSUME IInv, NEW t \in Task, ActorCrashes(t) \/ ActorGone(t)
  PROVE  IInv'
<1>1. /\ UNCHANGED <<redis, group, client, worker, template, lost>> /\ TypeOK /\ faults' \in Nat
  BY DEF ActorCrashes, ActorGone, IInv, TypeOK
<1>2. PICK a \in Actor \cup {NoActor} :
        /\ actor' = [actor EXCEPT ![t] = a]
        /\ \/ actor[t].state = "running" /\ a.manifest = actor[t].manifest
           \/ a = NoActor
  <2>1. CASE ActorGone(t)
    BY <2>1 DEF ActorGone
  <2>2. CASE ActorCrashes(t)
    <3> DEFINE a == [actor[t] EXCEPT !.state = "crashed"]
    <3>1. actor[t] \in Actor /\ actor[t].state = "running" /\ actor' = [actor EXCEPT ![t] = a]
      BY <1>1, <2>2, Absences DEF ActorCrashes, TypeOK
    <3>2. a \in Actor /\ a.manifest = actor[t].manifest
      BY <3>1 DEF Actor
    <3> QED
      BY <3>1, <3>2
  <2> QED
    BY <2>1, <2>2
<1>3. /\ actor' \in [Task -> Actor \cup {NoActor}] /\ actor'[t] = a
      /\ \A u \in Task : u # t => actor'[u] = actor[u]
  BY <1>1, <1>2 DEF TypeOK
<1>4. \A u \in Task : Live(u)' => Live(u) /\ actor'[u].manifest = actor[u].manifest
  BY <1>2, <1>3, Absences DEF Live
<1>5. TypeOK'
  BY <1>1, <1>3 DEF TypeOK
<1>6. NoOrphanActor' /\ UnlistedIsTerminating' /\ RequestHolds'
  BY <1>1, <1>4 DEF IInv, NoOrphanActor, UnlistedIsTerminating, RequestHolds
<1>7. WorkerHolds'
  <2>1. \A w \in Worker : batch[w] # << >> => T(w) \in Task /\ T(w)' = T(w)
    BY <1>1, ClaimedEvent DEF T, Ev
  <2>2. \A w \in Worker : wpc[w] \in {"deleteTemplates", "remove"} => ~ (Live(T(w))')
    BY <1>4, <2>1, Working
  <2> QED
    BY <1>1, <2>1, <2>2 DEF IInv, WorkerHolds, T, Ev
<1> QED
  BY <1>5, <1>6, <1>7 DEF IInv

-----------------------------------------------------------------------------
(* The invariant and what follows from it *)

\* Nothing is recorded, running or claimed at first.
LEMMA InitOK == Init => IInv
<1> SUFFICES ASSUME Init
             PROVE  IInv
  OBVIOUS
<1>1. (CHOOSE t \in Task : TRUE) \in Task
  BY TaskAssumption
<1>2. << >> \in Seq(Event) /\ Len(<< >>) = 0
  OBVIOUS
<1>3. TypeOK
  <2>1. ctask \in [Client -> Task]
    BY <1>1 DEF Init
  <2>2. /\ stream \in Seq(Event) /\ position \in 0 .. Len(stream) /\ pending \subseteq 1 .. Len(stream)
        /\ batch \in [Worker -> Seq(1 .. Len(stream))]
    <3>1. << >> \in Seq(1 .. Len(stream))
      OBVIOUS
    <3> QED
      BY <1>2, <3>1 DEF Init
  <2> QED
    BY <2>1, <2>2 DEF Init, TypeOK, WorkerStep
<1>4. RequestHolds /\ WorkerHolds /\ UnlistedIsTerminating
  BY DEF Init, RequestHolds, WorkerHolds, UnlistedIsTerminating, WorkerStep
<1>5. NoOrphanActor
  BY Absences DEF Init, NoOrphanActor, Live
<1> QED
  BY <1>3, <1>4, <1>5 DEF IInv

\* Every step of the one controller keeps the invariant.
LEMMA WorkerOK ==
  ASSUME OneController, IInv, NEW w \in Worker,
         Run(w) \/ CallFails(w) \/ RedisFails(w) \/ Crash(w)
  PROVE  IInv'
<1>1. CASE Subscribe(w) \/ ReadGroup(w) \/ Ack(w)
  BY <1>1, SubscribeOK, ReadGroupOK, AckOK
<1>2. CASE Reconcile(w)
  BY <1>2, GetTaskOK, EnsureTemplateOK, EnsureActorOK, RecreateOK, SuspendActorOK,
     ResumeActorOK, UpdateGetOK, UpdateSetOK DEF Reconcile
<1>3. CASE ReconcileDelete(w)
  BY <1>3, DeleteActorOK, DeleteTemplatesOK, RemoveTaskOK DEF ReconcileDelete
<1>4. CASE CallFails(w) \/ RedisFails(w) \/ Crash(w)
  BY <1>4, CallFailsOK, RedisFailsOK, CrashOK
<1> QED
  BY <1>1, <1>2, <1>3, <1>4 DEF Run

\* Every step of the control plane keeps the invariant.
LEMMA NextOK ==
  ASSUME OneController, IInv, [Next]_vars
  PROVE  IInv'
<1>1. CASE UNCHANGED vars
  BY <1>1 DEF vars, IInv, TypeOK, RequestHolds, WorkerHolds, NoOrphanActor,
     UnlistedIsTerminating, Live, T, Ev
<1>2. ASSUME NEW c \in Client, Handle(c)
      PROVE  IInv'
  BY <1>2, RequestsBegin, SaveTaskOK, MarkTaskDeletingOK, ObserveOK DEF Handle
<1>3. ASSUME NEW w \in Worker, Run(w) \/ CallFails(w) \/ RedisFails(w) \/ Crash(w)
      PROVE  IInv'
  BY <1>3, WorkerOK
<1>4. ASSUME NEW t \in Task, ActorCrashes(t) \/ ActorGone(t)
      PROVE  IInv'
  BY <1>4, SubstrateOK
<1> QED
  BY <1>1, <1>2, <1>3, <1>4 DEF Next

\* With one controller the inductive invariant holds for every set of Tasks,
\* manifests and requests, and every batch size and number of faults.
THEOREM Invariance ==
  ASSUME OneController
  PROVE  Spec => []IInv
<1>1. Init => IInv
  BY InitOK
<1>2. OneController /\ IInv /\ [Next]_vars => IInv'
  BY NextOK
<1> QED
  BY <1>1, <1>2, PTL DEF Spec

\* Every variable keeps its type, with the one controller of the deployment.
THEOREM TypeCorrect ==
  ASSUME OneController
  PROVE  Spec => []TypeOK
<1>1. IInv => TypeOK
  BY DEF IInv
<1> QED
  BY <1>1, Invariance, PTL

\* One controller leaves no actor behind: whatever requests cross its steps,
\* whatever call fails and wherever it dies, an actor that is not being deleted
\* has the record `ax delete' finds it by and the template it resumes from.
THEOREM OrphanFree ==
  ASSUME OneController
  PROVE  Spec => []NoOrphanActor
<1>1. IInv => NoOrphanActor
  BY DEF IInv
<1> QED
  BY <1>1, Invariance, PTL

\* A Task that ListTasks does not show, because a second delete brought its
\* record back, is one that says Terminating and can be deleted once more.
THEOREM NothingHidden ==
  ASSUME OneController
  PROVE  Spec => []UnlistedIsTerminating
<1>1. IInv => UnlistedIsTerminating
  BY DEF IInv
<1> QED
  BY <1>1, Invariance, PTL
=============================================================================
