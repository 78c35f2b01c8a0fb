----------------------------- MODULE StoreProofs -----------------------------
(***************************************************************************)
(* What holds of Store for both implementations, every set of clients and  *)
(* values, every channel and queue size and every number of commands and  *)
(* losses: what is there throughout is listed, a time of creation is one   *)
(* at which there was no resource or can be accounted for otherwise, and   *)
(* who waits for a deletion waits for an event that is on its way.         *)
(***************************************************************************)
EXTENDS Store, SequenceTheorems, TLAPS

Action == {"reconcile", "delete"}
Record == [value : Value, created : Nat, phase : Phase, obj : Nat]

\* A command by the step it is at.
Plain == [pc : {"idle", "poll", "initial", "stream", "sent", "leave"}]
Announcing == [pc : {"announce"}, then : {"idle", "poll"}, action : Action]
Applying == [pc : {"metadata"}, value : Value, given : BOOLEAN]
Saving == [pc : {"save"}, phase : Phase \ {"Terminating"}, value : Value, created : Nat]
Marking == [pc : {"mark"}, record : Record]
Naming == [pc : {"mget"}, named : BOOLEAN]
Showing == [pc : {"listed"}, shown : BOOLEAN]
Commands == Plain \cup Announcing \cup Applying \cup Saving \cup Marking \cup Naming \cup Showing

\* The worker by the step it is at.
Handling == [pc : {"remove", "read"}, event : Action]
Deciding == [pc : {"get", "update"}, event : Action, phase : {"Running", "Suspended", "Failed"}]
Updating == [pc : {"update"}, event : Action, record : Record]

Typed ==
  /\ impl \in {"redis", "memory"} /\ kind \in {"Task", "Model"}
  /\ rec \in Record \cup {NoRecord} /\ listed \in BOOLEAN
  /\ queue \in Seq(Action) /\ writes \in Seq(Phase)
  /\ worker \in {Idle} \cup Handling \cup Deciding \cup Updating
  /\ cmd \in [Client -> Commands]
  /\ seen \in [Client -> SUBSET (Phase \cup {"none"})]

\* A time of creation that the client brought, at which there was no such
\* resource, or at which the lookup failed.
Fits(t, gone, misses) == t = Supplied \/ t - 1 \in gone \/ t \in misses
Timely(t) == Fits(t, absent, misread)

\* The record is listed unless it is being deleted, and was created when there
\* was none.
Recorded ==
  /\ rec # NoRecord => /\ Timely(rec.created)
                       /\ ~ listed => rec.phase = "Terminating"
  /\ rec = NoRecord => Len(writes) \in absent

\* What a command v of c knows.
Knows(c, v) ==
  /\ v.pc = "save" => Timely(v.created)
  /\ v.pc = "mark" => v.record.phase = "Terminating" /\ Timely(v.record.created)
  /\ v.pc \in {"announce", "mark"} => kind = "Task"
  /\ v.pc = "mget" =>
       /\ rec.phase \in seen[c]
       /\ seen[c] \cap {"none", "Terminating"} = {} => v.named
  /\ v.pc = "listed" =>
       /\ seen[c] \cap {"none", "Terminating"} = {} => v.shown
       /\ seen[c] = {"none"} => ~ v.shown

\* The one worker updates only what it has seen and nobody else can remove.
WorkerKnows ==
  /\ kind = "Model" => worker = Idle /\ queue = << >>
  /\ worker.pc \in {"get", "update"} => rec # NoRecord /\ listed
  /\ worker.pc = "get" => Redis
  /\ worker.pc = "remove" => worker.event = "delete"
  /\ worker.pc = "update" /\ Memory => worker \in Deciding
  /\ worker.pc = "update" /\ Redis =>
       /\ worker \in Updating
       /\ worker.record.phase # "Terminating" /\ Timely(worker.record.created)

IInv == Typed /\ Recorded /\ (\A c \in Client : Knows(c, cmd[c])) /\ WorkerKnows

-----------------------------------------------------------------------------
(* What the parts are made of *)

\* The step a command is at says which record it is.
LEMMA Shapes ==
  ASSUME Typed, NEW c \in Client
  PROVE  /\ cmd[c] \in Commands
         /\ cmd[c].pc = "announce" => cmd[c] \in Announcing
         /\ cmd[c].pc = "metadata" => cmd[c] \in Applying
         /\ cmd[c].pc = "save" => cmd[c] \in Saving
         /\ cmd[c].pc = "mark" => cmd[c] \in Marking
         /\ cmd[c].pc = "mget" => cmd[c] \in Naming
         /\ cmd[c].pc = "listed" => cmd[c] \in Showing
  BY DEF Typed, Commands, Plain, Announcing, Applying, Saving, Marking, Naming, Showing

\* A record has a phase, and the absence of one has none.
LEMMA RecordFacts ==
  /\ NoRecord.phase = "none" /\ NoRecord \notin Record
  /\ \A r \in Record : r.phase \in Phase /\ r.phase # "none" /\ r.created \in Nat /\ r.value \in Value
  /\ \A r \in Record, p \in Phase :
       LET s == [r EXCEPT !.phase = p]
       IN  s \in Record /\ s.phase = p /\ s.created = r.created
  BY DEF NoRecord, Record, Phase

\* One write is a history of writes.
LEMMA OneWrite ==
  ASSUME NEW S, NEW x \in S
  PROVE  <<x>> \in Seq(S)
  OBVIOUS

\* The time of the next write is a number, the time before it that of the last.
LEMMA NowFacts ==
  ASSUME Typed
  PROVE  Now \in Nat /\ Now - 1 = Len(writes) /\ Len(writes) \in Nat
  BY LenProperties DEF Typed, Now

\* The worker by the step it is at.
LEMMA WorkerShapes ==
  ASSUME Typed
  PROVE  /\ worker.pc = "read" => worker \in Handling
         /\ worker.pc = "get" => worker \in Deciding
         /\ worker.pc = "update" => worker \in Deciding \cup Updating
  BY DEF Typed, Idle, Handling, Deciding, Updating

-----------------------------------------------------------------------------
(* Two kinds of steps *)

\* A command goes on without writing the record; it may read it.
LEMMA CommandStep ==
  ASSUME IInv, NEW c \in Client, NEW v \in Commands, cmd' = [cmd EXCEPT ![c] = v],
         UNCHANGED <<impl, kind, rec, listed, worker, writes, absent>>, misread \subseteq misread',
         queue' \in Seq(Action), kind = "Model" => queue' = << >>,
         NEW S \in SUBSET (Phase \cup {"none"}), seen' = seen \/ seen' = [seen EXCEPT ![c] = S],
         Knows(c, v)'
  PROVE  IInv'
<1>1. seen' \in [Client -> SUBSET (Phase \cup {"none"})]
  BY DEF IInv, Typed
<1>2. Typed'
  BY <1>1 DEF IInv, Typed
<1>3. Recorded' /\ WorkerKnows'
  BY DEF IInv, Recorded, WorkerKnows, Redis, Memory, Timely, Fits
<1>4. ASSUME NEW d \in Client
      PROVE  Knows(d, cmd[d])'
  <2>1. CASE d = c
    BY <2>1 DEF IInv, Typed, Knows
  <2>2. CASE d # c
    <3>1. cmd'[d] = cmd[d] /\ seen'[d] = seen[d] /\ Knows(d, cmd[d])
      BY <2>2 DEF IInv, Typed
    <3> QED
      BY <3>1 DEF Knows, Timely, Fits
  <2> QED
    BY <2>1, <2>2
<1> QED
  BY <1>2, <1>3, <1>4 DEF IInv

\* The record is written or erased; the others who have read it take notice.
LEMMA WriteStep ==
  ASSUME IInv, NEW r \in Record \cup {NoRecord}, rec' = r, Notice(r),
         UNCHANGED <<impl, kind>>, listed' \in BOOLEAN,
         r # NoRecord /\ ~ listed' => r.phase = "Terminating",
         writes' \in Seq(Phase), absent \subseteq absent', misread \subseteq misread',
         r # NoRecord => Fits(r.created, absent', misread'),
         r = NoRecord => Len(writes') \in absent',
         queue' \in Seq(Action), cmd' \in [Client -> Commands],
         \A d \in Client : \/ cmd'[d] = cmd[d] \/ cmd'[d] \in Plain
                           \/ kind = "Task" /\ cmd'[d] \in Announcing,
         worker' \in {Idle} \cup Handling \cup Deciding \cup Updating, WorkerKnows'
  PROVE  IInv'
<1>1. r.phase \in Phase \cup {"none"}
  BY RecordFacts
<1>2. seen' = [d \in Client |-> IF At(d, "mget") THEN seen[d] \cup {r.phase} ELSE seen[d]]
  BY DEF Notice
<1>3. seen' \in [Client -> SUBSET (Phase \cup {"none"})]
  BY <1>1, <1>2 DEF IInv, Typed
<1>4. Typed'
  BY <1>3 DEF IInv, Typed
<1>5. Recorded'
  BY DEF Recorded, Timely
<1>6. ASSUME NEW d \in Client
      PROVE  Knows(d, cmd[d])'
  <2>1. CASE cmd'[d] \in Plain \/ (kind = "Task" /\ cmd'[d] \in Announcing)
    BY <2>1 DEF Knows, Plain, Announcing
  <2>2. CASE cmd'[d] = cmd[d]
    <3>1. Knows(d, cmd[d]) /\ seen'[d] = IF At(d, "mget") THEN seen[d] \cup {r.phase} ELSE seen[d]
      BY <1>2 DEF IInv
    <3> QED
      BY <2>2, <3>1 DEF Knows, At, Timely, Fits
  <2> QED
    BY <2>1, <2>2
<1> QED
  BY <1>4, <1>5, <1>6 DEF IInv

-----------------------------------------------------------------------------
(* Commands *)

\* Steps that leave a command without anything to know.
LEMMA PlainOK ==
  ASSUME IInv, NEW c \in Client,
         \/ Poll(c) \/ TimeOut(c) \/ Listed(c) \/ WatchTask(c) \/ Initial(c)
         \/ Send(c) \/ Check(c) \/ Leave(c)
  PROVE  IInv'
<1>1. /\ UNCHANGED <<impl, kind, rec, listed, queue, worker, writes, absent, misread>>
      /\ seen' = seen \/ seen' = [seen EXCEPT ![c] = {}]
  BY DEF Poll, TimeOut, StopWaiting, Listed, WatchTask, Initial, Send, Check, Leave, past, history
<1>2. PICK v \in Plain : cmd' = [cmd EXCEPT ![c] = v]
  BY DEF Poll, TimeOut, StopWaiting, Listed, WatchTask, Initial, Send, Check, Leave, Quit, Plain, Idle
<1>3. v \in Commands /\ Knows(c, v)'
  BY <1>2 DEF Commands, Knows, Plain
<1>4. queue' \in Seq(Action) /\ (kind = "Model" => queue' = << >>)
  BY <1>1 DEF IInv, Typed, WorkerKnows
<1> QED
  BY <1>1, <1>2, <1>3, <1>4, CommandStep

\* A watch's messages are on their way.
LEMMA DeliveryOK ==
  ASSUME IInv, NEW c \in Client, Forward(c) \/ WireLost(c)
  PROVE  IInv'
<1>1. UNCHANGED <<impl, kind, rec, listed, queue, worker, cmd, writes, absent, misread, seen>>
  BY DEF Forward, WireLost, past, history
<1> QED
  BY <1>1 DEF IInv, Typed, Recorded, Knows, WorkerKnows, Redis, Memory, Timely, Fits

\* The memory store's event comes after the record.
LEMMA AnnounceOK ==
  ASSUME IInv, NEW c \in Client, Announce(c)
  PROVE  IInv'
<1>1. cmd[c] \in Announcing /\ kind = "Task"
  BY Shapes DEF IInv, Announce, At, Knows
<1>2. UNCHANGED <<impl, kind, rec, listed, worker, writes, absent, misread, seen>>
  BY DEF Announce, past, history
<1>3. queue' \in Seq(Action)
  <2>1. cmd[c].action \in Action /\ queue \in Seq(Action)
    BY <1>1 DEF Announcing, IInv, Typed
  <2> QED
    BY <2>1, AppendProperties DEF Announce
<1>4. PICK v \in Plain : cmd' = [cmd EXCEPT ![c] = v]
  BY <1>1 DEF Announcing, Plain, Announce
<1>5. v \in Commands /\ Knows(c, v)'
  BY <1>4 DEF Commands, Knows, Plain
<1> QED
  BY <1>1, <1>2, <1>3, <1>4, <1>5, CommandStep

\* Requests that read before they write.
LEMMA ReadsOK ==
  ASSUME IInv, NEW c \in Client,
         \/ Apply(c) \/ DefaultMetadata(c) \/ CreateTask(c) \/ ReadToDelete(c)
         \/ \E p \in {"Running", "Suspended"} : SetPhase(c, p)
  PROVE  IInv'
<1>1. /\ UNCHANGED <<impl, kind, rec, listed, queue, worker, writes, absent, seen>>
      /\ misread \subseteq misread'
  BY DEF Apply, DefaultMetadata, CreateTask, ReadToDelete, SetPhase, past, history
<1>2. queue' \in Seq(Action) /\ (kind = "Model" => queue' = << >>)
  BY <1>1 DEF IInv, Typed, WorkerKnows
<1>3. Now \in Nat /\ (rec = NoRecord => Timely(Now)) /\ Supplied \in Nat /\ Timely(Supplied)
  BY NowFacts DEF IInv, Recorded, Timely, Fits, Supplied
<1>4. rec # NoRecord => rec \in Record /\ rec.created \in Nat /\ Timely(rec.created) /\ rec.value \in Value
  BY RecordFacts DEF IInv, Typed, Recorded
<1>5. ASSUME NEW v \in Saving, Timely(v.created) \/ v.created \in misread', cmd' = [cmd EXCEPT ![c] = v]
      PROVE  IInv'
  <2>1. v \in Commands /\ Knows(c, v)'
    BY <1>1, <1>5 DEF Commands, Knows, Saving, Timely, Fits
  <2> QED
    BY <1>1, <1>2, <1>5, <2>1, CommandStep
<1>6. CASE Apply(c)
  <2>1. PICK v \in Applying : cmd' = [cmd EXCEPT ![c] = v]
    BY <1>6 DEF Apply, Applying
  <2>2. v \in Commands /\ Knows(c, v)'
    BY DEF Commands, Knows, Applying
  <2> QED
    BY <1>1, <1>2, <2>1, <2>2, CommandStep
<1>7. CASE DefaultMetadata(c)
  <2>1. cmd[c].value \in Value
    BY <1>7, Shapes DEF IInv, DefaultMetadata, At, Applying
  <2>2. PICK t \in Nat : SaveNext(c, t) /\ (Timely(t) \/ t \in misread')
    <3>1. CASE rec = NoRecord \/ cmd[c].given
      BY <1>3, <1>7, <3>1 DEF DefaultMetadata
    <3>2. CASE rec # NoRecord /\ SaveNext(c, rec.created)
      BY <1>4, <3>2
    <3>3. CASE SaveNext(c, Now) /\ misread' = misread \cup {Now}
      BY <1>3, <3>3
    <3> QED
      BY <1>7, <3>1, <3>2, <3>3 DEF DefaultMetadata
  <2> DEFINE v == [pc |-> "save", phase |-> "none yet", value |-> cmd[c].value, created |-> t]
  <2>3. v \in Saving /\ v.created = t
    BY <2>1 DEF Saving, Phase
  <2>4. cmd' = [cmd EXCEPT ![c] = v]
    BY <2>2 DEF SaveNext
  <2> HIDE DEF v
  <2> QED
    BY <1>5, <2>2, <2>3, <2>4
<1>8. CASE CreateTask(c)
  <2>1. PICK w \in Value, t \in {Supplied, Now} :
          cmd' = [cmd EXCEPT ![c] = [pc |-> "save", phase |-> "Suspended", value |-> w, created |-> t]]
    BY <1>8 DEF CreateTask
  <2> DEFINE v == [pc |-> "save", phase |-> "Suspended", value |-> w, created |-> t]
  <2>2. v \in Saving /\ Timely(v.created)
    BY <1>3, <1>8 DEF Saving, Phase, CreateTask
  <2>3. cmd' = [cmd EXCEPT ![c] = v]
    BY <2>1
  <2> HIDE DEF v
  <2> QED
    BY <1>5, <2>2, <2>3
<1>9. ASSUME NEW p \in {"Running", "Suspended"}, SetPhase(c, p)
      PROVE  IInv'
  <2> DEFINE v == [pc |-> "save", phase |-> p, value |-> rec.value, created |-> rec.created]
  <2>1. v \in Saving /\ Timely(v.created)
    BY <1>4, <1>9 DEF Saving, Phase, SetPhase
  <2>2. cmd' = [cmd EXCEPT ![c] = v]
    BY <1>9 DEF SetPhase
  <2> HIDE DEF v
  <2> QED
    BY <1>5, <2>1, <2>2
<1>10. CASE ReadToDelete(c)
  <2>1. kind = "Task" /\ rec # NoRecord /\ cmd' = [cmd EXCEPT ![c] = [pc |-> "mark", record |-> Terminated]]
    BY <1>10 DEF ReadToDelete
  <2>2. Terminated \in Record /\ Terminated.phase = "Terminating" /\ Terminated.created = rec.created
    BY <1>4, <2>1, RecordFacts DEF Terminated, Phase
  <2>3. [pc |-> "mark", record |-> Terminated] \in Marking
    BY <2>2 DEF Marking
  <2>4. PICK v \in Marking : v.record = Terminated /\ cmd' = [cmd EXCEPT ![c] = v]
    BY <2>1, <2>3
  <2>5. v \in Commands /\ Knows(c, v)'
    BY <1>1, <1>4, <2>1, <2>2, <2>4 DEF Commands, Knows, Marking, Timely, Fits
  <2> QED
    BY <1>1, <1>2, <2>4, <2>5, CommandStep
<1> QED
  BY <1>6, <1>7, <1>8, <1>9, <1>10

\* A list: the names, then the records, or both at once.
LEMMA ListsOK ==
  ASSUME IInv, NEW c \in Client, ListNames(c) \/ ListRecords(c) \/ ListLocked(c)
  PROVE  IInv'
<1>1. UNCHANGED <<impl, kind, rec, listed, queue, worker, writes, absent, misread>>
  BY DEF ListNames, ListRecords, ListLocked, past
<1>2. queue' \in Seq(Action) /\ (kind = "Model" => queue' = << >>)
  BY <1>1 DEF IInv, Typed, WorkerKnows
<1>3. rec # NoRecord => rec \in Record /\ rec.phase # "none" /\ (~ listed => rec.phase = "Terminating")
  BY RecordFacts DEF IInv, Typed, Recorded
<1>4. (rec = NoRecord => rec.phase = "none") /\ rec.phase \in Phase \cup {"none"}
  BY RecordFacts DEF IInv, Typed
<1>5. CASE ListNames(c)
  <2>1. /\ cmd' = [cmd EXCEPT ![c] = [pc |-> "mget", named |-> listed]]
        /\ seen' = [seen EXCEPT ![c] = {rec.phase}]
    BY <1>5 DEF ListNames, Look
  <2>2. PICK v \in Naming : v.named = listed /\ cmd' = [cmd EXCEPT ![c] = v]
    BY <2>1 DEF Naming, IInv, Typed
  <2>3. seen'[c] = {rec.phase}
    BY <2>1 DEF IInv, Typed
  <2>4. v \in Commands /\ Knows(c, v)'
    BY <1>1, <1>3, <1>4, <2>2, <2>3 DEF Commands, Knows, Naming
  <2>5. \E S \in SUBSET (Phase \cup {"none"}) : seen' = [seen EXCEPT ![c] = S]
    BY <1>4, <2>1
  <2> QED
    BY <1>1, <1>2, <2>2, <2>4, <2>5, CommandStep
<1>6. CASE ListRecords(c)
  <2>1. /\ cmd' = [cmd EXCEPT ![c] = [pc |-> "listed", shown |-> cmd[c].named /\ rec # NoRecord]]
        /\ seen' = seen
    BY <1>6 DEF ListRecords, history
  <2>2. cmd[c] \in Naming /\ Knows(c, cmd[c])
    BY <1>6, Shapes DEF IInv, ListRecords, At
  <2>3. PICK v \in Showing : (v.shown <=> cmd[c].named /\ rec # NoRecord) /\ cmd' = [cmd EXCEPT ![c] = v]
    <3>1. PICK b \in BOOLEAN : b = (cmd[c].named /\ rec # NoRecord)
      BY ZenonT(20)
    <3>2. [pc |-> "listed", shown |-> b] \in Showing
      BY DEF Showing
    <3> QED
      BY <2>1, <3>1, <3>2
  <2>4. v \in Commands /\ Knows(c, v)'
    BY <1>1, <1>3, <1>4, <2>1, <2>2, <2>3 DEF Commands, Knows, Naming, Showing
  <2> QED
    BY <1>1, <1>2, <1>4, <2>1, <2>3, <2>4, CommandStep
<1>7. CASE ListLocked(c)
  <2>1. /\ cmd' = [cmd EXCEPT ![c] = [pc |-> "listed", shown |-> rec # NoRecord]]
        /\ seen' = [seen EXCEPT ![c] = {rec.phase}]
    BY <1>7 DEF ListLocked, Look
  <2>2. PICK v \in Showing : (v.shown <=> rec # NoRecord) /\ cmd' = [cmd EXCEPT ![c] = v]
    <3>1. PICK b \in BOOLEAN : b = (rec # NoRecord)
      BY ZenonT(20)
    <3>2. [pc |-> "listed", shown |-> b] \in Showing
      BY DEF Showing
    <3> QED
      BY <2>1, <3>1, <3>2
  <2>3. seen'[c] = {rec.phase}
    BY <2>1 DEF IInv, Typed
  <2>4. v \in Commands /\ Knows(c, v)'
    BY <1>1, <1>3, <1>4, <2>2, <2>3 DEF Commands, Knows, Showing
  <2>5. \E S \in SUBSET (Phase \cup {"none"}) : seen' = [seen EXCEPT ![c] = S]
    BY <1>4, <2>1
  <2> QED
    BY <1>1, <1>2, <2>2, <2>4, <2>5, CommandStep
<1> QED
  BY <1>5, <1>6, <1>7

\* What a request makes of the queue and of its command once the record is written.
LEMMA ReturnFacts ==
  ASSUME IInv, NEW c \in Client, NEW then \in {"idle", "poll"}, NEW action \in Action,
         Emit(action), Return(c, then, action)
  PROVE  /\ queue' \in Seq(Action) /\ cmd' \in [Client -> Commands]
         /\ \A d \in Client : cmd'[d] = cmd[d] \/ cmd'[d] \in Plain \cup Announcing
<1>1. queue' \in Seq(Action)
  BY AppendProperties DEF IInv, Typed, Emit
<1>2. PICK v \in Plain \cup Announcing : cmd' = [cmd EXCEPT ![c] = v]
  <2>1. [pc |-> then] \in Plain /\ [pc |-> "announce", then |-> then, action |-> action] \in Announcing
    BY DEF Plain, Announcing
  <2> QED
    BY <2>1 DEF Return
<1> QED
  BY <1>1, <1>2 DEF IInv, Typed, Commands

\* A save lists the name; what was created stays so.
LEMMA SaveOK ==
  ASSUME IInv, NEW c \in Client, Save(c)
  PROVE  IInv'
<1> DEFINE r == [value |-> cmd[c].value, created |-> cmd[c].created, phase |-> cmd[c].phase, obj |-> Now]
<1>1. cmd[c] \in Saving /\ Timely(cmd[c].created)
  BY Shapes DEF IInv, Save, At, Knows
<1>2. r \in Record /\ r.phase # "Terminating" /\ Timely(r.created) /\ r.phase \in Phase
  BY <1>1, NowFacts DEF Saving, Record, IInv
<1>3. /\ rec' = r /\ writes' = Append(writes, r.phase) /\ Notice(r) /\ listed' = TRUE
      /\ UNCHANGED <<impl, kind, absent, misread, worker>>
  BY DEF Save, Put
<1> HIDE DEF r
<1>4. r # NoRecord /\ writes' \in Seq(Phase)
  BY <1>2, <1>3, RecordFacts, AppendProperties DEF IInv, Typed
<1>5. /\ queue' \in Seq(Action) /\ cmd' \in [Client -> Commands]
      /\ \A d \in Client : cmd'[d] = cmd[d] \/ cmd'[d] \in Plain \/ (kind = "Task" /\ cmd'[d] \in Announcing)
      /\ kind = "Model" => queue' = << >>
  <2>1. CASE kind = "Task"
    <3>1. Emit("reconcile") /\ Return(c, "idle", "reconcile")
      BY <2>1 DEF Save
    <3> QED
      BY <2>1, <3>1, ReturnFacts DEF Action
  <2>2. CASE kind = "Model"
    <3>1. queue' = queue /\ cmd' = [cmd EXCEPT ![c] = Idle] /\ Idle \in Plain
      BY <2>2 DEF Save, Idle, Plain
    <3> QED
      BY <2>2, <3>1 DEF IInv, Typed, Commands, WorkerKnows
  <2> QED
    BY <2>1, <2>2 DEF IInv, Typed
<1>6. WorkerKnows'
  BY <1>3, <1>4, <1>5 DEF IInv, WorkerKnows, Redis, Memory, Timely
<1>7. worker' \in {Idle} \cup Handling \cup Deciding \cup Updating
  BY <1>3 DEF IInv, Typed
<1>8. Fits(r.created, absent', misread')
  BY <1>2, <1>3 DEF Timely
<1> QED
  BY <1>2, <1>3, <1>4, <1>5, <1>6, <1>7, <1>8, WriteStep

\* A Model is gone at once.
LEMMA DeleteModelOK ==
  ASSUME IInv, NEW c \in Client, DeleteModel(c)
  PROVE  IInv'
<1>1. /\ rec' = NoRecord /\ listed' = FALSE /\ Notice(NoRecord)
      /\ absent' = absent \cup {Len(writes)} /\ writes' = writes /\ misread' = misread
      /\ UNCHANGED <<impl, kind, queue, worker>> /\ kind = "Model"
      /\ cmd' = [cmd EXCEPT ![c] = [pc |-> "poll"]]
  BY DEF DeleteModel, Erase, Command
<1>2. [pc |-> "poll"] \in Plain
  BY DEF Plain
<1>3. cmd' \in [Client -> Commands] /\ \A d \in Client : cmd'[d] = cmd[d] \/ cmd'[d] \in Plain
  BY <1>1, <1>2 DEF IInv, Typed, Commands
<1>4. WorkerKnows' /\ queue' \in Seq(Action) /\ writes' \in Seq(Phase)
      /\ worker' \in {Idle} \cup Handling \cup Deciding \cup Updating
  <2>1. worker = Idle /\ queue = << >>
    BY <1>1 DEF IInv, WorkerKnows
  <2> QED
    BY <1>1, <2>1, WorkerShapes DEF IInv, Typed, WorkerKnows, Idle
<1> QED
  BY <1>1, <1>3, <1>4, WriteStep

\* A deletion leaves a record that says Terminating, listed or not.
LEMMA MarkTaskDeletingOK ==
  ASSUME IInv, NEW c \in Client, MarkTaskDeleting(c)
  PROVE  IInv'
<1>1. PICK r \in Record :
        /\ Put(r, 0) /\ r.phase = "Terminating" /\ Timely(r.created) /\ kind = "Task"
  <2>1. CASE At(c, "mark") /\ Put(cmd[c].record, 0)
    <3>1. cmd[c] \in Marking /\ Knows(c, cmd[c])
      BY <2>1, Shapes DEF IInv, At
    <3> QED
      BY <2>1, <3>1 DEF Marking, Knows
  <2>2. CASE kind = "Task" /\ rec # NoRecord /\ Put(Terminated, 0)
    <3>1. rec \in Record /\ Timely(rec.created)
      BY <2>2 DEF IInv, Typed, Recorded
    <3>2. Terminated \in Record /\ Terminated.phase = "Terminating" /\ Terminated.created = rec.created
      BY <3>1, RecordFacts DEF Terminated, Phase
    <3> QED
      BY <2>2, <3>1, <3>2
  <2> QED
    BY <2>1, <2>2 DEF MarkTaskDeleting
<1>2. /\ rec' = r /\ writes' = Append(writes, r.phase) /\ Notice(r)
      /\ UNCHANGED <<impl, kind, absent, misread, worker, listed>>
  BY <1>1 DEF MarkTaskDeleting, Put
<1>3. r # NoRecord /\ writes' \in Seq(Phase) /\ listed' \in BOOLEAN
  BY <1>1, <1>2, RecordFacts, AppendProperties DEF IInv, Typed
<1>4. /\ queue' \in Seq(Action) /\ cmd' \in [Client -> Commands]
      /\ \A d \in Client : cmd'[d] = cmd[d] \/ cmd'[d] \in Plain \/ (kind = "Task" /\ cmd'[d] \in Announcing)
  <2>1. Emit("delete") /\ Return(c, "poll", "delete")
    BY DEF MarkTaskDeleting
  <2> QED
    BY <1>1, <2>1, ReturnFacts DEF Action
<1>5. WorkerKnows' /\ worker' \in {Idle} \cup Handling \cup Deciding \cup Updating
  BY <1>1, <1>2, <1>3 DEF IInv, Typed, WorkerKnows, Redis, Memory, Timely
<1>6. Fits(r.created, absent', misread')
  BY <1>1, <1>2 DEF Timely
<1> QED
  BY <1>1, <1>2, <1>3, <1>4, <1>5, <1>6, WriteStep

-----------------------------------------------------------------------------
(* The worker *)

\* The worker takes an event, looks at the record and decides, or gives up.
LEMMA WorkerReadsOK ==
  ASSUME IInv, Take \/ Read \/ UpdateGet \/ GiveUp
  PROVE  IInv'
<1>1. UNCHANGED <<impl, kind, rec, listed, cmd, writes, absent, misread, seen>>
  BY DEF Take, Read, UpdateGet, GiveUp, Others, past, history
<1>2. ASSUME worker' \in {Idle} \cup Handling \cup Deciding \cup Updating, queue' \in Seq(Action), WorkerKnows'
      PROVE  IInv'
  <2>1. Typed' /\ Recorded'
    BY <1>1, <1>2 DEF IInv, Typed, Recorded, Timely
  <2>2. ASSUME NEW c \in Client
        PROVE  Knows(c, cmd[c])'
    <3>1. Knows(c, cmd[c])
      BY DEF IInv
    <3> QED
      BY <1>1, <3>1 DEF Knows, Timely
  <2> QED
    BY <1>2, <2>1, <2>2 DEF IInv
<1>3. CASE Take
  <2>1. queue # << >> /\ kind = "Task"
    BY <1>3 DEF Take, IInv, Typed, WorkerKnows
  <2>2. Head(queue) \in Action /\ Tail(queue) \in Seq(Action)
    BY <2>1, HeadTailProperties DEF IInv, Typed
  <2>3. /\ worker' \in Handling /\ queue' = Tail(queue)
        /\ worker'.pc = "remove" => worker'.event = "delete"
    BY <1>3, <2>2 DEF Take, Turn, Handling
  <2>4. WorkerKnows'
    BY <1>1, <2>1, <2>3 DEF WorkerKnows, Handling, Deciding, Updating
  <2> QED
    BY <1>2, <2>2, <2>3, <2>4
<1>4. CASE Read
  <2>1. worker \in Handling /\ queue' = queue /\ kind = "Task"
    BY <1>4, WorkerShapes DEF Read, Handling, IInv, Typed, WorkerKnows, Idle
  <2>2. CASE rec = NoRecord \/ rec.phase = "Terminating"
    <3>1. worker' = Idle
      BY <1>4, <2>2 DEF Read, Turn
    <3>2. WorkerKnows'
      BY <1>1, <2>1, <3>1 DEF WorkerKnows, Idle, Deciding, Updating
    <3> QED
      BY <1>2, <2>1, <3>1, <3>2 DEF IInv, Typed
  <2>3. CASE rec # NoRecord /\ rec.phase # "Terminating"
    <3>1. PICK p \in Outcome(rec.phase) :
            worker' = [pc |-> IF Redis THEN "get" ELSE "update", event |-> worker.event, phase |-> p]
      BY <1>4, <2>3 DEF Read, Turn
    <3>2. /\ worker' \in Deciding /\ worker'.pc # "remove"
          /\ (worker'.pc = "update" => ~ Redis) /\ (worker'.pc = "get" => Redis)
      BY <2>1, <3>1 DEF Deciding, Handling, Outcome
    <3>3. listed
      BY <2>3 DEF IInv, Recorded
    <3>4. WorkerKnows'
      BY <1>1, <2>1, <2>3, <3>2, <3>3 DEF WorkerKnows, Redis, Memory
    <3> QED
      BY <1>2, <2>1, <3>2, <3>4 DEF IInv, Typed
  <2> QED
    BY <2>2, <2>3
<1>5. CASE UpdateGet
  <2>1. worker \in Deciding /\ queue' = queue /\ kind = "Task" /\ rec # NoRecord /\ listed /\ Redis
    BY <1>5, WorkerShapes DEF UpdateGet, IInv, Typed, WorkerKnows, Idle
  <2> DEFINE r == [rec EXCEPT !.phase = worker.phase]
  <2>2. r \in Record /\ r.phase # "Terminating" /\ Timely(r.created)
    <3>1. rec \in Record /\ Timely(rec.created) /\ worker.phase \in Phase \ {"Terminating"}
      BY <2>1 DEF IInv, Typed, Recorded, Deciding, Phase
    <3> QED
      BY <3>1, RecordFacts
  <2>3. worker' = [pc |-> "update", event |-> worker.event, record |-> r]
    BY <1>5, <2>1 DEF UpdateGet, Turn
  <2> HIDE DEF r
  <2>4. worker' \in Updating /\ worker'.pc = "update" /\ worker'.record = r
    BY <2>1, <2>2, <2>3 DEF Deciding, Updating
  <2>5. WorkerKnows'
    BY <1>1, <2>1, <2>2, <2>4 DEF WorkerKnows, Redis, Memory, Timely
  <2> QED
    BY <1>2, <2>1, <2>4, <2>5 DEF IInv, Typed
<1>6. CASE GiveUp
  <2>1. worker' = Idle /\ queue' = queue /\ kind = "Task"
    BY <1>6 DEF GiveUp, Turn, IInv, Typed, WorkerKnows
  <2>2. WorkerKnows'
    BY <1>1, <2>1 DEF WorkerKnows, Idle, Deciding, Updating
  <2> QED
    BY <1>2, <2>1, <2>2 DEF IInv, Typed
<1> QED
  BY <1>3, <1>4, <1>5, <1>6

\* The status is written over what the record has become, which is still there.
LEMMA UpdateTaskStatusOK ==
  ASSUME IInv, UpdateTaskStatus
  PROVE  IInv'
<1>1. /\ worker.pc = "update" /\ rec # NoRecord /\ listed /\ kind = "Task"
      /\ worker' = Idle /\ UNCHANGED <<impl, kind, cmd, listed, queue>>
  BY WorkerShapes DEF UpdateTaskStatus, Turn, Others, IInv, Typed, WorkerKnows, Idle
<1>2. PICK r \in Record : Put(r, 0) /\ r.phase # "Terminating" /\ Timely(r.created)
  <2>1. CASE Redis
    <3>1. Put(worker.record, 0)
      BY <1>1, <2>1 DEF UpdateTaskStatus, Redis, Memory
    <3>2. worker \in Updating /\ worker.record.phase # "Terminating" /\ Timely(worker.record.created)
      BY <1>1, <2>1 DEF IInv, WorkerKnows
    <3> QED
      BY <3>1, <3>2 DEF Updating
  <2>2. CASE ~ Redis
    <3>1. Put([rec EXCEPT !.phase = worker.phase], 0)
      BY <1>1, <2>2 DEF UpdateTaskStatus
    <3>2. worker \in Deciding /\ rec \in Record /\ Timely(rec.created)
      BY <1>1, <2>2 DEF IInv, Typed, WorkerKnows, Recorded, Redis, Memory
    <3>3. worker.phase \in Phase \ {"Terminating"}
      BY <3>2 DEF Deciding, Phase
    <3> QED
      BY <3>1, <3>2, <3>3, RecordFacts
  <2> QED
    BY <2>1, <2>2
<1>3. /\ rec' = r /\ writes' = Append(writes, r.phase) /\ Notice(r)
      /\ UNCHANGED <<absent, misread>> /\ Fits(r.created, absent', misread')
  BY <1>2 DEF Put, Timely
<1>4. r # NoRecord /\ writes' \in Seq(Phase)
  BY <1>2, <1>3, RecordFacts, AppendProperties DEF IInv, Typed
<1>5. WorkerKnows'
  BY <1>1 DEF WorkerKnows, Idle, Updating
<1>6. queue' \in Seq(Action) /\ cmd' \in [Client -> Commands] /\ listed' \in BOOLEAN
      /\ \A d \in Client : cmd'[d] = cmd[d]
  BY <1>1 DEF IInv, Typed
<1> QED
  BY <1>1, <1>2, <1>3, <1>4, <1>5, <1>6, WriteStep

\* The record goes with its name.
LEMMA RemoveTaskOK ==
  ASSUME IInv, RemoveTask
  PROVE  IInv'
<1>1. /\ worker.pc = "remove" /\ worker' = Idle /\ UNCHANGED <<impl, kind, cmd, queue, writes>>
      /\ rec' = NoRecord /\ listed' = FALSE /\ Notice(NoRecord) /\ absent' = absent \cup {Len(writes)}
      /\ misread' = misread
  BY DEF RemoveTask, Erase, Turn, Others
<1>2. kind = "Task"
  BY <1>1 DEF IInv, Typed, WorkerKnows, Idle
<1>3. WorkerKnows'
  BY <1>1, <1>2 DEF WorkerKnows, Idle, Updating
<1>4. queue' \in Seq(Action) /\ cmd' \in [Client -> Commands] /\ writes' \in Seq(Phase)
      /\ \A d \in Client : cmd'[d] = cmd[d]
  BY <1>1 DEF IInv, Typed
<1> QED
  BY <1>1, <1>3, <1>4, WriteStep

-----------------------------------------------------------------------------
(* The steps together *)

\* The inductive invariant: what the record, the commands and the worker hold
\* is true of each other.
THEOREM Inductive == Spec => []IInv
<1>1. Init => IInv
  <2>1. SUFFICES ASSUME Init
                 PROVE  IInv
    OBVIOUS
  <2>2. \/ rec = NoRecord /\ writes = << >>
        \/ rec \in Record /\ rec.created = 1 /\ rec.phase # "Terminating" /\ writes \in Seq(Phase)
    <3>1. CASE rec = NoRecord /\ writes = << >>
      BY <3>1
    <3>2. ASSUME NEW v \in Value, NEW p \in {"Suspended", "none yet"},
                 rec = [value |-> v, created |-> 1, phase |-> p, obj |-> 1], writes = <<p>>
          PROVE  rec \in Record /\ rec.created = 1 /\ rec.phase # "Terminating" /\ writes \in Seq(Phase)
      <4>1. p \in Phase /\ p # "Terminating"
        BY DEF Phase
      <4>2. <<p>> \in Seq(Phase)
        BY <4>1, OneWrite
      <4> QED
        BY <3>2, <4>1, <4>2 DEF Record
    <3> QED
      BY <2>1, <3>1, <3>2 DEF Init
  <2>3. impl \in {"redis", "memory"} /\ kind \in {"Task", "Model"}
    BY <2>1, StoreAssumption DEF Init
  <2>4. Idle \in Plain /\ Plain \subseteq Commands /\ << >> \in Seq(Phase) /\ << >> \in Seq(Action)
    BY DEF Idle, Plain, Commands
  <2>5. cmd = [c \in Client |-> Idle] /\ worker = Idle /\ queue = << >> /\ listed = (rec # NoRecord)
        /\ absent = {0} /\ seen = [c \in Client |-> {}]
    BY <2>1 DEF Init
  <2>6. Typed
    BY <2>2, <2>3, <2>4, <2>5 DEF Typed
  <2>7. Recorded
    <3>1. CASE rec = NoRecord /\ writes = << >>
      <4>1. Len(<< >>) = 0
        BY EmptySeq
      <4> QED
        BY <2>5, <3>1, <4>1 DEF Recorded
    <3>2. CASE rec \in Record /\ rec.created = 1 /\ rec.phase # "Terminating"
      <4>1. rec # NoRecord
        BY <3>2, RecordFacts
      <4>2. listed
        BY <2>5, <4>1, Zenon
      <4>3. Timely(rec.created)
        BY <2>5, <3>2 DEF Timely, Fits
      <4> QED
        BY <4>1, <4>2, <4>3 DEF Recorded
    <3> QED
      BY <2>2, <3>1, <3>2
  <2>8. \A c \in Client : Knows(c, cmd[c])
    BY <2>5 DEF Knows, Idle
  <2>9. WorkerKnows
    BY <2>5 DEF WorkerKnows, Idle, Updating
  <2> QED
    BY <2>6, <2>7, <2>8, <2>9 DEF IInv
<1>2. IInv /\ [Next]_vars => IInv'
  <2>1. SUFFICES ASSUME IInv, [Next]_vars
                 PROVE  IInv'
    OBVIOUS
  <2>2. CASE Controller
    BY <2>1, <2>2, WorkerReadsOK, UpdateTaskStatusOK, RemoveTaskOK DEF Controller
  <2>3. ASSUME NEW c \in Client, Request(c) \/ Carry(c) \/ Forward(c) \/ TimeOut(c) \/ WireLost(c)
        PROVE  IInv'
    <3>1. CASE Request(c)
      BY <2>1, <3>1, ReadsOK, ListsOK, DeleteModelOK, PlainOK DEF Request
    <3>2. CASE Carry(c)
      BY <2>1, <3>2, ReadsOK, SaveOK, MarkTaskDeletingOK, AnnounceOK, ListsOK, PlainOK DEF Carry
    <3> QED
      BY <2>1, <2>3, <3>1, <3>2, DeliveryOK, PlainOK
  <2>4. CASE UNCHANGED vars
    <3>1. UNCHANGED <<impl, kind, rec, listed, queue, worker, cmd, writes, absent, misread, seen>>
      BY <2>4 DEF vars, past, history
    <3> QED
      BY <2>1, <3>1 DEF IInv, Typed, Recorded, Knows, WorkerKnows, Redis, Memory, Timely
  <2> QED
    BY <2>1, <2>2, <2>3, <2>4, WorkerReadsOK DEF Next
<1> QED
  BY <1>1, <1>2, PTL DEF Spec

\* A resource that is there throughout a list and not being deleted is shown, and
\* one that is never there is not, in both stores.
THEOREM ListsAreStable == Spec => []StableIsListed
<1>1. IInv => StableIsListed
  <2>1. SUFFICES ASSUME IInv, NEW c \in Client, At(c, "listed")
                 PROVE  /\ seen[c] \cap {"none", "Terminating"} = {} => cmd[c].shown
                        /\ seen[c] = {"none"} => ~ cmd[c].shown
    BY DEF StableIsListed
  <2>2. cmd[c] \in Showing /\ Knows(c, cmd[c]) /\ cmd[c].pc = "listed"
    BY <2>1, Shapes DEF IInv, At
  <2> QED
    BY <2>2 DEF Knows
<1> QED
  BY <1>1, Inductive, PTL

\* A time of creation is one at which there was no such resource, whatever
\* updates, deletions and new creations overlap, unless the client brought its own
\* or the server took a failed lookup for a resource not there.
THEOREM CreationIsTrue == Spec => []CreatedIsTrue
<1>1. IInv => CreatedIsTrue
  BY DEF IInv, Recorded, CreatedIsTrue, Timely, Fits
<1> QED
  BY <1>1, Inductive, PTL
-----------------------------------------------------------------------------
(* What a deletion waits for *)

Polling(c) == At(c, "poll") /\ c \notin resaved \cup lost
InQueue == \E i \in DOMAIN queue : queue[i] = "delete"
InHand == \E d \in Client : At(d, "announce") /\ cmd[d].action = "delete"
Due == InQueue \/ InHand \/ worker.pc = "remove"

\* A client that waits for a deletion waits for something: the record is gone,
\* or the event that has it removed is on its way or at the worker.
DeletionIsDue == (\E c \in Client : Polling(c)) /\ rec # NoRecord => Due

\* Who will poll has a deletion to announce.
Paired == \A c \in Client : At(c, "announce") /\ cmd[c].then = "poll" => cmd[c].action = "delete"
DInv == DeletionIsDue /\ Paired

\* What is appended to the queue is in it, with what was; what is not at its
\* head stays.
LEMMA QueueFacts ==
  ASSUME NEW q \in Seq(Action), NEW a \in Action
  PROVE  /\ \E i \in DOMAIN Append(q, a) : Append(q, a)[i] = a
         /\ \A i \in DOMAIN q : i \in DOMAIN Append(q, a) /\ Append(q, a)[i] = q[i]
         /\ q # << >> => \A i \in DOMAIN q : q[i] = Head(q) \/ \E j \in DOMAIN Tail(q) : Tail(q)[j] = q[i]
<1>1. /\ Len(q) \in Nat /\ DOMAIN q = 1 .. Len(q)
      /\ Append(q, a) \in Seq(Action) /\ Len(Append(q, a)) = Len(q) + 1
      /\ \A i \in 1 .. Len(q) : Append(q, a)[i] = q[i]
      /\ Append(q, a)[Len(q) + 1] = a
  BY LenProperties, AppendProperties
<1>2. DOMAIN Append(q, a) = 1 .. Len(q) + 1
  BY <1>1, LenProperties
<1>3. ASSUME q # << >>, NEW i \in DOMAIN q
      PROVE  q[i] = Head(q) \/ \E j \in DOMAIN Tail(q) : Tail(q)[j] = q[i]
  <2>1. /\ Head(q) = q[1] /\ Tail(q) \in Seq(Action) /\ Len(Tail(q)) = Len(q) - 1
        /\ \A j \in 1 .. Len(Tail(q)) : Tail(q)[j] = q[j + 1]
    BY <1>3, HeadTailProperties
  <2>2. DOMAIN Tail(q) = 1 .. Len(q) - 1
    BY <2>1, LenProperties
  <2>3. CASE i # 1
    <3>1. i - 1 \in 1 .. Len(q) - 1 /\ (i - 1) + 1 = i
      BY <1>1, <1>3, <2>3
    <3> QED
      BY <2>1, <2>2, <3>1
  <2> QED
    BY <2>1, <2>3
<1> QED
  BY <1>1, <1>2, <1>3

\* Steps that leave the queue alone and neither begin nor end a wait.
LEMMA DueElsewhere ==
  ASSUME DInv, UNCHANGED <<queue, lost, resaved>>, rec # NoRecord \/ rec' = rec,
         worker.pc = "remove" => worker'.pc = "remove",
         \A d \in Client : \/ cmd'[d] = cmd[d]
                           \/ cmd[d].pc # "announce" /\ cmd'[d].pc \notin {"poll", "announce"}
  PROVE  DInv'
<1>1. Due => Due'
  <2>1. InHand => InHand'
    BY DEF InHand, At
  <2> QED
    BY <2>1 DEF Due, InQueue
<1>2. \A c \in Client : Polling(c)' => Polling(c)
  BY DEF Polling, At
<1>3. Paired'
  BY DEF DInv, Paired, At
<1> QED
  BY <1>1, <1>2, <1>3 DEF DInv, DeletionIsDue

\* A save ends every wait it might disappoint.
LEMMA DueSave ==
  ASSUME IInv, DInv, NEW c \in Client, Save(c)
  PROVE  DInv'
<1>1. \A d \in Client \ {c} : cmd'[d] = cmd[d]
  BY DEF Save, Return, IInv, Typed
<1>2. cmd'[c].pc # "poll" /\ (cmd'[c].pc = "announce" => cmd'[c].then = "idle")
  BY DEF Save, Return, IInv, Typed, Idle
<1>3. Paired'
  BY <1>1, <1>2 DEF DInv, Paired, At
<1>4. \A d \in Client : ~ Polling(d)'
  BY <1>1, <1>2 DEF Save, Polling, Waits, At
<1> QED
  BY <1>3, <1>4 DEF DInv, DeletionIsDue

\* A deletion puts its event into the queue, or has it in hand.
LEMMA DueMark ==
  ASSUME IInv, DInv, NEW c \in Client, MarkTaskDeleting(c)
  PROVE  DInv'
<1>1. Emit("delete") /\ Return(c, "poll", "delete")
  BY DEF MarkTaskDeleting
<1>2. \A d \in Client \ {c} : cmd'[d] = cmd[d]
  BY <1>1 DEF Return, IInv, Typed
<1>3. CASE Redis
  <2>1. cmd'[c] = [pc |-> "poll"]
    BY <1>1, <1>3 DEF Return, IInv, Typed
  <2>2. queue' = Append(queue, "delete")
    BY <1>1, <1>3 DEF Emit
  <2>3. InQueue'
    BY <2>2, QueueFacts DEF InQueue, IInv, Typed, Action
  <2>4. Paired'
    BY <1>2, <2>1 DEF DInv, Paired, At
  <2> QED
    BY <2>3, <2>4 DEF DInv, DeletionIsDue, Due
<1>4. CASE ~ Redis
  <2>1. cmd'[c] = [pc |-> "announce", then |-> "poll", action |-> "delete"]
    BY <1>1, <1>4 DEF Return, IInv, Typed
  <2>2. InHand'
    BY <2>1 DEF InHand, At
  <2>3. Paired'
    BY <1>2, <2>1 DEF DInv, Paired, At
  <2> QED
    BY <2>2, <2>3 DEF DInv, DeletionIsDue, Due
<1> QED
  BY <1>3, <1>4

\* What is announced is in the queue, or lost.
LEMMA DueAnnounce ==
  ASSUME IInv, DInv, NEW c \in Client, Announce(c)
  PROVE  DInv'
<1>1. /\ At(c, "announce") /\ cmd[c] \in Announcing /\ cmd[c].action \in Action
      /\ cmd' = [cmd EXCEPT ![c] = [pc |-> cmd[c].then]]
      /\ UNCHANGED <<rec, worker, resaved>>
  BY Shapes DEF Announce, At, IInv, history, Announcing
<1>2. /\ cmd'[c] = [pc |-> cmd[c].then] /\ \A d \in Client \ {c} : cmd'[d] = cmd[d]
  BY <1>1 DEF IInv, Typed
<1>3. Paired'
  BY <1>1, <1>2 DEF DInv, Paired, At, Announcing
<1>4. CASE queue' = queue /\ Lose(cmd[c].action)
  <2>1. CASE cmd[c].action = "delete"
    <3>1. lost' = lost \cup {d \in Client : Waits(d)}
      BY <1>4, <2>1 DEF Lose
    <3>2. \A d \in Client : ~ Polling(d)'
      BY <1>1, <1>2, <3>1 DEF Polling, Waits, At
    <3> QED
      BY <1>3, <3>2 DEF DInv, DeletionIsDue
  <2>2. CASE cmd[c].action # "delete"
    <3>1. lost' = lost /\ cmd[c].then # "poll"
      BY <1>1, <1>4, <2>2 DEF Lose, DInv, Paired
    <3>2. Due => Due'
      BY <1>1, <1>2, <1>4, <2>2 DEF Due, InQueue, InHand, At
    <3>3. \A d \in Client : Polling(d)' => Polling(d)
      BY <1>1, <1>2, <3>1 DEF Polling, At
    <3> QED
      BY <1>1, <1>3, <3>2, <3>3 DEF DInv, DeletionIsDue
  <2> QED
    BY <2>1, <2>2
<1>5. CASE queue' = Append(queue, cmd[c].action) /\ lost' = lost
  <2>1. queue' = Append(queue, cmd[c].action) /\ lost' = lost
    BY <1>5
  <2>2. InQueue => InQueue'
    BY <1>1, <2>1, QueueFacts DEF InQueue, IInv, Typed
  <2>3. cmd[c].action = "delete" => InQueue'
    BY <1>1, <2>1, QueueFacts DEF InQueue, IInv, Typed
  <2>4. InHand => InHand' \/ InQueue'
    BY <1>2, <2>3 DEF InHand, At
  <2>5. Due => Due'
    BY <1>1, <2>2, <2>4 DEF Due
  <2>6. cmd[c].then = "poll" => InQueue'
    BY <2>3 DEF Announce, DInv, Paired
  <2>7. \A d \in Client : Polling(d)' => Polling(d) \/ InQueue'
    BY <1>1, <1>2, <2>1, <2>6 DEF Polling, At
  <2> QED
    BY <1>1, <1>3, <2>1, <2>5, <2>7 DEF DInv, DeletionIsDue, Due
<1> QED
  BY <1>4, <1>5 DEF Announce

\* A delete event that is given up is known to be lost.
LEMMA DueGiveUp ==
  ASSUME IInv, DInv, GiveUp
  PROVE  DInv'
<1>1. /\ worker # Idle /\ worker' = Idle /\ Lose(worker.event)
      /\ UNCHANGED <<rec, queue, cmd, resaved>>
  BY DEF GiveUp, Turn, history
<1>2. Paired'
  BY <1>1 DEF DInv, Paired, At
<1>3. CASE worker.event = "delete"
  <2>1. \A d \in Client : ~ Polling(d)'
    BY <1>1, <1>3 DEF Lose, Polling, Waits, At
  <2> QED
    BY <1>2, <2>1 DEF DInv, DeletionIsDue
<1>4. CASE worker.event # "delete"
  <2>1. lost' = lost /\ worker.pc # "remove"
    BY <1>1, <1>4 DEF Lose, IInv, WorkerKnows
  <2>2. Due => Due'
    BY <1>1, <2>1 DEF Due, InQueue, InHand, At
  <2>3. \A d \in Client : Polling(d)' => Polling(d)
    BY <1>1, <2>1 DEF Polling, At
  <2> QED
    BY <1>1, <1>2, <2>2, <2>3 DEF DInv, DeletionIsDue
<1> QED
  BY <1>3, <1>4

\* The worker takes the event; it has then to remove the record.
LEMMA DueTake ==
  ASSUME IInv, DInv, Take
  PROVE  DInv'
<1>1. /\ queue # << >> /\ queue' = Tail(queue) /\ worker = Idle
      /\ Head(queue) = "delete" => worker'.pc = "remove"
      /\ UNCHANGED <<rec, cmd, lost, resaved>>
  BY DEF Take, Turn, Others, history
<1>2. InQueue => InQueue' \/ worker'.pc = "remove"
  BY <1>1, QueueFacts DEF InQueue, IInv, Typed, Action
<1>3. InHand => InHand'
  BY <1>1 DEF InHand, At
<1>4. Due => Due'
  BY <1>1, <1>2, <1>3 DEF Due, Idle
<1>5. Paired' /\ \A c \in Client : Polling(c)' => Polling(c)
  BY <1>1 DEF DInv, Paired, Polling, At
<1> QED
  BY <1>1, <1>4, <1>5 DEF DInv, DeletionIsDue

\* `ax delete' never polls for a deletion nobody has been told of: unless a delete
\* event was lost since (no room for it, a worker that failed or died) or somebody
\* saved the resource again, the record is gone, or the event that removes it is
\* in the queue, in a client's hands or with the worker.  What DeleteAnswers rests
\* on.
THEOREM DeletionsAreDue == Spec => []DeletionIsDue
<1>1. Init => DInv
  <2> SUFFICES ASSUME Init
               PROVE  DInv
    OBVIOUS
  <2>1. \A c \in Client : cmd[c].pc = "idle"
    BY DEF Init, Idle
  <2> QED
    BY <2>1 DEF DInv, DeletionIsDue, Paired, Polling, At
<1>2. IInv /\ DInv /\ [Next]_vars => DInv'
  <2> SUFFICES ASSUME IInv, DInv, [Next]_vars
               PROVE  DInv'
    OBVIOUS
  <2>1. CASE RemoveTask
    <3>1. rec' = NoRecord /\ cmd' = cmd
      BY <2>1 DEF RemoveTask, Erase, Others
    <3> QED
      BY <3>1 DEF DInv, DeletionIsDue, Paired, At
  <2>2. CASE Read \/ UpdateGet \/ UpdateTaskStatus
    <3>1. worker.pc # "remove" /\ UNCHANGED <<queue, lost, resaved, cmd>>
      BY <2>2 DEF Read, UpdateGet, UpdateTaskStatus, Others, history
    <3>2. rec # NoRecord \/ rec' = rec
      BY <2>2 DEF Read, UpdateGet, UpdateTaskStatus, IInv, WorkerKnows
    <3> QED
      BY <3>1, <3>2, DueElsewhere
  <2>3. ASSUME NEW c \in Client, DeleteModel(c)
        PROVE  DInv'
    <3>1. /\ rec' = NoRecord /\ cmd'[c] = [pc |-> "poll"]
          /\ \A d \in Client \ {c} : cmd'[d] = cmd[d]
      BY <2>3 DEF DeleteModel, Erase, IInv, Typed
    <3> QED
      BY <3>1 DEF DInv, DeletionIsDue, Paired, At
  <2>4. ASSUME NEW c \in Client, cmd[c].pc # "announce", UNCHANGED <<rec, queue, lost, resaved, worker>>,
               NEW v, v.pc \notin {"poll", "announce"}, cmd' = [cmd EXCEPT ![c] = v]
        PROVE  DInv'
    <3>1. cmd'[c] = v /\ \A d \in Client \ {c} : cmd'[d] = cmd[d]
      BY <2>4 DEF IInv, Typed
    <3> QED
      BY <2>4, <3>1, DueElsewhere
  <2>5. ASSUME NEW c \in Client,
               \/ Apply(c) \/ CreateTask(c) \/ SetPhase(c, "Running") \/ SetPhase(c, "Suspended")
               \/ ReadToDelete(c) \/ DefaultMetadata(c)
        PROVE  DInv'
    <3>1. cmd[c].pc # "announce" /\ UNCHANGED <<rec, queue, lost, resaved, worker>>
      BY <2>5 DEF Apply, CreateTask, SetPhase, ReadToDelete, DefaultMetadata, Command, At, Look, history
    <3>2. \E v : v.pc \notin {"poll", "announce"} /\ cmd' = [cmd EXCEPT ![c] = v]
      <4>1. CASE Apply(c)
        <5>1. PICK v \in Value, given \in BOOLEAN :
                cmd' = [cmd EXCEPT ![c] = [pc |-> "metadata", value |-> v, given |-> given]]
          BY <4>1 DEF Apply
        <5> QED
          BY <5>1
      <4>2. CASE CreateTask(c)
        <5>1. PICK v \in Value, t \in {Supplied, Now} : cmd' = [cmd EXCEPT ![c] =
                [pc |-> "save", phase |-> "Suspended", value |-> v, created |-> t]]
          BY <4>2 DEF CreateTask
        <5> QED
          BY <5>1
      <4>3. CASE ~ (Apply(c) \/ CreateTask(c))
        BY <2>5, <4>3 DEF SetPhase, ReadToDelete, DefaultMetadata, SaveNext
      <4> QED
        BY <4>1, <4>2, <4>3
    <3> QED
      BY <2>4, <3>1, <3>2
  <2>11. ASSUME NEW c \in Client, Poll(c) \/ TimeOut(c)
         PROVE  DInv'
    <3>1. /\ UNCHANGED <<rec, queue, worker>> /\ At(c, "poll")
          /\ cmd' = [cmd EXCEPT ![c] = Idle] /\ resaved' = resaved \ {c} /\ lost' = lost \ {c}
      BY <2>11 DEF Poll, TimeOut, StopWaiting
    <3>2. cmd'[c].pc = "idle" /\ \A d \in Client \ {c} : cmd'[d] = cmd[d]
      BY <3>1 DEF IInv, Typed, Idle
    <3>3. (Due => Due') /\ Paired' /\ \A d \in Client : Polling(d)' => Polling(d)
      BY <3>1, <3>2 DEF Due, InQueue, InHand, At, DInv, Paired, Polling
    <3> QED
      BY <3>1, <3>3 DEF DInv, DeletionIsDue
  <2>6. ASSUME NEW c \in Client,
               \/ ListNames(c) \/ ListRecords(c) \/ ListLocked(c) \/ Listed(c)
        PROVE  DInv'
    <3>1. cmd[c].pc # "announce" /\ UNCHANGED <<rec, queue, lost, resaved, worker>>
      BY <2>6 DEF ListNames, ListRecords, ListLocked, Listed, Command, At, Look, history
    <3>2. \E v : v.pc \notin {"poll", "announce"} /\ cmd' = [cmd EXCEPT ![c] = v]
      BY <2>6 DEF ListNames, ListRecords, ListLocked, Listed, Idle
    <3> QED
      BY <2>4, <3>1, <3>2
  <2>7. ASSUME NEW c \in Client,
               WatchTask(c) \/ Initial(c) \/ Send(c) \/ Check(c) \/ Leave(c)
        PROVE  DInv'
    <3>1. cmd[c].pc # "announce" /\ UNCHANGED <<rec, queue, lost, resaved, worker>>
      BY <2>7 DEF WatchTask, Initial, Send, Check, Leave, Command, At, history
    <3>2. \E v : v.pc \notin {"poll", "announce"} /\ cmd' = [cmd EXCEPT ![c] = v]
      BY <2>7 DEF WatchTask, Initial, Send, Check, Leave, Quit, Idle
    <3> QED
      BY <2>4, <3>1, <3>2
  <2>8. ASSUME UNCHANGED <<rec, queue, lost, resaved, worker, cmd>>
        PROVE  DInv'
    BY <2>8, DueElsewhere
  <2>9. ASSUME NEW c \in Client, Forward(c) \/ WireLost(c)
        PROVE  DInv'
    BY <2>8, <2>9 DEF Forward, WireLost, history
  <2>10. CASE UNCHANGED vars
    BY <2>8, <2>10 DEF vars, history
  <2> QED
    BY <2>1, <2>2, <2>3, <2>5, <2>6, <2>7, <2>9, <2>10, <2>11, DueSave, DueMark, DueAnnounce, DueTake, DueGiveUp
    DEF Next, Controller, Request, Carry
<1> QED
  BY <1>1, <1>2, Inductive, PTL DEF Spec, DInv
=============================================================================
