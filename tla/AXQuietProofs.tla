---------------------------- MODULE AXQuietProofs ----------------------------
(***************************************************************************)
(* What AXControl comes to with one controller once the events of a Task   *)
(* are worked off, for every set of Tasks, manifests and requests and      *)
(* every number of faults: record and actor agree, and a deletion that was *)
(* asked for last has happened.                                            *)
(***************************************************************************)
EXTENDS AXControlProofs

USE DEF redis, group, client, worker, substrate

\* An event a worker has claimed and is not done with.
Held(i) ==
  \E w \in Worker : \E k \in DOMAIN batch[w] :
    batch[w][k] = i /\ (k # 1 \/ wpc[w] # "ack")
Due(i) == i > position \/ Held(i)

\* An event of t is still to come.
Undone(t, action) ==
  \E i \in 1 .. Len(stream) : Due(i) /\ stream[i].task = t /\ stream[i].action = action
Awaited(t) == \E i \in 1 .. Len(stream) : Due(i) /\ stream[i].task = t

\* What a phase says of the actor is true.
Says(phase, t) ==
  /\ phase = "Suspended" => actor[t].state = "suspended"
  /\ phase = "Running" => actor[t].state \in {"running", "crashed"}

\* A deletion under way has its event, and a record without events is true.
Agreed(t) ==
  t \notin lost =>
    /\ rec[t].phase = "Terminating" => Undone(t, "delete")
    /\ wish[t] = "Terminating" /\ rec[t] # NoRecord => Undone(t, "delete")
    /\ Awaited(t) \/ Says(rec[t].phase, t)

\* A deletion that was asked for last is the last event.
LastWish(t) ==
  wish[t] = "Terminating" =>
    \A i \in 1 .. Len(stream) : stream[i].task = t /\ stream[i].action = "reconcile" =>
      \E j \in 1 .. Len(stream) : j > i /\ stream[j].task = t /\ stream[j].action = "delete"

\* A batch is what was delivered last, in the order of the stream.
InOrder(w) == \A k \in DOMAIN batch[w] : batch[w][k] = position - Len(batch[w]) + k

\* A worker's step goes with its event, and the status it has found is true.
Doing(w) ==
  /\ wpc[w] = "down" => batch[w] = << >>
  /\ wpc[w] \in {"template", "actor", "recreate", "suspend", "resume", "updateGet", "updateSet"} =>
       Ev(w).action = "reconcile"
  /\ wpc[w] \in {"deleteTemplates", "remove"} => Ev(w).action = "delete"
  /\ wpc[w] = "suspend" => wrec[w].phase = "Suspended"
  /\ wpc[w] \in {"updateGet", "updateSet"} => Says(wrec[w].phase, T(w))

QInv ==
  /\ \A t \in Task : Agreed(t) /\ LastWish(t)
  /\ \A w \in Worker : InOrder(w) /\ Doing(w)

-----------------------------------------------------------------------------
(* Events that are due *)

\* The first event of a batch is its head.
LEMMA HeadFacts ==
  ASSUME TypeOK, NEW w \in Worker, batch[w] # << >>
  PROVE  /\ 1 \in DOMAIN batch[w] /\ batch[w][1] = Head(batch[w])
         /\ DOMAIN batch[w] = 1 .. Len(batch[w]) /\ Len(batch[w]) \in Nat
         /\ Head(batch[w]) \in 1 .. Len(stream)
<1>1. batch[w] \in Seq(1 .. Len(stream))
  BY DEF TypeOK
<1>2. Len(batch[w]) \in Nat \ {0} /\ DOMAIN batch[w] = 1 .. Len(batch[w])
  BY <1>1, EmptySeq, LenProperties
<1>3. 1 \in DOMAIN batch[w] /\ batch[w][1] = Head(batch[w])
  BY <1>1, <1>2
<1> QED
  BY <1>2, <1>3, ClaimedEvent

\* A worker's event is due until it is acknowledged.
LEMMA HeadIsDue ==
  ASSUME TypeOK, NEW w \in Worker, batch[w] # << >>, wpc[w] # "ack"
  PROVE  Undone(T(w), Ev(w).action) /\ Awaited(T(w))
<1>1. Held(Head(batch[w])) /\ Head(batch[w]) \in 1 .. Len(stream)
  BY HeadFacts DEF Held
<1> QED
  BY <1>1 DEF Undone, Awaited, Due, T, Ev

\* What is due stays so while a worker is at its event, but for that event at
\* its end.
LEMMA SameDue ==
  ASSUME OneController, TypeOK, NEW w \in Worker, batch[w] # << >>,
         NEW s \in WorkerStep, wpc' = [wpc EXCEPT ![w] = s],
         UNCHANGED <<stream, position, batch>>
  PROVE  /\ \A t \in Task, a \in {"reconcile", "delete"} :
              Undone(t, a) /\ (s # "ack" \/ t # T(w) \/ a # Ev(w).action) => Undone(t, a)'
         /\ \A t \in Task : Awaited(t) /\ (s # "ack" \/ t # T(w)) => Awaited(t)'
<1>1. wpc'[w] = s
  BY DEF TypeOK
<1>2. ASSUME NEW i \in 1 .. Len(stream), Due(i), s # "ack" \/ i # Head(batch[w])
      PROVE  Due(i)'
  <2>1. CASE i > position
    BY <2>1 DEF Due
  <2>2. CASE Held(i)
    <3>1. PICK v \in Worker : \E k \in DOMAIN batch[v] :
                 batch[v][k] = i /\ (k # 1 \/ wpc[v] # "ack")
      BY <2>2 DEF Held
    <3>2. v = w
      BY DEF OneController
    <3>3. PICK k \in DOMAIN batch[w] : batch[w][k] = i
      BY <3>1, <3>2
    <3>4. k # 1 \/ s # "ack"
      BY <1>2, <3>3, HeadFacts
    <3>5. Held(i)'
      BY <1>1, <3>3, <3>4 DEF Held
    <3> QED
      BY <3>5 DEF Due
  <2> QED
    BY <1>2, <2>1, <2>2 DEF Due
<1>3. \A i \in 1 .. Len(stream) :
        stream[i].task # T(w) \/ stream[i].action # Ev(w).action => i # Head(batch[w])
  BY DEF T, Ev
<1>4. ASSUME NEW t \in Task, NEW a \in {"reconcile", "delete"}, Undone(t, a),
             s # "ack" \/ t # T(w) \/ a # Ev(w).action
      PROVE  Undone(t, a)'
  <2>1. PICK i \in 1 .. Len(stream) : Due(i) /\ stream[i].task = t /\ stream[i].action = a
    BY <1>4 DEF Undone
  <2>2. Due(i)'
    BY <1>2, <1>3, <1>4, <2>1
  <2> QED
    BY <2>1, <2>2 DEF Undone
<1>5. ASSUME NEW t \in Task, Awaited(t), s # "ack" \/ t # T(w)
      PROVE  Awaited(t)'
  <2>1. PICK i \in 1 .. Len(stream) : Due(i) /\ stream[i].task = t
    BY <1>5 DEF Awaited
  <2>2. Due(i)'
    BY <1>2, <1>3, <1>5, <2>1
  <2> QED
    BY <2>1, <2>2 DEF Awaited
<1> QED
  BY <1>4, <1>5

\* An event that is due is awaited.
LEMMA UndoneIsAwaited ==
  ASSUME NEW t, NEW a, Undone(t, a)
  PROVE  Awaited(t)
  BY DEF Undone, Awaited

-----------------------------------------------------------------------------
(* Kinds of steps *)

\* Nothing the invariant speaks of.
LEMMA Unseen ==
  ASSUME QInv, UNCHANGED <<rec, wish, stream, position, wpc, wrec, batch, actor, lost>>
  PROVE  QInv'
  BY DEF QInv, Agreed, LastWish, InOrder, Doing, Says, Undone, Awaited, Due, Held, Ev, T

\* A worker goes on with its event.
LEMMA WorkingStep ==
  ASSUME OneController, IInv, QInv, NEW w \in Worker, batch[w] # << >>, wpc[w] # "ack",
         NEW s \in WorkerStep \ {"ack"}, wpc' = [wpc EXCEPT ![w] = s],
         UNCHANGED <<rec, wish, stream, position, batch, lost>>,
         \A t \in Task \ {T(w)} : actor'[t] = actor[t],
         Doing(w)'
  PROVE  QInv'
<1>1. TypeOK
  BY DEF IInv
<1>2. ASSUME NEW t \in Task
      PROVE  Agreed(t)' /\ LastWish(t)'
  <2>1. \A a \in {"reconcile", "delete"} : Undone(t, a) => Undone(t, a)'
    BY <1>1, SameDue
  <2>2. Awaited(t) => Awaited(t)'
    BY <1>1, SameDue
  <2>3. t = T(w) => Awaited(t)'
    BY <1>1, <2>2, HeadIsDue
  <2>4. t # T(w) => \A p : Says(p, t) <=> Says(p, t)'
    BY DEF Says
  <2>5. Agreed(t) /\ LastWish(t)
    BY DEF QInv
  <2>6. Agreed(t)'
    BY <2>1, <2>2, <2>3, <2>4, <2>5 DEF Agreed
  <2> QED
    BY <2>5, <2>6 DEF LastWish
<1>3. ASSUME NEW v \in Worker
      PROVE  InOrder(v)' /\ Doing(v)'
  BY DEF OneController, QInv, InOrder
<1> QED
  BY <1>2, <1>3 DEF QInv

\* A worker is done with its event.
LEMMA FinishStep ==
  ASSUME OneController, IInv, QInv, NEW w \in Worker, batch[w] # << >>, wpc[w] # "ack",
         wpc' = [wpc EXCEPT ![w] = "ack"],
         UNCHANGED <<wish, stream, position, batch, actor>>,
         \A t \in Task \ {T(w)} : rec'[t] = rec[t] /\ (t \in lost' <=> t \in lost),
         \A t \in Task : t = T(w) => Agreed(t)'
  PROVE  QInv'
<1>1. TypeOK /\ "ack" \in WorkerStep
  BY DEF IInv, WorkerStep
<1>2. ASSUME NEW t \in Task
      PROVE  Agreed(t)' /\ LastWish(t)'
  <2>1. t # T(w) => \A a \in {"reconcile", "delete"} : Undone(t, a) => Undone(t, a)'
    BY <1>1, SameDue
  <2>2. t # T(w) => (Awaited(t) => Awaited(t)')
    BY <1>1, SameDue
  <2>3. Agreed(t) /\ LastWish(t)
    BY DEF QInv
  <2>4. \A p : Says(p, t) <=> Says(p, t)'
    BY DEF Says
  <2>5. Agreed(t)'
    BY <2>1, <2>2, <2>3, <2>4 DEF Agreed
  <2> QED
    BY <2>3, <2>5 DEF LastWish
<1>3. ASSUME NEW v \in Worker
      PROVE  InOrder(v)' /\ Doing(v)'
  <2>1. v = w /\ wpc'[w] = "ack"
    BY <1>1 DEF OneController, TypeOK
  <2> QED
    BY <2>1 DEF QInv, InOrder, Doing
<1> QED
  BY <1>2, <1>3 DEF QInv

\* A request writes a record and announces it.
LEMMA AnnounceStep ==
  ASSUME IInv, QInv, NEW t \in Task, NEW a \in {"reconcile", "delete"},
         NEW r \in Record, NEW p,
         stream' = Append(stream, [action |-> a, task |-> t]),
         rec' = [rec EXCEPT ![t] = r], wish' = [wish EXCEPT ![t] = p],
         r.phase = "Terminating" \/ p = "Terminating" => a = "delete",
         UNCHANGED <<position, wpc, wrec, batch, actor, lost>>
  PROVE  QInv'
<1> DEFINE e == [action |-> a, task |-> t]
<1>1. /\ e \in Event /\ e.action = a /\ e.task = t
      /\ Len(stream) \in Nat /\ Len(stream') = Len(stream) + 1
      /\ \A i \in 1 .. Len(stream) : i \in 1 .. Len(stream') /\ stream'[i] = stream[i]
      /\ stream'[Len(stream')] = e /\ Len(stream') \in 1 .. Len(stream')
      /\ position \in 0 .. Len(stream)
  <2>1. e \in Event /\ e.action = a /\ e.task = t
    BY DEF Event
  <2>2. stream \in Seq(Event) /\ position \in 0 .. Len(stream)
    BY DEF IInv, TypeOK
  <2>3. Len(stream) \in Nat
    BY <2>2, LenProperties
  <2> QED
    BY <2>1, <2>2, <2>3, AppendProperties
<1> HIDE DEF e
<1>2. \A i : Due(i) => Due(i)'
  BY DEF Due, Held
<1>3. PICK n \in 1 .. Len(stream') : n > position /\ stream'[n] = e
  BY <1>1
<1>4. \A u \in Task : /\ \A b \in {"reconcile", "delete"} : Undone(u, b) => Undone(u, b)'
                      /\ Awaited(u) => Awaited(u)'
  BY <1>1, <1>2 DEF Undone, Awaited
<1>5. Undone(t, a)' /\ Awaited(t)'
  <2>1. Due(n)'
    BY <1>3 DEF Due
  <2> QED
    BY <1>1, <1>3, <2>1 DEF Undone, Awaited
<1>6. ASSUME NEW u \in Task
      PROVE  Agreed(u)'
  <2>1. CASE u = t
    <3>1. rec'[t] = r /\ wish'[t] = p
      BY DEF IInv, TypeOK
    <3> QED
      BY <1>5, <2>1, <3>1 DEF Agreed
  <2>2. CASE u # t
    <3>1. rec'[u] = rec[u] /\ wish'[u] = wish[u] /\ Agreed(u)
      BY <2>2 DEF IInv, TypeOK, QInv
    <3>2. \A q : Says(q, u) <=> Says(q, u)'
      BY DEF Says
    <3> QED
      BY <1>4, <3>1, <3>2 DEF Agreed
  <2> QED
    BY <2>1, <2>2
<1>7. ASSUME NEW u \in Task
      PROVE  LastWish(u)'
  <2>1. CASE u = t
    <3>1. wish'[t] = p
      BY DEF IInv, TypeOK
    <3>2. SUFFICES ASSUME p = "Terminating", NEW i \in 1 .. Len(stream'),
                          stream'[i].action = "reconcile"
                   PROVE  \E j \in 1 .. Len(stream') :
                            j > i /\ stream'[j].task = t /\ stream'[j].action = "delete"
      BY <2>1, <3>1 DEF LastWish
    <3>3. a = "delete" /\ i # Len(stream')
      BY <1>1, <3>2
    <3>4. Len(stream') > i
      BY <1>1, <3>3
    <3> QED
      BY <1>1, <3>3, <3>4
  <2>2. CASE u # t
    <3>1. wish'[u] = wish[u] /\ LastWish(u)
      BY <2>2 DEF IInv, TypeOK, QInv
    <3>2. SUFFICES ASSUME wish[u] = "Terminating", NEW i \in 1 .. Len(stream'),
                          stream'[i].task = u, stream'[i].action = "reconcile"
                   PROVE  \E j \in 1 .. Len(stream') :
                            j > i /\ stream'[j].task = u /\ stream'[j].action = "delete"
      BY <3>1 DEF LastWish
    <3>3. i # Len(stream')
      BY <1>1, <2>2, <3>2
    <3>4. i \in 1 .. Len(stream) /\ stream[i] = stream'[i]
      BY <1>1, <3>3
    <3>5. PICK j \in 1 .. Len(stream) : j > i /\ stream[j].task = u /\ stream[j].action = "delete"
      BY <3>1, <3>2, <3>4 DEF LastWish
    <3> QED
      BY <1>1, <3>5
  <2> QED
    BY <2>1, <2>2
<1>8. ASSUME NEW w \in Worker
      PROVE  InOrder(w)' /\ Doing(w)'
  <2>1. InOrder(w) /\ Doing(w)
    BY DEF QInv
  <2>2. CASE batch[w] = << >>
    <3>1. wpc[w] \in {"down", "next"}
      BY <2>2 DEF IInv, WorkerHolds
    <3> QED
      BY <2>1, <2>2, <3>1 DEF InOrder, Doing
  <2>3. CASE batch[w] # << >>
    <3>1. Ev(w)' = Ev(w) /\ T(w)' = T(w)
      BY <1>1, <2>3, HeadFacts DEF IInv, Ev, T
    <3> QED
      BY <2>1, <3>1 DEF InOrder, Doing, Says
  <2> QED
    BY <2>2, <2>3
<1> QED
  BY <1>6, <1>7, <1>8 DEF QInv

-----------------------------------------------------------------------------
(* The steps *)

\* Requests.
LEMMA HandleOK ==
  ASSUME IInv, QInv, NEW c \in Client, Handle(c)
  PROVE  QInv'
<1>1. CASE \/ \E t \in Task : \/ \E m \in Manifest : CreateTask(c, t, m)
                              \/ SuspendTask(c, t) \/ ResumeTask(c, t) \/ DeleteTask(c, t)
           \/ Observe(c)
  BY <1>1, Unseen DEF CreateTask, SuspendTask, ResumeTask, DeleteTask, Request, Observe
<1>2. CASE SaveTask(c)
  <2>1. ctask[c] \in Task /\ crec[c] \in Record /\ crec[c].phase \in {"Suspended", "Running"}
    BY <1>2 DEF SaveTask, IInv, TypeOK, RequestHolds
  <2> QED
    BY <1>2, <2>1, AnnounceStep DEF SaveTask
<1>3. CASE MarkTaskDeleting(c)
  <2>1. ctask[c] \in Task /\ crec[c] \in Record
    BY <1>3 DEF MarkTaskDeleting, IInv, TypeOK, RequestHolds
  <2> QED
    BY <1>3, <2>1, AnnounceStep DEF MarkTaskDeleting
<1> QED
  BY <1>1, <1>2, <1>3 DEF Handle

\* The first subscription gives up what came before; a later one goes on.
LEMMA SubscribeQuiet ==
  ASSUME OneController, IInv, QInv, NEW w \in Worker, Subscribe(w)
  PROVE  QInv'
<1>1. /\ UNCHANGED <<rec, wish, stream, wrec, batch, actor>> /\ wpc[w] = "down"
      /\ wpc' = [wpc EXCEPT ![w] = "next"] /\ wpc'[w] = "next" /\ batch[w] = << >>
  BY DEF Subscribe, Goto, QInv, Doing, IInv, TypeOK
<1>2. \A v \in Worker : v = w
  BY DEF OneController
<1>3. \A i : ~ Held(i)
  BY <1>1, <1>2 DEF Held
<1>4. ASSUME NEW t \in Task
      PROVE  Agreed(t)' /\ LastWish(t)'
  <2>1. Agreed(t) /\ LastWish(t)
    BY DEF QInv
  <2>2. \A p : Says(p, t) <=> Says(p, t)'
    BY <1>1 DEF Says
  <2>3. CASE joined
    <3>1. position' = position /\ lost' = lost
      BY <2>3 DEF Subscribe
    <3>2. \A i : Due(i) => Due(i)'
      BY <1>3, <3>1 DEF Due
    <3>3. (\A a \in {"delete"} : Undone(t, a) => Undone(t, a)') /\ (Awaited(t) => Awaited(t)')
      BY <1>1, <3>2 DEF Undone, Awaited
    <3> QED
      BY <1>1, <2>1, <2>2, <3>1, <3>3 DEF Agreed, LastWish
  <2>4. CASE ~ joined
    <3>1. lost' = lost \cup {stream[i].task : i \in DOMAIN stream}
      BY <2>4 DEF Subscribe
    <3>2. DOMAIN stream = 1 .. Len(stream)
      BY LenProperties DEF IInv, TypeOK
    <3>3. t \notin lost' => t \notin lost /\ ~ Awaited(t) /\ ~ Undone(t, "delete")
      BY <3>1, <3>2 DEF Awaited, Undone
    <3> QED
      BY <1>1, <2>1, <2>2, <3>3 DEF Agreed, LastWish
  <2> QED
    BY <2>3, <2>4
<1>5. ASSUME NEW v \in Worker
      PROVE  InOrder(v)' /\ Doing(v)'
  BY <1>1, <1>2 DEF InOrder, Doing
<1> QED
  BY <1>4, <1>5 DEF QInv

\* The next events are in the batch now.
LEMMA ReadGroupQuiet ==
  ASSUME OneController, IInv, QInv, NEW w \in Worker, ReadGroup(w)
  PROVE  QInv'
<1>1. /\ UNCHANGED <<rec, wish, stream, wpc, wrec, actor, lost>> /\ wpc[w] = "next" /\ batch[w] = << >>
      /\ position \in Nat /\ Len(stream) \in Nat /\ position < Len(stream)
  <2>1. Len(stream) \in Nat
    BY LenProperties DEF IInv, TypeOK
  <2> QED
    BY <2>1 DEF ReadGroup, IInv, TypeOK
<1>2. \A v \in Worker : v = w
  BY DEF OneController
<1>3. PICK last \in position + 1 .. Len(stream) :
        /\ batch' = [batch EXCEPT ![w] = [i \in 1 .. (last - position) |-> position + i]]
        /\ position' = last
  <2> DEFINE end == IF position + BatchSize < Len(stream) THEN position + BatchSize ELSE Len(stream)
  <2>1. end \in position + 1 .. Len(stream)
    BY <1>1, BatchAssumption
  <2>2. /\ batch' = [batch EXCEPT ![w] = [i \in 1 .. (end - position) |-> position + i]]
        /\ position' = end
    BY DEF ReadGroup
  <2> QED
    BY <2>1, <2>2
<1>4. batch'[w] = [i \in 1 .. (last - position) |-> position + i]
  BY <1>3 DEF IInv, TypeOK
<1>5. ASSUME NEW i \in 1 .. Len(stream), Due(i)
      PROVE  Due(i)'
  <2>1. i > position
    BY <1>1, <1>2, <1>5 DEF Due, Held
  <2>2. CASE i > last
    BY <1>3, <2>2 DEF Due
  <2>3. CASE i <= last
    <3>1. i - position \in DOMAIN batch'[w] /\ batch'[w][i - position] = i
      BY <1>1, <1>3, <1>4, <2>1, <2>3
    <3>2. Held(i)'
      BY <1>1, <3>1 DEF Held
    <3> QED
      BY <3>2 DEF Due
  <2> QED
    BY <2>2, <2>3, <1>1, <1>3
<1>6. ASSUME NEW t \in Task
      PROVE  Agreed(t)' /\ LastWish(t)'
  <2>1. (Undone(t, "delete") => Undone(t, "delete")') /\ (Awaited(t) => Awaited(t)')
    BY <1>1, <1>5 DEF Undone, Awaited
  <2>2. Agreed(t) /\ LastWish(t) /\ (\A p : Says(p, t) <=> Says(p, t)')
    BY <1>1 DEF QInv, Says
  <2> QED
    BY <1>1, <2>1, <2>2 DEF Agreed, LastWish
<1>7. ASSUME NEW v \in Worker
      PROVE  InOrder(v)' /\ Doing(v)'
  <2>1. v = w
    BY <1>2
  <2>2. Len(batch'[w]) = last - position
    BY <1>1, <1>3, <1>4
  <2>3. InOrder(w)'
    BY <1>1, <1>3, <1>4, <2>2 DEF InOrder
  <2> QED
    BY <1>1, <2>1, <2>3 DEF Doing
<1> QED
  BY <1>6, <1>7 DEF QInv

\* The head of the batch goes.
LEMMA AckQuiet ==
  ASSUME OneController, IInv, QInv, NEW w \in Worker, Ack(w)
  PROVE  QInv'
<1>1. /\ UNCHANGED <<rec, wish, stream, position, actor, lost>> /\ wpc[w] = "ack"
      /\ wpc'[w] = "next" /\ batch[w] # << >> /\ batch'[w] = Tail(batch[w])
  BY DEF Ack, Goto, IInv, TypeOK, WorkerHolds
<1>2. \A v \in Worker : v = w
  BY DEF OneController
<1>3. /\ batch[w] \in Seq(1 .. Len(stream)) /\ Len(batch[w]) \in Nat \ {0}
      /\ DOMAIN batch[w] = 1 .. Len(batch[w])
      /\ Len(batch'[w]) = Len(batch[w]) - 1 /\ DOMAIN batch'[w] = 1 .. Len(batch[w]) - 1
      /\ \A k \in 1 .. Len(batch[w]) - 1 : batch'[w][k] = batch[w][k + 1]
  <2>1. batch[w] \in Seq(1 .. Len(stream))
    BY DEF IInv, TypeOK
  <2>2. Tail(batch[w]) \in Seq(1 .. Len(stream))
    BY <1>1, <2>1, HeadTailProperties
  <2> QED
    BY <1>1, <2>1, <2>2, EmptySeq, LenProperties, HeadTailProperties
<1>4. ASSUME NEW i, Due(i)
      PROVE  Due(i)'
  <2>1. CASE i > position
    BY <1>1, <2>1 DEF Due
  <2>2. CASE Held(i)
    <3>1. PICK k \in DOMAIN batch[w] : batch[w][k] = i /\ k # 1
      BY <1>1, <1>2, <2>2 DEF Held
    <3>2. PICK j \in 1 .. Len(batch[w]) - 1 : k = j + 1
      <4>1. k - 1 \in 1 .. Len(batch[w]) - 1 /\ k = (k - 1) + 1
        BY <1>3, <3>1
      <4> QED
        BY <4>1
    <3>3. j \in DOMAIN batch'[w] /\ batch'[w][j] = i
      BY <1>3, <3>1, <3>2
    <3>4. Held(i)'
      BY <1>1, <3>3 DEF Held
    <3> QED
      BY <3>4 DEF Due
  <2> QED
    BY <1>4, <2>1, <2>2 DEF Due
<1>5. ASSUME NEW t \in Task
      PROVE  Agreed(t)' /\ LastWish(t)'
  <2>1. (Undone(t, "delete") => Undone(t, "delete")') /\ (Awaited(t) => Awaited(t)')
    BY <1>1, <1>4 DEF Undone, Awaited
  <2>2. Agreed(t) /\ LastWish(t) /\ (\A p : Says(p, t) <=> Says(p, t)')
    BY <1>1 DEF QInv, Says
  <2> QED
    BY <1>1, <2>1, <2>2 DEF Agreed, LastWish
<1>6. ASSUME NEW v \in Worker
      PROVE  InOrder(v)' /\ Doing(v)'
  <2>1. v = w
    BY <1>2
  <2>2. InOrder(w) /\ position \in Int
    BY DEF QInv, IInv, TypeOK
  <2>3. ASSUME NEW k \in 1 .. Len(batch[w]) - 1
        PROVE  batch'[w][k] = position - Len(batch'[w]) + k
    <3>1. k + 1 \in DOMAIN batch[w]
      BY <1>3
    <3>2. batch[w][k + 1] = position - Len(batch[w]) + (k + 1)
      BY <2>2, <3>1 DEF InOrder
    <3>3. batch'[w][k] = batch[w][k + 1]
      BY <1>3
    <3>4. batch'[w][k] = position - Len(batch[w]) + (k + 1)
      BY <3>2, <3>3
    <3>5. /\ k \in Int /\ position \in Int /\ Len(batch[w]) \in Int
          /\ Len(batch'[w]) = Len(batch[w]) - 1
      BY <1>3, <2>2
    <3>6. \A x, y, z \in Int : x - y + (z + 1) = x - (y - 1) + z
      OBVIOUS
    <3> QED
      BY <3>4, <3>5, <3>6
  <2>4. InOrder(w)'
    BY <1>1, <1>3, <2>3 DEF InOrder
  <2> QED
    BY <1>1, <2>1, <2>4 DEF Doing
<1> QED
  BY <1>5, <1>6 DEF QInv

\* A dying controller gives its batch up.
LEMMA CrashQuiet ==
  ASSUME OneController, IInv, QInv, NEW w \in Worker, Crash(w)
  PROVE  QInv'
<1>1. /\ UNCHANGED <<rec, wish, stream, position, actor>>
      /\ wpc'[w] = "down" /\ batch'[w] = << >>
      /\ lost' = lost \cup {stream[batch[w][i]].task : i \in DOMAIN batch[w]}
  BY DEF Crash, Goto, IInv, TypeOK
<1>2. \A v \in Worker : v = w
  BY DEF OneController
<1>3. ASSUME NEW t \in Task, t \notin lost', NEW i \in 1 .. Len(stream), Due(i), stream[i].task = t
      PROVE  Due(i)'
  <2>1. ~ Held(i)
    BY <1>1, <1>2, <1>3 DEF Held
  <2> QED
    BY <1>1, <1>3, <2>1 DEF Due
<1>4. ASSUME NEW t \in Task
      PROVE  Agreed(t)' /\ LastWish(t)'
  <2>1. t \notin lost' => /\ Undone(t, "delete") => Undone(t, "delete")'
                          /\ Awaited(t) => Awaited(t)'
    BY <1>1, <1>3 DEF Undone, Awaited
  <2>2. Agreed(t) /\ LastWish(t) /\ (\A p : Says(p, t) <=> Says(p, t)') /\ (t \notin lost' => t \notin lost)
    BY <1>1 DEF QInv, Says
  <2> QED
    BY <1>1, <2>1, <2>2 DEF Agreed, LastWish
<1>5. ASSUME NEW v \in Worker
      PROVE  InOrder(v)' /\ Doing(v)'
  BY <1>1, <1>2 DEF InOrder, Doing
<1> QED
  BY <1>4, <1>5 DEF QInv

\* Substrate's own steps leave true what a phase says.
LEMMA SubstrateQuiet ==
  ASSUME IInv, QInv, NEW t \in Task, ActorCrashes(t) \/ ActorGone(t)
  PROVE  QInv'
<1>1. /\ UNCHANGED <<rec, wish, stream, position, wpc, wrec, batch, lost>>
      /\ \A u \in Task : actor'[u] = actor[u]
           \/ (actor[u].state = "running" /\ actor'[u].state = "crashed")
           \/ actor[u].state = "deleting"
  <2>1. actor \in [Task -> Actor \cup {NoActor}]
    BY DEF IInv, TypeOK
  <2>2. UNCHANGED <<rec, wish, stream, position, wpc, wrec, batch, lost>>
    BY DEF ActorCrashes, ActorGone
  <2>3. \A u \in Task \ {t} : actor'[u] = actor[u]
    BY <2>1 DEF ActorCrashes, ActorGone
  <2>4. CASE ActorCrashes(t)
    <3>1. actor[t] \in Actor /\ actor'[t] = [actor[t] EXCEPT !.state = "crashed"]
      BY <2>1, <2>4, Absences DEF ActorCrashes
    <3>2. actor'[t].state = "crashed"
      BY <3>1 DEF Actor
    <3>3. actor[t].state = "running"
      BY <2>4 DEF ActorCrashes
    <3>4. ASSUME NEW u \in Task
          PROVE  actor'[u] = actor[u] \/ (actor[u].state = "running" /\ actor'[u].state = "crashed")
      BY <2>3, <3>2, <3>3
    <3> QED
      BY <2>2, <3>4
  <2>5. CASE ActorGone(t)
    <3>1. actor[t].state = "deleting"
      BY <2>5 DEF ActorGone
    <3>2. ASSUME NEW u \in Task
          PROVE  actor'[u] = actor[u] \/ actor[u].state = "deleting"
      BY <2>3, <3>1
    <3> QED
      BY <2>2, <3>2
  <2> QED
    BY <2>4, <2>5
<1>2. \A u \in Task, p \in Phase \cup {"none"} : Says(p, u) => Says(p, u)'
  BY <1>1 DEF Says
<1>3. ASSUME NEW u \in Task
      PROVE  Agreed(u)' /\ LastWish(u)'
  <2>1. Agreed(u) /\ LastWish(u) /\ rec[u].phase \in Phase \cup {"none"}
    BY Absences DEF QInv, IInv, TypeOK
  <2>2. (Undone(u, "delete") <=> Undone(u, "delete")') /\ (Awaited(u) <=> Awaited(u)')
    BY <1>1 DEF Undone, Awaited, Due, Held
  <2> QED
    BY <1>1, <1>2, <2>1, <2>2 DEF Agreed, LastWish
<1>4. ASSUME NEW w \in Worker
      PROVE  InOrder(w)' /\ Doing(w)'
  <2>1. InOrder(w) /\ Doing(w)
    BY DEF QInv
  <2>2. Ev(w)' = Ev(w) /\ T(w)' = T(w)
    BY <1>1 DEF Ev, T
  <2>3. wpc[w] \in {"updateGet", "updateSet"} => T(w) \in Task /\ wrec[w].phase \in Phase
    <3>1. SUFFICES ASSUME wpc[w] \in {"updateGet", "updateSet"}
                   PROVE  T(w) \in Task /\ wrec[w].phase \in Phase
      OBVIOUS
    <3>2. batch[w] # << >> /\ wrec[w] \in Record
      BY <3>1 DEF IInv, WorkerHolds, WorkerStep
    <3> QED
      BY <3>2, ClaimedEvent, Absences DEF IInv
  <2> QED
    BY <1>1, <1>2, <2>1, <2>2, <2>3 DEF InOrder, Doing
<1> QED
  BY <1>3, <1>4 DEF QInv

-----------------------------------------------------------------------------
(* The worker at its event *)

\* An event is at hand in every step of its handling.
LEMMA AtHand ==
  ASSUME IInv, QInv, NEW w \in Worker, batch[w] # << >>
  PROVE  /\ TypeOK /\ T(w) \in Task /\ Ev(w).action \in {"reconcile", "delete"}
         /\ Doing(w) /\ wpc[w] \in WorkerStep
         /\ (UNCHANGED <<stream, batch>> => Ev(w)' = Ev(w) /\ T(w)' = T(w))
<1>1. TypeOK /\ Ev(w) \in Event /\ T(w) \in Task
  BY ClaimedEvent DEF IInv
<1> QED
  BY <1>1 DEF QInv, TypeOK, Event, Ev, T

\* A Task that is gone needs nothing, one that is being deleted has its event.
LEMMA GetTaskQuiet ==
  ASSUME OneController, IInv, QInv, NEW w \in Worker, GetTask(w)
  PROVE  QInv'
<1>1. /\ batch[w] # << >> /\ wpc[w] = "next" /\ Ev(w).action = "reconcile"
      /\ UNCHANGED <<rec, wish, stream, position, batch, actor>>
  BY DEF GetTask
<1>2. TypeOK /\ T(w) \in Task /\ Ev(w)' = Ev(w) /\ T(w)' = T(w)
  BY <1>1, AtHand
<1>3. CASE rec[T(w)].phase \in {"none", "Terminating"}
  <2>1. wpc' = [wpc EXCEPT ![w] = "ack"]
    BY <1>3 DEF GetTask, Goto
  <2>2. \A t \in Task \ {T(w)} : rec'[t] = rec[t] /\ (t \in lost' <=> t \in lost)
    BY <1>1 DEF GetTask
  <2>3. ASSUME NEW t \in Task, t = T(w)
        PROVE  Agreed(t)'
    <3>1. CASE rec[t] = NoRecord
      BY <1>1, <3>1, Absences DEF Agreed, Says
    <3>2. CASE rec[t] # NoRecord
      <4>1. rec[t].phase = "Terminating" /\ lost' = lost
        BY <1>2, <1>3, <2>3, <3>2, Absences DEF GetTask, TypeOK, Phase
      <4>2. t \notin lost => Undone(t, "delete")
        BY <4>1 DEF QInv, Agreed
      <4>3. t \notin lost => Undone(t, "delete")'
        BY <1>1, <1>2, <2>1, <4>2, SameDue DEF WorkerStep
      <4>4. t \notin lost => Awaited(t)'
        BY <4>3 DEF Undone, Awaited
      <4> QED
        BY <4>1, <4>3, <4>4 DEF Agreed
    <3> QED
      BY <3>1, <3>2
  <2> QED
    BY <1>1, <2>1, <2>2, <2>3, FinishStep
<1>4. CASE rec[T(w)].phase \notin {"none", "Terminating"}
  <2>1. wpc' = [wpc EXCEPT ![w] = "template"] /\ wpc'[w] = "template" /\ lost' = lost
    BY <1>2, <1>4, Absences DEF GetTask, Goto, TypeOK
  <2>2. Doing(w)'
    BY <1>1, <1>2, <2>1 DEF Doing
  <2> QED
    BY <1>1, <2>1, <2>2, WorkingStep DEF WorkerStep
<1> QED
  BY <1>3, <1>4

\* The steps towards the actor.
LEMMA DrivingQuiet ==
  ASSUME OneController, IInv, QInv, NEW w \in Worker,
         EnsureTemplate(w) \/ EnsureActor(w) \/ Recreate(w) \/ SuspendActor(w) \/ ResumeActor(w)
  PROVE  QInv'
<1>1. /\ wpc[w] \in {"template", "actor", "recreate", "suspend", "resume"}
      /\ UNCHANGED <<rec, wish, stream, position, batch, lost>>
      /\ \A t \in Task \ {T(w)} : actor'[t] = actor[t]
  BY DEF EnsureTemplate, EnsureActor, Recreate, SuspendActor, ResumeActor, IInv, TypeOK
<1>2. batch[w] # << >> /\ wrec[w] \in Record
  BY <1>1 DEF IInv, WorkerHolds, WorkerStep
<1>3. /\ TypeOK /\ T(w) \in Task /\ Ev(w).action = "reconcile" /\ Ev(w)' = Ev(w) /\ T(w)' = T(w)
      /\ wpc[w] = "suspend" => wrec[w].phase = "Suspended"
  BY <1>1, <1>2, AtHand DEF Doing
<1>4. PICK s \in WorkerStep \ {"ack"} : /\ wpc' = [wpc EXCEPT ![w] = s] /\ s # "down"
                                        /\ s \notin {"deleteTemplates", "remove"}
  BY DEF EnsureTemplate, EnsureActor, Recreate, SuspendActor, ResumeActor, Goto, Error, Drive, WorkerStep
<1>5. wpc'[w] = s
  BY <1>3, <1>4 DEF TypeOK
<1>6. s = "suspend" => wrec'[w].phase = "Suspended"
  BY <1>3, <1>4, <1>5
     DEF EnsureTemplate, EnsureActor, Recreate, SuspendActor, ResumeActor, Goto, Error, Drive, TypeOK
<1>7. s \in {"updateGet", "updateSet"} =>
        \/ wrec'[w].phase = "Failed"
        \/ wrec'[w].phase = "Suspended" /\ actor'[T(w)].state = "suspended"
        \/ wrec'[w].phase = "Running" /\ actor'[T(w)].state = "running"
  <2>1. actor[T(w)] \in Actor \cup {NoActor} /\ wrec[w] \in Record /\ wrec \in [Worker -> Record \cup {NoRecord}]
        /\ actor \in [Task -> Actor \cup {NoActor}]
    BY <1>2, <1>3 DEF TypeOK
  <2>2. CASE EnsureTemplate(w) \/ EnsureActor(w)
    BY <1>3, <1>4, <1>5, <2>2 DEF EnsureTemplate, EnsureActor, Goto, Drive, TypeOK
  <2>3. CASE Recreate(w)
    BY <1>2, <1>3, <1>4, <1>5, <2>1, <2>3 DEF Recreate, Goto, Drive, Error, TypeOK, Record
  <2>4. CASE SuspendActor(w)
    <3>1. CASE actor[T(w)].state \in {"suspended", "running"}
      <4>1. actor[T(w)] \in Actor /\ wrec' = wrec /\ wrec[w].phase = "Suspended"
        BY <1>3, <2>1, <2>4, <3>1, Absences DEF SuspendActor
      <4>2. actor'[T(w)].state = "suspended"
        BY <1>3, <2>1, <2>4, <3>1, <4>1 DEF SuspendActor, Actor
      <4> QED
        BY <4>1, <4>2
    <3>2. CASE actor[T(w)].state \notin {"suspended", "running"}
      BY <2>1, <2>4, <3>2 DEF SuspendActor, Error, Record
    <3> QED
      BY <3>1, <3>2
  <2>5. CASE ResumeActor(w)
    <3>1. CASE actor[T(w)].state \in {"suspended", "running"}
      <4>1. actor[T(w)] \in Actor /\ wrec'[w].phase = "Running"
        BY <1>3, <2>1, <2>5, <3>1, Absences DEF ResumeActor, Record
      <4>2. actor'[T(w)].state = "running"
        BY <1>3, <2>1, <2>5, <3>1, <4>1 DEF ResumeActor, Actor
      <4> QED
        BY <4>1, <4>2
    <3>2. CASE actor[T(w)].state \notin {"suspended", "running"}
      BY <2>1, <2>5, <3>2 DEF ResumeActor, Error, Record
    <3> QED
      BY <3>1, <3>2
  <2> QED
    BY <2>2, <2>3, <2>4, <2>5
<1>8. Doing(w)'
  BY <1>3, <1>4, <1>5, <1>6, <1>7 DEF Doing, Says
<1> QED
  BY <1>1, <1>2, <1>4, <1>8, WorkingStep

\* The status that was read again is that of a record, which is still there.
LEMMA UpdateGetQuiet ==
  ASSUME OneController, IInv, QInv, NEW w \in Worker, UpdateGet(w)
  PROVE  QInv'
<1>1. wpc[w] = "updateGet" /\ UNCHANGED <<rec, wish, stream, position, batch, actor, lost>>
  BY DEF UpdateGet
<1>2. batch[w] # << >> /\ wrec[w] \in Record /\ rec[T(w)] # NoRecord
  BY <1>1 DEF IInv, WorkerHolds, WorkerStep
<1>3. /\ T(w) \in Task /\ Ev(w).action = "reconcile" /\ Ev(w)' = Ev(w) /\ T(w)' = T(w)
      /\ Says(wrec[w].phase, T(w)) /\ TypeOK
  BY <1>1, <1>2, AtHand DEF Doing
<1>4. wpc' = [wpc EXCEPT ![w] = "updateSet"] /\ wpc'[w] = "updateSet" /\ wrec'[w].phase = wrec[w].phase
  BY <1>2, <1>3 DEF UpdateGet, Goto, TypeOK, Record
<1>5. Doing(w)'
  BY <1>1, <1>3, <1>4 DEF Doing, Says
<1> QED
  BY <1>1, <1>2, <1>4, <1>5, WorkingStep DEF WorkerStep

\* The place of an entry in a batch that ends at p and holds l of them.
LEMMA Shifted ==
  ASSUME NEW j \in Int, NEW p \in Int, NEW l \in Nat, j > p - l + 1, j <= p
  PROVE  /\ j - p + l \in Int /\ j - p + l > 1 /\ j - p + l <= l
         /\ p - l + (j - p + l) = j
  OBVIOUS

\* The status says the truth, and a deletion asked for since has its event.
LEMMA UpdateSetQuiet ==
  ASSUME OneController, IInv, QInv, NEW w \in Worker, UpdateSet(w)
  PROVE  QInv'
<1>1. /\ wpc[w] = "updateSet" /\ UNCHANGED <<wish, stream, position, batch, actor>>
      /\ wpc' = [wpc EXCEPT ![w] = "ack"] /\ lost' = lost \ {T(w)}
      /\ rec' = [rec EXCEPT ![T(w)] = wrec[w]]
  BY DEF UpdateSet, Goto
<1>2. batch[w] # << >> /\ wrec[w] \in Record /\ wrec[w].phase # "Terminating"
  BY <1>1 DEF IInv, WorkerHolds, WorkerStep
<1>3. TypeOK /\ T(w) \in Task /\ Ev(w).action = "reconcile" /\ Says(wrec[w].phase, T(w))
  BY <1>1, <1>2, AtHand DEF Doing
<1>4. \A t \in Task \ {T(w)} : rec'[t] = rec[t] /\ (t \in lost' <=> t \in lost)
  BY <1>1, <1>3 DEF TypeOK
<1>5. ASSUME NEW t \in Task, t = T(w), wish[t] = "Terminating"
      PROVE  Undone(t, "delete")'
  <2>1. /\ Head(batch[w]) \in 1 .. Len(stream) /\ batch[w][1] = Head(batch[w]) /\ 1 \in DOMAIN batch[w]
        /\ DOMAIN batch[w] = 1 .. Len(batch[w]) /\ Len(batch[w]) \in Nat
    BY <1>2, <1>3, HeadFacts
  <2>2. stream[Head(batch[w])].task = t /\ stream[Head(batch[w])].action = "reconcile"
    BY <1>3, <1>5 DEF T, Ev
  <2>3. PICK j \in 1 .. Len(stream) :
          j > Head(batch[w]) /\ stream[j].task = t /\ stream[j].action = "delete"
    BY <1>5, <2>1, <2>2 DEF QInv, LastWish
  <2>4. position \in Int /\ \A k \in DOMAIN batch[w] : batch[w][k] = position - Len(batch[w]) + k
    BY <1>3 DEF QInv, InOrder, TypeOK
  <2>5. CASE j > position
    BY <1>1, <2>3, <2>5 DEF Undone, Due
  <2>6. CASE j <= position
    <3> DEFINE k == j - position + Len(batch[w])
    <3>1. k \in DOMAIN batch[w] /\ k # 1 /\ batch[w][k] = j
      <4>1. batch[w][1] = position - Len(batch[w]) + 1
        BY <2>1, <2>4
      <4>2. j \in Int /\ j > batch[w][1]
        BY <2>1, <2>3
      <4>3. k \in Int /\ k > 1 /\ k <= Len(batch[w]) /\ position - Len(batch[w]) + k = j
        BY <2>1, <2>4, <2>6, <4>1, <4>2, Shifted
      <4>4. k \in DOMAIN batch[w]
        BY <2>1, <4>3
      <4> QED
        BY <2>4, <4>3, <4>4
    <3>2. Held(j)'
      BY <1>1, <3>1 DEF Held
    <3> QED
      BY <1>1, <2>3, <3>2 DEF Undone, Due
  <2> QED
    BY <2>3, <2>4, <2>5, <2>6
<1>6. ASSUME NEW t \in Task, t = T(w)
      PROVE  Agreed(t)'
  <2>1. rec'[t] = wrec[w]
    BY <1>1, <1>3, <1>6 DEF TypeOK
  <2>2. Says(wrec[w].phase, t)'
    BY <1>1, <1>3, <1>6, <1>2 DEF UpdateSet, Says
  <2> QED
    BY <1>1, <1>2, <1>5, <1>6, <2>1, <2>2 DEF Agreed, UpdateSet
<1> QED
  BY <1>1, <1>2, <1>4, <1>6, FinishStep

\* A deletion.
LEMMA DeletionQuiet ==
  ASSUME OneController, IInv, QInv, NEW w \in Worker, ReconcileDelete(w)
  PROVE  QInv'
<1>1. /\ batch[w] # << >> /\ UNCHANGED <<wish, stream, position, batch>>
      /\ wpc[w] \in {"next", "deleteTemplates", "remove"}
  BY DEF ReconcileDelete, DeleteActor, DeleteTemplates, RemoveTask, IInv, WorkerHolds
<1>2. TypeOK /\ T(w) \in Task /\ Ev(w)' = Ev(w) /\ T(w)' = T(w) /\ Doing(w)
  BY <1>1, AtHand
<1>3. CASE DeleteActor(w)
  <2>1. /\ wpc' = [wpc EXCEPT ![w] = "deleteTemplates"] /\ wpc'[w] = "deleteTemplates"
        /\ UNCHANGED <<rec, lost>> /\ Ev(w).action = "delete"
    BY <1>2, <1>3 DEF DeleteActor, Goto, TypeOK
  <2>2. \A t \in Task \ {T(w)} : actor'[t] = actor[t]
    BY <1>2, <1>3 DEF DeleteActor, TypeOK
  <2>3. Doing(w)'
    BY <1>2, <2>1 DEF Doing
  <2> QED
    BY <1>1, <2>1, <2>2, <2>3, WorkingStep DEF WorkerStep
<1>4. CASE DeleteTemplates(w)
  <2>1. /\ wpc' = [wpc EXCEPT ![w] = "remove"] /\ wpc'[w] = "remove"
        /\ UNCHANGED <<rec, lost, actor>> /\ Ev(w).action = "delete"
    BY <1>2, <1>4 DEF DeleteTemplates, Goto, TypeOK, Doing
  <2>2. Doing(w)'
    BY <1>2, <2>1 DEF Doing
  <2> QED
    BY <1>1, <2>1, <2>2, WorkingStep DEF WorkerStep
<1>5. CASE RemoveTask(w)
  <2>1. /\ wpc' = [wpc EXCEPT ![w] = "ack"] /\ actor' = actor
        /\ rec' = [rec EXCEPT ![T(w)] = NoRecord] /\ lost' = lost \ {T(w)}
    BY <1>5 DEF RemoveTask, Goto
  <2>2. \A t \in Task \ {T(w)} : rec'[t] = rec[t] /\ (t \in lost' <=> t \in lost)
    BY <1>2, <2>1 DEF TypeOK
  <2>3. ASSUME NEW t \in Task, t = T(w)
        PROVE  Agreed(t)'
    <3>1. rec'[t] = NoRecord
      BY <1>2, <2>1, <2>3 DEF TypeOK
    <3> QED
      BY <3>1, Absences DEF Agreed, Says
  <2> QED
    BY <1>1, <2>1, <2>2, <2>3, FinishStep
<1> QED
  BY <1>3, <1>4, <1>5 DEF ReconcileDelete

\* A failing call is recorded or gives the event up.
LEMMA FailuresQuiet ==
  ASSUME OneController, IInv, QInv, NEW w \in Worker, CallFails(w) \/ RedisFails(w)
  PROVE  QInv'
<1>1. /\ batch[w] # << >> /\ wpc[w] # "ack"
      /\ UNCHANGED <<rec, wish, stream, position, batch, actor>>
  BY DEF CallFails, RedisFails, IInv, WorkerHolds
<1>2. TypeOK /\ T(w) \in Task /\ Ev(w)' = Ev(w) /\ T(w)' = T(w) /\ Doing(w)
  BY <1>1, AtHand
<1>3. CASE wpc[w] \in {"template", "actor", "suspend", "resume"} /\ Error(w) /\ UNCHANGED lost
  <2>1. wpc' = [wpc EXCEPT ![w] = "updateGet"] /\ wpc'[w] = "updateGet" /\ wrec'[w].phase = "Failed"
    <3>1. wrec[w] \in Record
      BY <1>3 DEF IInv, WorkerHolds, WorkerStep
    <3> QED
      BY <1>2, <1>3, <3>1 DEF Error, Goto, TypeOK, Record
  <2>2. Doing(w)'
    BY <1>2, <1>3, <2>1 DEF Doing, Says
  <2> QED
    BY <1>1, <1>3, <2>1, <2>2, WorkingStep DEF WorkerStep
<1>4. CASE Goto(w, "ack") /\ lost' = lost \cup {T(w)}
  <2>1. wpc' = [wpc EXCEPT ![w] = "ack"]
    BY <1>4 DEF Goto
  <2>2. \A t \in Task \ {T(w)} : rec'[t] = rec[t] /\ (t \in lost' <=> t \in lost)
    BY <1>1, <1>4
  <2>3. \A t \in Task : t = T(w) => Agreed(t)'
    BY <1>4 DEF Agreed
  <2> QED
    BY <1>1, <2>1, <2>2, <2>3, FinishStep
<1>5. CASE wpc[w] = "deleteTemplates" /\ Goto(w, "remove") /\ UNCHANGED lost
  <2>1. wpc' = [wpc EXCEPT ![w] = "remove"] /\ wpc'[w] = "remove" /\ Ev(w).action = "delete"
    BY <1>2, <1>5 DEF Goto, TypeOK, Doing
  <2>2. Doing(w)'
    BY <1>2, <2>1 DEF Doing
  <2> QED
    BY <1>1, <1>5, <2>1, <2>2, WorkingStep DEF WorkerStep
<1> QED
  BY <1>3, <1>4, <1>5 DEF CallFails, RedisFails

-----------------------------------------------------------------------------
(* The theorems *)

\* With one controller an event is due until its Task needs it no more.
THEOREM Quietness ==
  ASSUME OneController
  PROVE  Spec => [](IInv /\ QInv)
<1>1. Init => QInv
  <2>1. SUFFICES ASSUME Init
                 PROVE  QInv
    OBVIOUS
  <2>2. \A t \in Task : Agreed(t) /\ LastWish(t)
    BY <2>1, Absences DEF Init, Agreed, LastWish, Says
  <2>3. \A w \in Worker : InOrder(w) /\ Doing(w)
    BY <2>1 DEF Init, InOrder, Doing
  <2> QED
    BY <2>2, <2>3 DEF QInv
<1>2. OneController /\ IInv /\ QInv /\ [Next]_vars => QInv'
  <2>1. SUFFICES ASSUME OneController, IInv, QInv, [Next]_vars
                 PROVE  QInv'
    OBVIOUS
  <2>2. CASE UNCHANGED vars
    BY <2>1, <2>2, Unseen DEF vars
  <2>3. ASSUME NEW c \in Client, Handle(c)
        PROVE  QInv'
    BY <2>1, <2>3, HandleOK
  <2>4. ASSUME NEW w \in Worker, Run(w) \/ CallFails(w) \/ RedisFails(w) \/ Crash(w)
        PROVE  QInv'
    BY <2>1, <2>4, SubscribeQuiet, ReadGroupQuiet, AckQuiet, GetTaskQuiet, DrivingQuiet,
       UpdateGetQuiet, UpdateSetQuiet, DeletionQuiet, FailuresQuiet, CrashQuiet DEF Run, Reconcile
  <2>5. ASSUME NEW t \in Task, ActorCrashes(t) \/ ActorGone(t)
        PROVE  QInv'
    BY <2>1, <2>5, SubstrateQuiet
  <2> QED
    BY <2>1, <2>2, <2>3, <2>4, <2>5 DEF Next
<1> QED
  BY <1>1, <1>2, Invariance, PTL DEF Spec

\* What is quiet is not awaited.
LEMMA QuietIsDone ==
  ASSUME TypeOK, NEW t \in Task, Quiet(t)
  PROVE  t \notin lost /\ ~ Awaited(t) /\ ~ Undone(t, "delete")
<1>1. ~ Awaited(t)
  <2>1. SUFFICES ASSUME NEW i \in 1 .. Len(stream), Due(i), stream[i].task = t
                 PROVE  FALSE
    BY DEF Awaited
  <2>2. Len(stream) \in Nat /\ position \in Nat
    BY LenProperties DEF TypeOK
  <2>3. CASE i > position
    BY <2>1, <2>2, <2>3 DEF Quiet
  <2>4. CASE Held(i)
    BY <2>1, <2>4 DEF Quiet, Held
  <2> QED
    BY <2>1, <2>3, <2>4 DEF Due
<1> QED
  BY <1>1, UndoneIsAwaited DEF Quiet

\* Once the events of a Task are processed, its record and its actor agree,
\* whatever requests crossed the worker's steps.
THEOREM QuietTasksAgree ==
  ASSUME OneController
  PROVE  Spec => []QuietAgrees
<1>1. IInv /\ QInv => QuietAgrees
  <2>1. SUFFICES ASSUME IInv, QInv, NEW t \in Task, Quiet(t)
                 PROVE  QuietAgrees!(t)!2
    BY DEF QuietAgrees
  <2>2. rec[t].phase # "Terminating" /\ Says(rec[t].phase, t)
    BY <2>1, QuietIsDone DEF QInv, Agreed, IInv
  <2>3. rec[t] = NoRecord => ~ Live(t)
    BY <2>1 DEF IInv, NoOrphanActor
  <2> QED
    BY <2>2, <2>3 DEF Says
<1> QED
  BY <1>1, Quietness, PTL

\* A Task whose deletion was asked for last is gone once its events are processed.
THEOREM DeletionsPrevail ==
  ASSUME OneController
  PROVE  Spec => []DeletePrevails
<1>1. IInv /\ QInv => DeletePrevails
  BY QuietIsDone DEF QInv, Agreed, IInv, DeletePrevails
<1> QED
  BY <1>1, Quietness, PTL
=============================================================================
