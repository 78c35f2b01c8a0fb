--------------------------- MODULE StoreRefinement ---------------------------
(***************************************************************************)
(* Store implements Registry: events are not lost but in a full queue, and *)
(* a watcher that is not cut off is told every write in turn.  What the    *)
(* watches hold is an invariant of its own, from which the types of the    *)
(* remaining variables follow too.                                         *)
(***************************************************************************)
EXTENDS StoreProofs, FiniteSetTheorems

Message == [write : Nat, obj : Nat]

\* The message the server is at is still the first of the channel.
Sent(c) == IF At(c, "sent") THEN 1 ELSE 0

WatchTyped ==
  /\ told \in [Client -> Nat] /\ skipped \subseteq Client
  /\ wire \in [Client -> Seq(Nat)] /\ chan \in [Client -> Seq(Message)]

\* Channel and wire hold writes; nothing is kept for a client that does not watch.
Feed(c) ==
  /\ told[c] \in 0 .. Len(writes)
  /\ \A i \in 1 .. Len(wire[c]) : wire[c][i] \in 1 .. Len(writes)
  /\ \A i \in 1 .. Len(chan[c]) : chan[c][i].write \in 1 .. Len(writes)
  /\ Len(chan[c]) <= ChannelSize + Sent(c)
  /\ c \notin Watching => wire[c] = << >> /\ chan[c] = << >>
  /\ At(c, "sent") => chan[c] # << >>
  /\ Memory => wire[c] = << >>

\* From what the watcher was told to the last write there is no gap.
InOrder(c) ==
  /\ told[c] + Len(chan[c]) + Len(wire[c]) = Len(writes) + Sent(c)
  /\ \A i \in 1 .. Len(chan[c]) : chan[c][i].write + Sent(c) = told[c] + i
  /\ \A i \in 1 .. Len(wire[c]) : wire[c][i] + Sent(c) = told[c] + Len(chan[c]) + i

Fed(c) == Feed(c) /\ (c \in Watching \ skipped => InOrder(c))

\* Whatever is or will be the record was created at a time that has been.
Dated ==
  /\ rec # NoRecord => rec.created \in 0 .. Len(writes)
  /\ \A c \in Client :
       /\ At(c, "save") => cmd[c].created \in 0 .. Now
       /\ At(c, "mark") => cmd[c].record.created \in 0 .. Len(writes)
  /\ worker.pc = "update" /\ Redis => worker.record.created \in 0 .. Len(writes)

Full == Memory => Len(queue) <= QueueSize

\* Only the memory store announces an event after the record.
Apart == \A c \in Client : At(c, "announce") => Memory

FInv == WatchTyped /\ (\A c \in Client : Fed(c)) /\ Dated /\ Full /\ Apart

-----------------------------------------------------------------------------
(* The watches *)

\* Lengths are numbers.
LEMMA Lengths ==
  ASSUME Typed, WatchTyped, NEW c \in Client
  PROVE  /\ Len(writes) \in Nat /\ Len(queue) \in Nat
         /\ wire[c] \in Seq(Nat) /\ Len(wire[c]) \in Nat
         /\ chan[c] \in Seq(Message) /\ Len(chan[c]) \in Nat
         /\ told[c] \in Nat /\ Sent(c) \in {0, 1} /\ Sent(c) \in Nat /\ ChannelSize \in Nat
  BY LenProperties, StoreAssumption DEF Typed, WatchTyped, Sent

\* One message more, one write more.
LEMMA OneMore ==
  ASSUME NEW t \in Nat, NEW l \in Nat, NEW w \in Nat, NEW n \in Nat, NEW s \in Nat, t + l + w = n + s
  PROVE  /\ t + l + (w + 1) = (n + 1) + s
         /\ t + (l + 1) + w = (n + 1) + s
  OBVIOUS

\* A watch that no step touches.
LEMMA SameFeed ==
  ASSUME NEW c \in Client, Fed(c), UNCHANGED <<impl, writes>>,
         wire'[c] = wire[c], chan'[c] = chan[c], told'[c] = told[c],
         c \in skipped => c \in skipped',
         At(c, "sent")' <=> At(c, "sent"), c \in Watching' <=> c \in Watching
  PROVE  Fed(c)'
  BY DEF Fed, Feed, InOrder, Sent, Memory

\* Steps that touch no watch and write nothing.
LEMMA QuietFeeds ==
  ASSUME Typed, FInv, UNCHANGED <<impl, writes, watch>>,
         \A c \in Client : (At(c, "sent")' <=> At(c, "sent")) /\ (c \in Watching' <=> c \in Watching)
  PROVE  WatchTyped' /\ \A c \in Client : Fed(c)'
<1>1. UNCHANGED <<wire, chan, told, skipped>>
  BY DEF watch
<1>2. WatchTyped'
  BY <1>1 DEF FInv, WatchTyped
<1>3. \A c \in Client : Fed(c)'
  BY <1>1, SameFeed DEF FInv
<1> QED
  BY <1>2, <1>3

\* The memory store's change of what is in a channel.
LEMMA RetoldFacts ==
  ASSUME Typed, NEW ch \in Seq(Message), NEW o
  PROVE  /\ Retold(ch, o) \in Seq(Message) /\ Len(Retold(ch, o)) = Len(ch)
         /\ \A i \in 1 .. Len(ch) : Retold(ch, o)[i].write \in {ch[i].write, Now}
<1>1. /\ Len(ch) \in Nat /\ DOMAIN ch = 1 .. Len(ch)
      /\ \A i \in 1 .. Len(ch) : ch[i] \in Message
  BY LenProperties, ElementOfSeq
<1>2. Now \in Nat
  BY NowFacts
<1> DEFINE e(i) == IF ch[i].obj = o THEN [ch[i] EXCEPT !.write = Now] ELSE ch[i]
<1>3. ASSUME NEW i \in 1 .. Len(ch)
      PROVE  e(i) \in Message /\ e(i).write \in {ch[i].write, Now}
  BY <1>1, <1>2 DEF Message
<1>4. Retold(ch, o) = [i \in 1 .. Len(ch) |-> e(i)]
  BY <1>1 DEF Retold
<1> HIDE DEF e
<1>5. Retold(ch, o) \in [1 .. Len(ch) -> Message]
  BY <1>3, <1>4
<1>6. Retold(ch, o) \in Seq(Message)
  BY <1>1, <1>5, SeqDef
<1>7. Len(Retold(ch, o)) = Len(ch)
  <2>1. DOMAIN Retold(ch, o) = 1 .. Len(ch)
    BY <1>5
  <2>2. Len(Retold(ch, o)) \in Nat /\ DOMAIN Retold(ch, o) = 1 .. Len(Retold(ch, o))
    BY <1>6, LenProperties
  <2> QED
    BY <1>1, <2>1, <2>2
<1> QED
  BY <1>3, <1>4, <1>6, <1>7

\* A write is appended to the wire or, where there is room, to the channel of
\* everyone who watches; whose messages it drops or changes is cut off.
LEMMA NotifyFeeds ==
  ASSUME Typed, FInv, NEW r, NEW obj \in Nat, NEW phase \in Phase, Notify(r, obj),
         writes' = Append(writes, phase), UNCHANGED <<impl, told>>,
         \A c \in Client : (At(c, "sent")' <=> At(c, "sent")) /\ (c \in Watching' <=> c \in Watching)
  PROVE  /\ WatchTyped' /\ \A c \in Client : Fed(c)'
         /\ skipped \subseteq skipped' /\ skipped' \subseteq skipped \cup (IF Memory THEN Watching ELSE {})
<1>1. Now \in Nat \ {0} /\ Len(writes) \in Nat /\ Now = Len(writes) + 1 /\ Len(writes') = Now
  BY NowFacts, AppendProperties DEF Typed, Now
<1>2. \A c \in Client : Sent(c)' = Sent(c)
  BY DEF Sent
<1>3. CASE Redis
  <2>1. /\ wire' = [c \in Client |-> IF c \in Watching THEN Append(wire[c], Now) ELSE wire[c]]
        /\ UNCHANGED <<chan, skipped>>
    BY <1>3 DEF Notify
  <2>2. ASSUME NEW c \in Client
        PROVE  wire'[c] \in Seq(Nat) /\ Fed(c)'
    <3>1. wire[c] \in Seq(Nat) /\ Len(wire[c]) \in Nat /\ Len(chan[c]) \in Nat /\ told[c] \in Nat
          /\ Sent(c) \in {0, 1} /\ Sent(c) \in Nat /\ ChannelSize \in Nat
      BY Lengths DEF FInv
    <3>2. ~ Memory /\ ~ Memory'
      BY <1>3 DEF Redis, Memory
    <3>3. CASE c \in Watching
      <4>1. wire'[c] = Append(wire[c], Now)
        BY <2>1, <3>3
      <4>2. /\ wire'[c] \in Seq(Nat) /\ Len(wire'[c]) = Len(wire[c]) + 1
            /\ \A i \in 1 .. Len(wire[c]) : wire'[c][i] = wire[c][i]
            /\ wire'[c][Len(wire[c]) + 1] = Now
        BY <1>1, <3>1, <4>1, AppendProperties
      <4>6. ASSUME NEW i \in 1 .. Len(wire'[c])
            PROVE  \/ i \in 1 .. Len(wire[c]) /\ wire'[c][i] = wire[c][i]
                   \/ i = Len(wire[c]) + 1 /\ wire'[c][i] = Now
        <5>1. i \in 1 .. Len(wire[c]) \/ i = Len(wire[c]) + 1
          BY <3>1, <4>2
        <5> QED
          BY <4>2, <5>1
      <4>3. Feed(c)'
        <5>1. ASSUME NEW i \in 1 .. Len(wire'[c])
              PROVE  wire'[c][i] \in 1 .. Len(writes')
          <6>1. \A k \in 1 .. Len(wire[c]) : wire[c][k] \in 1 .. Len(writes)
            BY DEF FInv, Fed, Feed
          <6>2. Now \in 1 .. Len(writes') /\ \A k \in 1 .. Len(writes) : k \in 1 .. Len(writes')
            BY <1>1
          <6> QED
            BY <4>6, <6>1, <6>2
        <5>2. \A i \in 1 .. Len(chan'[c]) : chan'[c][i].write \in 1 .. Len(writes')
          BY <1>1, <2>1 DEF FInv, Fed, Feed
        <5>3. told'[c] \in 0 .. Len(writes') /\ Len(chan'[c]) <= ChannelSize + Sent(c)
          BY <1>1, <2>1 DEF FInv, Fed, Feed
        <5>4. At(c, "sent")' => chan'[c] # << >>
          BY <2>1 DEF FInv, Fed, Feed
        <5>5. c \in Watching'
          BY <3>3
        <5>6. Sent(c)' = Sent(c) /\ ~ Memory'
          BY <1>2, <3>2
        <5> QED
          BY <5>1, <5>2, <5>3, <5>4, <5>5, <5>6 DEF Feed
      <4>4. c \in Watching' \ skipped' => InOrder(c)'
        <5>1. SUFFICES ASSUME c \in Watching' \ skipped'
                       PROVE  InOrder(c)'
          OBVIOUS
        <5>2. InOrder(c)
          BY <2>1, <5>1 DEF FInv, Fed
        <5>3. told[c] + Len(chan[c]) + Len(wire[c]) = Len(writes) + Sent(c)
          BY <5>2 DEF InOrder
        <5>9. told[c] + Len(chan[c]) + (Len(wire[c]) + 1) = (Len(writes) + 1) + Sent(c)
          <6>1. /\ told[c] \in Nat /\ Len(chan[c]) \in Nat /\ Len(wire[c]) \in Nat
                /\ Len(writes) \in Nat /\ Sent(c) \in Nat
            BY <1>1, <3>1
          <6>2. PICK t \in Nat, l \in Nat, w \in Nat, n \in Nat, s \in Nat :
                  t = told[c] /\ l = Len(chan[c]) /\ w = Len(wire[c]) /\ n = Len(writes) /\ s = Sent(c)
            BY <6>1
          <6>3. t + l + w = n + s
            BY <5>3, <6>2
          <6>4. t + l + (w + 1) = (n + 1) + s
            BY <6>3, OneMore
          <6> QED
            BY <6>2, <6>4
        <5>4. told[c] + Len(chan[c]) + Len(wire'[c]) = Len(writes') + Sent(c)
          BY <1>1, <4>2, <5>9
        <5>5. Now + Sent(c) = told[c] + Len(chan[c]) + (Len(wire[c]) + 1)
          BY <1>1, <5>9
        <5>6. \A i \in 1 .. Len(wire'[c]) : wire'[c][i] + Sent(c) = told[c] + Len(chan[c]) + i
          BY <4>6, <5>2, <5>5 DEF InOrder
        <5>7. \A i \in 1 .. Len(chan'[c]) : chan'[c][i].write + Sent(c) = told[c] + i
          BY <2>1, <5>2 DEF InOrder
        <5> QED
          BY <1>2, <2>1, <5>4, <5>6, <5>7 DEF InOrder
      <4> QED
        BY <4>2, <4>3, <4>4 DEF Fed
    <3>4. CASE c \notin Watching
      <4>1. wire'[c] = wire[c]
        BY <2>1, <3>4
      <4>2. Feed(c)'
        BY <1>1, <1>2, <2>1, <3>1, <3>2, <3>4, <4>1 DEF FInv, Fed, Feed
      <4> QED
        BY <3>1, <3>4, <4>1, <4>2 DEF Fed
    <3> QED
      BY <3>3, <3>4
  <2>3. WatchTyped'
    BY <2>1, <2>2 DEF FInv, WatchTyped
  <2> QED
    BY <2>1, <2>2, <2>3
<1>4. CASE ~ Redis
  <2> DEFINE now(c) == Retold(chan[c], r.obj)
             room(c) == c \in Watching /\ Room(c)
  <2>1. /\ chan' = [c \in Client |->
             IF room(c) THEN Append(now(c), [write |-> Now, obj |-> obj]) ELSE now(c)]
        /\ skipped' = skipped \cup {c \in Watching : now(c) # chan[c] \/ ~ room(c)}
        /\ UNCHANGED wire
    BY <1>4 DEF Notify
  <2>2. [write |-> Now, obj |-> obj] \in Message /\ [write |-> Now, obj |-> obj].write = Now
    BY <1>1 DEF Message
  <2>3. ASSUME NEW c \in Client
        PROVE  chan'[c] \in Seq(Message) /\ Fed(c)'
    <3>1. /\ wire[c] \in Seq(Nat) /\ Len(wire[c]) \in Nat
          /\ chan[c] \in Seq(Message) /\ Len(chan[c]) \in Nat /\ told[c] \in Nat
          /\ Sent(c) \in {0, 1} /\ Sent(c) \in Nat /\ ChannelSize \in Nat
      BY Lengths DEF FInv
    <3>2. /\ now(c) \in Seq(Message) /\ Len(now(c)) = Len(chan[c])
          /\ \A i \in 1 .. Len(chan[c]) : now(c)[i].write \in {chan[c][i].write, Now}
      BY <3>1, RetoldFacts
    <3>3. wire[c] = << >> /\ Len(wire[c]) = 0
      <4>1. impl \in {"redis", "memory"}
        BY DEF Typed
      <4>2. wire[c] = << >>
        BY <1>4, <4>1 DEF FInv, Fed, Feed, Redis, Memory
      <4> QED
        BY <4>2, EmptySeq
    <3>4. c \in Watching' /\ c \notin skipped' => c \in Watching \ skipped /\ now(c) = chan[c] /\ room(c)
      BY <2>1
    <3>5. /\ \A i \in 1 .. Len(chan[c]) : now(c)[i].write \in 1 .. Len(writes')
          /\ told[c] \in 0 .. Len(writes')
      <4>1. \A i \in 1 .. Len(chan[c]) : chan[c][i].write \in 1 .. Len(writes') /\ Now \in 1 .. Len(writes')
        BY <1>1 DEF FInv, Fed, Feed
      <4>2. told[c] \in 0 .. Len(writes')
        BY <1>1 DEF FInv, Fed, Feed
      <4> HIDE DEF now
      <4> QED
        BY <3>2, <4>1, <4>2
    <3> HIDE DEF now
    <3>6. CASE room(c)
      <4>1. chan'[c] = Append(now(c), [write |-> Now, obj |-> obj])
        BY <2>1, <3>6
      <4>2. /\ chan'[c] \in Seq(Message) /\ chan'[c] # << >> /\ Len(chan'[c]) = Len(chan[c]) + 1
            /\ \A i \in 1 .. Len(chan[c]) : chan'[c][i] = now(c)[i]
            /\ chan'[c][Len(chan[c]) + 1].write = Now
        BY <2>2, <3>2, <4>1, AppendProperties
      <4>6. ASSUME NEW i \in 1 .. Len(chan'[c])
            PROVE  \/ i \in 1 .. Len(chan[c]) /\ chan'[c][i] = now(c)[i]
                   \/ i = Len(chan[c]) + 1 /\ chan'[c][i].write = Now
        <5>1. i \in 1 .. Len(chan[c]) \/ i = Len(chan[c]) + 1
          BY <3>1, <4>2
        <5> QED
          BY <4>2, <5>1
      <4>3. Len(chan[c]) + 1 <= ChannelSize + Sent(c)
        BY <3>1, <3>6 DEF Room, Sent
      <4>4. Feed(c)'
        <5>1. ASSUME NEW i \in 1 .. Len(chan'[c])
              PROVE  chan'[c][i].write \in 1 .. Len(writes')
          <6>1. CASE i \in 1 .. Len(chan[c]) /\ chan'[c][i] = now(c)[i]
            BY <3>5, <6>1
          <6>2. CASE chan'[c][i].write = Now
            <7>1. Now \in 1 .. Len(writes')
              BY <1>1
            <7> QED
              BY <6>2, <7>1
          <6> QED
            BY <4>6, <6>1, <6>2
        <5>2. \A i \in 1 .. Len(wire'[c]) : wire'[c][i] \in 1 .. Len(writes')
          BY <2>1, <3>3
        <5> QED
          BY <1>2, <2>1, <3>3, <3>5, <3>6, <4>2, <4>3, <5>1, <5>2 DEF Feed
      <4>5. c \in Watching' \ skipped' => InOrder(c)'
        <5>1. SUFFICES ASSUME c \in Watching' \ skipped'
                       PROVE  InOrder(c)'
          OBVIOUS
        <5>2. InOrder(c) /\ now(c) = chan[c]
          BY <3>4, <5>1 DEF FInv, Fed
        <5>3. told'[c] = told[c] /\ wire'[c] = wire[c]
          BY <2>1
        <5>4. told[c] + Len(chan[c]) + 0 = Len(writes) + Sent(c)
          BY <3>3, <5>2 DEF InOrder
        <5>9. told[c] + (Len(chan[c]) + 1) + 0 = (Len(writes) + 1) + Sent(c)
          BY <1>1, <3>1, <5>4, OneMore
        <5>5. Now + Sent(c) = told[c] + (Len(chan[c]) + 1)
          BY <1>1, <3>1, <5>9
        <5>6. \A i \in 1 .. Len(chan'[c]) : chan'[c][i].write + Sent(c) = told[c] + i
          BY <4>6, <5>2, <5>5 DEF InOrder
        <5>7. told'[c] + Len(chan'[c]) + Len(wire'[c]) = Len(writes') + Sent(c)
          BY <1>1, <3>3, <4>2, <5>3, <5>9
        <5>8. \A i \in 1 .. Len(wire'[c]) : wire'[c][i] + Sent(c) = told'[c] + Len(chan'[c]) + i
          BY <3>3, <5>3
        <5> QED
          BY <1>2, <5>3, <5>6, <5>7, <5>8 DEF InOrder
      <4> QED
        BY <4>2, <4>4, <4>5 DEF Fed
    <3>7. CASE ~ room(c)
      <4>1. chan'[c] = now(c)
        BY <2>1, <3>7
      <4>2. At(c, "sent") => chan'[c] # << >>
        <5>1. At(c, "sent") => Len(chan[c]) # 0
          BY <3>1, EmptySeq DEF FInv, Fed, Feed
        <5> QED
          BY <3>2, <4>1, <5>1, EmptySeq
      <4>3. c \notin Watching => chan'[c] = << >>
        <5>1. c \notin Watching => Len(chan[c]) = 0
          BY EmptySeq DEF FInv, Fed, Feed
        <5> QED
          BY <3>2, <4>1, <5>1, EmptySeq
      <4>4. Feed(c)'
        <5>1. \A i \in 1 .. Len(chan'[c]) : chan'[c][i].write \in 1 .. Len(writes')
          BY <3>2, <3>5, <4>1
        <5>2. \A i \in 1 .. Len(wire'[c]) : wire'[c][i] \in 1 .. Len(writes')
          BY <2>1, <3>3
        <5>3. Len(chan'[c]) <= ChannelSize + Sent(c)
          BY <3>2, <4>1 DEF FInv, Fed, Feed
        <5> QED
          BY <1>2, <2>1, <3>3, <3>5, <4>2, <4>3, <5>1, <5>2, <5>3 DEF Feed
      <4> QED
        BY <3>2, <3>4, <3>7, <4>1, <4>4 DEF Fed
    <3> QED
      BY <3>6, <3>7
  <2> HIDE DEF now, room
  <2>4. skipped' \subseteq skipped \cup Watching /\ Watching \subseteq Client
    BY <2>1 DEF Watching
  <2>5. WatchTyped'
    BY <2>1, <2>3, <2>4 DEF FInv, WatchTyped
  <2>6. Memory
    BY <1>4 DEF Typed, Redis, Memory
  <2> QED
    BY <2>1, <2>3, <2>4, <2>5, <2>6
<1> QED
  BY <1>3, <1>4

\* A step at the watch of one client.
LEMMA OneFeed ==
  ASSUME Typed, FInv, NEW c \in Client, NEW v, cmd' = [cmd EXCEPT ![c] = v] \/ cmd' = cmd,
         UNCHANGED <<impl, writes>>,
         \A d \in Client \ {c} : /\ wire'[d] = wire[d] /\ chan'[d] = chan[d] /\ told'[d] = told[d]
                                 /\ d \in skipped => d \in skipped',
         Fed(c)'
  PROVE  \A d \in Client : Fed(d)'
<1>1. ASSUME NEW d \in Client \ {c}
      PROVE  Fed(d)'
  <2>1. cmd'[d] = cmd[d]
    BY DEF Typed
  <2>2. (At(d, "sent")' <=> At(d, "sent")) /\ (d \in Watching' <=> d \in Watching)
    BY <2>1 DEF At, Watching
  <2>3. Fed(d)
    BY DEF FInv
  <2> QED
    BY <2>2, <2>3, SameFeed
<1> QED
  BY <1>1

\* A watch that is over or has not begun holds nothing.
LEMMA EmptyFeed ==
  ASSUME Typed, WatchTyped, NEW c \in Client, writes' = writes, wire'[c] = << >>, chan'[c] = << >>,
         ~ At(c, "sent")', told'[c] \in 0 .. Len(writes),
         c \in Watching' \ skipped' => told'[c] = Len(writes)
  PROVE  Fed(c)'
<1>1. Len(wire'[c]) = 0 /\ Len(chan'[c]) = 0 /\ Sent(c)' = 0 /\ Len(writes) \in Nat /\ ChannelSize \in Nat
  BY EmptySeq, Lengths DEF Sent
<1>2. Feed(c)'
  BY <1>1 DEF Feed
<1>3. c \in Watching' \ skipped' => InOrder(c)'
  BY <1>1 DEF InOrder
<1> QED
  BY <1>2, <1>3 DEF Fed

\* A watch begins at the last write and ends by forgetting its messages.
LEMMA BeginEndFeeds ==
  ASSUME Typed, FInv, NEW c \in Client,
         \/ WatchTask(c) \/ Leave(c)
         \/ Check(c) /\ Quit(c)
  PROVE  WatchTyped' /\ \A d \in Client : Fed(d)'
<1>1. /\ wire' = [wire EXCEPT ![c] = << >>] /\ chan' = [chan EXCEPT ![c] = << >>]
      /\ UNCHANGED <<impl, writes>>
  BY DEF WatchTask, Leave, Check, Quit, past
<1>2. PICK v \in {[pc |-> "initial"], Idle} : cmd' = [cmd EXCEPT ![c] = v]
  BY DEF WatchTask, Leave, Check, Quit
<1>3. \/ /\ told' = [told EXCEPT ![c] = Len(writes)]
         /\ skipped' = skipped \ {c}
      \/ /\ v = Idle
         /\ UNCHANGED <<told, skipped>>
  <2>1. WatchTask(c) => told' = [told EXCEPT ![c] = Len(writes)] /\ skipped' = skipped \ {c}
    BY DEF WatchTask
  <2>2. ASSUME Leave(c) \/ (Check(c) /\ Quit(c))
        PROVE  v = Idle /\ UNCHANGED <<told, skipped>>
    <3>1. cmd' = [cmd EXCEPT ![c] = Idle] /\ UNCHANGED <<told, skipped>>
      BY <2>2 DEF Leave, Check, Quit
    <3>2. cmd'[c] = v /\ cmd'[c] = Idle
      BY <1>2, <3>1 DEF Typed
    <3> QED
      BY <3>1, <3>2
  <2> QED
    BY <2>1, <2>2
<1>4. ~ At(c, "sent")' /\ (v = Idle => c \notin Watching')
  BY <1>2 DEF At, Watching, Idle, Typed
<1>5. << >> \in Seq(Nat) /\ << >> \in Seq(Message) /\ Len(writes) \in Nat
  BY EmptySeq, Lengths DEF FInv
<1>6. WatchTyped'
  BY <1>1, <1>3, <1>5 DEF FInv, WatchTyped
<1>7. wire'[c] = << >> /\ chan'[c] = << >>
  BY <1>1 DEF FInv, WatchTyped
<1>8. told'[c] \in 0 .. Len(writes) /\ (v # Idle => told'[c] = Len(writes))
  <2>1. told[c] \in 0 .. Len(writes)
    BY DEF FInv, Fed, Feed
  <2> QED
    BY <1>3, <1>5, <2>1 DEF FInv, WatchTyped
<1>9. Fed(c)'
  BY <1>1, <1>4, <1>7, <1>8, EmptyFeed DEF FInv
<1>10. \A d \in Client \ {c} : /\ wire'[d] = wire[d] /\ chan'[d] = chan[d] /\ told'[d] = told[d]
                               /\ d \in skipped => d \in skipped'
  BY <1>1, <1>3 DEF FInv, WatchTyped
<1> QED
  BY <1>1, <1>2, <1>6, <1>9, <1>10, OneFeed

\* A message goes from the wire to the channel.
LEMMA ForwardFeeds ==
  ASSUME Typed, FInv, NEW c \in Client, Forward(c)
  PROVE  WatchTyped' /\ \A d \in Client : Fed(d)'
<1> DEFINE m == [write |-> Head(wire[c]), obj |-> 0]
<1>1. /\ Redis /\ wire[c] # << >> /\ Room(c)
      /\ chan' = [chan EXCEPT ![c] = Append(@, m)] /\ wire' = [wire EXCEPT ![c] = Tail(@)]
      /\ UNCHANGED <<impl, writes, cmd, told, skipped>>
  BY DEF Forward, past
<1>2. /\ wire[c] \in Seq(Nat) /\ Len(wire[c]) \in Nat /\ chan[c] \in Seq(Message) /\ Len(chan[c]) \in Nat
      /\ told[c] \in Nat /\ Len(writes) \in Nat /\ Sent(c) \in {0, 1} /\ Sent(c) \in Nat /\ ChannelSize \in Nat
  BY Lengths DEF FInv
<1>3. /\ Head(wire[c]) = wire[c][1] /\ Head(wire[c]) \in Nat /\ Tail(wire[c]) \in Seq(Nat)
      /\ Len(Tail(wire[c])) = Len(wire[c]) - 1
      /\ \A i \in 1 .. Len(Tail(wire[c])) : Tail(wire[c])[i] = wire[c][i + 1]
  BY <1>1, <1>2, HeadTailProperties
<1>4. m \in Message /\ m.write = wire[c][1]
  BY <1>3 DEF Message
<1> HIDE DEF m
<1>5. /\ Append(chan[c], m) \in Seq(Message) /\ Append(chan[c], m) # << >>
      /\ Len(Append(chan[c], m)) = Len(chan[c]) + 1
      /\ \A i \in 1 .. Len(chan[c]) : Append(chan[c], m)[i] = chan[c][i]
      /\ Append(chan[c], m)[Len(chan[c]) + 1] = m
  BY <1>2, <1>4, AppendProperties
<1>6. wire'[c] = Tail(wire[c]) /\ chan'[c] = Append(chan[c], m)
  BY <1>1 DEF FInv, WatchTyped
<1>7. WatchTyped'
  BY <1>1, <1>3, <1>5 DEF FInv, WatchTyped
<1>8. 1 \in 1 .. Len(wire[c]) /\ Len(wire[c]) \in Nat \ {0}
  BY <1>1, <1>2, EmptySeq
<1>9. c \in Watching /\ c \in Watching'
  <2>1. c \in Watching
    BY <1>1 DEF FInv, Fed, Feed
  <2> QED
    BY <1>1, <2>1 DEF Watching
<1>10. ~ Memory /\ ~ Memory' /\ Sent(c)' = Sent(c) /\ (At(c, "sent")' <=> At(c, "sent"))
  BY <1>1 DEF Redis, Memory, Sent, At
<1>11. ASSUME NEW i \in 1 .. Len(chan'[c])
       PROVE  \/ i \in 1 .. Len(chan[c]) /\ chan'[c][i] = chan[c][i]
              \/ i = Len(chan[c]) + 1 /\ chan'[c][i].write = wire[c][1]
  <2>1. i \in 1 .. Len(chan[c]) \/ i = Len(chan[c]) + 1
    BY <1>2, <1>5, <1>6
  <2> QED
    BY <1>4, <1>5, <1>6, <2>1
<1>12. ASSUME NEW i \in 1 .. Len(wire'[c])
       PROVE  i + 1 \in 1 .. Len(wire[c]) /\ wire'[c][i] = wire[c][i + 1]
  BY <1>2, <1>3, <1>6
<1>13. Feed(c)'
  <2>1. \A i \in 1 .. Len(wire'[c]) : wire'[c][i] \in 1 .. Len(writes')
    BY <1>1, <1>12 DEF FInv, Fed, Feed
  <2>2. \A i \in 1 .. Len(chan'[c]) : chan'[c][i].write \in 1 .. Len(writes')
    BY <1>1, <1>8, <1>11 DEF FInv, Fed, Feed
  <2>3. Len(chan'[c]) <= ChannelSize + Sent(c)
    BY <1>1, <1>2, <1>5, <1>6 DEF Room, Sent
  <2>4. told'[c] \in 0 .. Len(writes')
    BY <1>1 DEF FInv, Fed, Feed
  <2> QED
    BY <1>5, <1>6, <1>9, <1>10, <2>1, <2>2, <2>3, <2>4 DEF Feed
<1>14. c \in Watching' \ skipped' => InOrder(c)'
  <2>1. SUFFICES ASSUME c \in Watching \ skipped
                 PROVE  InOrder(c)'
    BY <1>1, <1>9
  <2>2. InOrder(c)
    BY <2>1 DEF FInv, Fed
  <2>3. PICK l \in Nat, w \in Nat, t \in Nat, n \in Nat, s \in Nat :
          l = Len(chan[c]) /\ w = Len(wire[c]) /\ t = told[c] /\ n = Len(writes) /\ s = Sent(c)
    BY <1>2
  <2>4. t + l + w = n + s /\ w # 0
    BY <1>8, <2>2, <2>3 DEF InOrder
  <2>5. t + (l + 1) + (w - 1) = n + s
    BY <2>4
  <2>6. Len(chan'[c]) = l + 1 /\ Len(wire'[c]) = w - 1
    BY <1>3, <1>5, <1>6, <2>3
  <2>7. wire[c][1] + s = t + l + 1
    BY <1>8, <2>2, <2>3 DEF InOrder
  <2>8. ASSUME NEW i \in 1 .. Len(chan'[c])
        PROVE  chan'[c][i].write + s = t + i
    <3>1. CASE i \in 1 .. Len(chan[c]) /\ chan'[c][i] = chan[c][i]
      BY <2>2, <2>3, <3>1 DEF InOrder
    <3>2. CASE i = Len(chan[c]) + 1 /\ chan'[c][i].write = wire[c][1]
      <4>1. i = l + 1 /\ chan'[c][i].write + s = t + l + 1
        BY <2>3, <2>7, <3>2
      <4>2. t + l + 1 = t + (l + 1)
        BY <2>3
      <4> QED
        BY <4>1, <4>2
    <3> QED
      BY <1>11, <3>1, <3>2
  <2>9. ASSUME NEW i \in 1 .. Len(wire'[c])
        PROVE  wire'[c][i] + s = t + (l + 1) + i
    <3>1. wire'[c][i] + s = t + l + (i + 1)
      BY <1>12, <2>2, <2>3 DEF InOrder
    <3>2. i \in Nat
      BY <2>6
    <3> QED
      BY <3>1, <3>2
  <2>10. told'[c] = t /\ Sent(c)' = s /\ Len(writes') = n
    BY <1>1, <1>10, <2>3
  <2> QED
    BY <2>5, <2>6, <2>8, <2>9, <2>10 DEF InOrder
<1>15. Fed(c)'
  BY <1>13, <1>14 DEF Fed
<1>16. \A d \in Client \ {c} : wire'[d] = wire[d] /\ chan'[d] = chan[d] /\ told'[d] = told[d]
  BY <1>1 DEF FInv, WatchTyped
<1> QED
  BY <1>1, <1>7, <1>15, <1>16, OneFeed

\* Messages on the wire are lost: the watcher is cut off.
LEMMA LossFeeds ==
  ASSUME Typed, FInv, NEW c \in Client, WireLost(c)
  PROVE  WatchTyped' /\ \A d \in Client : Fed(d)'
<1>1. /\ wire' = [wire EXCEPT ![c] = << >>] /\ skipped' = skipped \cup {c}
      /\ UNCHANGED <<impl, writes, cmd, chan, told>>
  BY DEF WireLost, past
<1>2. << >> \in Seq(Nat) /\ wire'[c] = << >> /\ Len(wire'[c]) = 0
  BY <1>1, EmptySeq DEF FInv, WatchTyped
<1>3. WatchTyped'
  BY <1>1, <1>2 DEF FInv, WatchTyped
<1>4. Feed(c)'
  BY <1>1, <1>2 DEF FInv, Fed, Feed, Sent, At, Watching, Memory
<1>5. Fed(c)'
  BY <1>1, <1>4 DEF Fed
<1>6. \A d \in Client \ {c} : wire'[d] = wire[d] /\ chan'[d] = chan[d] /\ told'[d] = told[d]
                             /\ (d \in skipped => d \in skipped')
  BY <1>1 DEF FInv, WatchTyped
<1> QED
  BY <1>1, <1>3, <1>5, <1>6, OneFeed

\* The watcher is told the first message of the channel.
LEMMA SendFeeds ==
  ASSUME Typed, FInv, NEW c \in Client, Send(c)
  PROVE  /\ WatchTyped' /\ \A d \in Client : Fed(d)'
         /\ told'[c] \in 1 .. Len(writes) /\ told' = [told EXCEPT ![c] = told'[c]]
         /\ c \notin skipped => told'[c] = told[c] + 1
<1>1. /\ cmd[c].pc = "stream" /\ chan[c] # << >> /\ cmd' = [cmd EXCEPT ![c] = [pc |-> "sent"]]
      /\ told' = [told EXCEPT ![c] = Head(chan[c]).write]
      /\ UNCHANGED <<impl, writes, wire, chan, skipped>>
  BY DEF Send, At, past
<1>2. /\ wire[c] \in Seq(Nat) /\ Len(wire[c]) \in Nat /\ chan[c] \in Seq(Message) /\ Len(chan[c]) \in Nat
      /\ told[c] \in Nat /\ Len(writes) \in Nat /\ ChannelSize \in Nat
  BY Lengths DEF FInv
<1>3. 1 \in 1 .. Len(chan[c]) /\ Head(chan[c]) = chan[c][1]
  BY <1>1, <1>2, EmptySeq, HeadTailProperties
<1>4. told'[c] = chan[c][1].write /\ cmd'[c].pc = "sent"
  BY <1>1, <1>3 DEF FInv, WatchTyped, Typed
<1>5. Sent(c) = 0 /\ Sent(c)' = 1 /\ c \in Watching /\ c \in Watching' /\ ~ At(c, "sent")
  BY <1>1, <1>4 DEF Sent, At, Watching
<1>6. told'[c] \in 1 .. Len(writes) /\ told'[c] \in Nat
  BY <1>2, <1>3, <1>4 DEF FInv, Fed, Feed
<1>7. WatchTyped'
  BY <1>1, <1>4, <1>6 DEF FInv, WatchTyped
<1>8. Feed(c)'
  <2>1. Len(chan[c]) <= ChannelSize + 1
    BY <1>2, <1>5 DEF FInv, Fed, Feed
  <2>2. (Memory' <=> Memory) /\ (Memory => wire[c] = << >>)
    BY <1>1 DEF Memory, FInv, Fed, Feed
  <2>3. /\ \A i \in 1 .. Len(wire[c]) : wire[c][i] \in 1 .. Len(writes)
        /\ \A i \in 1 .. Len(chan[c]) : chan[c][i].write \in 1 .. Len(writes)
    BY DEF FInv, Fed, Feed
  <2>4. told'[c] \in 0 .. Len(writes)
    BY <1>2, <1>6
  <2> QED
    BY <1>1, <1>5, <2>1, <2>2, <2>3, <2>4 DEF Feed
<1>9. c \notin skipped => told'[c] = told[c] + 1 /\ InOrder(c)'
  <2>1. SUFFICES ASSUME c \notin skipped
                 PROVE  told'[c] = told[c] + 1 /\ InOrder(c)'
    OBVIOUS
  <2>2. InOrder(c)
    BY <1>5, <2>1 DEF FInv, Fed
  <2>3. told'[c] + 0 = told[c] + 1
    BY <1>3, <1>4, <1>5, <2>2 DEF InOrder
  <2>4. told'[c] = told[c] + 1
    BY <1>6, <2>3
  <2>5. PICK l \in Nat, w \in Nat, t \in Nat, n \in Nat :
          l = Len(chan[c]) /\ w = Len(wire[c]) /\ t = told[c] /\ n = Len(writes)
    BY <1>2
  <2>6. t + l + w = n + 0
    BY <1>5, <2>2, <2>5 DEF InOrder
  <2>7. (t + 1) + l + w = n + 1
    BY <2>6
  <2>8. ASSUME NEW i \in 1 .. Len(chan[c])
        PROVE  chan[c][i].write + 1 = (t + 1) + i
    <3>1. chan[c][i].write + 0 = t + i
      BY <1>5, <2>2, <2>5 DEF InOrder
    <3>2. chan[c][i] \in Message /\ i \in Nat
      BY <1>2, ElementOfSeq
    <3>3. chan[c][i].write \in Nat
      BY <3>2 DEF Message
    <3> QED
      BY <3>1, <3>2, <3>3
  <2>9. ASSUME NEW i \in 1 .. Len(wire[c])
        PROVE  wire[c][i] + 1 = (t + 1) + l + i
    <3>1. wire[c][i] + 0 = t + l + i
      BY <1>5, <2>2, <2>5 DEF InOrder
    <3>2. wire[c][i] \in Nat /\ i \in Nat
      BY <1>2, ElementOfSeq
    <3> QED
      BY <3>1, <3>2
  <2>10. told'[c] = t + 1
    BY <2>4, <2>5
  <2> QED
    BY <1>1, <1>5, <2>4, <2>5, <2>7, <2>8, <2>9, <2>10 DEF InOrder
<1>10. Fed(c)'
  BY <1>1, <1>8, <1>9 DEF Fed
<1>11. \A d \in Client \ {c} : wire'[d] = wire[d] /\ chan'[d] = chan[d] /\ told'[d] = told[d]
  BY <1>1 DEF FInv, WatchTyped
<1>12. \A d \in Client : Fed(d)'
  BY <1>1, <1>10, <1>11, OneFeed
<1>13. told' = [told EXCEPT ![c] = told'[c]]
  BY <1>1 DEF FInv, WatchTyped
<1> QED
  BY <1>6, <1>7, <1>9, <1>12, <1>13

\* The server goes on to the next message.
LEMMA CheckFeeds ==
  ASSUME Typed, FInv, NEW c \in Client, Check(c), ~ Quit(c)
  PROVE  WatchTyped' /\ \A d \in Client : Fed(d)'
<1>1. /\ cmd[c].pc = "sent" /\ chan' = [chan EXCEPT ![c] = Tail(@)]
      /\ UNCHANGED <<impl, writes, wire, told, skipped>>
  BY DEF Check, At, past
<1>2. PICK v \in {[pc |-> "leave"], [pc |-> "stream"]} : cmd' = [cmd EXCEPT ![c] = v]
  BY DEF Check
<1>3. Sent(c) = 1 /\ Sent(c)' = 0 /\ ~ At(c, "sent")' /\ c \in Watching /\ c \in Watching'
  BY <1>1, <1>2 DEF Sent, At, Watching, Typed
<1>4. /\ wire[c] \in Seq(Nat) /\ Len(wire[c]) \in Nat /\ chan[c] \in Seq(Message) /\ Len(chan[c]) \in Nat
      /\ told[c] \in Nat /\ Len(writes) \in Nat /\ ChannelSize \in Nat
  BY Lengths DEF FInv
<1>5. chan[c] # << >> /\ Len(chan[c]) <= ChannelSize + 1
  BY <1>1, <1>3 DEF At, FInv, Fed, Feed
<1>6. /\ Tail(chan[c]) \in Seq(Message) /\ Len(Tail(chan[c])) = Len(chan[c]) - 1
      /\ \A i \in 1 .. Len(Tail(chan[c])) : Tail(chan[c])[i] = chan[c][i + 1]
  BY <1>4, <1>5, HeadTailProperties
<1>7. chan'[c] = Tail(chan[c]) /\ WatchTyped'
  BY <1>1, <1>6 DEF FInv, WatchTyped
<1>8. ASSUME NEW i \in 1 .. Len(chan'[c])
      PROVE  i + 1 \in 1 .. Len(chan[c]) /\ chan'[c][i] = chan[c][i + 1] /\ i \in Nat
  BY <1>4, <1>6, <1>7
<1>9. Feed(c)'
  <2>1. Len(chan'[c]) <= ChannelSize + 0
    BY <1>4, <1>5, <1>6, <1>7
  <2>2. (Memory' <=> Memory) /\ (Memory => wire[c] = << >>)
    BY <1>1 DEF Memory, FInv, Fed, Feed
  <2>3. /\ \A i \in 1 .. Len(wire[c]) : wire[c][i] \in 1 .. Len(writes)
        /\ \A i \in 1 .. Len(chan'[c]) : chan'[c][i].write \in 1 .. Len(writes)
        /\ told[c] \in 0 .. Len(writes)
    BY <1>8 DEF FInv, Fed, Feed
  <2> QED
    BY <1>1, <1>3, <2>1, <2>2, <2>3 DEF Feed
<1>10. c \notin skipped => InOrder(c)'
  <2>1. SUFFICES ASSUME c \notin skipped
                 PROVE  InOrder(c)'
    OBVIOUS
  <2>2. InOrder(c)
    BY <1>3, <2>1 DEF FInv, Fed
  <2>3. PICK l \in Nat, w \in Nat, t \in Nat, n \in Nat :
          l = Len(chan[c]) /\ w = Len(wire[c]) /\ t = told[c] /\ n = Len(writes)
    BY <1>4
  <2>4. t + l + w = n + 1
    BY <1>3, <2>2, <2>3 DEF InOrder
  <2>5. t + (l - 1) + w = n + 0
    BY <2>4
  <2>6. Len(chan'[c]) = l - 1
    BY <1>6, <1>7, <2>3
  <2>7. ASSUME NEW i \in 1 .. Len(chan'[c])
        PROVE  chan'[c][i].write + 0 = t + i
    <3>1. chan'[c][i].write + 1 = t + (i + 1)
      BY <1>3, <1>8, <2>2, <2>3 DEF InOrder
    <3>2. chan[c][i + 1] \in Message /\ i \in Nat
      BY <1>4, <1>8, ElementOfSeq
    <3>3. chan'[c][i].write \in Nat
      BY <1>8, <3>2 DEF Message
    <3>4. \A x \in Nat, j \in Nat : x + 1 = t + (j + 1) => x + 0 = t + j
      OBVIOUS
    <3> QED
      BY <3>1, <3>2, <3>3, <3>4
  <2>8. ASSUME NEW i \in 1 .. Len(wire[c])
        PROVE  wire[c][i] + 0 = t + (l - 1) + i
    <3>1. wire[c][i] + 1 = t + l + i
      BY <1>3, <2>2, <2>3 DEF InOrder
    <3>2. wire[c][i] \in Nat /\ i \in Nat
      BY <1>4, ElementOfSeq
    <3> QED
      BY <3>1, <3>2
  <2> QED
    BY <1>1, <1>3, <2>3, <2>5, <2>6, <2>7, <2>8 DEF InOrder
<1>11. Fed(c)'
  BY <1>1, <1>9, <1>10 DEF Fed
<1>12. \A d \in Client \ {c} : wire'[d] = wire[d] /\ chan'[d] = chan[d] /\ told'[d] = told[d]
  BY <1>1 DEF FInv, WatchTyped
<1> QED
  BY <1>1, <1>2, <1>7, <1>11, <1>12, OneFeed

-----------------------------------------------------------------------------
(* The steps, for what the watches hold *)

WatchSteps == {"initial", "stream", "sent", "leave"}
Mutes(c) ==
  /\ \A d \in Client \ {c} : cmd'[d] = cmd[d]
  /\ cmd[c].pc = "sent" <=> cmd'[c].pc = "sent"
  /\ cmd[c].pc \in WatchSteps <=> cmd'[c].pc \in WatchSteps

\* A command goes on without beginning, ending or moving on a watch.
LEMMA Mute ==
  ASSUME NEW c \in Client, Mutes(c)
  PROVE  /\ \A d \in Client : (At(d, "sent")' <=> At(d, "sent")) /\ (d \in Watching' <=> d \in Watching)
         /\ Watching' = Watching
<1>1. ASSUME NEW d \in Client
      PROVE  (At(d, "sent")' <=> At(d, "sent")) /\ (d \in Watching' <=> d \in Watching)
  <2>1. CASE d = c
    BY <2>1 DEF Mutes, At, Watching, WatchSteps
  <2>2. CASE d # c
    <3>1. cmd'[d] = cmd[d]
      BY <2>2 DEF Mutes
    <3> QED
      BY <3>1 DEF At, Watching
  <2> QED
    BY <2>1, <2>2
<1>2. Watching \subseteq Client /\ Watching' \subseteq Client
  BY DEF Watching
<1> QED
  BY <1>1, <1>2

\* The requests and steps of a client that have to do with no watch.
Quiet(c) ==
  \/ Apply(c) \/ DefaultMetadata(c) \/ CreateTask(c)
  \/ SetPhase(c, "Running") \/ SetPhase(c, "Suspended")
  \/ ReadToDelete(c) \/ Poll(c) \/ TimeOut(c)
  \/ ListNames(c) \/ ListRecords(c) \/ ListLocked(c) \/ Listed(c) \/ Initial(c)

LEMMA QuietFacts ==
  ASSUME IInv, NEW c \in Client, Quiet(c)
  PROVE  /\ Mutes(c) /\ cmd[c].pc # "announce" /\ cmd'[c].pc # "announce"
         /\ UNCHANGED <<impl, kind, rec, queue, worker, writes, watch>>
<1>1. UNCHANGED <<impl, kind, rec, queue, worker, writes, watch>>
  BY DEF Quiet, Apply, DefaultMetadata, CreateTask, SetPhase, ReadToDelete, Poll, TimeOut, StopWaiting,
         ListNames, ListRecords, ListLocked, Listed, Initial, past
<1>2. /\ \A d \in Client \ {c} : cmd'[d] = cmd[d]
      /\ \/ cmd[c].pc \in {"idle", "metadata", "poll", "mget", "listed"}
            /\ cmd'[c].pc \in {"idle", "metadata", "save", "mark", "mget", "listed"}
         \/ cmd[c].pc = "initial" /\ cmd'[c].pc \in {"leave", "stream"}
  <2>1. CASE Apply(c) \/ CreateTask(c) \/ SetPhase(c, "Running") \/ SetPhase(c, "Suspended")
    BY <2>1 DEF Apply, CreateTask, SetPhase, Command, At, IInv, Typed
  <2>2. CASE DefaultMetadata(c)
    <3>1. At(c, "metadata") /\ \E t : SaveNext(c, t)
      BY <2>2 DEF DefaultMetadata
    <3>2. PICK t : SaveNext(c, t)
      BY <3>1
    <3> QED
      BY <3>1, <3>2 DEF SaveNext, At, IInv, Typed
  <2>3. CASE ReadToDelete(c)
    BY <2>3 DEF ReadToDelete, Command, At, IInv, Typed
  <2>4. CASE Poll(c) \/ TimeOut(c)
    BY <2>4 DEF Poll, TimeOut, StopWaiting, At, Idle, IInv, Typed
  <2>5. CASE ListNames(c) \/ ListRecords(c) \/ ListLocked(c) \/ Listed(c)
    BY <2>5 DEF ListNames, ListRecords, ListLocked, Listed, Command, At, Idle, IInv, Typed
  <2>6. CASE Initial(c)
    BY <2>6 DEF Initial, At, IInv, Typed
  <2> QED
    BY <2>1, <2>2, <2>3, <2>4, <2>5, <2>6 DEF Quiet
<1> QED
  BY <1>1, <1>2 DEF Mutes, WatchSteps

\* The event is announced, or the Model deleted.
LEMMA AnnounceFacts ==
  ASSUME IInv, NEW c \in Client, Announce(c)
  PROVE  /\ Mutes(c) /\ cmd[c] \in Announcing /\ cmd'[c].pc \in {"idle", "poll"}
         /\ UNCHANGED <<impl, kind, rec, worker, writes, watch>>
<1>1. cmd[c] \in Announcing
  BY Shapes DEF IInv, Announce, At
<1> QED
  BY <1>1 DEF Announce, Announcing, Mutes, WatchSteps, IInv, Typed, past
LEMMA DeleteModelFacts ==
  ASSUME IInv, NEW c \in Client, DeleteModel(c)
  PROVE  /\ Mutes(c) /\ cmd[c].pc = "idle" /\ cmd'[c].pc = "poll"
         /\ rec' = NoRecord /\ UNCHANGED <<impl, kind, queue, worker, writes, watch>>
  BY DEF DeleteModel, Command, At, Erase, Mutes, WatchSteps, IInv, Typed

\* What the one who writes hands to the watchers.
Writes(r, obj) ==
  /\ r \in Record /\ obj \in Nat
  /\ rec' = r /\ writes' = Append(writes, r.phase) /\ Notify(r, obj)
  /\ UNCHANGED <<impl, kind, told>>

LEMMA SaveFacts ==
  ASSUME IInv, NEW c \in Client, Save(c)
  PROVE  /\ Mutes(c) /\ cmd[c].pc = "save" /\ worker' = worker
         /\ \E r \in Record, obj \in Nat : Writes(r, obj) /\ r.created = cmd[c].created
         /\ \/ /\ Emit("reconcile")
               /\ Return(c, "idle", "reconcile")
            \/ /\ queue' = queue
               /\ cmd' = [cmd EXCEPT ![c] = Idle]
<1> DEFINE r == [value |-> cmd[c].value, created |-> cmd[c].created, phase |-> cmd[c].phase, obj |-> Now]
<1>1. cmd[c] \in Saving /\ cmd[c].pc = "save"
  BY Shapes DEF IInv, Save, At
<1>2. r \in Record /\ r.created = cmd[c].created /\ Now \in Nat
  BY <1>1, NowFacts DEF Saving, Record, IInv
<1>3. Put(r, Now) /\ UNCHANGED <<impl, kind, worker>>
  BY DEF Save
<1> HIDE DEF r
<1>4. Writes(r, Now)
  BY <1>2, <1>3 DEF Writes, Put
<1>5. \/ /\ Emit("reconcile")
         /\ Return(c, "idle", "reconcile")
      \/ /\ queue' = queue
         /\ cmd' = [cmd EXCEPT ![c] = Idle]
  BY DEF Save
<1>6. Mutes(c)
  BY <1>1, <1>5 DEF Return, Idle, Mutes, WatchSteps, IInv, Typed
<1> QED
  BY <1>1, <1>2, <1>3, <1>4, <1>5, <1>6

LEMMA MarkFacts ==
  ASSUME IInv, NEW c \in Client, MarkTaskDeleting(c)
  PROVE  /\ Mutes(c) /\ cmd[c].pc \in {"mark", "idle"} /\ worker' = worker
         /\ \E r \in Record, obj \in Nat :
              /\ Writes(r, obj)
              /\ \/ cmd[c].pc = "mark" /\ r.created = cmd[c].record.created
                 \/ rec # NoRecord /\ r.created = rec.created
         /\ Emit("delete") /\ Return(c, "poll", "delete")
<1>1. Emit("delete") /\ Return(c, "poll", "delete") /\ UNCHANGED <<impl, kind, worker>>
  BY DEF MarkTaskDeleting
<1>2. cmd[c].pc \in {"mark", "idle"}
  BY DEF MarkTaskDeleting, Command, At
<1>3. Mutes(c)
  BY <1>1, <1>2 DEF Return, Mutes, WatchSteps, IInv, Typed
<1>4. PICK r \in Record :
        /\ Put(r, 0)
        /\ \/ cmd[c].pc = "mark" /\ r.created = cmd[c].record.created
           \/ rec # NoRecord /\ r.created = rec.created
  <2>1. CASE At(c, "mark") /\ Put(cmd[c].record, 0)
    BY <2>1, Shapes DEF IInv, At, Marking
  <2>2. CASE rec # NoRecord /\ Put(Terminated, 0)
    <3>1. rec \in Record
      BY <2>2 DEF IInv, Typed
    <3>2. Terminated \in Record /\ Terminated.created = rec.created
      BY <3>1, RecordFacts DEF Terminated, Phase
    <3> QED
      BY <2>2, <3>2
  <2> QED
    BY <2>1, <2>2 DEF MarkTaskDeleting
<1>5. Writes(r, 0)
  BY <1>1, <1>4 DEF Writes, Put
<1> QED
  BY <1>1, <1>2, <1>3, <1>4, <1>5

LEMMA UpdateFacts ==
  ASSUME IInv, UpdateTaskStatus
  PROVE  /\ worker' = Idle /\ UNCHANGED <<cmd, queue>>
         /\ \E r \in Record, obj \in Nat :
              /\ Writes(r, obj)
              /\ \/ Redis /\ r.created = worker.record.created
                 \/ rec # NoRecord /\ r.created = rec.created
<1>1. /\ worker.pc = "update" /\ rec # NoRecord
      /\ worker' = Idle /\ UNCHANGED <<impl, kind, cmd, queue>>
  BY WorkerShapes DEF UpdateTaskStatus, Turn, Others, IInv, Typed, WorkerKnows, Idle
<1>2. PICK r \in Record :
        /\ Put(r, 0)
        /\ \/ Redis /\ r.created = worker.record.created
           \/ rec # NoRecord /\ r.created = rec.created
  <2>1. CASE Redis
    <3>1. Put(worker.record, 0)
      BY <1>1, <2>1 DEF UpdateTaskStatus, Redis, Memory
    <3>2. worker \in Updating
      BY <1>1, <2>1 DEF IInv, WorkerKnows
    <3> QED
      BY <2>1, <3>1, <3>2 DEF Updating
  <2>2. CASE ~ Redis
    <3>1. Put([rec EXCEPT !.phase = worker.phase], 0)
      BY <1>1, <2>2 DEF UpdateTaskStatus
    <3>2. worker \in Deciding /\ rec \in Record
      BY <1>1, <2>2 DEF IInv, Typed, WorkerKnows, Redis, Memory
    <3>3. worker.phase \in Phase
      BY <3>2 DEF Deciding, Phase
    <3>4. [rec EXCEPT !.phase = worker.phase] \in Record
          /\ [rec EXCEPT !.phase = worker.phase].created = rec.created
      BY <3>2, <3>3, RecordFacts
    <3> QED
      BY <1>1, <3>1, <3>4
  <2> QED
    BY <2>1, <2>2
<1>3. Writes(r, 0)
  BY <1>1, <1>2 DEF Writes, Put
<1> QED
  BY <1>1, <1>2, <1>3

\* The other steps of the worker.
LEMMA WorkerFacts ==
  ASSUME IInv, Take \/ Read \/ UpdateGet \/ RemoveTask \/ GiveUp
  PROVE  /\ UNCHANGED <<impl, kind, cmd, writes, watch>>
         /\ rec' \in {rec, NoRecord}
         /\ worker'.pc = "update" /\ Redis => rec # NoRecord /\ worker'.record.created = rec.created
         /\ queue' = queue \/ (queue # << >> /\ queue' = Tail(queue))
<1>1. UNCHANGED <<impl, kind, cmd, writes, watch>> /\ rec' \in {rec, NoRecord}
      /\ (queue' = queue \/ (queue # << >> /\ queue' = Tail(queue)))
  BY DEF Take, Read, UpdateGet, RemoveTask, GiveUp, Erase, Others, past
<1>2. ASSUME worker'.pc = "update", Redis
      PROVE  rec # NoRecord /\ worker'.record.created = rec.created
  <2>1. UpdateGet
    BY <1>2 DEF Take, Read, RemoveTask, GiveUp, Turn, Idle
  <2>2. rec # NoRecord
    BY <1>2, <2>1 DEF UpdateGet, Turn, Idle
  <2>3. rec \in Record /\ worker \in Deciding
    BY <2>1, <2>2, WorkerShapes DEF IInv, Typed, UpdateGet
  <2>4. worker'.record = [rec EXCEPT !.phase = worker.phase]
    BY <2>1, <2>2 DEF UpdateGet, Turn
  <2> QED
    BY <2>2, <2>3, <2>4 DEF Record
<1> QED
  BY <1>1, <1>2

\* Every step keeps the watches as they should be.
LEMMA WatchStep ==
  ASSUME IInv, FInv, [Next]_vars
  PROVE  WatchTyped' /\ \A d \in Client : Fed(d)'
<1> Typed
  BY DEF IInv
<1>1. ASSUME NEW r \in Record, NEW obj \in Nat, Writes(r, obj),
             \A c \in Client : (At(c, "sent")' <=> At(c, "sent")) /\ (c \in Watching' <=> c \in Watching)
      PROVE  WatchTyped' /\ \A d \in Client : Fed(d)'
  <2>1. r.phase \in Phase
    BY RecordFacts
  <2> QED
    BY <1>1, <2>1, NotifyFeeds DEF Writes
<1>2. ASSUME NEW c \in Client, Mutes(c), UNCHANGED <<impl, writes, watch>>
      PROVE  WatchTyped' /\ \A d \in Client : Fed(d)'
  BY <1>2, Mute, QuietFeeds
<1>3. CASE Controller \/ GiveUp
  <2>1. UNCHANGED cmd
    BY <1>3 DEF Controller, Take, Read, UpdateGet, UpdateTaskStatus, RemoveTask, GiveUp, Others
  <2>2. \A c \in Client : (At(c, "sent")' <=> At(c, "sent")) /\ (c \in Watching' <=> c \in Watching)
    BY <2>1 DEF At, Watching
  <2>3. CASE UpdateTaskStatus
    BY <1>1, <2>2, <2>3, UpdateFacts
  <2>4. CASE ~ UpdateTaskStatus
    BY <1>3, <2>2, <2>4, WorkerFacts, QuietFeeds DEF Controller
  <2> QED
    BY <2>3, <2>4
<1>4. ASSUME NEW c \in Client, Request(c) \/ Carry(c) \/ Forward(c) \/ TimeOut(c) \/ WireLost(c)
      PROVE  WatchTyped' /\ \A d \in Client : Fed(d)'
  <2>1. CASE Quiet(c)
    BY <1>2, <2>1, QuietFacts
  <2>2. CASE Announce(c) \/ DeleteModel(c)
    BY <1>2, <2>2, AnnounceFacts, DeleteModelFacts
  <2>3. CASE Save(c) \/ MarkTaskDeleting(c)
    <3>1. Mutes(c) /\ \E r \in Record, obj \in Nat : Writes(r, obj)
      BY <2>3, SaveFacts, MarkFacts
    <3> QED
      BY <1>1, <3>1, Mute
  <2>4. CASE WatchTask(c) \/ Leave(c) \/ Check(c)
    BY <2>4, BeginEndFeeds, CheckFeeds
  <2>5. CASE Forward(c) \/ WireLost(c) \/ Send(c)
    BY <2>5, ForwardFeeds, LossFeeds, SendFeeds
  <2> QED
    BY <1>4, <2>1, <2>2, <2>3, <2>4, <2>5 DEF Request, Carry, Quiet
<1>5. CASE UNCHANGED vars
  <2>1. UNCHANGED <<impl, writes, watch, cmd>>
    BY <1>5 DEF vars, past
  <2> QED
    BY <2>1, QuietFeeds DEF At, Watching
<1> QED
  BY <1>3, <1>4, <1>5 DEF Next

\* Times of creation lie in the past as long as new ones do.
LEMMA DatesKept ==
  ASSUME Typed, Typed', Dated, impl' = impl, Len(writes) <= Len(writes'),
         rec' = rec \/ (rec' # NoRecord => rec'.created \in 0 .. Len(writes')),
         \A d \in Client : \/ cmd'[d] = cmd[d]
                           \/ /\ cmd'[d].pc = "save" => cmd'[d].created \in 0 .. Len(writes') + 1
                              /\ cmd'[d].pc = "mark" => cmd'[d].record.created \in 0 .. Len(writes'),
         \/ worker' = worker
         \/ worker'.pc = "update" /\ Redis => worker'.record.created \in 0 .. Len(writes')
  PROVE  Dated'
<1>1. Len(writes) \in Nat /\ Len(writes') \in Nat /\ Now = Len(writes) + 1 /\ Now' = Len(writes') + 1
  BY LenProperties DEF Typed, Now
<1>2. rec' # NoRecord => rec'.created \in 0 .. Len(writes')
  BY <1>1 DEF Dated
<1>3. ASSUME NEW d \in Client
      PROVE  /\ cmd'[d].pc = "save" => cmd'[d].created \in 0 .. Now'
             /\ cmd'[d].pc = "mark" => cmd'[d].record.created \in 0 .. Len(writes')
  BY <1>1 DEF Dated, At
<1>4. worker'.pc = "update" /\ Redis' => worker'.record.created \in 0 .. Len(writes')
  BY <1>1 DEF Dated, Redis
<1> QED
  BY <1>2, <1>3, <1>4 DEF Dated, At

\* Every step keeps the times of creation in the past.
LEMMA DatedStep ==
  ASSUME IInv, IInv', Dated, [Next]_vars
  PROVE  Dated'
<1> USE DEF IInv
<1>1. Len(writes) \in Nat /\ Now = Len(writes) + 1
  BY LenProperties DEF Typed, Now
<1>2. ASSUME NEW r \in Record, NEW obj \in Nat, Writes(r, obj), r.created \in 0 .. Len(writes) + 1,
             worker' \in {worker, Idle}, \A d \in Client : cmd'[d] = cmd[d] \/ cmd'[d].pc \notin {"save", "mark"}
      PROVE  Dated'
  <2>1. Len(writes') = Len(writes) + 1
    <3>1. r.phase \in Phase
      BY RecordFacts
    <3> QED
      BY <1>2, <3>1, AppendProperties DEF Writes, Typed
  <2> QED
    BY <1>1, <1>2, <2>1, DatesKept DEF Writes, Idle
<1>3. CASE Controller \/ GiveUp
  <2>1. CASE UpdateTaskStatus
    <3>1. PICK r \in Record, obj \in Nat :
            /\ Writes(r, obj)
            /\ \/ Redis /\ r.created = worker.record.created
               \/ rec # NoRecord /\ r.created = rec.created
      BY <2>1, UpdateFacts
    <3>2. worker.pc = "update"
      BY <2>1 DEF UpdateTaskStatus
    <3>3. r.created \in 0 .. Len(writes) + 1
      BY <1>1, <3>1, <3>2 DEF Dated
    <3> QED
      BY <1>2, <2>1, <3>1, <3>3, UpdateFacts
  <2>2. CASE Take \/ Read \/ UpdateGet \/ RemoveTask \/ GiveUp
    BY <1>1, <2>2, WorkerFacts, DatesKept DEF Dated
  <2> QED
    BY <1>3, <2>1, <2>2 DEF Controller
<1>4. ASSUME NEW c \in Client, Request(c) \/ Carry(c) \/ Forward(c) \/ TimeOut(c) \/ WireLost(c)
      PROVE  Dated'
  <2>1. CASE Quiet(c)
    <3>1. Mutes(c) /\ UNCHANGED <<impl, rec, worker, writes>>
      BY <2>1, QuietFacts
    <3>2. /\ cmd'[c].pc = "save" => cmd'[c].created \in 0 .. Len(writes) + 1
          /\ cmd'[c].pc = "mark" => cmd'[c].record.created \in 0 .. Len(writes)
      <4>1. rec # NoRecord => rec.created \in 0 .. Len(writes) + 1
        BY <1>1 DEF Dated
      <4>2. CASE DefaultMetadata(c)
        <5>1. PICK t \in {Supplied, Now, rec.created} :
                SaveNext(c, t) /\ (t \in {Supplied, Now} \/ rec # NoRecord)
          BY <4>2 DEF DefaultMetadata
        <5>2. cmd'[c].pc = "save" /\ cmd'[c].created = t
          BY <5>1 DEF SaveNext, Typed
        <5>3. t \in 0 .. Len(writes) + 1
          BY <1>1, <4>1, <5>1 DEF Supplied
        <5> QED
          BY <5>2, <5>3
      <4>3. CASE CreateTask(c)
        <5>1. PICK v \in Value, t \in {Supplied, Now} : cmd' = [cmd EXCEPT ![c] =
                [pc |-> "save", phase |-> "Suspended", value |-> v, created |-> t]]
          BY <4>3 DEF CreateTask
        <5> QED
          BY <1>1, <5>1 DEF Supplied, Typed
      <4>4. CASE SetPhase(c, "Running") \/ SetPhase(c, "Suspended")
        BY <4>1, <4>4 DEF SetPhase, Typed
      <4>5. CASE ReadToDelete(c)
        <5>1. rec \in Record /\ rec # NoRecord /\ cmd'[c].record = Terminated /\ cmd'[c].pc = "mark"
          BY <4>5 DEF ReadToDelete, Typed
        <5>2. Terminated.created = rec.created
          BY <5>1 DEF Terminated, Record
        <5> QED
          BY <5>1, <5>2 DEF Dated
      <4>6. CASE Apply(c) \/ Poll(c) \/ TimeOut(c)
        BY <4>6 DEF Apply, Poll, TimeOut, StopWaiting, Idle, Typed
      <4>7. CASE ListNames(c) \/ ListRecords(c) \/ ListLocked(c) \/ Listed(c) \/ Initial(c)
        BY <4>7 DEF ListNames, ListRecords, ListLocked, Listed, Initial, Idle, Typed
      <4> QED
        BY <2>1, <4>2, <4>3, <4>4, <4>5, <4>6, <4>7 DEF Quiet
    <3> QED
      BY <1>1, <3>1, <3>2, DatesKept DEF Mutes
  <2>2. CASE Announce(c) \/ DeleteModel(c)
    <3>1. Mutes(c) /\ cmd'[c].pc \in {"idle", "poll"} /\ UNCHANGED <<impl, worker, writes>> /\ rec' \in {rec, NoRecord}
      BY <2>2, AnnounceFacts, DeleteModelFacts
    <3> QED
      BY <1>1, <3>1, DatesKept DEF Mutes
  <2>3. CASE Save(c)
    <3>1. PICK r \in Record, obj \in Nat : Writes(r, obj) /\ r.created = cmd[c].created
      BY <2>3, SaveFacts
    <3>2. r.created \in 0 .. Len(writes) + 1
      BY <1>1, <2>3, <3>1 DEF Save, Dated
    <3>3. cmd'[c].pc \notin {"save", "mark"}
      BY <2>3, SaveFacts DEF Return, Idle, Typed
    <3> QED
      BY <1>2, <2>3, <3>1, <3>2, <3>3, SaveFacts DEF Mutes
  <2>4. CASE MarkTaskDeleting(c)
    <3>1. PICK r \in Record, obj \in Nat :
            /\ Writes(r, obj)
            /\ \/ cmd[c].pc = "mark" /\ r.created = cmd[c].record.created
               \/ rec # NoRecord /\ r.created = rec.created
      BY <2>4, MarkFacts
    <3>2. r.created \in 0 .. Len(writes) + 1
      BY <1>1, <3>1 DEF At, Dated
    <3>3. cmd'[c].pc \notin {"save", "mark"}
      BY <2>4, MarkFacts DEF Return, Typed
    <3> QED
      BY <1>2, <2>4, <3>1, <3>2, <3>3, MarkFacts DEF Mutes
  <2>5. CASE WatchTask(c) \/ Leave(c) \/ Check(c) \/ Send(c) \/ Forward(c) \/ WireLost(c)
    <3>1. UNCHANGED <<impl, rec, worker, writes>>
      BY <2>5 DEF WatchTask, Leave, Check, Send, Forward, WireLost, past
    <3>2. \A d \in Client : cmd'[d] = cmd[d] \/ cmd'[d].pc \notin {"save", "mark"}
      BY <2>5 DEF WatchTask, Leave, Check, Send, Forward, WireLost, Quit, Idle, Typed
    <3> QED
      BY <1>1, <3>1, <3>2, DatesKept
  <2> QED
    BY <1>4, <2>1, <2>2, <2>3, <2>4, <2>5 DEF Request, Carry, Quiet
<1>5. CASE UNCHANGED vars
  BY <1>1, <1>5, DatesKept DEF vars, past
<1> QED
  BY <1>3, <1>4, <1>5 DEF Next

\* The memory store's queue stays within its size.
LEMMA FullStep ==
  ASSUME IInv, Full, [Next]_vars
  PROVE  Full' /\ impl' = impl
<1>1. Len(queue) \in Nat /\ QueueSize \in Nat /\ queue \in Seq(Action)
  BY LenProperties, StoreAssumption DEF IInv, Typed
<1>2. impl' = impl
  BY DEF Next, Controller, Take, Read, UpdateGet, UpdateTaskStatus, RemoveTask, GiveUp, Others,
         Request, Carry, Apply, CreateTask, SetPhase, DeleteModel, ReadToDelete, ListNames, ListLocked, WatchTask,
         DefaultMetadata, Save, MarkTaskDeleting, Announce, Poll, TimeOut, ListRecords, Listed, Initial,
         StopWaiting, Send, Check, Leave, Forward, WireLost, vars
<1>3. SUFFICES ASSUME Memory
               PROVE  Len(queue') <= QueueSize
  BY <1>2 DEF Full, Memory
<1>4. ~ Redis /\ Len(queue) <= QueueSize
  BY <1>3 DEF Full, Memory, Redis
<1>5. CASE queue' = queue
  BY <1>4, <1>5
<1>6. CASE queue # << >> /\ queue' = Tail(queue)
  BY <1>1, <1>4, <1>6, HeadTailProperties
<1>7. ASSUME NEW c \in Client, Announce(c)
      PROVE  Len(queue') <= QueueSize
  <2>1. cmd[c].action \in Action
    BY <1>7, AnnounceFacts DEF Announcing
  <2> QED
    BY <1>1, <1>4, <1>7, <2>1, AppendProperties DEF Announce
<1>8. CASE Controller \/ GiveUp
  BY <1>5, <1>6, <1>8, WorkerFacts, UpdateFacts DEF Controller
<1>9. ASSUME NEW c \in Client, Request(c) \/ Carry(c) \/ Forward(c) \/ TimeOut(c) \/ WireLost(c)
      PROVE  Len(queue') <= QueueSize
  <2>1. CASE Quiet(c) \/ DeleteModel(c)
    BY <1>5, <2>1, QuietFacts, DeleteModelFacts
  <2>2. CASE Save(c) \/ MarkTaskDeleting(c)
    BY <1>4, <1>5, <2>2, SaveFacts, MarkFacts DEF Emit
  <2>3. CASE WatchTask(c) \/ Leave(c) \/ Check(c) \/ Send(c) \/ Forward(c) \/ WireLost(c)
    BY <1>5, <2>3 DEF WatchTask, Leave, Check, Send, Forward, WireLost
  <2> QED
    BY <1>7, <1>9, <2>1, <2>2, <2>3 DEF Request, Carry, Quiet
<1>10. CASE UNCHANGED vars
  BY <1>5, <1>10 DEF vars
<1> QED
  BY <1>8, <1>9, <1>10 DEF Next

\* Redis emits the event together with the record.
LEMMA ApartStep ==
  ASSUME IInv, Full, Apart, [Next]_vars
  PROVE  Apart'
<1>1. impl' = impl /\ impl \in {"redis", "memory"}
  BY FullStep DEF IInv, Typed
<1>2. SUFFICES \A d \in Client : cmd'[d] = cmd[d] \/ (cmd'[d].pc = "announce" => ~ Redis)
  BY <1>1 DEF Apart, At, Memory, Redis
<1>3. CASE Controller \/ GiveUp
  BY <1>3, WorkerFacts, UpdateFacts DEF Controller
<1>4. ASSUME NEW c \in Client, Request(c) \/ Carry(c) \/ Forward(c) \/ TimeOut(c) \/ WireLost(c)
      PROVE  \A d \in Client : cmd'[d] = cmd[d] \/ (cmd'[d].pc = "announce" => ~ Redis)
  <2>1. CASE Quiet(c) \/ DeleteModel(c) \/ Announce(c)
    BY <2>1, QuietFacts, DeleteModelFacts, AnnounceFacts DEF Mutes
  <2>2. CASE Save(c) \/ MarkTaskDeleting(c)
    <3>1. /\ \A d \in Client \ {c} : cmd'[d] = cmd[d]
          /\ \/ cmd' = [cmd EXCEPT ![c] = Idle]
             \/ Return(c, "idle", "reconcile") \/ Return(c, "poll", "delete")
      BY <2>2, SaveFacts, MarkFacts DEF Mutes
    <3>2. cmd'[c].pc = "announce" => ~ Redis
      BY <3>1 DEF Return, Idle, IInv, Typed
    <3> QED
      BY <3>1, <3>2
  <2>3. CASE WatchTask(c) \/ Leave(c) \/ Check(c) \/ Send(c) \/ Forward(c) \/ WireLost(c)
    BY <2>3 DEF WatchTask, Leave, Check, Send, Forward, WireLost, Quit, Idle, IInv, Typed
  <2> QED
    BY <1>4, <2>1, <2>2, <2>3 DEF Request, Carry, Quiet
<1>5. CASE UNCHANGED vars
  BY <1>5 DEF vars
<1> QED
  BY <1>3, <1>4, <1>5 DEF Next

\* What the watches hold, when everything was created and that the queue fits.
THEOREM WatchesAreFed == Spec => [](IInv /\ FInv)
<1>1. Init => FInv
  <2>1. SUFFICES ASSUME Init
                 PROVE  FInv
    OBVIOUS
  <2>2. /\ cmd = [c \in Client |-> Idle] /\ worker = Idle /\ queue = << >>
        /\ wire = [c \in Client |-> << >>] /\ chan = [c \in Client |-> << >>]
        /\ told = [c \in Client |-> 0] /\ skipped = {}
    BY <2>1 DEF Init
  <2>3. << >> \in Seq(Nat) /\ << >> \in Seq(Message) /\ Len(<< >>) = 0
    BY EmptySeq
  <2>4. WatchTyped
    BY <2>2, <2>3 DEF WatchTyped
  <2>5. /\ Len(writes) \in Nat
        /\ \/ rec = NoRecord /\ Len(writes) = 0
           \/ rec.created = 1 /\ Len(writes) = 1
    <3>1. CASE rec = NoRecord /\ writes = << >>
      BY <2>3, <3>1
    <3>2. ASSUME NEW v \in Value, NEW p \in {"Suspended", "none yet"},
                 rec = [value |-> v, created |-> 1, phase |-> p, obj |-> 1], writes = <<p>>
          PROVE  rec.created = 1 /\ Len(writes) = 1
      BY <3>2
    <3> QED
      BY <2>1, <3>1, <3>2 DEF Init
  <2>6. ASSUME NEW c \in Client
        PROVE  Fed(c)
    <3>1. c \notin Watching /\ ~ At(c, "sent") /\ Sent(c) = 0
      BY <2>2 DEF Watching, At, Idle, Sent
    <3>2. wire[c] = << >> /\ chan[c] = << >> /\ told[c] = 0 /\ ChannelSize \in Nat
      BY <2>2, StoreAssumption
    <3>3. Feed(c)
      BY <2>3, <2>5, <3>1, <3>2 DEF Feed
    <3> QED
      BY <3>1, <3>3 DEF Fed
  <2>7. Dated
    <3>1. worker.pc = "idle" /\ \A c \in Client : cmd[c].pc = "idle"
      BY <2>2 DEF Idle
    <3>2. rec # NoRecord => rec.created \in 0 .. Len(writes)
      <4>1. rec # NoRecord => rec.created = 1 /\ Len(writes) = 1
        BY <2>5
      <4>2. 1 \in 1 .. 1
        OBVIOUS
      <4> QED
        BY <4>1, <4>2
    <3> QED
      BY <3>1, <3>2 DEF Dated, At
  <2>8. Full
    BY <2>2, <2>3, StoreAssumption DEF Full
  <2>9. Apart
    BY <2>2 DEF Apart, At, Idle
  <2> QED
    BY <2>4, <2>6, <2>7, <2>8, <2>9 DEF FInv
<1>2. IInv /\ IInv' /\ FInv /\ [Next]_vars => FInv'
  BY WatchStep, DatedStep, FullStep, ApartStep DEF FInv
<1> QED
  BY <1>1, <1>2, Inductive, PTL DEF Spec

\* The record, the queue, the channels and what the watchers were told are of
\* the right kind and size, and every message is about a write that has been.
THEOREM TypeCorrect == Spec => []TypeOK
<1>1. IInv /\ FInv => TypeOK
  <2>1. SUFFICES ASSUME IInv, FInv
                 PROVE  TypeOK
    OBVIOUS
  <2>2. rec # NoRecord => rec.value \in Value /\ rec.created \in 0 .. Len(writes) /\ rec.phase \in Phase
    BY <2>1, RecordFacts DEF IInv, Typed, FInv, Dated
  <2>3. queue \in Seq({"reconcile", "delete"}) /\ (Memory => Len(queue) <= QueueSize)
    BY <2>1 DEF IInv, Typed, Action, FInv, Full
  <2>4. ASSUME NEW c \in Client
        PROVE  /\ Len(chan[c]) <= ChannelSize + (IF At(c, "sent") THEN 1 ELSE 0)
               /\ \A i \in DOMAIN chan[c] : chan[c][i].write \in 1 .. Len(writes)
               /\ told[c] \in 0 .. Len(writes)
    <3>1. DOMAIN chan[c] = 1 .. Len(chan[c])
      BY <2>1, LenProperties DEF FInv, WatchTyped
    <3>2. Feed(c)
      BY <2>1 DEF FInv, Fed
    <3> QED
      BY <3>1, <3>2 DEF Feed, Sent
  <2> QED
    BY <2>2, <2>3, <2>4 DEF TypeOK
<1> QED
  BY <1>1, WatchesAreFed, PTL

-----------------------------------------------------------------------------
(* Counting events *)

Places(q, a) == {i \in DOMAIN q : q[i] = a}
Count(q, a) == Cardinality(Places(q, a))

\* The positions of an event in a queue are finitely many.
LEMMA CountFinite ==
  ASSUME NEW q \in Seq(Action), NEW a
  PROVE  IsFiniteSet(Places(q, a)) /\ Count(q, a) \in Nat
<1>1. DOMAIN q = 1 .. Len(q) /\ Len(q) \in Nat
  BY LenProperties
<1>2. IsFiniteSet(1 .. Len(q))
  BY <1>1, FS_Interval
<1>3. Places(q, a) \in SUBSET (1 .. Len(q))
  BY <1>1 DEF Places
<1>4. IsFiniteSet(Places(q, a))
  BY <1>2, <1>3, FS_Subset
<1> QED
  BY <1>4, FS_CardinalityType DEF Count

\* An event more at the end is one more of its kind.
LEMMA CountAppend ==
  ASSUME NEW q \in Seq(Action), NEW b \in Action, NEW a
  PROVE  Count(Append(q, b), a) = Count(q, a) + (IF a = b THEN 1 ELSE 0)
<1>1. /\ Len(q) \in Nat /\ DOMAIN q = 1 .. Len(q) /\ Append(q, b) \in Seq(Action)
      /\ DOMAIN Append(q, b) = 1 .. Len(q) + 1
      /\ \A i \in 1 .. Len(q) : Append(q, b)[i] = q[i]
      /\ Append(q, b)[Len(q) + 1] = b
  BY LenProperties, AppendProperties
<1>2. Places(Append(q, b), a) = Places(q, a) \cup (IF a = b THEN {Len(q) + 1} ELSE {})
  <2>1. ASSUME NEW i
        PROVE  i \in Places(Append(q, b), a) <=> i \in Places(q, a) \/ (a = b /\ i = Len(q) + 1)
    <3>1. CASE i = Len(q) + 1
      <4>1. i \in 1 .. Len(q) + 1 /\ i \notin 1 .. Len(q)
        BY <1>1, <3>1
      <4> QED
        BY <1>1, <3>1, <4>1 DEF Places
    <3>2. CASE i # Len(q) + 1
      <4>1. i \in 1 .. Len(q) + 1 <=> i \in 1 .. Len(q)
        BY <1>1, <3>2
      <4> QED
        BY <1>1, <3>2, <4>1 DEF Places
    <3> QED
      BY <3>1, <3>2
  <2> QED
    BY <2>1
<1>3. Len(q) + 1 \notin Places(q, a)
  BY <1>1 DEF Places
<1>4. IsFiniteSet(Places(q, a)) /\ Count(q, a) \in Nat
  BY CountFinite
<1>5. CASE a = b
  BY <1>2, <1>3, <1>4, <1>5, FS_AddElement DEF Count
<1>6. CASE a # b
  BY <1>2, <1>4, <1>6 DEF Count
<1> QED
  BY <1>5, <1>6

\* Without its first event a queue has one less of its kind.
LEMMA CountTail ==
  ASSUME NEW q \in Seq(Action), q # << >>, NEW a
  PROVE  Count(q, a) = Count(Tail(q), a) + (IF a = Head(q) THEN 1 ELSE 0)
<1>1. /\ Len(q) \in Nat \ {0} /\ DOMAIN q = 1 .. Len(q) /\ Tail(q) \in Seq(Action)
      /\ Head(q) = q[1] /\ Len(Tail(q)) = Len(q) - 1
      /\ DOMAIN Tail(q) = 1 .. Len(q) - 1
      /\ \A i \in 1 .. Len(q) - 1 : Tail(q)[i] = q[i + 1]
  <2>1. Len(q) \in Nat \ {0} /\ DOMAIN q = 1 .. Len(q)
    BY LenProperties, EmptySeq
  <2>2. Tail(q) \in Seq(Action) /\ Head(q) = q[1] /\ Len(Tail(q)) = Len(q) - 1
        /\ \A i \in 1 .. Len(Tail(q)) : Tail(q)[i] = q[i + 1]
    BY HeadTailProperties
  <2>3. DOMAIN Tail(q) = 1 .. Len(Tail(q))
    BY <2>2, LenProperties
  <2> QED
    BY <2>1, <2>2, <2>3
<1> DEFINE S == Places(Tail(q), a)
           T == Places(q, a) \ {1}
           f == [i \in S |-> i + 1]
<1>2. ASSUME NEW i \in S
      PROVE  i \in Nat /\ i + 1 \in T
  BY <1>1 DEF Places
<1>3. ASSUME NEW j \in T
      PROVE  j - 1 \in S /\ j = (j - 1) + 1
  <2>1. j \in 1 .. Len(q) /\ j # 1 /\ q[j] = a
    BY <1>1 DEF Places
  <2>2. j - 1 \in 1 .. Len(q) - 1 /\ j = (j - 1) + 1
    BY <1>1, <2>1
  <2>3. Tail(q)[j - 1] = q[j]
    BY <1>1, <2>2
  <2> QED
    BY <1>1, <2>1, <2>2, <2>3 DEF Places
<1>4. f \in [S -> T]
  BY <1>2
<1>5. f \in Injection(S, T)
  <2>1. \A i \in S, j \in S : f[i] = f[j] => i = j
    BY <1>2
  <2> QED
    BY <1>4, <2>1 DEF Injection, IsInjective
<1>6. f \in Surjection(S, T)
  <2>1. \A j \in T : \E i \in S : f[i] = j
    BY <1>3
  <2> QED
    BY <1>4, <2>1 DEF Surjection
<1>7. ExistsBijection(S, T)
  BY <1>5, <1>6 DEF ExistsBijection, Bijection
<1>8. IsFiniteSet(S) /\ IsFiniteSet(Places(q, a)) /\ Count(q, a) \in Nat /\ Count(Tail(q), a) \in Nat
  BY <1>1, CountFinite
<1>9. Cardinality(T) = Cardinality(S)
  BY <1>7, <1>8, FS_Bijection
<1>10. Cardinality(T) = IF 1 \in Places(q, a) THEN Cardinality(Places(q, a)) - 1 ELSE Cardinality(Places(q, a))
  BY <1>8, FS_RemoveElement
<1>11. 1 \in Places(q, a) <=> a = Head(q)
  BY <1>1 DEF Places
<1> HIDE DEF S, T
<1>12. Cardinality(S) = Count(Tail(q), a) /\ Cardinality(Places(q, a)) = Count(q, a)
  BY DEF S, Count
<1>13. CASE a = Head(q)
  <2>1. Count(Tail(q), a) = Count(q, a) - 1
    BY <1>9, <1>10, <1>11, <1>12, <1>13
  <2>2. Count(q, a) = Count(Tail(q), a) + 1
    BY <1>8, <2>1
  <2> QED
    BY <1>13, <2>2
<1>14. CASE a # Head(q)
  <2>1. Count(Tail(q), a) = Count(q, a)
    BY <1>9, <1>10, <1>11, <1>12, <1>14
  <2>2. Count(q, a) = Count(Tail(q), a) + 0
    BY <1>8, <2>1
  <2> QED
    BY <1>14, <2>2
<1> QED
  BY <1>13, <1>14

\* The two kinds of events make up the queue.
LEMMA CountAll ==
  ASSUME NEW q \in Seq(Action)
  PROVE  Count(q, "reconcile") + Count(q, "delete") = Len(q)
<1> DEFINE R == Places(q, "reconcile")
           D == Places(q, "delete")
<1>1. DOMAIN q = 1 .. Len(q) /\ Len(q) \in Nat /\ \A i \in 1 .. Len(q) : q[i] \in Action
  BY LenProperties, ElementOfSeq
<1>2. R \cup D = 1 .. Len(q) /\ R \cap D = {}
  BY <1>1 DEF Places, Action
<1>3. IsFiniteSet(R) /\ IsFiniteSet(D) /\ Count(q, "reconcile") \in Nat /\ Count(q, "delete") \in Nat
  BY CountFinite
<1>4. Cardinality(R \cup D) = Cardinality(R) + Cardinality(D) - Cardinality(R \cap D)
  BY <1>3, FS_Union
<1>5. Cardinality(1 .. Len(q)) = Len(q)
  <2>1. Cardinality(1 .. Len(q)) = IF 1 > Len(q) THEN 0 ELSE Len(q) - 1 + 1
    BY <1>1, FS_Interval
  <2> QED
    BY <1>1, <2>1
<1>6. Cardinality({}) = 0
  BY FS_EmptySet
<1>7. Len(q) = Count(q, "reconcile") + Count(q, "delete") - 0
  BY <1>2, <1>4, <1>5, <1>6 DEF Count
<1> QED
  BY <1>3, <1>7

\* Clients whose event the memory store is about to put into its queue.
Announcers(a) == {c \in Client : At(c, "announce") /\ cmd[c].action = a}

LEMMA AnnouncersFinite ==
  ASSUME NEW a
  PROVE  /\ IsFiniteSet(Announcers(a)) /\ Unannounced(a) \in Nat
         /\ Unannounced(a) = Cardinality(Announcers(a))
<1>1. IsFiniteSet(Announcers(a))
  BY StoreAssumption, FS_Subset DEF Announcers
<1> QED
  BY <1>1, FS_CardinalityType DEF Announcers, Unannounced

\* One client more or less of them.
LEMMA AnnouncersStep ==
  ASSUME NEW c \in Client, \A d \in Client \ {c} : cmd'[d] = cmd[d], NEW a
  PROVE  /\ cmd[c].pc # "announce" /\ cmd'[c].pc # "announce" => Unannounced(a)' = Unannounced(a)
         /\ cmd[c].pc # "announce" /\ cmd'[c].pc = "announce" =>
              Unannounced(a)' = Unannounced(a) + (IF a = cmd'[c].action THEN 1 ELSE 0)
         /\ cmd[c].pc = "announce" /\ cmd'[c].pc # "announce" =>
              Unannounced(a) = Unannounced(a)' + (IF a = cmd[c].action THEN 1 ELSE 0)
<1> DEFINE A == Announcers(a)
           B == {d \in Client : cmd'[d].pc = "announce" /\ cmd'[d].action = a}
<1>1. IsFiniteSet(A) /\ Cardinality(A) = Unannounced(a) /\ Unannounced(a) \in Nat
  BY AnnouncersFinite
<1>2. IsFiniteSet(B) /\ Cardinality(B) = Unannounced(a)' /\ Cardinality(B) \in Nat
  <2>1. IsFiniteSet(B)
    BY StoreAssumption, FS_Subset
  <2>2. Cardinality(B) = Unannounced(a)'
    BY DEF Unannounced, At
  <2> QED
    BY <2>1, <2>2, FS_CardinalityType
<1>3. \A d \in Client \ {c} : d \in A <=> d \in B
  BY DEF Announcers, At
<1>4. /\ c \in A <=> cmd[c].pc = "announce" /\ cmd[c].action = a
      /\ c \in B <=> cmd'[c].pc = "announce" /\ cmd'[c].action = a
  BY DEF Announcers, At
<1>5. A \subseteq Client /\ B \subseteq Client
  BY DEF Announcers
<1> HIDE DEF A, B
<1>6. CASE (c \in A) <=> (c \in B)
  <2>1. A = B
    BY <1>3, <1>5, <1>6
  <2> QED
    BY <1>1, <1>2, <1>4, <1>6, <2>1
<1>7. CASE c \notin A /\ c \in B
  <2>1. B = A \cup {c}
    BY <1>3, <1>5, <1>7
  <2>2. Cardinality(B) = Cardinality(A) + 1
    BY <1>1, <1>7, <2>1, FS_AddElement
  <2> QED
    BY <1>1, <1>2, <1>4, <1>7, <2>2
<1>8. CASE c \in A /\ c \notin B
  <2>1. A = B \cup {c}
    BY <1>3, <1>5, <1>8
  <2>2. Cardinality(A) = Cardinality(B) + 1
    BY <1>2, <1>8, <2>1, FS_AddElement
  <2> QED
    BY <1>1, <1>2, <1>4, <1>8, <2>2
<1> QED
  BY <1>6, <1>7, <1>8

-----------------------------------------------------------------------------
(* What waits *)

\* An event waits in the queue or with the client that is about to put it there.
LEMMA WaitingFacts ==
  ASSUME Typed
  PROVE  /\ Waiting = [a \in Action |-> Count(queue, a) + Unannounced(a)]
         /\ \A a \in Action : Count(queue, a) \in Nat /\ Unannounced(a) \in Nat
         /\ Waiting \in [Action -> Nat]
<1>1. Waiting = [a \in Action |-> Count(queue, a) + Unannounced(a)]
  BY DEF Waiting, Queued, Count, Places, Action
<1>2. \A a \in Action : Count(queue, a) \in Nat /\ Unannounced(a) \in Nat
  BY CountFinite, AnnouncersFinite DEF Typed
<1> QED
  BY <1>1, <1>2

\* No event more or less, one more, one less.
LEMMA WaitingSteps ==
  ASSUME Typed, Typed'
  PROVE  /\ \A a \in Action : Unannounced(a)' \in Nat
         /\ (\A a \in Action : Count(queue', a) + Unannounced(a)' = Count(queue, a) + Unannounced(a))
              => Waiting' = Waiting
         /\ \A b \in Action :
              /\ (\A a \in Action : Count(queue', a) + Unannounced(a)'
                                      = Count(queue, a) + Unannounced(a) + (IF a = b THEN 1 ELSE 0))
                   => Waiting' = [Waiting EXCEPT ![b] = @ + 1]
              /\ (\A a \in Action : Count(queue, a) + Unannounced(a)
                                      = Count(queue', a) + Unannounced(a)' + (IF a = b THEN 1 ELSE 0))
                   => Waiting' = [Waiting EXCEPT ![b] = @ - 1] /\ Waiting[b] > 0
<1>1. /\ Waiting = [a \in Action |-> Count(queue, a) + Unannounced(a)]
      /\ Waiting' = [a \in Action |-> Count(queue', a) + Unannounced(a)']
      /\ \A a \in Action : /\ Count(queue, a) \in Nat /\ Unannounced(a) \in Nat
                           /\ Count(queue', a) \in Nat /\ Unannounced(a)' \in Nat
  <2>1. Waiting' = [a \in Action |-> Count(queue', a) + Unannounced(a)']
    BY DEF Waiting, Queued, Count, Places, Action
  <2>2. \A a \in Action : Count(queue', a) \in Nat
    BY CountFinite DEF Typed
  <2>3. ASSUME NEW a \in Action
        PROVE  Unannounced(a)' \in Nat
    <3>1. IsFiniteSet(Announcers(a)')
      BY StoreAssumption, FS_Subset DEF Announcers
    <3>2. Unannounced(a)' = Cardinality(Announcers(a)')
      BY DEF Unannounced, Announcers
    <3> QED
      BY <3>1, <3>2, FS_CardinalityType
  <2> QED
    BY <2>1, <2>2, <2>3, WaitingFacts
<1>2. ASSUME \A a \in Action : Count(queue', a) + Unannounced(a)' = Count(queue, a) + Unannounced(a)
      PROVE  Waiting' = Waiting
  BY <1>1, <1>2
<1>3. ASSUME NEW b \in Action,
             \A a \in Action : Count(queue', a) + Unannounced(a)'
                                 = Count(queue, a) + Unannounced(a) + (IF a = b THEN 1 ELSE 0)
      PROVE  Waiting' = [Waiting EXCEPT ![b] = @ + 1]
  BY <1>1, <1>3
<1>4. ASSUME NEW b \in Action,
             \A a \in Action : Count(queue, a) + Unannounced(a)
                                 = Count(queue', a) + Unannounced(a)' + (IF a = b THEN 1 ELSE 0)
      PROVE  Waiting' = [Waiting EXCEPT ![b] = @ - 1] /\ Waiting[b] > 0
  <2>1. ASSUME NEW a \in Action
        PROVE  Waiting'[a] = IF a = b THEN Waiting[a] - 1 ELSE Waiting[a]
    <3>1. CASE a = b
      BY <1>1, <1>4, <3>1
    <3>2. CASE a # b
      BY <1>1, <1>4, <3>2
    <3> QED
      BY <3>1, <3>2
  <2>2. Waiting[b] > 0
    BY <1>1, <1>4
  <2> QED
    BY <1>1, <2>1, <2>2
<1> QED
  BY <1>1, <1>2, <1>3, <1>4

\* Commands of which none announces, before and after.
LEMMA WaitingSame ==
  ASSUME Typed, Typed', queue' = queue,
         \/ cmd' = cmd
         \/ \E c \in Client : /\ \A d \in Client \ {c} : cmd'[d] = cmd[d]
                              /\ cmd[c].pc # "announce" /\ cmd'[c].pc # "announce"
  PROVE  Waiting' = Waiting
<1>1. \A a \in Action : Unannounced(a)' = Unannounced(a)
  <2>1. CASE cmd' = cmd
    BY <2>1 DEF Unannounced, At
  <2>2. ASSUME NEW c \in Client, \A d \in Client \ {c} : cmd'[d] = cmd[d],
               cmd[c].pc # "announce", cmd'[c].pc # "announce"
        PROVE  \A a \in Action : Unannounced(a)' = Unannounced(a)
    BY <2>2, AnnouncersStep
  <2> QED
    BY <2>1, <2>2
<1> QED
  BY <1>1, WaitingSteps

\* Whoever writes emits one event: into the queue or to be announced.
LEMMA WaitingMore ==
  ASSUME Typed, Typed', NEW c \in Client, NEW b \in Action, NEW then \in {"idle", "poll"},
         cmd[c].pc # "announce", Emit(b), Return(c, then, b), impl' = impl
  PROVE  Waiting' = [Waiting EXCEPT ![b] = @ + 1]
<1>1. /\ \A d \in Client \ {c} : cmd'[d] = cmd[d]
      /\ Redis => cmd'[c].pc # "announce"
      /\ ~ Redis => cmd'[c].pc = "announce" /\ cmd'[c].action = b
  BY DEF Return, Typed
<1>2. ASSUME NEW a \in Action
      PROVE  Count(queue', a) + Unannounced(a)' = Count(queue, a) + Unannounced(a) + (IF a = b THEN 1 ELSE 0)
  <2>1. Count(queue, a) \in Nat /\ Unannounced(a) \in Nat /\ queue \in Seq(Action)
    BY WaitingFacts DEF Typed
  <2>2. CASE Redis
    <3>1. Count(queue', a) = Count(queue, a) + (IF a = b THEN 1 ELSE 0)
      BY <2>1, <2>2, CountAppend DEF Emit
    <3>2. Unannounced(a)' = Unannounced(a)
      BY <1>1, <2>2, AnnouncersStep
    <3> QED
      BY <2>1, <3>1, <3>2
  <2>3. CASE ~ Redis
    <3>1. Count(queue', a) = Count(queue, a)
      BY <2>3 DEF Emit
    <3>2. Unannounced(a)' = Unannounced(a) + (IF a = b THEN 1 ELSE 0)
      BY <1>1, <2>3, AnnouncersStep
    <3> QED
      BY <2>1, <3>1, <3>2
  <2> QED
    BY <2>2, <2>3
<1> QED
  BY <1>2, WaitingSteps

-----------------------------------------------------------------------------
(* The steps, as steps of the contract *)

LEMMA EventFacts ==
  ASSUME Typed
  PROVE  /\ worker # Idle <=> worker.pc # "idle"
         /\ Event \in Action \cup {"none"} /\ (worker # Idle => Event = worker.event /\ Event \in Action)
  BY DEF Typed, Event, Idle, Handling, Deciding, Updating

\* A write is a change, with an event or without.
LEMMA ChangeStep ==
  ASSUME IInv, IInv', FInv, NEW r \in Record, NEW obj \in Nat, Writes(r, obj),
         \A c \in Client : (At(c, "sent")' <=> At(c, "sent")) /\ (c \in Watching' <=> c \in Watching),
         Watching' = Watching, Event' \in {Event, "none"},
         Waiting' = Waiting \/ \E b \in Action : Waiting' = [Waiting EXCEPT ![b] = @ + 1]
  PROVE  Contract!Change
<1>1. r.phase \in Phase /\ rec' # NoRecord /\ impl' = impl /\ told' = told
  BY RecordFacts DEF Writes
<1>2. Len(writes') = Len(writes) + 1
  BY <1>1, AppendProperties DEF Writes, IInv, Typed
<1>3. skipped \subseteq skipped' /\ skipped' \subseteq skipped \cup (IF Memory THEN Watching ELSE {})
  BY <1>1, NotifyFeeds DEF Writes, IInv
<1> QED
  BY <1>1, <1>2, <1>3 DEF Contract!Change, Contract!Done, Contract!Action, Action, Memory

\* Steps of which the contract says nothing.
LEMMA QuietStep ==
  ASSUME IInv, IInv', NEW c \in Client, Quiet(c)
  PROVE  UNCHANGED Contract!vars
<1>1. /\ Mutes(c) /\ cmd[c].pc # "announce" /\ cmd'[c].pc # "announce"
      /\ UNCHANGED <<impl, rec, queue, worker, writes, told, skipped>>
  BY QuietFacts DEF watch
<1>2. Waiting' = Waiting
  BY <1>1, WaitingSame DEF Mutes, IInv
<1>3. Watching' = Watching
  BY <1>1, Mute
<1> QED
  BY <1>1, <1>2, <1>3 DEF Contract!vars, Contract!events, Contract!feeds, Memory, Event

\* An event reaches the queue, or is lost to a full one.
LEMMA AnnounceStep ==
  ASSUME IInv, IInv', FInv, NEW c \in Client, Announce(c)
  PROVE  UNCHANGED Contract!vars \/ \E a \in Contract!Action : Contract!Lose(a)
<1>1. /\ Mutes(c) /\ cmd[c] \in Announcing /\ cmd'[c].pc \in {"idle", "poll"}
      /\ UNCHANGED <<impl, rec, worker, writes, told, skipped>>
  BY AnnounceFacts DEF watch
<1>2. PICK b \in Action : b = cmd[c].action
  BY <1>1 DEF Announcing
<1>3. /\ cmd[c].pc = "announce" /\ cmd'[c].pc # "announce"
      /\ \A d \in Client \ {c} : cmd'[d] = cmd[d]
  BY <1>1 DEF Announcing, Mutes
<1>4. Watching' = Watching /\ Event' = Event
  BY <1>1, Mute DEF Event
<1>5. \A a \in Action : Unannounced(a) = Unannounced(a)' + (IF a = b THEN 1 ELSE 0)
  BY <1>2, <1>3, AnnouncersStep
<1>6. \A a \in Action : /\ Count(queue, a) \in Nat /\ Unannounced(a) \in Nat
                        /\ Waiting[a] = Count(queue, a) + Unannounced(a)
  BY WaitingFacts DEF IInv
<1>7. Typed /\ Typed' /\ queue \in Seq(Action) /\ Len(queue) \in Nat /\ QueueSize \in Nat
  BY LenProperties, StoreAssumption DEF IInv, Typed
<1>8. \A a \in Action : Unannounced(a)' \in Nat
  BY <1>7, WaitingSteps
<1>9. CASE Len(queue) < QueueSize
  <2>1. queue' = Append(queue, b)
    BY <1>2, <1>9 DEF Announce
  <2>2. ASSUME NEW a \in Action
        PROVE  Count(queue', a) + Unannounced(a)' = Count(queue, a) + Unannounced(a)
    <3>1. Count(queue', a) = Count(queue, a) + (IF a = b THEN 1 ELSE 0)
      BY <1>7, <2>1, CountAppend
    <3> QED
      BY <1>5, <1>6, <1>8, <3>1
  <2>3. Waiting' = Waiting
    BY <1>7, <2>2, WaitingSteps
  <2> QED
    BY <1>1, <1>4, <2>3 DEF Contract!vars, Contract!events, Contract!feeds, Memory
<1>10. CASE ~ Len(queue) < QueueSize
  <2>1. queue' = queue
    BY <1>10 DEF Announce
  <2>2. Waiting' = [Waiting EXCEPT ![b] = @ - 1] /\ Waiting[b] > 0
    <3>1. \A a \in Action : Count(queue, a) + Unannounced(a)
                              = Count(queue', a) + Unannounced(a)' + (IF a = b THEN 1 ELSE 0)
      BY <1>5, <1>6, <1>8, <2>1
    <3> QED
      BY <1>7, <3>1, WaitingSteps
  <2>3. Waiting["reconcile"] + Waiting["delete"] > QueueSize
    <3>1. Count(queue, "reconcile") + Count(queue, "delete") = Len(queue)
      BY <1>7, CountAll
    <3>2. Unannounced(b) > 0
      BY <1>5, <1>8
    <3>3. "reconcile" \in Action /\ "delete" \in Action /\ b \in {"reconcile", "delete"}
      BY DEF Action
    <3> QED
      BY <1>6, <1>7, <1>10, <3>1, <3>2, <3>3
  <2>4. Memory
    BY <1>3 DEF FInv, Apart, At
  <2>5. Contract!Lose(b)
    BY <1>1, <1>4, <2>2, <2>3, <2>4 DEF Contract!Lose, Contract!feeds, Memory
  <2> QED
    BY <2>5 DEF Contract!Action, Action
<1> QED
  BY <1>9, <1>10

\* A Model is erased at once, a Task by the worker.
LEMMA EraseStep ==
  ASSUME IInv, IInv', NEW c \in Client, DeleteModel(c)
  PROVE  Contract!Erase
<1>1. /\ Mutes(c) /\ cmd[c].pc # "announce" /\ cmd'[c].pc # "announce" /\ rec' = NoRecord
      /\ UNCHANGED <<impl, queue, worker, writes, told, skipped>>
  BY DeleteModelFacts DEF watch
<1>2. Waiting' = Waiting
  BY <1>1, WaitingSame DEF Mutes, IInv
<1>3. Watching' = Watching
  BY <1>1, Mute
<1> QED
  BY <1>1, <1>2, <1>3 DEF Contract!Erase, Contract!Done, Contract!feeds, Memory, Event

\* Saving and marking write and emit.
LEMMA WriteSteps ==
  ASSUME IInv, IInv', FInv, NEW c \in Client, Save(c) \/ MarkTaskDeleting(c)
  PROVE  Contract!Change
<1>1. /\ Mutes(c) /\ cmd[c].pc \in {"save", "mark", "idle"} /\ worker' = worker
      /\ \E r \in Record, obj \in Nat : Writes(r, obj)
  BY SaveFacts, MarkFacts
<1>2. PICK r \in Record, obj \in Nat : Writes(r, obj)
  BY <1>1
<1>3. impl' = impl /\ Event' = Event
  BY <1>1, <1>2 DEF Writes, Event
<1>4. Waiting' = Waiting \/ \E b \in Action : Waiting' = [Waiting EXCEPT ![b] = @ + 1]
  <2>1. CASE Emit("reconcile") /\ Return(c, "idle", "reconcile")
    BY <1>1, <1>3, <2>1, WaitingMore DEF Action, IInv
  <2>2. CASE Emit("delete") /\ Return(c, "poll", "delete")
    BY <1>1, <1>3, <2>2, WaitingMore DEF Action, IInv
  <2>3. CASE queue' = queue /\ cmd' = [cmd EXCEPT ![c] = Idle]
    <3>1. cmd'[c].pc # "announce" /\ \A d \in Client \ {c} : cmd'[d] = cmd[d]
      BY <2>3 DEF Idle, IInv, Typed
    <3> QED
      BY <1>1, <2>3, <3>1, WaitingSame DEF IInv
  <2> QED
    BY <2>1, <2>2, <2>3, SaveFacts, MarkFacts
<1> QED
  BY <1>1, <1>2, <1>3, <1>4, Mute, ChangeStep

\* Steps at a watch: its client's command and messages only.
LEMMA WatchFacts ==
  ASSUME IInv, IInv', NEW c \in Client,
         WatchTask(c) \/ Forward(c) \/ WireLost(c) \/ Send(c) \/ Check(c) \/ Leave(c)
  PROVE  /\ UNCHANGED <<impl, rec, queue, worker, writes>> /\ Waiting' = Waiting /\ Event' = Event
         /\ \A d \in Client \ {c} : cmd'[d] = cmd[d]
<1>1. UNCHANGED <<impl, rec, queue, worker, writes>>
  BY DEF WatchTask, Forward, WireLost, Send, Check, Leave, past
<1>2. \/ cmd' = cmd
      \/ /\ \A d \in Client \ {c} : cmd'[d] = cmd[d]
         /\ cmd[c].pc # "announce" /\ cmd'[c].pc # "announce"
  BY DEF WatchTask, Forward, WireLost, Send, Check, Leave, Command, At, Quit, Idle, IInv, Typed
<1>3. Waiting' = Waiting
  BY <1>1, <1>2, WaitingSame DEF IInv
<1> QED
  BY <1>1, <1>2, <1>3 DEF Event

\* A watch begins, is told, is cut off and ends.
LEMMA FeedSteps ==
  ASSUME IInv, IInv', FInv, NEW c \in Client,
         WatchTask(c) \/ Forward(c) \/ WireLost(c) \/ Send(c) \/ Check(c) \/ Leave(c)
  PROVE  \/ UNCHANGED Contract!vars
         \/ Contract!Watch(c) \/ Contract!Tell(c) \/ Contract!Cut(c) \/ Contract!Leave(c)
<1>1. /\ UNCHANGED <<impl, rec, queue, worker, writes>> /\ Waiting' = Waiting /\ Event' = Event
      /\ \A d \in Client \ {c} : cmd'[d] = cmd[d]
  BY WatchFacts
<1>2. /\ Memory' = Memory /\ Len(writes') = Len(writes) /\ (rec' # NoRecord) = (rec # NoRecord)
      /\ \A d \in Client \ {c} : d \in Watching' <=> d \in Watching
      /\ Watching \subseteq Client /\ Watching' \subseteq Client
  BY <1>1 DEF Memory, Watching
<1>3. CASE WatchTask(c)
  <2>1. /\ told' = [told EXCEPT ![c] = Len(writes)] /\ skipped' = skipped \ {c}
        /\ cmd[c].pc = "idle" /\ cmd'[c].pc = "initial"
    BY <1>3 DEF WatchTask, Command, At, IInv, Typed
  <2>2. c \notin Watching /\ Watching' = Watching \cup {c}
    BY <1>2, <2>1 DEF Watching
  <2> QED
    BY <1>1, <1>2, <2>1, <2>2 DEF Contract!Watch, Contract!events
<1>4. CASE Forward(c)
  <2>1. UNCHANGED <<cmd, told, skipped>>
    BY <1>4 DEF Forward
  <2>2. Watching' = Watching
    BY <2>1 DEF Watching
  <2> QED
    BY <1>1, <1>2, <2>1, <2>2 DEF Contract!vars, Contract!events, Contract!feeds
<1>5. CASE WireLost(c)
  <2>1. UNCHANGED <<cmd, told>> /\ skipped' = skipped \cup {c} /\ wire[c] # << >>
    BY <1>5 DEF WireLost
  <2>2. Watching' = Watching /\ c \in Watching
    BY <2>1 DEF Watching, FInv, Fed, Feed
  <2> QED
    BY <1>1, <1>2, <2>1, <2>2 DEF Contract!Cut, Contract!events
<1>6. CASE Send(c)
  <2>1. cmd[c].pc = "stream" /\ cmd'[c].pc = "sent" /\ skipped' = skipped
    BY <1>6 DEF Send, At, IInv, Typed
  <2>2. Watching' = Watching /\ c \in Watching
    BY <1>2, <2>1 DEF Watching
  <2>3. /\ told'[c] \in 1 .. Len(writes) /\ told' = [told EXCEPT ![c] = told'[c]]
        /\ c \notin skipped => told'[c] = told[c] + 1
    BY <1>6, SendFeeds DEF IInv
  <2>4. PICK v \in 1 .. Len(writes) : v = told'[c]
    BY <2>3
  <2>5. (c \in skipped \/ v = told[c] + 1) /\ told' = [told EXCEPT ![c] = v]
    BY <2>3, <2>4
  <2> QED
    BY <1>1, <1>2, <2>1, <2>2, <2>5 DEF Contract!Tell, Contract!events
<1>7. CASE Check(c) \/ Leave(c)
  <2>1. UNCHANGED <<told, skipped>> /\ cmd[c].pc \in {"sent", "leave"} /\ cmd'[c].pc \in {"idle", "leave", "stream"}
    BY <1>7 DEF Check, Leave, At, Quit, Idle, IInv, Typed
  <2>2. c \in Watching
    BY <2>1 DEF Watching
  <2>3. CASE cmd'[c].pc = "idle"
    <3>1. Watching' = Watching \ {c}
      BY <1>2, <2>3 DEF Watching
    <3> QED
      BY <1>1, <1>2, <2>1, <2>2, <3>1 DEF Contract!Leave, Contract!events
  <2>4. CASE cmd'[c].pc \in {"leave", "stream"}
    <3>1. Watching' = Watching
      BY <1>2, <2>2, <2>4 DEF Watching
    <3> QED
      BY <1>1, <1>2, <2>1, <3>1 DEF Contract!vars, Contract!events, Contract!feeds
  <2> QED
    BY <2>1, <2>3, <2>4
<1> QED
  BY <1>3, <1>4, <1>5, <1>6, <1>7

\* The worker takes an event, settles on a status, writes it, or removes the
\* record, or gives up: then the event is dealt with, as far as the store goes.
LEMMA WorkerSteps ==
  ASSUME IInv, IInv', FInv, Controller \/ GiveUp
  PROVE  \/ UNCHANGED Contract!vars \/ Contract!Change \/ Contract!Erase \/ Contract!Handled
         \/ \E a \in Contract!Action : Contract!Take(a)
<1>1. UNCHANGED <<impl, cmd>>
  BY DEF Controller, Take, Read, UpdateGet, UpdateTaskStatus, RemoveTask, GiveUp, Others
<1>2. /\ Watching' = Watching /\ Memory' = Memory
      /\ \A c \in Client : (At(c, "sent")' <=> At(c, "sent")) /\ (c \in Watching' <=> c \in Watching)
  BY <1>1 DEF Watching, At, Memory
<1>3. Typed /\ Typed' /\ (queue' = queue => Waiting' = Waiting)
  BY <1>1, WaitingSame DEF IInv
<1>4. CASE Take
  <2>1. /\ worker = Idle /\ queue # << >> /\ queue' = Tail(queue)
        /\ worker'.event = Head(queue) /\ worker'.pc \in {"remove", "read"}
        /\ UNCHANGED <<rec, writes, told, skipped>>
    BY <1>4 DEF Take, Turn, past, watch
  <2>2. PICK b \in Action : b = Head(queue)
    BY <2>1, HeadTailProperties DEF IInv, Typed
  <2>3. Event = "none" /\ Event' = b
    BY <2>1, <2>2 DEF Event, Idle
  <2>4. ASSUME NEW a \in Action
        PROVE  Count(queue, a) + Unannounced(a) = Count(queue', a) + Unannounced(a)' + (IF a = b THEN 1 ELSE 0)
    <3>1. Count(queue, a) = Count(queue', a) + (IF a = b THEN 1 ELSE 0)
      BY <2>1, <2>2, CountTail DEF IInv, Typed
    <3>2. Unannounced(a)' = Unannounced(a) /\ Unannounced(a) \in Nat
      BY <1>1, AnnouncersFinite DEF Unannounced, At
    <3>3. Count(queue', a) \in Nat
      BY <1>3, CountFinite DEF Typed
    <3> QED
      BY <3>1, <3>2, <3>3
  <2>5. Waiting' = [Waiting EXCEPT ![b] = @ - 1] /\ Waiting[b] > 0
    BY <1>3, <2>4, WaitingSteps
  <2>6. Contract!Take(b)
    BY <1>2, <2>1, <2>3, <2>5 DEF Contract!Take, Contract!feeds
  <2> QED
    BY <2>6 DEF Contract!Action, Action
<1>5. CASE Read \/ UpdateGet
  <2>1. UNCHANGED <<rec, queue, writes, told, skipped>> /\ worker.pc \in {"read", "get"}
    BY <1>5 DEF Read, UpdateGet, past, watch
  <2>2. worker' = Idle \/ (worker'.pc \in {"get", "update"} /\ worker'.event = worker.event)
    BY <1>5 DEF Read, UpdateGet, Turn
  <2>3. CASE worker' = Idle
    <3>1. Event' = "none"
      BY <2>3 DEF Event
    <3> QED
      BY <1>2, <1>3, <2>1, <3>1 DEF Contract!Handled, Contract!feeds
  <2>4. CASE worker'.pc \in {"get", "update"} /\ worker'.event = worker.event
    <3>1. Event' = Event
      BY <2>1, <2>4 DEF Event, Idle
    <3> QED
      BY <1>2, <1>3, <2>1, <3>1 DEF Contract!vars, Contract!events, Contract!feeds
  <2> QED
    BY <2>2, <2>3, <2>4
<1>6. CASE UpdateTaskStatus
  <2>1. /\ worker' = Idle /\ queue' = queue
        /\ \E r \in Record, obj \in Nat : Writes(r, obj)
    BY <1>6, UpdateFacts
  <2>2. Event' = "none"
    BY <2>1 DEF Event
  <2> QED
    BY <1>2, <1>3, <2>1, <2>2, ChangeStep
<1>8. CASE GiveUp
  <2>1. UNCHANGED <<rec, queue, writes, told, skipped>> /\ worker' = Idle
    BY <1>8 DEF GiveUp, Turn, past, watch
  <2>2. Event' = "none"
    BY <2>1 DEF Event
  <2> QED
    BY <1>2, <1>3, <2>1, <2>2 DEF Contract!Handled, Contract!feeds
<1>7. CASE RemoveTask
  <2>1. UNCHANGED <<queue, writes, told, skipped>> /\ worker' = Idle /\ rec' = NoRecord
    BY <1>7 DEF RemoveTask, Erase, Turn, watch
  <2>2. Event' = "none"
    BY <2>1 DEF Event
  <2> QED
    BY <1>2, <1>3, <2>1, <2>2 DEF Contract!Erase, Contract!Done, Contract!feeds
<1> QED
  BY <1>4, <1>5, <1>6, <1>7, <1>8 DEF Controller

-----------------------------------------------------------------------------
(* The refinement *)

\* Both stores keep the contract: no event is lost but by the memory store with
\* its queue full, and a watcher is told every write in turn unless Redis'
\* connection was lost, or a full channel or a change in place cut it off.
THEOREM StoreImplementsRegistry == Spec => ImplementsRegistry
<1>1. Init => Contract!Init
  <2>1. SUFFICES ASSUME Init
                 PROVE  Contract!Init
    OBVIOUS
  <2>2. /\ cmd = [c \in Client |-> Idle] /\ worker = Idle /\ queue = << >>
        /\ told = [c \in Client |-> 0] /\ skipped = {}
    BY <2>1 DEF Init
  <2>3. \/ rec = NoRecord /\ Len(writes) = 0
        \/ rec # NoRecord /\ Len(writes) = 1
    <3>1. CASE rec = NoRecord /\ writes = << >>
      BY <3>1, EmptySeq
    <3>2. ASSUME NEW v \in Value, NEW p \in {"Suspended", "none yet"},
                 rec = [value |-> v, created |-> 1, phase |-> p, obj |-> 1], writes = <<p>>
          PROVE  rec # NoRecord /\ Len(writes) = 1
      <4>1. rec.phase = p /\ NoRecord.phase = "none"
        BY <3>2 DEF NoRecord
      <4> QED
        BY <3>2, <4>1
    <3> QED
      BY <2>1, <3>1, <3>2 DEF Init
  <2>4. Watching = {} /\ Event = "none"
    BY <2>2 DEF Watching, Event, Idle
  <2>5. ASSUME NEW a \in Action
        PROVE  Queued(a) = 0 /\ Unannounced(a) = 0
    <3>1. {i \in DOMAIN queue : queue[i] = a} = {}
      BY <2>2
    <3>2. {c \in Client : At(c, "announce") /\ cmd[c].action = a} = {}
      BY <2>2 DEF At, Idle
    <3> QED
      BY <3>1, <3>2, FS_EmptySet DEF Queued, Unannounced
  <2>6. Waiting = [a \in Action |-> 0]
    BY <2>5 DEF Waiting, Action
  <2> QED
    BY <2>2, <2>3, <2>4, <2>6 DEF Contract!Init, Contract!Action, Action, Memory
<1>2. IInv /\ IInv' /\ FInv /\ [Next]_vars => [Contract!Next]_Contract!vars
  <2>1. SUFFICES ASSUME IInv, IInv', FInv, [Next]_vars
                 PROVE  [Contract!Next]_Contract!vars
    OBVIOUS
  <2>2. CASE Controller \/ GiveUp
    BY <2>1, <2>2, WorkerSteps DEF Contract!Next
  <2>3. ASSUME NEW c \in Client, Request(c) \/ Carry(c) \/ Forward(c) \/ TimeOut(c) \/ WireLost(c)
        PROVE  [Contract!Next]_Contract!vars
    <3>1. CASE Quiet(c)
      BY <2>1, <3>1, QuietStep
    <3>2. CASE DeleteModel(c)
      BY <2>1, <3>2, EraseStep DEF Contract!Next
    <3>3. CASE Save(c) \/ MarkTaskDeleting(c)
      BY <2>1, <3>3, WriteSteps DEF Contract!Next
    <3>4. CASE Announce(c)
      BY <2>1, <3>4, AnnounceStep DEF Contract!Next
    <3>5. CASE WatchTask(c) \/ Forward(c) \/ WireLost(c) \/ Send(c) \/ Check(c) \/ Leave(c)
      BY <2>1, <3>5, FeedSteps DEF Contract!Next
    <3> QED
      BY <2>3, <3>1, <3>2, <3>3, <3>4, <3>5 DEF Request, Carry, Quiet
  <2>4. CASE UNCHANGED vars
    <3>1. UNCHANGED <<impl, rec, queue, worker, cmd, writes, told, skipped>>
      BY <2>4 DEF vars, past, watch
    <3>2. Waiting' = Waiting /\ Watching' = Watching /\ Event' = Event
      BY <2>1, <3>1, WaitingSame DEF IInv, Watching, Event
    <3> QED
      BY <3>1, <3>2 DEF Contract!vars, Contract!events, Contract!feeds, Memory
  <2> QED
    BY <2>1, <2>2, <2>3, <2>4 DEF Next
<1> QED
  BY <1>1, <1>2, WatchesAreFed, PTL DEF Spec, ImplementsRegistry, Contract!Spec
=============================================================================
