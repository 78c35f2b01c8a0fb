------------------------------ MODULE Registry ------------------------------
(***************************************************************************)
(* What a store promises about one resource, whichever implementation it   *)
(* is: an announced change keeps an event waiting until the worker takes   *)
(* it, and a watcher is told the changes since its subscription, in order  *)
(* and without a gap unless one was cut into its feed.  A bounded store    *)
(* may lose an event, but only when Capacity others are waiting.           *)
(***************************************************************************)
EXTENDS Naturals

CONSTANTS Watcher, Capacity

Action == {"reconcile", "delete"}

VARIABLES
  bounded,   \* no more than Capacity events can wait
  version,   \* the number of changes so far
  present,   \* the resource exists
  waiting,   \* how many events of each action nobody has taken
  handling,  \* the event the worker is at, or "none"
  watching,  \* who has a subscription
  told,      \* the last version a watcher was told
  cut        \* watchers whose feed may have a gap

events == <<waiting, handling>>
feeds == <<watching, told, cut>>
vars == <<bounded, version, present, events, feeds>>

Init ==
  /\ bounded \in BOOLEAN
  /\ version \in {0, 1} /\ present = (version = 1)
  /\ waiting = [a \in Action |-> 0] /\ handling = "none"
  /\ watching = {} /\ told = [w \in Watcher |-> 0] /\ cut = {}

\* A status update and a removal can be the worker's last step for an event.
Done == handling' \in {handling, "none"}

\* A change is announced, or is a status update, which is not; in a bounded
\* store it may not reach a watcher.
Change ==
  /\ Done
  /\ version' = version + 1
  /\ present' = TRUE
  /\ waiting' \in {waiting} \cup {[waiting EXCEPT ![a] = @ + 1] : a \in Action}
  /\ cut \subseteq cut' /\ cut' \subseteq cut \cup (IF bounded THEN watching ELSE {})
  /\ UNCHANGED <<bounded, watching, told>>
Erase ==
  /\ Done
  /\ present' = FALSE
  /\ UNCHANGED <<bounded, version, waiting, feeds>>

Take(a) ==
  /\ handling = "none" /\ waiting[a] > 0
  /\ waiting' = [waiting EXCEPT ![a] = @ - 1]
  /\ handling' = a
  /\ UNCHANGED <<bounded, version, present, feeds>>
Handled ==
  /\ handling' = "none"
  /\ UNCHANGED <<bounded, version, present, waiting, feeds>>
Lose(a) ==
  /\ bounded /\ waiting[a] > 0 /\ waiting["reconcile"] + waiting["delete"] > Capacity
  /\ waiting' = [waiting EXCEPT ![a] = @ - 1]
  /\ UNCHANGED <<bounded, version, present, handling, feeds>>

Watch(w) ==
  /\ w \notin watching
  /\ watching' = watching \cup {w}
  /\ told' = [told EXCEPT ![w] = version]
  /\ cut' = cut \ {w}
  /\ UNCHANGED <<bounded, version, present, events>>
Tell(w) ==
  /\ w \in watching
  /\ \E v \in 1 .. version :
       /\ w \in cut \/ v = told[w] + 1
       /\ told' = [told EXCEPT ![w] = v]
  /\ UNCHANGED <<bounded, version, present, events, watching, cut>>
\* The connection to the store was lost for a while.
Cut(w) ==
  /\ w \in watching
  /\ cut' = cut \cup {w}
  /\ UNCHANGED <<bounded, version, present, events, watching, told>>
Leave(w) ==
  /\ w \in watching
  /\ watching' = watching \ {w}
  /\ UNCHANGED <<bounded, version, present, events, told, cut>>

Next ==
  \/ Change \/ Erase \/ Handled
  \/ \E a \in Action : Take(a) \/ Lose(a)
  \/ \E w \in Watcher : Watch(w) \/ Tell(w) \/ Cut(w) \/ Leave(w)

Spec == Init /\ [][Next]_vars
=============================================================================
