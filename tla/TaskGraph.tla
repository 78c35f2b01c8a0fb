------------------------------ MODULE TaskGraph ------------------------------
(***************************************************************************)
(* The contract-graph engine: cmd/task-agent driving taskgraph.Engine over *)
(* the Redis store, one command of the CLI being one session.  A session   *)
(* holds the graph's lock, works on its own copy `mem' of the stored state *)
(* `db' and writes the copy back after each phase change; it can fail or   *)
(* die between any two of its calls.  The Backend interface is kept at the *)
(* level its callers see: which Tasks exist, which ones are to run, which  *)
(* actors do run, and the completion receipts they have left.              *)
(***************************************************************************)
EXTENDS Naturals, Sequences

CONSTANTS
  Node,       \* task ids a plan may use
  Body,       \* everything else a task's definition says (goal, argv, files, ...)
  Value,      \* the output bytes a command can leave
  NoFiles,    \* a receipt without usable output files
  Plans,      \* the plans handed to `apply'
  Operator,   \* concurrent invocations of the CLI
  Nobody,     \* the lock key does not exist
  Commands,   \* the subcommands in use
  Faults,     \* the kinds of faults in use
  MaxFaults   \* bound: failures and crashes of invocations, orders written over

Tasks(p) == {p.tasks[i] : i \in DOMAIN p.tasks}

\* What Validate accepts, as far as the engine depends on it.
ValidPlan(p) ==
  /\ p.revision \in Nat \ {0}
  /\ p.tasks \in Seq(Node) /\ p.tasks # << >>
  /\ \A i, j \in DOMAIN p.tasks : p.tasks[i] = p.tasks[j] => i = j
  /\ p.body \in [Node -> Body]
  /\ p.inputs \in [Node -> SUBSET Node]
  /\ \A n \in Tasks(p) : p.inputs[n] \subseteq Tasks(p)
  /\ \A S \in SUBSET Tasks(p) : S # {} => \E n \in S : p.inputs[n] \cap S = {}

ASSUME PlansAssumption == \A p \in Plans : ValidPlan(p)
ASSUME NoFilesAssumption == NoFiles \notin Value
ASSUME NobodyAssumption == Nobody \notin Operator
ASSUME BoundAssumption == MaxFaults \in Nat
ASSUME CommandsAssumption == Commands \subseteq {"apply", "run", "suspend", "resume"}

-----------------------------------------------------------------------------
(* Attempts, results and the stored state *)

Terminal == {"succeeded", "failed", "suspended"}
Phase == {"starting", "running", "stopping", "validating", "validation-stopping"}
           \cup Terminal

\* A name is a digest of revision, node and fingerprint (definition and
\* resolved inputs); the digest is injective here.
Name == [node : Node, revision : Nat, body : Body,
         files : UNION {[D -> Value] : D \in SUBSET Node}]

\* A receipt: exit code 0 without an error comes with every declared output,
\* a validator declares none.
Result == [ok : BOOLEAN, files : Value \cup {NoFiles}]
NoResult == [ok |-> FALSE]

Attempt == [name : Name, phase : Phase, candidate : Result \cup {NoResult},
            validatorNamed : BOOLEAN, validation : Result \cup {NoResult},
            outputs : Value \cup {NoFiles}, reused : BOOLEAN]
NoAttempt == [phase |-> "absent"]

NewAttempt(p, n, f) ==
  [name |-> [node |-> n, revision |-> p.revision, body |-> p.body[n], files |-> f],
   phase |-> "starting", candidate |-> NoResult, validatorNamed |-> FALSE,
   validation |-> NoResult, outputs |-> NoFiles, reused |-> FALSE]

NoPlan == [revision |-> 0]
NoAttempts == [n \in Node |-> NoAttempt]
State == [plan : Plans \cup {NoPlan}, paused : BOOLEAN,
          attempts : [Node -> Attempt \cup {NoAttempt}],
          previous : [Node -> Attempt \cup {NoAttempt}]]
NoState == [plan |-> NoPlan, paused |-> FALSE,
            attempts |-> NoAttempts, previous |-> NoAttempts]

\* Mutant: a dependency counts as soon as it has been attempted.
ReadyOnceAttempted(s, n) == \A d \in s.plan.inputs[n] : s.attempts[d] # NoAttempt

Ready(s, n) == \A d \in s.plan.inputs[n] : s.attempts[d].phase = "succeeded"
Files(s, n) == [d \in s.plan.inputs[n] |-> s.attempts[d].outputs]

Settled(s) == \A n \in Node : s.attempts[n].phase \in Terminal \cup {"absent"}
Complete(s) ==
  /\ s.plan # NoPlan /\ ~ s.paused
  /\ \A n \in Tasks(s.plan) : s.attempts[n].phase = "succeeded"

Changed(old, next) ==
  {n \in Tasks(next) : n \in Tasks(old) => next.body[n] # old.body[n] \/ next.inputs[n] # old.inputs[n]}

\* `impact': what a revision changes, and what takes inputs from it.
Impact(old, next) ==
  LET affected[i \in 0 .. Len(next.tasks)] ==
        IF i = 0 THEN Changed(old, next)
        ELSE affected[i - 1] \cup {n \in Tasks(next) : next.inputs[n] \cap affected[i - 1] # {}}
  IN affected[Len(next.tasks)]

\* Mutant: Apply does not look at the phases of the attempts.
ApplicableAnytime(s, p) == s.plan \in {NoPlan, p} \/ p.revision = s.plan.revision + 1

\* A revision keeps of its predecessor only what that predecessor's own
\* attempts had brought to success.
Applicable(s, p) ==
  \/ s.plan \in {NoPlan, p}
  \/ p.revision = s.plan.revision + 1 /\ Settled(s)

\* Mutant: the new revision inherits the map of attempts.
AppliedKeepingAttempts(s, p) == [s EXCEPT !.plan = p, !.paused = FALSE]

Applied(s, p) ==
  IF s.plan = p THEN s
  ELSE [NoState EXCEPT !.plan = p,
          !.previous = [n \in Node |-> IF s.attempts[n].phase = "succeeded"
                                         THEN s.attempts[n] ELSE NoAttempt]]

\* Mutant: what was suspended is forgotten and attempted anew.
ResumedAfresh(s) ==
  [s EXCEPT !.paused = FALSE,
     !.attempts = [n \in Node |->
        IF s.attempts[n].phase = "suspended" THEN NoAttempt ELSE s.attempts[n]]]

\* Mutant: only the mark is taken away.
ResumedUnmarked(s) == [s EXCEPT !.paused = FALSE]

Resumed(s) ==
  [s EXCEPT !.paused = FALSE,
     !.attempts = [n \in Node |->
        IF s.attempts[n].phase # "suspended" THEN s.attempts[n]
        ELSE [s.attempts[n] EXCEPT !.phase =
                IF s.attempts[n].validatorNamed THEN "validating" ELSE "starting"]]]

-----------------------------------------------------------------------------
(* Actors: a Task of the executor and one of the validator per attempt *)

Actor == [name : Name, role : {"exec", "validator"}]
Exec(a) == [name |-> a.name, role |-> "exec"]
Validator(a) == [name |-> a.name, role |-> "validator"]

\* The one of the two the attempt's phase is about.
Target(a) == IF a.validatorNamed THEN Validator(a) ELSE Exec(a)

\* What Ensure asks for, worked out anew on every call: the definition and the
\* input bytes as the plan has them now, for a validator the candidate as well.
Launch(s, n) ==
  [actor |-> Target(s.attempts[n]), body |-> s.plan.body[n], files |-> Files(s, n),
   candidate |-> IF s.attempts[n].validatorNamed THEN s.attempts[n].candidate.files
                                                 ELSE NoFiles]
Launches == [actor : Actor, body : Body, files : UNION {[D -> Value] : D \in SUBSET Node},
             candidate : Value \cup {NoFiles}]

VARIABLES
  db,        \* the state under the graph's key in Redis
  lock,      \* owner in the graph's lock key
  pc, mem,   \* per invocation: where it is, its copy of the state
  at, todo,  \* per invocation: the plan index it works on, those Pause has left
  created,   \* launches with an AX Task record
  wanted,    \* actors whose last acknowledged order is to run
  ordered,   \* actors that were ever ordered to run
  stray,     \* actors whose Task record does not say what was ordered last
  running,   \* actors that Substrate reports RUNNING
  receipt,   \* completion receipts, by actor
  faults     \* transient failures and crashes so far

session == <<pc, mem, at, todo>>
orders == <<wanted, ordered, stray>>
backend == <<created, orders, running, receipt>>
vars == <<db, lock, session, backend, faults>>

InSession == {"visit", "saveNew", "ensure", "start", "read", "stop", "observe",
              "save", "pauseSave", "pause", "commit"}

TypeOK ==
  /\ db \in State
  /\ lock \in Operator \cup {Nobody}
  /\ pc \in [Operator -> InSession \cup {"idle", "dead"}]
  /\ mem \in [Operator -> State]
  /\ at \in [Operator -> Nat]
  /\ todo \in [Operator -> SUBSET Nat]
  /\ created \subseteq Launches
  /\ wanted \subseteq Actor /\ ordered \subseteq Actor /\ stray \subseteq Actor
  /\ running \subseteq Actor
  /\ receipt \subseteq [actor : Actor, result : Result]
  /\ faults \in Nat

Init ==
  /\ db = NoState
  /\ lock = Nobody
  /\ pc = [o \in Operator |-> "idle"]
  /\ mem = [o \in Operator |-> NoState]
  /\ at = [o \in Operator |-> 0]
  /\ todo = [o \in Operator |-> {}]
  /\ created = {} /\ running = {} /\ receipt = {}
  /\ wanted = {} /\ ordered = {} /\ stray = {}
  /\ faults = 0

Cur(o) == mem[o].plan.tasks[at[o]]
CurAttempt(o) == mem[o].attempts[Cur(o)]
WithAttempt(o, a) == [mem EXCEPT ![o].attempts[Cur(o)] = a]

-----------------------------------------------------------------------------
(* Commands: take the lock, load the state, and begin *)

\* Mutant: the lock is taken without looking whether somebody has it.
EnterUnlocked(o, s, step) ==
  /\ pc[o] = "idle"
  /\ lock' = o
  /\ mem' = [mem EXCEPT ![o] = s]
  /\ pc' = [pc EXCEPT ![o] = step]
  /\ UNCHANGED <<db, todo, backend, faults>>

Enter(o, s, step) ==
  /\ pc[o] = "idle" /\ lock = Nobody
  /\ lock' = o
  /\ mem' = [mem EXCEPT ![o] = s]
  /\ pc' = [pc EXCEPT ![o] = step]
  /\ UNCHANGED <<db, todo, backend, faults>>

\* The command ends, whatever its outcome: the lock key is deleted, the copy lost.
Return(o) ==
  /\ pc' = [pc EXCEPT ![o] = "idle"]
  /\ lock' = IF lock = o THEN Nobody ELSE lock
  /\ mem' = [mem EXCEPT ![o] = NoState]
  /\ at' = [at EXCEPT ![o] = 0]
  /\ todo' = [todo EXCEPT ![o] = {}]

BeginApply(o, p) ==
  /\ "apply" \in Commands
  /\ Applicable(db, p)
  /\ Enter(o, Applied(db, p), "commit")
  /\ UNCHANGED at

BeginResume(o) ==
  /\ "resume" \in Commands
  /\ db.plan # NoPlan /\ Settled(db)
  /\ Enter(o, Resumed(db), "commit")
  /\ UNCHANGED at

BeginSuspend(o) ==
  /\ "suspend" \in Commands
  /\ db.plan # NoPlan
  /\ Enter(o, [db EXCEPT !.paused = TRUE], "pauseSave")
  /\ UNCHANGED at

\* Mutant: it goes on with the graph's tasks.
BeginRunPaused(o) ==
  /\ "run" \in Commands
  /\ db.plan # NoPlan
  /\ Enter(o, db, "visit")
  /\ at' = [at EXCEPT ![o] = 1]

\* `run' on a paused graph continues the suspension.
BeginRun(o) ==
  /\ "run" \in Commands
  /\ db.plan # NoPlan
  /\ Enter(o, db, IF db.paused THEN "pauseSave" ELSE "visit")
  /\ at' = [at EXCEPT ![o] = 1]

Commit(o) ==
  /\ pc[o] = "commit"
  /\ db' = mem[o]
  /\ Return(o)
  /\ UNCHANGED <<backend, faults>>

-----------------------------------------------------------------------------
(* Tick: the plan's tasks in order, one phase each *)

Go(o, step) == pc' = [pc EXCEPT ![o] = step]
NextTask(o) == Go(o, "visit") /\ at' = [at EXCEPT ![o] = @ + 1]

\* Mutant: the inputs are not part of the comparison.
ReusableByBody(s, n) ==
  /\ s.previous[n].phase = "succeeded"
  /\ s.previous[n].name.body = s.plan.body[n]

\* Mutant: the revision is part of the comparison.
ReusableInRevision(s, n) ==
  /\ s.previous[n].phase = "succeeded"
  /\ s.previous[n].name.revision = s.plan.revision
  /\ s.previous[n].name.body = s.plan.body[n]
  /\ s.previous[n].name.files = Files(s, n)

\* The result of an earlier revision stands if definition and inputs are equal.
Reusable(s, n) ==
  /\ s.previous[n].phase = "succeeded"
  /\ s.previous[n].name.body = s.plan.body[n]
  /\ s.previous[n].name.files = Files(s, n)

Step(phase) ==
  CASE phase \in {"starting", "validating"} -> "ensure"
    [] phase = "running" -> "read"
    [] phase \in {"stopping", "validation-stopping"} -> "stop"
    [] OTHER -> "save"

VisitLast(o) ==
  /\ pc[o] = "visit" /\ at[o] > Len(mem[o].plan.tasks)
  /\ Return(o)
  /\ UNCHANGED <<db, backend, faults>>

\* Mutant: a task that is not ready ends the tick.
VisitWaitingStops(o) ==
  /\ pc[o] = "visit" /\ at[o] <= Len(mem[o].plan.tasks)
  /\ ~ Ready(mem[o], Cur(o))
  /\ Return(o)
  /\ UNCHANGED <<db, backend, faults>>

VisitWaiting(o) ==
  /\ pc[o] = "visit" /\ at[o] <= Len(mem[o].plan.tasks)
  /\ ~ Ready(mem[o], Cur(o))
  /\ NextTask(o)
  /\ UNCHANGED <<db, lock, mem, todo, backend, faults>>

VisitNew(o) ==
  /\ pc[o] = "visit" /\ at[o] <= Len(mem[o].plan.tasks)
  /\ Ready(mem[o], Cur(o)) /\ CurAttempt(o) = NoAttempt
  /\ IF Reusable(mem[o], Cur(o))
       THEN /\ mem' = WithAttempt(o, [mem[o].previous[Cur(o)] EXCEPT !.reused = TRUE])
            /\ Go(o, "save")
       ELSE /\ mem' = WithAttempt(o, NewAttempt(mem[o].plan, Cur(o), Files(mem[o], Cur(o))))
            /\ Go(o, "saveNew")
  /\ UNCHANGED <<db, lock, at, todo, backend, faults>>

VisitAttempt(o) ==
  /\ pc[o] = "visit" /\ at[o] <= Len(mem[o].plan.tasks)
  /\ Ready(mem[o], Cur(o)) /\ CurAttempt(o) # NoAttempt
  /\ Go(o, Step(CurAttempt(o).phase))
  /\ UNCHANGED <<db, lock, mem, at, todo, backend, faults>>

\* Mutant: the identity is left to the Save at the end of the phase.
SaveNewLate(o) ==
  /\ pc[o] = "saveNew"
  /\ Go(o, "ensure")
  /\ UNCHANGED <<db, lock, mem, at, todo, backend, faults>>

\* The identity is stored before anything is created under it.
SaveNew(o) ==
  /\ pc[o] = "saveNew"
  /\ db' = mem[o]
  /\ Go(o, "ensure")
  /\ UNCHANGED <<lock, mem, at, todo, backend, faults>>

\* Create Workspace and Task unless they are there; a different one under
\* the same name is an error.
Collides(l) == \E k \in created : k.actor = l.actor /\ k # l

Ensure(o) ==
  /\ pc[o] = "ensure"
  /\ IF Collides(Launch(mem[o], Cur(o)))
       THEN Return(o) /\ UNCHANGED created
       ELSE /\ created' = created \cup {Launch(mem[o], Cur(o))}
            /\ Go(o, IF mem[o].paused THEN "stop" ELSE "start")
            /\ UNCHANGED <<lock, mem, at, todo>>
  /\ UNCHANGED <<db, orders, running, receipt, faults>>

\* ResumeTask records the order, which the controller acts on later; an actor
\* that runs is given none.
Start(o) ==
  /\ pc[o] = "start"
  /\ IF Target(CurAttempt(o)) \in running THEN UNCHANGED orders
     ELSE /\ wanted' = wanted \cup {Target(CurAttempt(o))}
          /\ ordered' = ordered \cup {Target(CurAttempt(o))}
          /\ stray' = stray \ {Target(CurAttempt(o))}
  /\ IF CurAttempt(o).phase = "starting"
       THEN mem' = WithAttempt(o, [CurAttempt(o) EXCEPT !.phase = "running"]) /\ Go(o, "save")
       ELSE Go(o, "read") /\ UNCHANGED mem
  /\ UNCHANGED <<db, lock, at, todo, created, running, receipt, faults>>

\* ErrPending: no actor yet, one in transition, no golden snapshot, or, when
\* reading, one that does not run.  It ends the whole command.
Pending(o) ==
  /\ pc[o] \in {"start", "read"} /\ Target(CurAttempt(o)) \notin running
  /\ Return(o)
  /\ UNCHANGED <<db, backend, faults>>

\* No receipt: on to the next task, nothing is stored.
ReadNothing(o) ==
  /\ pc[o] = "read" /\ Target(CurAttempt(o)) \in running
  /\ ~ \E r \in receipt : r.actor = Target(CurAttempt(o))
  /\ NextTask(o)
  /\ UNCHANGED <<db, lock, mem, todo, backend, faults>>

Read(o) ==
  /\ pc[o] = "read" /\ Target(CurAttempt(o)) \in running
  /\ \E r \in receipt :
       /\ r.actor = Target(CurAttempt(o))
       /\ mem' = WithAttempt(o,
            IF CurAttempt(o).phase = "running"
              THEN [CurAttempt(o) EXCEPT !.candidate = r.result, !.phase = "stopping"]
              ELSE [CurAttempt(o) EXCEPT !.validation = r.result,
                                         !.phase = "validation-stopping"])
  /\ Go(o, "save")
  /\ UNCHANGED <<db, lock, at, todo, backend, faults>>

\* Mutant: the actor is observed without SuspendTask.
StopUnasked(o) ==
  /\ pc[o] = "stop"
  /\ IF \E l \in created : l.actor = Target(CurAttempt(o))
       THEN Go(o, "observe") /\ UNCHANGED <<lock, mem, at, todo>>
       ELSE Return(o)
  /\ UNCHANGED <<db, backend, faults>>

\* SuspendTask; there is no Task to suspend if nothing was created.
Stop(o) ==
  /\ pc[o] = "stop"
  /\ IF \E l \in created : l.actor = Target(CurAttempt(o))
       THEN /\ wanted' = wanted \ {Target(CurAttempt(o))}
            /\ stray' = stray \ {Target(CurAttempt(o))}
            /\ Go(o, "observe")
            /\ UNCHANGED <<lock, mem, at, todo>>
       ELSE Return(o) /\ UNCHANGED <<wanted, stray>>
  /\ UNCHANGED <<db, created, ordered, running, receipt, faults>>

\* Mutants: the verdict is not looked at; the outputs are not taken over.
StoppedUnjudged(a) ==
  CASE a.phase = "stopping" /\ a.candidate.ok ->
         [a EXCEPT !.validatorNamed = TRUE, !.phase = "validating"]
    [] a.phase = "validation-stopping" ->
         [a EXCEPT !.outputs = a.candidate.files, !.phase = "succeeded"]
    [] OTHER -> [a EXCEPT !.phase = "failed"]
StoppedWithoutOutputs(a) ==
  CASE a.phase = "stopping" /\ a.candidate.ok ->
         [a EXCEPT !.validatorNamed = TRUE, !.phase = "validating"]
    [] a.phase = "validation-stopping" /\ a.validation.ok -> [a EXCEPT !.phase = "succeeded"]
    [] OTHER -> [a EXCEPT !.phase = "failed"]

\* What the confirmed stop of its actor makes of an attempt.
Stopped(a) ==
  CASE a.phase = "stopping" /\ a.candidate.ok ->
         [a EXCEPT !.validatorNamed = TRUE, !.phase = "validating"]
    [] a.phase = "validation-stopping" /\ a.validation.ok ->
         [a EXCEPT !.outputs = a.candidate.files, !.phase = "succeeded"]
    [] OTHER -> [a EXCEPT !.phase = "failed"]

\* The observation after SuspendTask.  A suspension stores its state either way.
Observe(o) ==
  /\ pc[o] = "observe"
  /\ IF Target(CurAttempt(o)) \notin running
       THEN /\ mem' = WithAttempt(o, IF mem[o].paused
                                       THEN [CurAttempt(o) EXCEPT !.phase = "suspended"]
                                       ELSE Stopped(CurAttempt(o)))
            /\ Go(o, "save") /\ UNCHANGED at
       ELSE /\ UNCHANGED mem
            /\ IF mem[o].paused THEN Go(o, "save") /\ UNCHANGED at ELSE NextTask(o)
  /\ UNCHANGED <<db, lock, todo, backend, faults>>

\* ObserveActor finds no actor: the controller has not provisioned it yet.
NoActor(o) ==
  /\ pc[o] = "observe" /\ Target(CurAttempt(o)) \notin running
  /\ Return(o)
  /\ UNCHANGED <<db, backend, faults>>

Save(o) ==
  /\ pc[o] = "save"
  /\ db' = mem[o]
  /\ IF mem[o].paused
       THEN /\ Go(o, "pause")
            /\ todo' = [todo EXCEPT ![o] = @ \ {at[o]}]
            /\ UNCHANGED at
       ELSE NextTask(o) /\ UNCHANGED todo
  /\ UNCHANGED <<lock, mem, backend, faults>>

-----------------------------------------------------------------------------
(* Pause: the graph is marked first, then each live actor is stopped, in *)
(* the random order in which Go ranges over a map                        *)

PauseSave(o) ==
  /\ pc[o] = "pauseSave"
  /\ db' = mem[o]
  /\ todo' = [todo EXCEPT ![o] =
       {i \in DOMAIN mem[o].plan.tasks : mem[o].attempts[mem[o].plan.tasks[i]] # NoAttempt}]
  /\ Go(o, "pause")
  /\ UNCHANGED <<lock, mem, at, backend, faults>>

\* Mutant: Pause assumes that every attempt's Task exists.
PauseTaskUnprepared(o) ==
  /\ pc[o] = "pause"
  /\ \E i \in todo[o] :
       IF mem[o].attempts[mem[o].plan.tasks[i]].phase \in Terminal
         THEN todo' = [todo EXCEPT ![o] = @ \ {i}] /\ UNCHANGED <<pc, at>>
         ELSE at' = [at EXCEPT ![o] = i] /\ Go(o, "stop") /\ UNCHANGED todo
  /\ UNCHANGED <<db, lock, mem, backend, faults>>

\* Only a starting attempt has its Task created if it is missing, and its
\* inputs must be there for that.
PauseTask(o) ==
  /\ pc[o] = "pause"
  /\ \E i \in todo[o] :
       LET n == mem[o].plan.tasks[i]
           phase == mem[o].attempts[n].phase
       IN
       IF phase \in Terminal
         THEN todo' = [todo EXCEPT ![o] = @ \ {i}] /\ UNCHANGED <<pc, lock, mem, at>>
       ELSE IF phase = "starting" /\ ~ Ready(mem[o], n) THEN Return(o)
       ELSE /\ at' = [at EXCEPT ![o] = i]
            /\ Go(o, IF phase = "starting" THEN "ensure" ELSE "stop")
            /\ UNCHANGED <<lock, mem, todo>>
  /\ UNCHANGED <<db, backend, faults>>

PauseEnd(o) ==
  /\ pc[o] = "pause" /\ todo[o] = {}
  /\ Return(o)
  /\ UNCHANGED <<db, backend, faults>>

-----------------------------------------------------------------------------
(* Faults of an invocation, and the rest of the world *)

\* A call fails, or the 30 s context of the command expires: it returns an
\* error.  The call may have taken effect, the reply is what is missing.
Fail(o) ==
  /\ "fail" \in Faults /\ pc[o] \in InSession /\ faults < MaxFaults
  /\ faults' = faults + 1
  /\ Return(o)
  /\ UNCHANGED <<db, backend>>

\* The process dies and leaves its lock behind.
Crash(o) ==
  /\ "crash" \in Faults /\ pc[o] \in InSession /\ faults < MaxFaults
  /\ faults' = faults + 1
  /\ pc' = [pc EXCEPT ![o] = "dead"]
  /\ mem' = [mem EXCEPT ![o] = NoState]
  /\ at' = [at EXCEPT ![o] = 0] /\ todo' = [todo EXCEPT ![o] = {}]
  /\ UNCHANGED <<db, lock, backend>>

\* Someone confirms that the owner is gone and deletes the lock by hand.
Recover(o) ==
  /\ pc[o] = "dead"
  /\ Go(o, "idle")
  /\ lock' = IF lock = o THEN Nobody ELSE lock
  /\ UNCHANGED <<db, mem, at, todo, backend, faults>>

\* A reconcile that read the record before the last order writes its status
\* over it: UpdateTaskStatus.  Nobody is told.
Overwrite(a) ==
  /\ "overwrite" \in Faults /\ a \in ordered /\ faults < MaxFaults
  /\ faults' = faults + 1
  /\ stray' = IF a \in stray THEN stray \ {a} ELSE stray \cup {a}
  /\ UNCHANGED <<db, lock, session, created, wanted, ordered, running, receipt>>

\* The record says Running.
ToRun(a) == (a \in wanted) # (a \in stray)

\* The AX controller brings the actor to the state its record asks for.
Converge(a) ==
  /\ running' = IF ToRun(a) THEN running \cup {a} ELSE running \ {a}
  /\ running' # running
  /\ UNCHANGED <<db, lock, session, created, orders, receipt, faults>>

\* The actor's command exits and the runner leaves the receipt, once.
Finish(a, r) ==
  /\ a \in running
  /\ ~ \E k \in receipt : k.actor = a
  /\ receipt' = receipt \cup {[actor |-> a, result |-> r]}
  /\ UNCHANGED <<db, lock, session, created, orders, running, faults>>

Outcome(a) ==
  {[ok |-> FALSE, files |-> NoFiles]} \cup
  [ok : {TRUE}, files : IF a.role = "exec" THEN Value ELSE {NoFiles}]

Tick(o) ==
  \/ VisitLast(o) \/ VisitWaiting(o) \/ VisitNew(o) \/ VisitAttempt(o)
  \/ SaveNew(o) \/ Ensure(o) \/ Start(o) \/ Pending(o) \/ ReadNothing(o) \/ Read(o)
  \/ Stop(o) \/ Observe(o) \/ NoActor(o) \/ Save(o)
Pause(o) == PauseSave(o) \/ PauseTask(o) \/ PauseEnd(o)
Begin(o) ==
  \/ BeginResume(o) \/ BeginSuspend(o) \/ BeginRun(o)
  \/ \E p \in Plans : BeginApply(o, p)

Next ==
  \/ \E o \in Operator : Begin(o) \/ Commit(o) \/ Tick(o) \/ Pause(o)
  \/ \E o \in Operator : Fail(o) \/ Crash(o) \/ Recover(o)
  \/ \E a \in ordered : Overwrite(a) \/ Converge(a)
  \/ \E a \in running : \E r \in Outcome(a) : Finish(a, r)

Spec == Init /\ [][Next]_vars

-----------------------------------------------------------------------------
(* Fairness: whoever drives the graph re-issues `run', an invocation that   *)
(* keeps its process goes on, a dead one is recovered; AX and Substrate     *)
(* answer in the end (SF: not ErrPending, not NotFound, for ever) and carry *)
(* out the orders that stand, and the commands of running actors exit.      *)

Fairness ==
  /\ \A o \in Operator :
       /\ SF_vars(BeginRun(o))
       /\ WF_vars(Commit(o) \/ Tick(o) \/ Pause(o)) /\ WF_vars(Recover(o))
       /\ SF_vars(Start(o)) /\ SF_vars(Observe(o))
  /\ WF_vars(\E a \in ordered \ stray : Converge(a))
  /\ WF_vars(\E a \in running : \E r \in Outcome(a) : Finish(a, r))

FairSpec == Spec /\ Fairness

-----------------------------------------------------------------------------
(* Safety *)

Present(s, n) == s.attempts[n] # NoAttempt

\* Whoever works on a copy of the state owns the lock, alive or dead, so no
\* copy is ever written over somebody else's.
LockCoversCopies ==
  \A o \in Operator : pc[o] # "idle" => lock = o

\* Identity is stored before anything is created under it: every Task belongs
\* to a stored attempt or to an earlier revision, whatever call was lost.
IdentityStoredFirst ==
  \A l \in created :
    \/ l.actor.name.revision < db.plan.revision
    \/ \E n \in Node : Present(db, n) /\ db.attempts[n].name = l.actor.name

\* A Task that AX was last told to run is the current step of a stored, live attempt: no
\* actor of a settled attempt, of an earlier revision or of an executor whose
\* validation has begun is left with the order to run.
WantedIsOwned ==
  \A k \in wanted : \E n \in Node :
    /\ Present(db, n)
    /\ db.attempts[n].phase \notin Terminal
    /\ k = Target(db.attempts[n])

\* Retries, resumptions and re-issued commands never ask for a Task under an
\* existing name with other contents, which AX could only refuse for ever.
EnsureIsIdempotent ==
  \A o \in Operator : pc[o] = "ensure" => ~ Collides(Launch(mem[o], Cur(o)))

\* What is adopted was produced by the executor and approved by a validator
\* that was given exactly these outputs and the attempt's inputs.
AdoptedWasValidated ==
  \A n \in Node : db.attempts[n].phase = "succeeded" =>
    LET at_n == db.attempts[n] IN
    /\ [actor |-> Exec(at_n), result |-> [ok |-> TRUE, files |-> at_n.outputs]] \in receipt
    /\ [actor |-> Validator(at_n), result |-> [ok |-> TRUE, files |-> NoFiles]] \in receipt
    /\ [actor |-> Validator(at_n), body |-> at_n.name.body, files |-> at_n.name.files,
        candidate |-> at_n.outputs] \in created

\* Every attempt, reused or not, is for the task as the plan in force defines
\* it and for the outputs its dependencies have now.
Fits(s, n, name) ==
  /\ Ready(s, n) /\ name.files = Files(s, n)
  /\ name.node = n /\ name.body = s.plan.body[n]
AttemptsFitPlan ==
  \A n \in Node : Present(db, n) =>
    n \in Tasks(db.plan) /\ Fits(db, n, db.attempts[n].name)

\* Within a revision a stored attempt keeps its identity and, once it has
\* succeeded, never changes again.
AttemptsArePermanent ==
  [][db'.plan = db.plan =>
       \A n \in Node : Present(db, n) =>
         /\ Present(db', n) /\ db'.attempts[n].name = db.attempts[n].name
         /\ db.attempts[n].phase = "succeeded" => db'.attempts[n] = db.attempts[n]]_db

\* The phases a run stores one after the other, and what a suspension stores.
Lifecycle ==
  {<<"absent", "starting">>, <<"starting", "running">>, <<"running", "stopping">>,
   <<"stopping", "validating">>, <<"stopping", "failed">>,
   <<"validating", "validation-stopping">>, <<"validation-stopping", "failed">>,
   <<"validation-stopping", "succeeded">>, <<"absent", "succeeded">>}
Advances(marked) == IF marked THEN (Phase \ Terminal) \X {"suspended"} ELSE Lifecycle

\* A write takes one task one phase on and leaves the others alone: no lost
\* reply, crash or late observation of another invocation takes an attempt
\* back.  Only `resume' does, for what a suspension has settled.
PhasesAdvance ==
  [][db'.plan = db.plan =>
       \/ \E n \in Node :
            /\ db' = [db EXCEPT !.attempts[n] = db'.attempts[n]]
            /\ <<db.attempts[n].phase, db'.attempts[n].phase>> \in Advances(db.paused)
       \/ db' = [db EXCEPT !.paused = TRUE]
       \/ db.paused /\ Settled(db) /\ db' = Resumed(db)]_db

\* Tasks never all wait for each other: a plan in force that is neither at its
\* end nor marked has a task whose inputs are there and which is not settled.
SomethingIsDue ==
  db.plan # NoPlan /\ ~ db.paused =>
    \/ Complete(db) \/ \E n \in Node : db.attempts[n].phase = "failed"
    \/ \E n \in Tasks(db.plan) : Ready(db, n) /\ db.attempts[n].phase \notin Terminal

\* A revision is only ever followed by the next one (the first may have any
\* number), and at that moment no actor has the order to run.
RevisionStartsQuiet ==
  [][db.plan # NoPlan /\ db'.plan # db.plan =>
       db'.plan.revision = db.plan.revision + 1 /\ wanted = {}]_db

\* The results a graph starts with are those of plan p: the predecessor's (and,
\* for all the graph can tell, of a plan that agrees with it on these tasks).
ResultsOf(p) ==
  \A n \in Node : db.previous[n].phase = "succeeded" =>
    /\ n \in Tasks(p) /\ db.previous[n].name.body = p.body[n]
    /\ DOMAIN db.previous[n].name.files = p.inputs[n]

\* extensions.md: a task that `impact' does not list keeps its result: if it had
\* succeeded when the revision was applied, it is not run again, however often
\* the tasks before it are.
ImpactCovers ==
  \A p \in Plans, n \in Node :
    /\ ResultsOf(p)
    /\ Present(db, n) /\ n \notin Impact(p, db.plan)
    /\ db.previous[n].phase = "succeeded"
    => db.attempts[n].reused /\ db.attempts[n].name = db.previous[n].name

-----------------------------------------------------------------------------
(* The contract the graph implements *)

Stage(t) ==
  CASE t.phase = "absent" -> "none"
    [] t.phase = "succeeded" -> "done"
    [] t.phase \in {"failed", "suspended"} -> t.phase
    [] OTHER -> "live"
JobOf(t) ==
  IF t = NoAttempt THEN [stage |-> "none"]
  ELSE [stage |-> Stage(t), name |-> t.name,
        result |-> IF t.phase = "succeeded" THEN t.outputs ELSE NoFiles]

Ordered == {n \in Node : Present(db, n) /\ Target(db.attempts[n]) \in wanted}
Approving ==
  {l \in created : l.actor.role = "validator" /\
     [actor |-> l.actor, result |-> [ok |-> TRUE, files |-> NoFiles]] \in receipt}
Approvals == {[name |-> l.actor.name, files |-> l.candidate] : l \in Approving}

\* README.md: explicit inputs, a validation of each result, reuse of what did
\* not change, stops that are confirmed.  Every command, however it fails, dies
\* or is repeated, does one of the things GraphContract allows, or nothing.
Contract == INSTANCE GraphContract WITH
  plan <- db.plan, paused <- db.paused,
  job <- [n \in Node |-> JobOf(db.attempts[n])],
  earlier <- [n \in Node |-> JobOf(db.previous[n])],
  active <- Ordered, approved <- Approvals
ImplementsContract == Contract!Spec

-----------------------------------------------------------------------------
(* Liveness *)

\* An attempt that `run' only reads from, and whose record nobody will change.
Forgotten(n) ==
  /\ db.attempts[n].phase = "running"
  /\ ~ ToRun(Target(db.attempts[n])) /\ Target(db.attempts[n]) \notin running

\* Repeated runs bring a plan to completion or to a failed task, unless a
\* suspension is asked for; after each resumption they do so again.  But an
\* order that AX has acknowledged and written over is only given again while
\* the attempt is starting or validating: once it is stored as running, `run'
\* waits for ever.
RunSettles ==
  (db.plan # NoPlan /\ ~ db.paused) ~>
    \/ db.paused \/ Complete(db)
    \/ \E n \in Node : db.attempts[n].phase = "failed" \/ Forgotten(n)

\* The attempts whose Task exists, or is made to exist by Pause.
Stoppable(s) == \A n \in Node :
  Present(s, n) => \/ s.attempts[n].phase \in Terminal \cup {"starting"}
                   \/ \E l \in created : l.actor = Target(s.attempts[n])

\* A suspension that is asked for while every live attempt's Task exists
\* ends with every actor's stop confirmed.
SuspensionSettles == (db.paused /\ Stoppable(db)) ~> Settled(db)

\* README.md: after `suspend' the stop is confirmed and `resume' goes on.
SuspensionAlwaysSettles == db.paused ~> Settled(db)

\* extensions.md: a task whose definition and resolved inputs are those of an
\* earlier revision reuses its verified result.  (Without suspensions every
\* validated attempt was adopted.)
UnchangedIsReused ==
  \A n \in Node : Present(db, n) /\ db.attempts[n].phase = "starting" =>
    ~ \E old \in {k.actor : k \in receipt} :
        /\ old.role = "validator"
        /\ old.name = [db.attempts[n].name EXCEPT !.revision = old.name.revision]
        /\ old.name.revision < db.plan.revision
        /\ [actor |-> old, result |-> [ok |-> TRUE, files |-> NoFiles]] \in receipt

-----------------------------------------------------------------------------
(* The inductive invariant behind the safety properties *)

\* What an attempt's fields say of each other.
AttemptOK(t) ==
  /\ t \in Attempt
  /\ t.candidate.ok => t.candidate.files \in Value
  /\ t.validatorNamed => t.candidate.ok
  /\ t.phase \in {"starting", "running", "stopping"} => ~ t.validatorNamed
  /\ t.phase \in {"validating", "validation-stopping", "succeeded"} => t.validatorNamed
  /\ t.phase = "succeeded" =>
       t.validation.ok /\ t.outputs = t.candidate.files /\ t.outputs \in Value

StateOK(s) ==
  /\ s \in State
  /\ \A n \in Node : s.attempts[n] # NoAttempt =>
       /\ AttemptOK(s.attempts[n])
       /\ s.plan # NoPlan /\ n \in Tasks(s.plan)
       /\ s.attempts[n].name.revision <= s.plan.revision
       /\ s.attempts[n].phase # "succeeded" => s.attempts[n].name.revision = s.plan.revision
       /\ Fits(s, n, s.attempts[n].name)
  /\ \A n \in Node : s.previous[n] # NoAttempt =>
       /\ AttemptOK(s.previous[n])
       /\ s.previous[n].phase = "succeeded"
       /\ s.previous[n].name.revision < s.plan.revision
       /\ s.previous[n].name.node = n

ReceiptsOK ==
  \A r \in receipt : r.result.ok =>
    IF r.actor.role = "exec" THEN r.result.files \in Value ELSE r.result.files = NoFiles

\* What an attempt says of the world is true.
EvidenceOK(t) ==
  /\ t.candidate # NoResult => [actor |-> Exec(t), result |-> t.candidate] \in receipt
  /\ t.validation # NoResult => [actor |-> Validator(t), result |-> t.validation] \in receipt
  /\ \A l \in created :
       l.actor = Validator(t) => t.validatorNamed /\ l.candidate = t.candidate.files

StoredEvidenceOK ==
  \A n \in Node : /\ db.attempts[n] # NoAttempt => EvidenceOK(db.attempts[n])
                  /\ db.previous[n] # NoAttempt => EvidenceOK(db.previous[n])

\* A Task is what its name says, and no actor is without one.
Launched(k) == \E l \in created : l.actor = k
LaunchesOK ==
  /\ \A l \in created : /\ l.body = l.actor.name.body /\ l.files = l.actor.name.files
                        /\ l.actor.role = "exec" => l.candidate = NoFiles
  /\ \A k \in wanted \cup ordered \cup running : Launched(k)
  /\ \A r \in receipt : Launched(r.actor)

AtTask == {"saveNew", "ensure", "start", "read", "stop", "observe", "save"}

\* Where an invocation stands in the plan and what it finds there.
CursorOK(o) ==
  /\ pc[o] \in InSession => StateOK(mem[o]) /\ mem[o].plan # NoPlan
  /\ pc[o] \notin InSession => todo[o] = {}
  /\ pc[o] = "visit" => at[o] # 0
  /\ pc[o] \in AtTask => at[o] \in DOMAIN mem[o].plan.tasks /\ CurAttempt(o) # NoAttempt
  /\ pc[o] \in {"saveNew", "ensure", "start"} => CurAttempt(o).phase \in {"starting", "validating"}
  /\ pc[o] = "read" => CurAttempt(o).phase \in {"running", "validating"}
  /\ pc[o] \in {"stop", "observe"} => CurAttempt(o).phase \notin Terminal
  /\ \A i \in todo[o] : /\ i \in DOMAIN mem[o].plan.tasks
                        /\ mem[o].attempts[mem[o].plan.tasks[i]] # NoAttempt

\* An update of one attempt that is about to be stored leaves the order to
\* run, if its actor has it, with a live attempt, keeps the name, and does not
\* touch what has succeeded.
UpdateOK(old, new, w) ==
  /\ old # NoAttempt => new.name = old.name /\ (old.phase = "succeeded" => new = old)
  /\ \/ old = NoAttempt \/ new = old
     \/ Target(old) \notin w
     \/ new.phase \notin Terminal /\ Target(new) = Target(old)

\* How an invocation's copy differs from the stored state.
CopyOK(o) ==
  /\ pc[o] \in {"visit", "ensure", "start", "read", "stop", "observe", "pause"} => mem[o] = db
  /\ pc[o] \in {"saveNew", "save"} =>
       /\ mem[o] = [db EXCEPT !.attempts[Cur(o)] = CurAttempt(o)]
       /\ UpdateOK(db.attempts[Cur(o)], CurAttempt(o), wanted)
       /\ EvidenceOK(CurAttempt(o))
  /\ pc[o] = "pauseSave" => mem[o] = [db EXCEPT !.paused = TRUE]
  /\ pc[o] = "commit" =>
       \/ mem[o] = db
       \/ Settled(db) /\ mem[o] = Resumed(db)
       \/ /\ Settled(db)
          /\ \E p \in Plans : /\ mem[o] = Applied(db, p)
                              /\ db.plan \in {p, NoPlan} \/ p.revision = db.plan.revision + 1
  /\ pc[o] = "start" => Launched(Target(CurAttempt(o)))
  /\ pc[o] = "observe" => Target(CurAttempt(o)) \notin wanted

IInv ==
  /\ TypeOK
  /\ StateOK(db) /\ ReceiptsOK
  /\ StoredEvidenceOK /\ LaunchesOK
  /\ LockCoversCopies
  /\ \A o \in Operator : CursorOK(o) /\ CopyOK(o)
  /\ WantedIsOwned
  /\ IdentityStoredFirst
=============================================================================
