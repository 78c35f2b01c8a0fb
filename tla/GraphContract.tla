---------------------------- MODULE GraphContract ----------------------------
(***************************************************************************)
(* What the task graph promises whoever drives it, whatever becomes of its *)
(* invocations: a task's job is begun once its inputs are there, under a   *)
(* name that says what it is for; only live jobs are active, that is, have *)
(* the order to run; a job is decided, suspended or left behind by the     *)
(* next plan only when it is not; and its result is what was approved      *)
(* under its name, or the same result of the plan before.                  *)
(***************************************************************************)
EXTENDS Naturals

CONSTANTS Node, NoFiles, Plans, NoPlan

VARIABLES
  plan,      \* the plan in force
  paused,    \* a suspension has been asked for
  job,       \* per task: its stage, name and result
  earlier,   \* the results of the plan before
  active,    \* tasks whose job has the order to run
  approved   \* verdicts of the validators: result files, by the job's name

jobs == <<plan, paused, job, earlier>>
vars == <<jobs, active, approved>>

Job(stage, name, files) == [stage |-> stage, name |-> name, result |-> files]
NoJob == [stage |-> "none"]
NoJobs == [n \in Node |-> NoJob]

Live(n) == job[n].stage = "live"
Rests == \A n \in Node : ~ Live(n)

Due(n) ==
  /\ plan # NoPlan /\ job[n] = NoJob
  /\ n \in {plan.tasks[i] : i \in DOMAIN plan.tasks}
  /\ \A d \in plan.inputs[n] : job[d].stage = "done"
Inputs(n) == [d \in plan.inputs[n] |-> job[d].result]
Stands(n) ==
  /\ earlier[n] # NoJob
  /\ earlier[n].name.body = plan.body[n] /\ earlier[n].name.files = Inputs(n)

Init ==
  /\ plan = NoPlan /\ paused = FALSE
  /\ job = NoJobs /\ earlier = NoJobs
  /\ active = {} /\ approved = {}

\* A plan follows the one before it at rest, and takes over its results.
Follow(p) ==
  /\ plan = NoPlan \/ p.revision = plan.revision + 1
  /\ Rests /\ active = {}
  /\ plan' = p /\ paused' = FALSE
  /\ job' = NoJobs
  /\ earlier' = [n \in Node |-> IF job[n].stage = "done" THEN job[n] ELSE NoJob]
  /\ UNCHANGED <<active, approved>>

Suspend ==
  /\ plan # NoPlan /\ paused' = TRUE
  /\ UNCHANGED <<plan, job, earlier, active, approved>>
Resume ==
  /\ Rests /\ active = {}
  /\ paused' = FALSE
  /\ job' = [n \in Node |-> IF job[n].stage = "suspended" THEN [job[n] EXCEPT !.stage = "live"]
                            ELSE job[n]]
  /\ UNCHANGED <<plan, earlier, active, approved>>

Becomes(n, j) ==
  /\ job' = [job EXCEPT ![n] = j]
  /\ UNCHANGED <<plan, paused, earlier, active, approved>>

Begin(n) ==
  /\ ~ paused /\ Due(n) /\ ~ Stands(n)
  /\ LET name == [node |-> n, revision |-> plan.revision, body |-> plan.body[n], files |-> Inputs(n)]
     IN Becomes(n, Job("live", name, NoFiles))
Reuse(n) ==
  /\ ~ paused /\ Due(n) /\ Stands(n)
  /\ Becomes(n, earlier[n])

\* A live job that is not active is decided, or its suspension confirmed.
Adopt(n) ==
  /\ ~ paused /\ Live(n) /\ n \notin active
  /\ \E verdict \in approved :
       verdict.name = job[n].name /\ Becomes(n, Job("done", verdict.name, verdict.files))
Fail(n) ==
  /\ ~ paused /\ Live(n) /\ n \notin active
  /\ Becomes(n, [job[n] EXCEPT !.stage = "failed"])
Halt(n) ==
  /\ paused /\ Live(n) /\ n \notin active
  /\ Becomes(n, [job[n] EXCEPT !.stage = "suspended"])

Order(n) ==
  /\ ~ paused /\ Live(n)
  /\ active' = active \cup {n}
  /\ UNCHANGED <<jobs, approved>>
Withdraw(n) ==
  /\ active' = active \ {n}
  /\ UNCHANGED <<jobs, approved>>

\* A validator approves of files: once for a job, whenever it comes to it.
Approve ==
  /\ \E verdict \in approved' :
       /\ approved' = approved \cup {verdict}
       /\ \A other \in approved : other.name # verdict.name
  /\ UNCHANGED <<jobs, active>>

Next ==
  \/ \E n \in Node : Order(n) \/ Withdraw(n)
  \/ \E n \in Node : Begin(n) \/ Reuse(n) \/ Adopt(n) \/ Fail(n) \/ Halt(n)
  \/ \E p \in Plans : Follow(p)
  \/ Suspend \/ Resume \/ Approve

Spec == Init /\ [][Next]_vars
=============================================================================
