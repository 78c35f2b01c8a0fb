----------------------------- MODULE TaskRunner -----------------------------
(***************************************************************************)
(* The life of one Task's actor: ax-task-runner sets the workspaces up,    *)
(* serves readiness, starts the command behind the activation gate and     *)
(* leaves the completion receipt; Substrate warms a golden container up,   *)
(* suspends, resumes, crashes and replaces the actor; the task graph       *)
(* activates it and the controller polls its readiness.                    *)
(***************************************************************************)
EXTENDS Naturals, Sequences

CONSTANTS
  Tasks,       \* the Tasks to consider, one of which the actor is for
  GitRetries,  \* attempts of a clone
  MaxFaults,   \* bound on failed operations and crashes
  MaxStops     \* bound on suspensions, by Task

\* A path is a sequence of characters.
MarkerName(path) == [i \in DOMAIN path |-> IF path[i] = "/" THEN "-" ELSE path[i]]

\* Mounts may share a marker, as /w/a-b and /w/a/b do.  The Workspace of a
\* task-agent Task holds files only, no repository, and has no goal.
ASSUME TasksAssumption ==
  \A t \in Tasks :
    /\ t.extension \in BOOLEAN
    /\ Len(t.mounts) \in Nat /\ DOMAIN t.mounts = 1 .. Len(t.mounts)
    /\ \A i \in DOMAIN t.mounts :
         /\ t.mounts[i].git \in BOOLEAN /\ t.mounts[i].goal \in BOOLEAN
         /\ t.extension => ~ t.mounts[i].git /\ ~ t.mounts[i].goal
ASSUME BoundsAssumption ==
  GitRetries \in Nat \ {0} /\ MaxFaults \in Nat /\ MaxStops \in [Tasks -> Nat]

VARIABLES
  task,      \* the Task's launch configuration
  place,     \* what Substrate does with the actor
  golden,    \* the template's snapshot: the volume and the container
  vol,       \* the durable volume /workspace
  box,       \* the container: the runner, its command, its root file system
  condition, \* the WorkspaceReady condition of the Task
  faults, stops,
  granted,   \* history: an activation reached this actor
  ended,     \* history: how the command ended by itself in this actor
  failed     \* history: what an I/O error or a kill has cost this Task

actor == <<place, golden, condition, stops>>
history == <<granted, ended, failed>>
vars == <<task, place, golden, vol, box, condition, faults, stops, history>>

NoReceipt == [code |-> "none"]
NoSnapshot == [pc |-> "none"]
Receipt == [code : {"ok", "error"}, outputs : {"complete", "refused"}]

Mount == DOMAIN task.mounts
Mark(i) == MarkerName(task.mounts[i].path)
\* Mutant: the marker of a task-agent Task is looked for in the container.
MarksInContainer == box.marks

\* AXDir: in the volume for a task-agent Task, else in the root file system.
Marks == IF task.extension THEN vol.marks ELSE box.marks

EmptyVolume(t) ==
  [files |-> [i \in DOMAIN t.mounts |-> "none"], repo |-> [i \in DOMAIN t.mounts |-> "none"],
   marks |-> {}, activation |-> "none", receipt |-> NoReceipt]

Started ==
  [pc |-> "attach", mount |-> 1, tries |-> 0, ready |-> TRUE, hook |-> FALSE,
   cancelled |-> FALSE, code |-> "none", outputs |-> "none", marks |-> {}, served |-> FALSE]
Stopped == [Started EXCEPT !.pc = "down"]

Alive == place \in {"golden", "running", "stopping"}

\* A Task's actor is created from a golden snapshot, or before there is one.
Init ==
  /\ task \in Tasks
  /\ place \in {"golden", "suspended"}
  /\ golden = NoSnapshot
  /\ vol = EmptyVolume(task)
  /\ box = IF place = "golden" THEN Started ELSE Stopped
  /\ condition = "Unknown"
  /\ faults = 0 /\ stops = 0
  /\ granted = FALSE /\ ended = "none" /\ failed = {}

At(pc) == Alive /\ box.pc = pc
Goto(pc) == box' = [box EXCEPT !.pc = pc]
Fault == faults < MaxFaults /\ faults' = faults + 1
Local == UNCHANGED <<task, actor, granted>>

-----------------------------------------------------------------------------
(* Setting up *)

\* Mutant: the hook is only set before the first activation.
AttachBeforeActivation ==
  /\ At("attach")
  /\ box' = [box EXCEPT !.pc = "mount", !.hook = task.extension /\ vol.activation = "none"]
  /\ Local /\ UNCHANGED <<vol, faults, ended, failed>>

\* A Task whose receipt is there runs without a command and without a hook.
Attach ==
  /\ At("attach")
  /\ box' = [box EXCEPT !.pc = "mount", !.hook = task.extension /\ vol.receipt = NoReceipt]
  /\ Local /\ UNCHANGED <<vol, faults, ended, failed>>

HasCommand == ~ task.extension \/ box.hook

NextMount == [box EXCEPT !.pc = "mount", !.mount = @ + 1, !.tries = 0]

\* The files of the Workspace are written over whatever is there.
WriteFiles(i) == [vol EXCEPT !.files[i] = "initial"]

AfterGit(i) == IF task.mounts[i].goal THEN "boot" ELSE "mark"
AfterFiles(i) == IF task.mounts[i].git THEN "git" ELSE AfterGit(i)

\* The marker ends the setup of a mount; otherwise its files are written.
SetupWorkspace(i) ==
  /\ At("mount") /\ box.mount = i
  /\ IF Mark(i) \in Marks
     THEN box' = NextMount /\ UNCHANGED vol
     ELSE vol' = WriteFiles(i) /\ Goto(AfterFiles(i))
  /\ Local /\ UNCHANGED <<faults, ended, failed>>

\* They cannot be written: only logged.
FilesFail(i) ==
  /\ At("mount") /\ box.mount = i /\ Mark(i) \notin Marks
  /\ Fault
  /\ Goto(AfterFiles(i))
  /\ Local /\ UNCHANGED <<vol, ended, failed>>

\* The directory cannot be made: the runner goes on and never reports ready.
SetupFails(i) ==
  /\ At("mount") /\ box.mount = i
  /\ Fault
  /\ box' = [NextMount EXCEPT !.ready = FALSE]
  /\ failed' = failed \cup {"setup"}
  /\ Local /\ UNCHANGED <<vol, ended>>

\* checkout -f replaces whatever is there.
FetchRepo(i) ==
  /\ At("git") /\ box.mount = i
  /\ vol' = [vol EXCEPT !.repo[i] = "cloned"]
  /\ Goto(AfterGit(i))
  /\ Local /\ UNCHANGED <<faults, ended, failed>>

\* retry: no attempt follows this one.
LastAttempt == box.cancelled \/ box.tries + 1 = GitRetries

\* Mutants: one attempt too many; and the marker in spite of the failure.
FetchFailsOnceMore(i) ==
  /\ At("git") /\ box.mount = i
  /\ box' = IF box.cancelled \/ box.tries = GitRetries
            THEN NextMount ELSE [box EXCEPT !.tries = @ + 1]
  /\ Local /\ UNCHANGED <<vol, faults, ended, failed>>
FetchFailsMarked(i) ==
  /\ At("git") /\ box.mount = i
  /\ Goto(AfterGit(i))
  /\ Local /\ UNCHANGED <<vol, faults, ended, failed>>

\* A failed attempt is repeated; after the last one, or when cancelled, the
\* setup of the mount goes on to its end without a marker and without an error.
FetchFails(i) ==
  /\ At("git") /\ box.mount = i
  /\ box' = IF ~ LastAttempt THEN [box EXCEPT !.tries = @ + 1]
            ELSE IF task.mounts[i].goal THEN [box EXCEPT !.pc = "bootUnmarked"]
            ELSE NextMount
  /\ Local /\ UNCHANGED <<vol, faults, ended, failed>>

Worked(content) == IF content = "none" THEN "none" ELSE "work"

\* runBootstrap: the agent that is given the goal changes the workspace, or
\* is not there, fails or is cut short, which is only logged.
Bootstrap(i) ==
  /\ (At("boot") \/ At("bootUnmarked")) /\ box.mount = i
  /\ vol' \in {vol, [vol EXCEPT !.files[i] = Worked(@), !.repo[i] = Worked(@)]}
  /\ box' = IF box.pc = "boot" THEN [box EXCEPT !.pc = "mark"] ELSE NextMount
  /\ Local /\ UNCHANGED <<faults, ended, failed>>

WriteMarker(i) ==
  /\ At("mark") /\ box.mount = i
  /\ vol' = IF task.extension THEN [vol EXCEPT !.marks = @ \cup {Mark(i)}] ELSE vol
  /\ box' = IF task.extension THEN NextMount
            ELSE [NextMount EXCEPT !.marks = @ \cup {Mark(i)}]
  /\ Local /\ UNCHANGED <<faults, ended, failed>>

\* The marker cannot be written: only logged.
MarkerFails(i) ==
  /\ At("mark") /\ box.mount = i
  /\ Fault
  /\ box' = NextMount
  /\ failed' = failed \cup {"setup"}
  /\ Local /\ UNCHANGED <<vol, ended>>

\* SetWorkspaceReady, then the command.
Serve ==
  /\ At("mount") /\ box.mount > Len(task.mounts)
  /\ box' = [box EXCEPT !.served = box.ready, !.pc = IF HasCommand THEN "start" ELSE "idle"]
  /\ Local /\ UNCHANGED <<vol, faults, ended, failed>>

-----------------------------------------------------------------------------
(* The command *)

StartCommand ==
  /\ At("start")
  /\ Goto(IF task.extension THEN "gate" ELSE "working")
  /\ Local /\ UNCHANGED <<vol, faults, ended, failed>>

\* The command of a plain Task does not exist: the runner ends.
StartFails ==
  /\ At("start") /\ ~ task.extension
  /\ Fault
  /\ box' = Stopped
  /\ Local /\ UNCHANGED <<vol, ended, failed>>

\* Mutant: the receipt is not looked at.
GateWithoutReceipt ==
  /\ At("gate") /\ vol.activation = "id"
  /\ Goto("working")
  /\ Local /\ UNCHANGED <<vol, faults, ended, failed>>

\* task-agent-exec: wait for the activation, sleep if the receipt is there,
\* else become the command.
Gate ==
  /\ At("gate") /\ vol.activation = "id"
  /\ Goto(IF vol.receipt = NoReceipt THEN "working" ELSE "asleep")
  /\ Local /\ UNCHANGED <<vol, faults, ended, failed>>

\* The command changes its inputs.
Work ==
  /\ At("working")
  /\ vol' = [vol EXCEPT
       !.files = [i \in Mount |-> Worked(@[i])],
       !.repo = [i \in Mount |-> Worked(@[i])]]
  /\ Local /\ UNCHANGED <<box, faults, ended, failed>>

\* The command ends by itself.
Exit(code) ==
  /\ At("working")
  /\ box' = [box EXCEPT !.pc = "exited", !.code = code]
  /\ ended' = code
  /\ Local /\ UNCHANGED <<vol, faults, failed>>

\* The command is killed, by the kernel for its memory say.
Killed ==
  /\ At("working")
  /\ Fault
  /\ box' = [box EXCEPT !.pc = "exited", !.code = "signal"]
  /\ failed' = failed \cup {"evidence"}
  /\ Local /\ UNCHANGED <<vol, ended>>

\* stopCommand: SIGTERM and, after the grace period, SIGKILL.  A command may
\* catch the first and choose its exit code; the gate does not.
StopCommand ==
  /\ Alive /\ box.cancelled
  /\ \/ /\ box.pc = "working"
        /\ \E code \in {"ok", "error", "signal"} :
             box' = [box EXCEPT !.pc = "exited", !.code = code]
     \/ box.pc \in {"gate", "asleep", "idle"} /\ box' = Stopped
  /\ Local /\ UNCHANGED <<vol, faults, ended, failed>>

\* Mutant: a cancelled runner still trusts the exit code.
ReportExitCancelled ==
  /\ At("exited")
  /\ Goto(IF box.hook /\ box.code # "signal" THEN "collect" ELSE "idle")
  /\ Local /\ UNCHANGED <<vol, faults, ended, failed>>

\* OnCommandExit: interrupted commands have no completion evidence.
ReportExit ==
  /\ At("exited")
  /\ Goto(IF box.hook /\ ~ box.cancelled /\ box.code # "signal" THEN "collect" ELSE "idle")
  /\ Local /\ UNCHANGED <<vol, faults, ended, failed>>

\* The declared outputs are read and the receipt is written beside its place.
Collect(outputs) ==
  /\ At("collect")
  /\ box' = [box EXCEPT !.pc = "rename", !.outputs = outputs]
  /\ Local /\ UNCHANGED <<vol, faults, ended, failed>>

Persist ==
  /\ At("rename")
  /\ vol' = [vol EXCEPT !.receipt = [code |-> box.code, outputs |-> box.outputs]]
  /\ Goto("idle")
  /\ Local /\ UNCHANGED <<faults, ended, failed>>

PersistFails ==
  /\ At("rename")
  /\ Fault
  /\ Goto("idle")
  /\ failed' = failed \cup {"evidence"}
  /\ Local /\ UNCHANGED <<vol, ended>>

-----------------------------------------------------------------------------
(* The task graph, the controller and Substrate *)

Reachable == place = "running" /\ box.pc \notin {"down", "attach"}

\* WriteActivation over the guest file API: the file is opened, then filled.
OpenActivation ==
  /\ Reachable /\ task.extension /\ vol.activation # "partial"
  /\ vol' = [vol EXCEPT !.activation = "partial"]
  /\ UNCHANGED <<task, actor, box, faults, history>>
FillActivation ==
  /\ Reachable /\ vol.activation = "partial"
  /\ vol' = [vol EXCEPT !.activation = "id"]
  /\ granted' = TRUE
  /\ UNCHANGED <<task, actor, box, faults, ended, failed>>

Condition(holds) == IF holds THEN "True" ELSE "False"

\* The controller polls only while it has not seen the workspace ready; the
\* poll may run out of time.
Poll ==
  /\ place = "running" /\ condition # "True"
  /\ \E seen \in {FALSE, box.served} : condition' = Condition(seen)
  /\ UNCHANGED <<task, place, golden, vol, box, faults, stops, history>>

\* The golden container is snapshotted once its probe succeeds.
Snapshot ==
  /\ place = "golden" /\ box.served
  /\ golden' = [vol |-> vol, box |-> box, pc |-> "taken"]
  /\ place' = "suspended"
  /\ box' = Stopped
  /\ UNCHANGED <<task, vol, condition, faults, stops, history>>

\* The volume is kept; the processes are started anew or are those of the
\* golden container.
ResumeActor ==
  /\ place = "suspended"
  /\ place' = "running"
  /\ box' \in {Started} \cup (IF golden = NoSnapshot THEN {} ELSE {golden.box})
  /\ UNCHANGED <<task, golden, vol, condition, faults, stops, history>>

SuspendActor ==
  /\ place = "running" /\ stops < MaxStops[task]
  /\ place' = "stopping"
  /\ stops' = stops + 1
  /\ UNCHANGED <<task, golden, vol, box, condition, faults, history>>
Signal ==
  /\ place = "stopping" /\ ~ box.cancelled
  /\ box' = [box EXCEPT !.cancelled = TRUE]
  /\ UNCHANGED <<task, actor, vol, faults, history>>
Suspended ==
  /\ place = "stopping"
  /\ place' = "suspended"
  /\ box' = Stopped
  /\ UNCHANGED <<task, golden, vol, condition, faults, stops, history>>

\* The actor crashes, or its container has ended.
Crash ==
  /\ place = "running"
  /\ IF box.pc = "down" THEN UNCHANGED faults ELSE Fault
  /\ place' = "crashed"
  /\ box' = Stopped
  /\ UNCHANGED <<task, golden, vol, condition, stops, history>>

\* EnsureActor deletes a crashed actor and creates it again from its template.
Recreate ==
  /\ place = "crashed"
  /\ place' = "suspended"
  /\ vol' = IF golden = NoSnapshot THEN EmptyVolume(task) ELSE golden.vol
  /\ granted' = FALSE /\ ended' = "none"
  /\ UNCHANGED <<task, golden, box, condition, faults, stops, failed>>

-----------------------------------------------------------------------------

SetUp == \E i \in Mount :
  \/ SetupWorkspace(i) \/ FilesFail(i) \/ SetupFails(i) \/ FetchRepo(i) \/ FetchFails(i)
  \/ Bootstrap(i) \/ WriteMarker(i) \/ MarkerFails(i)
Run ==
  \/ Attach \/ SetUp \/ Serve \/ StartCommand \/ StartFails
  \/ StopCommand \/ ReportExit
  \/ (\E o \in {"complete", "refused"} : Collect(o)) \/ Persist \/ PersistFails
Command == Work \/ (\E c \in {"ok", "error"} : Exit(c)) \/ Killed
Substrate == Snapshot \/ ResumeActor \/ SuspendActor \/ Signal \/ Suspended \/ Crash \/ Recreate

Next ==
  \/ Run \/ Gate \/ Command
  \/ OpenActivation \/ FillActivation \/ Poll \/ Substrate

Spec == Init /\ [][Next]_vars

\* The runner and Substrate go on, commands exit, the graph's `run' is
\* repeated, and the gate looks at the file more often than it is rewritten.
Fairness ==
  /\ WF_vars(Run) /\ SF_vars(Gate) /\ WF_vars(\E c \in {"ok", "error"} : Exit(c))
  /\ SF_vars(OpenActivation) /\ SF_vars(FillActivation)
  /\ WF_vars(Snapshot) /\ WF_vars(ResumeActor) /\ WF_vars(Suspended) /\ WF_vars(Recreate)

FairSpec == Spec /\ Fairness

-----------------------------------------------------------------------------
(* Properties *)

PC == {"down", "attach", "mount", "git", "boot", "bootUnmarked", "mark", "start", "gate",
       "asleep", "working", "exited", "collect", "rename", "idle"}
Content == {"none", "initial", "work"}

TypeOK ==
  /\ task \in Tasks
  /\ place \in {"golden", "suspended", "running", "stopping", "crashed"}
  /\ vol.files \in [Mount -> Content] /\ vol.repo \in [Mount -> {"none", "cloned", "work"}]
  /\ vol.marks \subseteq {Mark(i) : i \in Mount}
  /\ vol.activation \in {"none", "partial", "id"}
  /\ vol.receipt \in Receipt \cup {NoReceipt}
  /\ box.pc \in PC /\ box.mount \in 1 .. Len(task.mounts) + 1 /\ box.tries \in 0 .. GitRetries - 1
  /\ condition \in {"Unknown", "False", "True"}
  /\ failed \subseteq {"setup", "evidence"}
  /\ faults \in 0 .. MaxFaults /\ stops \in 0 .. MaxStops[task]

\* A receipt is whole and records how this actor's command ended by itself;
\* never a command that the suspension stopped, whatever its exit code
\* (task_agent.go, OnCommandExit).
ReceiptIsEvidence ==
  vol.receipt # NoReceipt => vol.receipt \in Receipt /\ vol.receipt.code = ended

\* A marker stands for a mount of that marker whose repository is there,
\* wherever the marker and the mount are kept and whichever of them a resume
\* brings back (setup.go, SetupWorkspace).  Of other mounts with the same
\* marker, and of the files, it says nothing.
MarkedIsPrepared ==
  Alive => \A m \in Marks :
    \E i \in Mount : Mark(i) = m /\ (task.mounts[i].git => vol.repo[i] # "none")

\* extensions.md: a resumed task-agent Task does not find its work overwritten
\* with the initial files, unless an I/O error kept its setup from the marker.
WorkIsKept ==
  [][\A i \in Mount : task.extension /\ "setup" \notin failed /\ vol.files[i] = "work" =>
       vol'.files[i] = "work" \/ place = "crashed"]_vars

\* The runner implements what the task graph relies on: the command begins
\* only after the activation, never in the golden container, and never again
\* once its receipt is there.
Execution == INSTANCE TaskExecution WITH
  Outcome <- Receipt,
  permitted <- granted,
  executing <- task.extension /\ box.pc \in {"working", "exited", "collect", "rename"},
  receipt <- vol.receipt
ImplementsExecution == Execution!Spec

\* Through suspensions, resumptions and a crash, a running task-agent Task
\* comes to its receipt, unless it was killed or the receipt could not be
\* written.
Answered == (task.extension /\ place = "running") ~> (vol.receipt # NoReceipt \/ "evidence" \in failed)

\* concepts.md: WorkspaceReady says that every workspace has finished setting
\* up; runner.md: /readyz answers 503 until the workspace is prepared.
WorkspaceReadyIsTrue ==
  condition = "True" =>
    \A i \in Mount : task.mounts[i].git => vol.repo[i] # "none"
=============================================================================
