--------------------------- MODULE TaskRunnerProofs ---------------------------
(***************************************************************************)
(* What holds of TaskRunner for every set of Tasks and every number of     *)
(* faults, retries and suspensions: it implements TaskExecution, a receipt *)
(* is evidence, a marker is true and resumed work is kept.                 *)
(***************************************************************************)
EXTENDS TaskRunner, TLAPS

\* The command has begun and its end is not settled.
Doing == {"working", "exited", "collect", "rename"}
\* The runner has come past the setup of the workspaces.
Later == {"start", "gate", "asleep", "idle"} \cup Doing

Names(t) == {MarkerName(t.mounts[i].path) : i \in DOMAIN t.mounts}
Volume(t) ==
  [files : [DOMAIN t.mounts -> Content], repo : [DOMAIN t.mounts -> {"none", "cloned", "work"}],
   marks : SUBSET Names(t), activation : {"none", "partial", "id"},
   receipt : Receipt \cup {NoReceipt}]
Box(t) ==
  [pc : PC, mount : 1 .. Len(t.mounts) + 1, tries : 0 .. GitRetries - 1,
   ready : BOOLEAN, hook : BOOLEAN, cancelled : BOOLEAN,
   code : {"none", "ok", "error", "signal"}, outputs : {"none", "complete", "refused"},
   marks : SUBSET Names(t), served : BOOLEAN]
Golden(t) == [vol : Volume(t), box : Box(t), pc : {"taken"}]

Typed ==
  /\ task \in Tasks
  /\ place \in {"golden", "suspended", "running", "stopping", "crashed"}
  /\ golden \in Golden(task) \cup {NoSnapshot}
  /\ vol \in Volume(task) /\ box \in Box(task)
  /\ condition \in {"Unknown", "False", "True"}
  /\ faults \in 0 .. MaxFaults /\ stops \in 0 .. MaxStops[task]
  /\ granted \in BOOLEAN /\ ended \in {"none", "ok", "error"}
  /\ failed \subseteq {"setup", "evidence"}

\* How far the command is and what the volume says of it.
Evidence ==
  /\ place \in {"suspended", "crashed"} => box.pc = "down"
  /\ place = "golden" => ~ granted /\ vol.receipt = NoReceipt /\ vol.activation = "none"
  /\ golden # NoSnapshot =>
       /\ golden.vol.activation = "none" /\ golden.vol.receipt = NoReceipt
       /\ golden.box.pc \in Later
       /\ task.extension => golden.box.pc \notin Doing
       /\ golden.box.hook => task.extension
       /\ golden.box.pc \notin {"collect", "rename"}
  /\ vol.activation = "id" => granted
  /\ box.hook => task.extension
  /\ task.extension /\ box.pc \in Doing => granted /\ vol.receipt = NoReceipt
  /\ box.pc = "exited" /\ box.hook /\ ~ box.cancelled /\ box.code # "signal" =>
       box.code \in {"ok", "error"} /\ box.code = ended
  /\ box.pc \in {"collect", "rename"} =>
       task.extension /\ box.code \in {"ok", "error"} /\ box.code = ended
  /\ box.pc = "rename" => box.outputs # "none"
  /\ ~ task.extension => vol.receipt = NoReceipt
  /\ ReceiptIsEvidence

\* What a marker in the volume v or the container b says of the volume.
Marked(v, b) ==
  \A m \in v.marks \cup b.marks :
    \E i \in Mount : Mark(i) = m /\ (task.mounts[i].git => v.repo[i] # "none")

\* How far the setup is and what the markers say of it.
Prepared ==
  /\ box.served => box.pc \in Later
  /\ box.pc = "down" => box.marks = {}
  /\ box.pc = "attach" => box.mount = 1
  /\ box.pc \in {"git", "boot", "bootUnmarked", "mark"} => box.mount \in Mount
  /\ box.pc = "git" => task.mounts[box.mount].git
  /\ box.pc \in {"boot", "bootUnmarked"} => task.mounts[box.mount].goal
  /\ box.pc \in {"boot", "mark"} => (task.mounts[box.mount].git => vol.repo[box.mount] # "none")
  /\ Marked(vol, box)
  /\ golden # NoSnapshot =>
       /\ Marked(golden.vol, golden.box)
       /\ \A i \in Mount : golden.vol.repo[i] # "none" => vol.repo[i] # "none"

\* No work in the volume without its marker.
Kept ==
  task.extension /\ "setup" \notin failed =>
    /\ box.pc \in {"mount", "mark"} => \A i \in Mount : i < box.mount => Mark(i) \in vol.marks
    /\ box.pc \in Later => \A i \in Mount : Mark(i) \in vol.marks
    /\ golden # NoSnapshot => \A i \in Mount : Mark(i) \in golden.vol.marks /\ Mark(i) \in vol.marks
    /\ \A i \in Mount : vol.files[i] = "work" => Mark(i) \in vol.marks

IInv == Typed /\ Evidence /\ Prepared /\ Kept

-----------------------------------------------------------------------------
(* What the parts are made of *)

\* The mounts of a Task and the names of their markers.
LEMMA MountFacts ==
  ASSUME Typed
  PROVE  /\ task.extension \in BOOLEAN
         /\ Len(task.mounts) \in Nat /\ Mount = 1 .. Len(task.mounts) /\ Mount = DOMAIN task.mounts
         /\ \A i \in Mount : /\ task.mounts[i].git \in BOOLEAN /\ task.mounts[i].goal \in BOOLEAN
                             /\ task.extension => ~ task.mounts[i].git /\ ~ task.mounts[i].goal
                             /\ Mark(i) \in Names(task)
<1>1. task \in Tasks
  BY DEF Typed
<1> QED
  BY <1>1, TasksAssumption DEF Mount, Mark, Names

\* They do not change.
LEMMA SameMounts ==
  ASSUME task' = task
  PROVE  Mount' = Mount /\ \A i \in Mount : Mark(i)' = Mark(i)
  BY DEF Mount, Mark

\* What stands for nothing is neither a receipt nor a snapshot.
LEMMA Absences ==
  NoReceipt \notin Receipt /\ \A t \in Tasks : NoSnapshot \notin Golden(t)
  BY DEF NoReceipt, Receipt, NoSnapshot, Golden

\* What a new container and a stopped one are like.
LEMMA NewBoxes ==
  ASSUME Typed
  PROVE  /\ Started \in Box(task) /\ Stopped \in Box(task)
         /\ Started.pc = "attach" /\ Started.mount = 1 /\ Stopped.pc = "down"
         /\ \A b \in {Started, Stopped} : ~ b.served /\ ~ b.hook /\ b.marks = {}
<1>1. 1 \in 1 .. Len(task.mounts) + 1 /\ 0 \in 0 .. GitRetries - 1
  BY MountFacts, BoundsAssumption
<1>2. Started \in Box(task)
  BY <1>1 DEF Started, Box, PC
<1>3. Stopped \in Box(task)
  BY <1>2 DEF Stopped, Box, PC
<1> QED
  BY <1>2, <1>3 DEF Started, Stopped

\* The runner goes on to the next mount.
LEMMA NextMountFacts ==
  ASSUME Typed, box.mount \in Mount
  PROVE  /\ NextMount \in Box(task) /\ NextMount.pc = "mount" /\ NextMount.mount = box.mount + 1
         /\ NextMount.marks = box.marks /\ NextMount.hook = box.hook /\ NextMount.served = box.served
<1>1. box \in Box(task) /\ box.mount + 1 \in 1 .. Len(task.mounts) + 1 /\ 0 \in 0 .. GitRetries - 1
  BY MountFacts, BoundsAssumption DEF Typed
<1>2. NextMount = [box EXCEPT !.pc = "mount", !.mount = box.mount + 1, !.tries = 0]
  BY <1>1 DEF NextMount, Box
<1> QED
  BY <1>1, <1>2 DEF Box, PC

\* A step of the runner, of its command or of Substrate keeps the types if the
\* container and the volume keep theirs.
LEMMA TypedStep ==
  ASSUME Typed, task' = task, UNCHANGED golden, box' \in Box(task), vol' \in Volume(task),
         place' \in {"golden", "suspended", "running", "stopping", "crashed"},
         condition' \in {"Unknown", "False", "True"},
         UNCHANGED faults \/ Fault, UNCHANGED stops \/ (stops < MaxStops[task] /\ stops' = stops + 1),
         granted' \in BOOLEAN, ended' \in {"none", "ok", "error"}, failed' \subseteq {"setup", "evidence"}
  PROVE  Typed'
  BY BoundsAssumption DEF Typed, Fault

\* What follows the files of a mount, and its repository.
LEMMA AfterFilesFacts ==
  ASSUME Typed, NEW i \in Mount
  PROVE  /\ AfterGit(i) \in {"boot", "mark"} /\ AfterFiles(i) \in {"git", "boot", "mark"}
         /\ AfterGit(i) = "boot" => task.mounts[i].goal
         /\ AfterFiles(i) = "boot" => task.mounts[i].goal
         /\ AfterFiles(i) = "git" => task.mounts[i].git
         /\ AfterFiles(i) # "git" => ~ task.mounts[i].git
  BY DEF AfterFiles, AfterGit

-----------------------------------------------------------------------------
(* Setting up *)

\* The hook is set for task-agent Tasks only, and only without a receipt.
LEMMA AttachOK ==
  ASSUME IInv, Attach
  PROVE  IInv'
<1>1. task' = task /\ Typed /\ box \in Box(task) /\ vol \in Volume(task)
      /\ golden \in Golden(task) \cup {NoSnapshot}
  BY DEF IInv, Typed, Attach, Local
<1>3. box' \in Box(task)
  BY <1>1 DEF Box, PC, Attach
<1>4. vol' \in Volume(task)
  BY <1>1 DEF Attach
<1>5. Typed'
  BY <1>1, <1>3, <1>4, TypedStep DEF Typed, Attach, Local, actor
<1>6. Evidence'
  BY <1>1 DEF IInv, Box, Evidence, ReceiptIsEvidence, Doing, Attach, At, Local, actor
<1>7. Prepared'
  BY SameMounts DEF IInv, Prepared, Marked, Doing, Later, Attach, At, Local, actor
<1>8. Kept'
  BY MountFacts, SameMounts DEF IInv, Prepared, Kept, Doing, Later, Attach, At, Local, actor
<1> QED
  BY <1>5, <1>6, <1>7, <1>8 DEF IInv

\* Files are written over work only where the marker is missing.
LEMMA SetupWorkspaceOK ==
  ASSUME IInv, NEW i \in Mount, SetupWorkspace(i)
  PROVE  IInv'
<1>1. task' = task /\ Typed /\ box \in Box(task) /\ vol \in Volume(task) /\ UNCHANGED <<golden, failed, granted, ended, place>>
      /\ golden \in Golden(task) \cup {NoSnapshot} /\ box.pc = "mount" /\ box.mount = i
  BY DEF IInv, Typed, SetupWorkspace, At, Local, actor
<1>2. CASE Mark(i) \in Marks
  <2>1. box' = NextMount /\ vol' = vol
    BY <1>2 DEF SetupWorkspace
  <2>2. Typed'
    BY <1>1, <2>1, NextMountFacts, TypedStep DEF Typed, SetupWorkspace, Local, actor
  <2>3. Evidence'
    BY <1>1, <2>1, NextMountFacts DEF IInv, Evidence, ReceiptIsEvidence, SetupWorkspace, Alive
  <2>4. Prepared'
    BY <1>1, <2>1, NextMountFacts, SameMounts DEF IInv, Prepared, Marked
  <2>5. Kept'
    BY <1>1, <1>2, <2>1, NextMountFacts, MountFacts, SameMounts DEF IInv, Kept, Marks
  <2> QED
    BY <2>2, <2>3, <2>4, <2>5 DEF IInv
<1>3. CASE Mark(i) \notin Marks
  <2>1. box' = [box EXCEPT !.pc = AfterFiles(i)] /\ vol' = [vol EXCEPT !.files[i] = "initial"]
    BY <1>3 DEF SetupWorkspace, Goto, WriteFiles
  <2>2. box' \in Box(task) /\ vol' \in Volume(task)
    BY <1>1, <2>1, AfterFilesFacts DEF Box, Volume, PC, Content
  <2>3. Typed'
    BY <1>1, <2>2, TypedStep DEF Typed, SetupWorkspace, Local, actor
  <2>4. Evidence'
    BY <1>1, <2>1, AfterFilesFacts DEF IInv, Evidence, ReceiptIsEvidence, Doing, SetupWorkspace, Alive
  <2>5. Prepared'
    BY <1>1, <2>1, SameMounts, AfterFilesFacts DEF IInv, Prepared, Marked, Later, Doing
  <2>6. Kept'
    BY <1>1, <2>1, SameMounts, AfterFilesFacts DEF IInv, Kept, Later, Doing
  <2> QED
    BY <2>3, <2>4, <2>5, <2>6 DEF IInv
<1> QED
  BY <1>2, <1>3

\* Files that could not be written leave the volume as it is.
LEMMA FilesFailOK ==
  ASSUME IInv, NEW i \in Mount, FilesFail(i)
  PROVE  IInv'
<1>1. task' = task /\ Typed /\ box \in Box(task) /\ vol \in Volume(task)
      /\ golden \in Golden(task) \cup {NoSnapshot} /\ box.pc = "mount" /\ box.mount = i
      /\ UNCHANGED <<vol, golden, failed, granted, ended, place>>
      /\ box' = [box EXCEPT !.pc = AfterFiles(i)]
  BY DEF IInv, Typed, FilesFail, At, Goto, Local, actor
<1>3. box' \in Box(task)
  BY <1>1, AfterFilesFacts DEF Box, PC
<1>5. Typed'
  BY <1>1, <1>3, TypedStep DEF Typed, FilesFail, Local, actor
<1>6. Evidence'
  BY <1>1, AfterFilesFacts DEF IInv, Evidence, ReceiptIsEvidence, Doing
<1>7. Prepared'
  BY <1>1, AfterFilesFacts, SameMounts DEF IInv, Prepared, Marked, Later, Doing
<1>8. Kept'
  BY <1>1, AfterFilesFacts, SameMounts DEF IInv, Kept, Later, Doing
<1> QED
  BY <1>5, <1>6, <1>7, <1>8 DEF IInv

\* From here on the Task's setup has failed.
LEMMA SetupFailsOK ==
  ASSUME IInv, NEW i \in Mount, SetupFails(i)
  PROVE  IInv'
<1>1. task' = task /\ Typed /\ box \in Box(task) /\ vol \in Volume(task)
      /\ golden \in Golden(task) \cup {NoSnapshot}
  BY DEF IInv, Typed, SetupFails, Local
<1>2. box.mount = i /\ NextMount \in Box(task)
  BY <1>1, NextMountFacts DEF SetupFails
<1>3. box' \in Box(task)
  BY <1>2 DEF Box, SetupFails
<1>4. vol' \in Volume(task)
  BY <1>1, <1>2 DEF SetupFails
<1>5. Typed'
  BY <1>1, <1>3, <1>4, TypedStep DEF Typed, SetupFails, Local, actor
<1>6. Evidence'
  BY <1>2, NextMountFacts DEF IInv, Evidence, ReceiptIsEvidence, SetupFails, At, Local, actor
<1>7. Prepared'
  BY <1>2, NextMountFacts, SameMounts DEF IInv, Prepared, Marked, SetupFails, At, Local, actor
<1>8. Kept'
  BY <1>2 DEF IInv, Kept, SetupFails
<1> QED
  BY <1>5, <1>6, <1>7, <1>8 DEF IInv

\* The repository is there before its marker.
LEMMA FetchRepoOK ==
  ASSUME IInv, NEW i \in Mount, FetchRepo(i)
  PROVE  IInv'
<1>1. task' = task /\ Typed /\ box \in Box(task) /\ vol \in Volume(task)
      /\ golden \in Golden(task) \cup {NoSnapshot}
  BY DEF IInv, Typed, FetchRepo, Local
<1>3. box' \in Box(task)
  BY <1>1, AfterFilesFacts DEF Box, PC, FetchRepo, Goto
<1>4. vol' \in Volume(task)
  BY <1>1 DEF Volume, FetchRepo
<1>5. Typed'
  BY <1>1, <1>3, <1>4, TypedStep DEF Typed, FetchRepo, Local, actor
<1>6. Evidence'
  BY <1>1, AfterFilesFacts DEF IInv, Box, Evidence, ReceiptIsEvidence, Doing, FetchRepo, At, Goto, Local, actor
<1>7. Prepared'
  <2>1. /\ box' = [box EXCEPT !.pc = AfterGit(i)] /\ vol' = [vol EXCEPT !.repo[i] = "cloned"]
        /\ box.pc = "git" /\ box.mount = i /\ golden' = golden
    BY DEF FetchRepo, At, Goto, Local, actor
  <2>2. /\ box'.pc \in {"boot", "mark"} /\ box'.mount = i /\ box'.marks = box.marks
        /\ box'.served = box.served /\ box'.pc = "boot" => task.mounts[i].goal
    BY <1>1, <2>1, AfterFilesFacts DEF Box
  <2>3. /\ vol'.marks = vol.marks /\ vol'.repo[i] # "none"
        /\ \A j \in Mount : vol.repo[j] # "none" => vol'.repo[j] # "none"
    BY <1>1, <2>1 DEF Volume, Mount
  <2> QED
    BY <1>1, <2>1, <2>2, <2>3, SameMounts DEF IInv, Prepared, Marked, Doing, Later
<1>8. Kept'
  BY <1>1, MountFacts DEF IInv, Prepared, Kept, FetchRepo, At
<1> QED
  BY <1>5, <1>6, <1>7, <1>8 DEF IInv

\* A clone given up leaves no marker.
LEMMA FetchFailsOK ==
  ASSUME IInv, NEW i \in Mount, FetchFails(i)
  PROVE  IInv'
<1>1. task' = task /\ Typed /\ box \in Box(task) /\ vol \in Volume(task)
      /\ golden \in Golden(task) \cup {NoSnapshot}
  BY DEF IInv, Typed, FetchFails, Local
<1>2. box.mount = i /\ NextMount \in Box(task)
  BY <1>1, NextMountFacts DEF FetchFails
<1>3. box' \in Box(task)
  <2>1. CASE LastAttempt
    BY <1>1, <1>2, <2>1 DEF FetchFails, Box, PC
  <2>2. CASE ~ LastAttempt
    <3>1. box.tries + 1 \in 0 .. GitRetries - 1
      BY <1>1, <2>2, BoundsAssumption DEF Box, LastAttempt
    <3> QED
      BY <1>1, <2>2, <3>1 DEF Box, FetchFails
  <2> QED
    BY <2>1, <2>2
<1>4. vol' \in Volume(task)
  BY <1>1, <1>2 DEF FetchFails
<1>5. Typed'
  BY <1>1, <1>3, <1>4, TypedStep DEF Typed, FetchFails, Local, actor
<1>6. Evidence'
  BY <1>1, <1>2, NextMountFacts DEF IInv, Box, Evidence, ReceiptIsEvidence, Doing, FetchFails, At, Local, actor
<1>7. Prepared'
  BY <1>1, <1>2, NextMountFacts, SameMounts DEF Box, IInv, Prepared, Marked, Doing, Later, FetchFails, At, Local, actor
<1>8. Kept'
  BY <1>1, <1>2, MountFacts DEF IInv, Prepared, Kept, FetchFails, At
<1> QED
  BY <1>5, <1>6, <1>7, <1>8 DEF IInv

\* The agent that is given the goal works in what is there; a task-agent Task has
\* none.
LEMMA BootstrapOK ==
  ASSUME IInv, NEW i \in Mount, Bootstrap(i)
  PROVE  IInv'
<1>1. task' = task /\ Typed /\ box \in Box(task) /\ vol \in Volume(task)
      /\ golden \in Golden(task) \cup {NoSnapshot} /\ box.mount = i
      /\ box.pc \in {"boot", "bootUnmarked"} /\ UNCHANGED <<golden, failed, granted, ended, place>>
  BY DEF IInv, Typed, Bootstrap, At, Local, actor
<1>2. ~ task.extension
  BY <1>1, MountFacts DEF IInv, Prepared
<1>3. /\ box' \in Box(task) /\ box'.marks = box.marks /\ box'.hook = box.hook
      /\ box'.served = box.served /\ box'.pc \in {"mount", "mark"}
      /\ box'.pc = "mark" => box.pc = "boot" /\ box'.mount = i
  BY <1>1, NextMountFacts DEF Box, PC, Bootstrap
<1>4. /\ vol' \in Volume(task) /\ vol'.marks = vol.marks
      /\ vol'.receipt = vol.receipt /\ vol'.activation = vol.activation
      /\ \A j \in Mount : vol.repo[j] # "none" => vol'.repo[j] # "none"
  <2>1. CASE vol' = vol
    BY <1>1, <2>1
  <2>2. CASE vol' = [vol EXCEPT !.files[i] = Worked(@), !.repo[i] = Worked(@)]
    BY <1>1, <2>2 DEF Volume, Content, Worked, Mount
  <2> QED
    BY <2>1, <2>2 DEF Bootstrap
<1>5. Typed'
  BY <1>1, <1>3, <1>4, TypedStep DEF Typed, Bootstrap, Local, actor
<1>6. Evidence'
  BY <1>1, <1>2, <1>3, <1>4 DEF IInv, Evidence, ReceiptIsEvidence, Doing
<1>7. Prepared'
  BY <1>1, <1>3, <1>4, SameMounts DEF IInv, Prepared, Marked, Later, Doing
<1>8. Kept'
  BY <1>1, <1>2 DEF Kept
<1> QED
  BY <1>5, <1>6, <1>7, <1>8 DEF IInv

\* The marker written is that of a mount that is prepared.
LEMMA WriteMarkerOK ==
  ASSUME IInv, NEW i \in Mount, WriteMarker(i)
  PROVE  IInv'
<1>1. task' = task /\ Typed /\ box \in Box(task) /\ vol \in Volume(task)
      /\ golden \in Golden(task) \cup {NoSnapshot}
  BY DEF IInv, Typed, WriteMarker, Local
<1>2. box.mount = i /\ NextMount \in Box(task)
  BY <1>1, NextMountFacts DEF WriteMarker
<1>3. box' \in Box(task)
  BY <1>1, <1>2, MountFacts DEF Box, WriteMarker
<1>4. vol' \in Volume(task)
  BY <1>1, <1>2, MountFacts DEF Volume, WriteMarker
<1>5. Typed'
  BY <1>1, <1>3, <1>4, TypedStep DEF Typed, WriteMarker, Local, actor
<1>6. Evidence'
  BY <1>2, NextMountFacts DEF IInv, Evidence, ReceiptIsEvidence, Doing, WriteMarker, At, Local, actor
<1>7. Prepared'
  BY <1>2, MountFacts, NextMountFacts, SameMounts DEF IInv, Prepared, Marked, Doing, Later, WriteMarker, At, Local, actor
<1>8. Kept'
  BY <1>2, MountFacts, NextMountFacts, SameMounts DEF IInv, Kept, Doing, Later, WriteMarker, At, Local, actor
<1> QED
  BY <1>5, <1>6, <1>7, <1>8 DEF IInv

\* A marker that cannot be written is a failed setup.
LEMMA MarkerFailsOK ==
  ASSUME IInv, NEW i \in Mount, MarkerFails(i)
  PROVE  IInv'
<1>1. task' = task /\ Typed /\ box \in Box(task) /\ vol \in Volume(task)
      /\ golden \in Golden(task) \cup {NoSnapshot}
  BY DEF IInv, Typed, MarkerFails, Local
<1>2. box.mount = i /\ NextMount \in Box(task)
  BY <1>1, NextMountFacts DEF MarkerFails
<1>3. box' \in Box(task)
  BY <1>2 DEF MarkerFails
<1>4. vol' \in Volume(task)
  BY <1>1, <1>2 DEF MarkerFails
<1>5. Typed'
  BY <1>1, <1>3, <1>4, TypedStep DEF Typed, MarkerFails, Local, actor
<1>6. Evidence'
  BY <1>2, NextMountFacts DEF IInv, Evidence, ReceiptIsEvidence, Doing, MarkerFails, At, Local, actor
<1>7. Prepared'
  BY <1>2, NextMountFacts, SameMounts DEF IInv, Prepared, Marked, Doing, Later, MarkerFails, At, Local, actor
<1>8. Kept'
  BY <1>2 DEF IInv, Kept, MarkerFails
<1> QED
  BY <1>5, <1>6, <1>7, <1>8 DEF IInv

\* All mounts are behind the runner.
LEMMA ServeOK ==
  ASSUME IInv, Serve
  PROVE  IInv'
<1>1. task' = task /\ Typed /\ box \in Box(task) /\ vol \in Volume(task)
      /\ golden \in Golden(task) \cup {NoSnapshot}
  BY DEF IInv, Typed, Serve, Local, HasCommand
<1>3. box' \in Box(task)
  BY <1>1 DEF Box, PC, Serve, HasCommand
<1>4. vol' \in Volume(task)
  BY <1>1 DEF Serve, HasCommand
<1>5. Typed'
  BY <1>1, <1>3, <1>4, TypedStep DEF Typed, Serve, Local, actor, HasCommand
<1>6. Evidence'
  BY DEF IInv, Evidence, ReceiptIsEvidence, Doing, Serve, At, Local, actor, HasCommand
<1>7. Prepared'
  BY SameMounts DEF IInv, Prepared, Marked, Later, Serve, Local, actor, HasCommand
<1>8. Kept'
  BY <1>1, MountFacts, SameMounts DEF IInv, Box, Kept, Serve, At, Local, actor, HasCommand
<1> QED
  BY <1>5, <1>6, <1>7, <1>8 DEF IInv

-----------------------------------------------------------------------------
(* The command *)

\* A task-agent Task begins at the gate.
LEMMA StartCommandOK ==
  ASSUME IInv, StartCommand
  PROVE  IInv'
<1>1. task' = task /\ Typed /\ box \in Box(task) /\ vol \in Volume(task)
      /\ golden \in Golden(task) \cup {NoSnapshot}
  BY DEF IInv, Typed, StartCommand, Local
<1>3. box' \in Box(task)
  BY <1>1 DEF Box, PC, StartCommand, Goto
<1>4. vol' \in Volume(task)
  BY <1>1 DEF StartCommand
<1>5. Typed'
  BY <1>1, <1>3, <1>4, TypedStep DEF Typed, StartCommand, Local, actor
<1>6. Evidence'
  BY DEF IInv, Evidence, ReceiptIsEvidence, Doing, StartCommand, At, Goto, Local, actor
<1>7. Prepared'
  BY SameMounts DEF IInv, Prepared, Marked, Doing, Later, StartCommand, Goto, Local, actor
<1>8. Kept'
  BY SameMounts DEF IInv, Kept, Later, StartCommand, At, Local, actor
<1> QED
  BY <1>5, <1>6, <1>7, <1>8 DEF IInv

\* Nothing has begun.
LEMMA StartFailsOK ==
  ASSUME IInv, StartFails
  PROVE  IInv'
<1>1. task' = task /\ Typed /\ box \in Box(task) /\ vol \in Volume(task)
      /\ golden \in Golden(task) \cup {NoSnapshot}
  BY DEF IInv, Typed, StartFails, Local
<1>3. box' \in Box(task)
  BY <1>1, NewBoxes DEF StartFails
<1>4. vol' \in Volume(task)
  BY <1>1 DEF StartFails
<1>5. Typed'
  BY <1>1, <1>3, <1>4, TypedStep DEF Typed, StartFails, Local, actor
<1>6. Evidence'
  BY NewBoxes DEF IInv, Evidence, ReceiptIsEvidence, StartFails, Local, actor
<1>7. Prepared'
  BY NewBoxes, SameMounts DEF IInv, Prepared, Marked, StartFails, Local, actor
<1>8. Kept'
  BY <1>1 DEF IInv, Kept, StartFails
<1> QED
  BY <1>5, <1>6, <1>7, <1>8 DEF IInv

\* The command begins after the activation and without a receipt.
LEMMA GateOK ==
  ASSUME IInv, Gate
  PROVE  IInv'
<1>1. task' = task /\ Typed /\ box \in Box(task) /\ vol \in Volume(task)
      /\ golden \in Golden(task) \cup {NoSnapshot}
  BY DEF IInv, Typed, Gate, Local
<1>3. box' \in Box(task)
  BY <1>1 DEF Box, PC, Gate, Goto
<1>4. vol' \in Volume(task)
  BY <1>1 DEF Gate
<1>5. Typed'
  BY <1>1, <1>3, <1>4, TypedStep DEF Typed, Gate, Local, actor
<1>6. Evidence'
  BY DEF IInv, Evidence, ReceiptIsEvidence, Doing, Gate, At, Goto, Local, actor
<1>7. Prepared'
  BY SameMounts DEF IInv, Prepared, Marked, Doing, Later, Gate, Goto, Local, actor
<1>8. Kept'
  BY SameMounts DEF IInv, Kept, Later, Gate, At, Local, actor
<1> QED
  BY <1>5, <1>6, <1>7, <1>8 DEF IInv

\* Work is done where the setup is complete.
LEMMA WorkOK ==
  ASSUME IInv, Work
  PROVE  IInv'
<1>1. task' = task /\ Typed /\ box \in Box(task) /\ vol \in Volume(task)
      /\ golden \in Golden(task) \cup {NoSnapshot}
  BY DEF IInv, Typed, Work, Local
<1>3. box' \in Box(task)
  BY <1>1 DEF Work
<1>4. vol' \in Volume(task)
  BY <1>1, MountFacts DEF Volume, Content, Work, Worked
<1>5. Typed'
  BY <1>1, <1>3, <1>4, TypedStep DEF Typed, Work, Local, actor
<1>6. Evidence'
  BY DEF IInv, Evidence, ReceiptIsEvidence, Work, Local, actor
<1>7. Prepared'
  BY SameMounts DEF IInv, Prepared, Marked, Work, Worked, Local, actor
<1>8. Kept'
  BY SameMounts DEF IInv, Kept, Doing, Later, Work, Worked, At, Local, actor
<1> QED
  BY <1>5, <1>6, <1>7, <1>8 DEF IInv

\* The exit code is that of a command that ended by itself.
LEMMA ExitOK ==
  ASSUME IInv, NEW code \in {"ok", "error"}, Exit(code)
  PROVE  IInv'
<1>1. task' = task /\ Typed /\ box \in Box(task) /\ vol \in Volume(task)
      /\ golden \in Golden(task) \cup {NoSnapshot}
  BY DEF IInv, Typed, Exit, Local
<1>3. box' \in Box(task)
  BY <1>1 DEF Box, PC, Exit
<1>4. vol' \in Volume(task)
  BY <1>1 DEF Exit
<1>5. Typed'
  BY <1>1, <1>3, <1>4, TypedStep DEF Typed, Exit, Local, actor
<1>6. Evidence'
  BY DEF IInv, Evidence, ReceiptIsEvidence, Doing, Exit, At, Local, actor
<1>7. Prepared'
  BY SameMounts DEF IInv, Prepared, Marked, Doing, Later, Exit, Local, actor
<1>8. Kept'
  BY SameMounts DEF IInv, Kept, Doing, Later, Exit, At, Local, actor
<1> QED
  BY <1>5, <1>6, <1>7, <1>8 DEF IInv

\* A signal is no exit code.
LEMMA KilledOK ==
  ASSUME IInv, Killed
  PROVE  IInv'
<1>1. task' = task /\ Typed /\ box \in Box(task) /\ vol \in Volume(task)
      /\ golden \in Golden(task) \cup {NoSnapshot}
  BY DEF IInv, Typed, Killed, Local
<1>3. box' \in Box(task)
  BY <1>1 DEF Box, PC, Killed
<1>4. vol' \in Volume(task)
  BY <1>1 DEF Killed
<1>5. Typed'
  BY <1>1, <1>3, <1>4, TypedStep DEF Typed, Killed, Local, actor
<1>6. Evidence'
  BY DEF IInv, Evidence, ReceiptIsEvidence, Doing, Killed, At, Local, actor
<1>7. Prepared'
  BY SameMounts DEF IInv, Prepared, Marked, Doing, Later, Killed, Local, actor
<1>8. Kept'
  BY SameMounts DEF IInv, Kept, Doing, Later, Killed, At, Local, actor
<1> QED
  BY <1>5, <1>6, <1>7, <1>8 DEF IInv

\* Whatever the exit code, the runner is cancelled.
LEMMA StopCommandOK ==
  ASSUME IInv, StopCommand
  PROVE  IInv'
<1>1. task' = task /\ Typed /\ box \in Box(task) /\ box.cancelled /\ Alive
      /\ UNCHANGED <<vol, golden, failed, granted, ended, place>>
  BY DEF IInv, Typed, StopCommand, Local, actor
<1>2. ASSUME NEW code \in {"ok", "error", "signal"}, box.pc = "working",
             box' = [box EXCEPT !.pc = "exited", !.code = code]
      PROVE  IInv'
  <2>1. box' \in Box(task) /\ vol' \in Volume(task)
    BY <1>1, <1>2 DEF Typed, Box, PC
  <2>2. Typed'
    BY <1>1, <2>1, TypedStep DEF Typed, StopCommand, Local, actor
  <2>3. Evidence'
    BY <1>1, <1>2 DEF IInv, Evidence, ReceiptIsEvidence, Doing, Alive
  <2>4. Prepared'
    BY <1>1, <1>2, SameMounts DEF IInv, Prepared, Marked, Later, Doing
  <2>5. Kept'
    BY <1>1, <1>2, SameMounts DEF IInv, Kept, Later, Doing
  <2> QED
    BY <2>2, <2>3, <2>4, <2>5 DEF IInv
<1>3. ASSUME box' = Stopped
      PROVE  IInv'
  <2>1. Typed'
    BY <1>1, <1>3, NewBoxes, TypedStep DEF Typed, StopCommand, Local, actor
  <2>2. Evidence'
    BY <1>1, <1>3, NewBoxes DEF IInv, Evidence, ReceiptIsEvidence, Doing
  <2>3. Prepared'
    BY <1>1, <1>3, NewBoxes, SameMounts DEF IInv, Prepared, Marked
  <2>4. Kept'
    BY <1>1, <1>3, NewBoxes, SameMounts DEF IInv, Kept, Later, Doing
  <2> QED
    BY <2>1, <2>2, <2>3, <2>4 DEF IInv
<1> QED
  BY <1>2, <1>3 DEF StopCommand

\* Only an uninterrupted command comes to its outputs.
LEMMA ReportExitOK ==
  ASSUME IInv, ReportExit
  PROVE  IInv'
<1>1. task' = task /\ Typed /\ box \in Box(task) /\ vol \in Volume(task)
      /\ golden \in Golden(task) \cup {NoSnapshot}
  BY DEF IInv, Typed, ReportExit, Local
<1>3. box' \in Box(task)
  BY <1>1 DEF Box, PC, ReportExit, Goto
<1>4. vol' \in Volume(task)
  BY <1>1 DEF ReportExit
<1>5. Typed'
  BY <1>1, <1>3, <1>4, TypedStep DEF Typed, ReportExit, Local, actor
<1>6. Evidence'
  BY DEF IInv, Evidence, ReceiptIsEvidence, Doing, ReportExit, At, Goto, Local, actor
<1>7. Prepared'
  BY SameMounts DEF IInv, Prepared, Marked, Doing, Later, ReportExit, Goto, Local, actor
<1>8. Kept'
  BY SameMounts DEF IInv, Kept, Doing, Later, ReportExit, At, Local, actor
<1> QED
  BY <1>5, <1>6, <1>7, <1>8 DEF IInv

\* The outputs are read after the command has ended.
LEMMA CollectOK ==
  ASSUME IInv, NEW outputs \in {"complete", "refused"}, Collect(outputs)
  PROVE  IInv'
<1>1. task' = task /\ Typed /\ box \in Box(task) /\ vol \in Volume(task)
      /\ golden \in Golden(task) \cup {NoSnapshot}
  BY DEF IInv, Typed, Collect, Local
<1>3. box' \in Box(task)
  BY <1>1 DEF Box, PC, Collect
<1>4. vol' \in Volume(task)
  BY <1>1 DEF Collect
<1>5. Typed'
  BY <1>1, <1>3, <1>4, TypedStep DEF Typed, Collect, Local, actor
<1>6. Evidence'
  BY DEF IInv, Evidence, ReceiptIsEvidence, Doing, Collect, At, Local, actor
<1>7. Prepared'
  BY SameMounts DEF IInv, Prepared, Marked, Doing, Later, Collect, Local, actor
<1>8. Kept'
  BY SameMounts DEF IInv, Kept, Doing, Later, Collect, At, Local, actor
<1> QED
  BY <1>5, <1>6, <1>7, <1>8 DEF IInv

\* The receipt says how the command ended.
LEMMA PersistOK ==
  ASSUME IInv, Persist
  PROVE  IInv'
<1>1. task' = task /\ Typed /\ box \in Box(task) /\ vol \in Volume(task)
      /\ golden \in Golden(task) \cup {NoSnapshot}
  BY DEF IInv, Typed, Persist, Local
<1>3. box' \in Box(task)
  BY <1>1 DEF Box, PC, Persist, Goto
<1>4. vol' \in Volume(task)
  BY <1>1 DEF IInv, Evidence, Box, Volume, Receipt, Persist, At
<1>5. Typed'
  BY <1>1, <1>3, <1>4, TypedStep DEF Typed, Persist, Local, actor
<1>6. Evidence'
  BY <1>1 DEF IInv, Box, Evidence, ReceiptIsEvidence, Receipt, Doing, Persist, At, Goto, Local, actor
<1>7. Prepared'
  BY SameMounts DEF IInv, Prepared, Marked, Later, Persist, Goto, Local, actor
<1>8. Kept'
  BY SameMounts DEF IInv, Kept, Doing, Later, Persist, At, Local, actor
<1> QED
  BY <1>5, <1>6, <1>7, <1>8 DEF IInv

\* No receipt is left.
LEMMA PersistFailsOK ==
  ASSUME IInv, PersistFails
  PROVE  IInv'
<1>1. task' = task /\ Typed /\ box \in Box(task) /\ vol \in Volume(task)
      /\ golden \in Golden(task) \cup {NoSnapshot}
  BY DEF IInv, Typed, PersistFails, Local
<1>3. box' \in Box(task)
  BY <1>1 DEF Box, PC, PersistFails, Goto
<1>4. vol' \in Volume(task)
  BY <1>1 DEF PersistFails
<1>5. Typed'
  BY <1>1, <1>3, <1>4, TypedStep DEF Typed, PersistFails, Local, actor
<1>6. Evidence'
  BY DEF IInv, Evidence, ReceiptIsEvidence, Doing, PersistFails, At, Goto, Local, actor
<1>7. Prepared'
  BY SameMounts DEF IInv, Prepared, Marked, Later, PersistFails, Goto, Local, actor
<1>8. Kept'
  BY SameMounts DEF IInv, Kept, Doing, Later, PersistFails, At, Local, actor
<1> QED
  BY <1>5, <1>6, <1>7, <1>8 DEF IInv

-----------------------------------------------------------------------------
(* The task graph, the controller and Substrate *)

\* An activation half written opens no gate.
LEMMA OpenActivationOK ==
  ASSUME IInv, OpenActivation
  PROVE  IInv'
<1>1. task' = task /\ Typed /\ box \in Box(task) /\ vol \in Volume(task)
      /\ golden \in Golden(task) \cup {NoSnapshot}
  BY DEF IInv, Typed, OpenActivation, Reachable
<1>3. box' \in Box(task)
  BY <1>1 DEF OpenActivation, Reachable
<1>4. vol' \in Volume(task)
  BY <1>1 DEF Volume, OpenActivation, Reachable
<1>5. Typed'
  BY <1>1, <1>3, <1>4, TypedStep DEF Typed, OpenActivation, actor, history, Reachable
<1>6. Evidence'
  BY DEF IInv, Evidence, ReceiptIsEvidence, OpenActivation, actor, history, Reachable
<1>7. Prepared'
  BY SameMounts DEF IInv, Prepared, Marked, OpenActivation, actor, Reachable
<1>8. Kept'
  BY SameMounts DEF IInv, Kept, OpenActivation, actor, history, Reachable
<1> QED
  BY <1>5, <1>6, <1>7, <1>8 DEF IInv

\* The activation is that of a running actor.
LEMMA FillActivationOK ==
  ASSUME IInv, FillActivation
  PROVE  IInv'
<1>1. task' = task /\ Typed /\ box \in Box(task) /\ vol \in Volume(task)
      /\ golden \in Golden(task) \cup {NoSnapshot}
  BY DEF IInv, Typed, FillActivation, Reachable
<1>3. box' \in Box(task)
  BY <1>1 DEF FillActivation, Reachable
<1>4. vol' \in Volume(task)
  BY <1>1 DEF Volume, FillActivation, Reachable
<1>5. Typed'
  BY <1>1, <1>3, <1>4, TypedStep DEF Typed, FillActivation, actor, Reachable
<1>6. Evidence'
  BY DEF IInv, Evidence, ReceiptIsEvidence, FillActivation, actor, Reachable
<1>7. Prepared'
  BY SameMounts DEF IInv, Prepared, Marked, FillActivation, actor, Reachable
<1>8. Kept'
  BY SameMounts DEF IInv, Kept, FillActivation, actor, Reachable
<1> QED
  BY <1>5, <1>6, <1>7, <1>8 DEF IInv

\* The condition is not looked at by the runner.
LEMMA PollOK ==
  ASSUME IInv, Poll
  PROVE  IInv'
<1>1. task' = task /\ Typed /\ box \in Box(task) /\ vol \in Volume(task)
      /\ golden \in Golden(task) \cup {NoSnapshot}
  BY DEF IInv, Typed, Poll, Condition
<1>3. box' \in Box(task)
  BY <1>1 DEF Poll, Condition
<1>4. vol' \in Volume(task)
  BY <1>1 DEF Poll, Condition
<1>5. Typed'
  BY <1>1, <1>3, <1>4, TypedStep DEF Typed, Poll, history, Condition
<1>6. Evidence'
  BY DEF IInv, Evidence, ReceiptIsEvidence, Poll, history, Condition
<1>7. Prepared'
  BY SameMounts DEF IInv, Prepared, Marked, Poll, Condition
<1>8. Kept'
  BY SameMounts DEF IInv, Kept, Poll, history, Condition
<1> QED
  BY <1>5, <1>6, <1>7, <1>8 DEF IInv

\* The golden container has passed the setup and not the gate.
LEMMA SnapshotOK ==
  ASSUME IInv, Snapshot
  PROVE  IInv'
<1>1. task' = task /\ Typed /\ box \in Box(task) /\ vol \in Volume(task)
      /\ golden \in Golden(task) \cup {NoSnapshot}
  BY DEF IInv, Typed, Snapshot
<1>3. box' \in Box(task)
  BY <1>1, NewBoxes DEF Snapshot
<1>4. vol' \in Volume(task)
  BY <1>1 DEF Snapshot
<1>5. Typed'
  BY <1>1, <1>3, <1>4 DEF Typed, Golden, Snapshot, history
<1>6. Evidence'
  BY NewBoxes DEF IInv, Evidence, ReceiptIsEvidence, Prepared, Doing, Snapshot
<1>7. Prepared'
  BY NewBoxes, SameMounts DEF IInv, Prepared, Marked, Snapshot
<1>8. Kept'
  BY SameMounts DEF IInv, Prepared, Kept, Snapshot, history
<1> QED
  BY <1>5, <1>6, <1>7, <1>8 DEF IInv

\* The volume is what it was, the container new or the golden one.
LEMMA ResumeActorOK ==
  ASSUME IInv, ResumeActor
  PROVE  IInv'
<1>1. task' = task /\ Typed /\ box \in Box(task) /\ vol \in Volume(task)
      /\ golden \in Golden(task) \cup {NoSnapshot}
  BY DEF IInv, Typed, ResumeActor
<1>3. box' \in Box(task)
  BY <1>1, NewBoxes DEF Golden, ResumeActor
<1>4. vol' \in Volume(task)
  BY <1>1 DEF ResumeActor
<1>5. Typed'
  BY <1>1, <1>3, <1>4, TypedStep DEF Typed, ResumeActor, history
<1>6. Evidence'
  BY NewBoxes DEF IInv, Evidence, ReceiptIsEvidence, Doing, ResumeActor, history
<1>7. Prepared'
  BY NewBoxes, SameMounts DEF IInv, Evidence, Prepared, Marked, Doing, Later, ResumeActor
<1>8. Kept'
  BY NewBoxes, SameMounts DEF IInv, Kept, Doing, Later, ResumeActor, history
<1> QED
  BY <1>5, <1>6, <1>7, <1>8 DEF IInv

\* The signal follows.
LEMMA SuspendActorOK ==
  ASSUME IInv, SuspendActor
  PROVE  IInv'
<1>1. task' = task /\ Typed /\ box \in Box(task) /\ vol \in Volume(task)
      /\ golden \in Golden(task) \cup {NoSnapshot}
  BY DEF IInv, Typed, SuspendActor
<1>3. box' \in Box(task)
  BY <1>1 DEF SuspendActor
<1>4. vol' \in Volume(task)
  BY <1>1 DEF SuspendActor
<1>5. Typed'
  BY <1>1, <1>3, <1>4, TypedStep DEF Typed, SuspendActor, history
<1>6. Evidence'
  BY DEF IInv, Evidence, ReceiptIsEvidence, SuspendActor, history
<1>7. Prepared'
  BY SameMounts DEF IInv, Prepared, Marked, SuspendActor
<1>8. Kept'
  BY SameMounts DEF IInv, Kept, SuspendActor, history
<1> QED
  BY <1>5, <1>6, <1>7, <1>8 DEF IInv

\* The runner is cancelled.
LEMMA SignalOK ==
  ASSUME IInv, Signal
  PROVE  IInv'
<1>1. task' = task /\ Typed /\ box \in Box(task) /\ vol \in Volume(task)
      /\ golden \in Golden(task) \cup {NoSnapshot}
  BY DEF IInv, Typed, Signal
<1>3. box' \in Box(task)
  BY <1>1 DEF Box, Signal
<1>4. vol' \in Volume(task)
  BY <1>1 DEF Signal
<1>5. Typed'
  BY <1>1, <1>3, <1>4, TypedStep DEF Typed, Signal, actor, history
<1>6. Evidence'
  BY DEF IInv, Evidence, ReceiptIsEvidence, Signal, actor, history
<1>7. Prepared'
  BY SameMounts DEF IInv, Prepared, Marked, Signal, actor
<1>8. Kept'
  BY SameMounts DEF IInv, Kept, Signal, actor, history
<1> QED
  BY <1>5, <1>6, <1>7, <1>8 DEF IInv

\* The container is gone.
LEMMA SuspendedOK ==
  ASSUME IInv, Suspended
  PROVE  IInv'
<1>1. task' = task /\ Typed /\ box \in Box(task) /\ vol \in Volume(task)
      /\ golden \in Golden(task) \cup {NoSnapshot}
  BY DEF IInv, Typed, Suspended
<1>3. box' \in Box(task)
  BY <1>1, NewBoxes DEF Suspended
<1>4. vol' \in Volume(task)
  BY <1>1 DEF Suspended
<1>5. Typed'
  BY <1>1, <1>3, <1>4, TypedStep DEF Typed, Suspended, history
<1>6. Evidence'
  BY NewBoxes DEF IInv, Evidence, ReceiptIsEvidence, Doing, Suspended, history
<1>7. Prepared'
  BY NewBoxes, SameMounts DEF IInv, Prepared, Marked, Suspended
<1>8. Kept'
  BY NewBoxes, SameMounts DEF IInv, Kept, Doing, Later, Suspended, history
<1> QED
  BY <1>5, <1>6, <1>7, <1>8 DEF IInv

\* A crash takes the container and leaves volume and snapshot.
LEMMA CrashOK ==
  ASSUME IInv, Crash
  PROVE  IInv'
<1>1. task' = task /\ Typed /\ box \in Box(task) /\ vol \in Volume(task)
      /\ golden \in Golden(task) \cup {NoSnapshot}
  BY DEF IInv, Typed, Crash
<1>3. box' \in Box(task)
  BY <1>1, NewBoxes DEF Crash
<1>4. vol' \in Volume(task)
  BY <1>1 DEF Crash
<1>5. Typed'
  BY <1>1, <1>3, <1>4, TypedStep DEF Typed, Crash, history
<1>6. Evidence'
  BY NewBoxes DEF IInv, Evidence, ReceiptIsEvidence, Doing, Crash, history
<1>7. Prepared'
  BY NewBoxes, SameMounts DEF IInv, Prepared, Marked, Crash
<1>8. Kept'
  BY NewBoxes, SameMounts DEF IInv, Kept, Doing, Later, Crash, history
<1> QED
  BY <1>5, <1>6, <1>7, <1>8 DEF IInv

\* The volume is the golden one, or empty.
LEMMA RecreateOK ==
  ASSUME IInv, Recreate
  PROVE  IInv'
<1>1. task' = task /\ Typed /\ box \in Box(task) /\ vol \in Volume(task)
      /\ golden \in Golden(task) \cup {NoSnapshot}
  BY DEF IInv, Typed, Recreate, EmptyVolume
<1>3. box' \in Box(task)
  BY <1>1 DEF Recreate, EmptyVolume
<1>4. vol' \in Volume(task)
  BY <1>1 DEF Volume, Golden, Content, Recreate, EmptyVolume
<1>5. Typed'
  BY <1>1, <1>3, <1>4, TypedStep DEF Typed, Recreate, EmptyVolume
<1>6. Evidence'
  BY DEF IInv, Evidence, ReceiptIsEvidence, Doing, Recreate, EmptyVolume
<1>7. Prepared'
  BY SameMounts DEF IInv, Evidence, Prepared, Marked, Recreate, EmptyVolume
<1>8. Kept'
  BY MountFacts, SameMounts DEF IInv, Evidence, Kept, Doing, Later, Recreate, EmptyVolume
<1> QED
  BY <1>5, <1>6, <1>7, <1>8 DEF IInv

-----------------------------------------------------------------------------
(* The steps together *)

\* The first instance has an empty volume, no evidence and no process.
LEMMA InitOK ==
  ASSUME Init
  PROVE  IInv
<1>1. Typed
  <2>1. task \in Tasks /\ Len(task.mounts) \in Nat /\ DOMAIN task.mounts = 1 .. Len(task.mounts)
    BY TasksAssumption DEF Init
  <2>2. Started \in Box(task) /\ Stopped \in Box(task)
    <3>1. 1 \in 1 .. Len(task.mounts) + 1 /\ 0 \in 0 .. GitRetries - 1
      BY <2>1, BoundsAssumption
    <3>2. Started \in Box(task)
      BY <3>1 DEF Started, Box, PC
    <3> QED
      BY <3>2 DEF Stopped, Box, PC
  <2>3. EmptyVolume(task) \in Volume(task)
    BY DEF EmptyVolume, Volume, Content
  <2>4. box \in Box(task) /\ vol \in Volume(task)
    BY <2>2, <2>3 DEF Init
  <2>5. 0 \in 0 .. MaxFaults /\ 0 \in 0 .. MaxStops[task]
    BY <2>1, BoundsAssumption
  <2> QED
    BY <2>1, <2>4, <2>5 DEF Init, Typed
<1>2. box \in {Started, Stopped} /\ (place = "suspended" => box = Stopped) /\ vol = EmptyVolume(task)
      /\ golden = NoSnapshot /\ ~ granted
  BY DEF Init
<1>3. Evidence
  BY <1>1, <1>2, NewBoxes DEF Init, Evidence, EmptyVolume, ReceiptIsEvidence, Doing
<1>4. Prepared
  BY <1>1, <1>2, NewBoxes DEF Prepared, Marked, EmptyVolume
<1>5. Kept
  BY <1>1, <1>2, NewBoxes DEF Kept, EmptyVolume, Later, Doing, Mount
<1> QED
  BY <1>1, <1>3, <1>4, <1>5 DEF IInv

\* Every step keeps the invariant.
LEMMA NextOK ==
  ASSUME IInv, [Next]_vars
  PROVE  IInv'
<1>1. CASE Run
  <2>1. CASE SetUp
    BY <2>1, SetupWorkspaceOK, FilesFailOK, SetupFailsOK, FetchRepoOK, FetchFailsOK, BootstrapOK,
       WriteMarkerOK, MarkerFailsOK
       DEF SetUp
  <2> QED
    BY <1>1, <2>1, AttachOK, ServeOK, StartCommandOK, StartFailsOK, StopCommandOK, ReportExitOK,
       CollectOK, PersistOK, PersistFailsOK DEF Run
<1>2. CASE Gate \/ Command
  BY <1>2, GateOK, WorkOK, ExitOK, KilledOK DEF Command
<1>3. CASE OpenActivation \/ FillActivation \/ Poll
  BY <1>3, OpenActivationOK, FillActivationOK, PollOK
<1>4. CASE Substrate
  BY <1>4, SnapshotOK, ResumeActorOK, SuspendActorOK, SignalOK, SuspendedOK, CrashOK, RecreateOK
     DEF Substrate
<1>5. CASE UNCHANGED vars
  <2>1. task' = task /\ UNCHANGED <<place, golden, vol, box, condition, faults, stops, granted, ended, failed>>
    BY <1>5 DEF vars, history
  <2> QED
    BY <2>1, SameMounts DEF IInv, Typed, Evidence, ReceiptIsEvidence, Prepared, Marked, Kept
<1> QED
  BY <1>1, <1>2, <1>3, <1>4, <1>5 DEF Next

\* The inductive invariant: the types, how far command and setup are, and what
\* receipt and markers say of it.
THEOREM Inductive == Spec => []IInv
<1>1. Init => IInv
  BY InitOK
<1>2. IInv /\ [Next]_vars => IInv'
  BY NextOK
<1> QED
  BY <1>1, <1>2, PTL DEF Spec

\* Every variable keeps its type, for every set of Tasks and every bound.
THEOREM TypeCorrect == Spec => []TypeOK
<1>1. IInv => TypeOK
  <2>1. SUFFICES ASSUME IInv
                 PROVE  TypeOK
    OBVIOUS
  <2>2. Mount = DOMAIN task.mounts /\ Names(task) = {Mark(i) : i \in Mount}
    BY DEF Mount, Mark, Names
  <2> QED
    BY <2>1, <2>2 DEF IInv, Typed, Box, Volume, TypeOK
<1> QED
  BY <1>1, Inductive, PTL

\* A completion receipt is whole and is that of a command that ended by itself
\* (task_agent.go, OnCommandExit), through any number of suspensions and crashes.
THEOREM ReceiptsAreEvidence == Spec => []ReceiptIsEvidence
<1>1. IInv => ReceiptIsEvidence
  BY DEF IInv, Evidence
<1> QED
  BY <1>1, Inductive, PTL

\* Every marker is that of a mount whose repository is there, if it has one
\* (setup.go), also where several mounts share a marker.  It says nothing of files.
THEOREM MarkersAreTrue == Spec => []MarkedIsPrepared
<1>1. IInv => MarkedIsPrepared
  BY DEF IInv, Prepared, Marked, MarkedIsPrepared, Marks
<1> QED
  BY <1>1, Inductive, PTL

-----------------------------------------------------------------------------
(* Work is kept *)

\* The files of a mount with its marker are only changed by the command.
LEMMA KeepStep ==
  ASSUME IInv, Next, NEW i \in Mount, task.extension, "setup" \notin failed, vol.files[i] = "work"
  PROVE  vol'.files[i] = "work" \/ place = "crashed"
<1>1. vol \in Volume(task) /\ Mark(i) \in vol.marks /\ Mount = DOMAIN task.mounts
  BY DEF IInv, Typed, Kept, Mount
<1>2. ASSUME NEW j \in Mount, SetupWorkspace(j)
      PROVE  vol'.files[i] = "work"
  <2>1. CASE Mark(j) \in Marks
    BY <2>1, <1>2 DEF SetupWorkspace
  <2>2. CASE Mark(j) \notin Marks
    <3>1. j # i
      BY <1>1, <2>2 DEF Marks
    <3> QED
      BY <1>1, <1>2, <2>2, <3>1 DEF SetupWorkspace, WriteFiles, Volume
  <2> QED
    BY <2>1, <2>2
<1>3. CASE SetUp
  <2>1. ASSUME NEW j \in Mount, FetchRepo(j) \/ WriteMarker(j)
        PROVE  vol'.files[i] = "work"
    BY <1>1, <2>1 DEF FetchRepo, WriteMarker, Volume
  <2>2. ASSUME NEW j \in Mount, Bootstrap(j)
        PROVE  FALSE
    BY <2>2, MountFacts DEF IInv, Prepared, Bootstrap, At
  <2> QED
    BY <1>2, <1>3, <2>1, <2>2 DEF SetUp, FilesFail, SetupFails, FetchFails, MarkerFails
<1>4. CASE Persist \/ OpenActivation \/ FillActivation
  BY <1>1, <1>4 DEF Persist, OpenActivation, FillActivation, Volume
<1>5. CASE Work
  BY <1>1, <1>5 DEF Work, Worked, Volume
<1>6. CASE Recreate
  BY <1>6 DEF Recreate
<1>7. CASE UNCHANGED vol
  BY <1>7
<1>8. Next => \/ SetUp \/ Persist \/ OpenActivation \/ FillActivation \/ Work \/ Recreate
              \/ UNCHANGED vol
  BY DEF Next, Run, Command, Substrate, Attach, Serve, StartCommand, StartFails, StopCommand,
         ReportExit, Collect, PersistFails, Gate, Exit, Killed, Poll, Snapshot, ResumeActor,
         SuspendActor, Signal, Suspended, Crash
<1> QED
  BY <1>3, <1>4, <1>5, <1>6, <1>7, <1>8

\* extensions.md: resumed work is not overwritten with the initial files, as long
\* as no I/O error kept the setup from its marker and the actor is not replaced.
THEOREM ResumedWorkIsKept == Spec => WorkIsKept
<1> DEFINE Keeps == \A i \in Mount :
             task.extension /\ "setup" \notin failed /\ vol.files[i] = "work" =>
               vol'.files[i] = "work" \/ place = "crashed"
<1>1. IInv /\ [Next]_vars => [Keeps]_vars
  BY KeepStep
<1> QED
  BY <1>1, Inductive, PTL DEF Spec, WorkIsKept

-----------------------------------------------------------------------------
(* The refinement *)

Executing == task.extension /\ box.pc \in Doing

\* An execution begins with nothing done and nothing written.
LEMMA ExecutionInit ==
  ASSUME Init
  PROVE  Execution!Init
<1>1. box.pc \in {"attach", "down"} /\ vol.receipt = NoReceipt /\ ~ granted
  BY DEF Init, Started, Stopped, EmptyVolume
<1> QED
  BY <1>1 DEF Execution!Init

\* Steps the abstract specification does not see.
LEMMA Unseen ==
  ASSUME task' = task, vol'.receipt = vol.receipt, granted' = granted,
         Executing' <=> Executing
  PROVE  UNCHANGED Execution!vars
  BY DEF Executing, Doing, Execution!vars

\* The steps that may start the command or write evidence, as steps of an execution.
LEMMA RunnerSteps ==
  ASSUME IInv, Run
  PROVE  [Execution!Next]_Execution!vars
<1>1. task' = task /\ box \in Box(task) /\ vol \in Volume(task) /\ granted' = granted
      /\ task.extension \in BOOLEAN
  BY MountFacts DEF IInv, Typed, Run, Attach, SetUp, SetupWorkspace, FilesFail, SetupFails,
       FetchRepo, FetchFails, Bootstrap, WriteMarker, MarkerFails, Serve, StartCommand, StartFails, StopCommand, ReportExit, Collect,
       Persist, PersistFails, Local
<1>2. CASE Attach \/ Serve \/ StartCommand \/ StartFails
  <2>1. vol' = vol /\ ~ Executing /\ ~ Executing'
    BY <1>1, <1>2, NewBoxes DEF Attach, Serve, StartCommand, StartFails, At, Goto, Executing, Doing, Box, IInv
  <2> QED
    BY <1>1, <2>1, Unseen
<1>3. CASE SetUp
  <2>1. ASSUME NEW i \in Mount,
               \/ SetupWorkspace(i) \/ FilesFail(i) \/ SetupFails(i) \/ FetchRepo(i)
               \/ FetchFails(i) \/ Bootstrap(i) \/ WriteMarker(i) \/ MarkerFails(i)
        PROVE  vol'.receipt = vol.receipt /\ ~ Executing /\ ~ Executing'
    <3> DEFINE Setting == {"mount", "git", "boot", "bootUnmarked", "mark"}
    <3>1. box.mount \in Mount /\ box.pc \in Setting
      BY <2>1 DEF SetupWorkspace, FilesFail, SetupFails, FetchRepo, FetchFails, Bootstrap, WriteMarker,
                  MarkerFails, At
    <3>2. box'.pc \in Setting
      BY <1>1, <2>1, <3>1, NextMountFacts, AfterFilesFacts
         DEF SetupWorkspace, FilesFail, SetupFails, FetchRepo, FetchFails, Bootstrap, WriteMarker,
             MarkerFails, Goto, Box, IInv
    <3>3. vol'.receipt = vol.receipt
      BY <1>1, <2>1
         DEF SetupWorkspace, WriteFiles, FilesFail, SetupFails, FetchRepo, FetchFails, Bootstrap,
             WriteMarker, MarkerFails, Volume
    <3> QED
      BY <3>1, <3>2, <3>3 DEF Executing, Doing
  <2> QED
    BY <1>1, <1>3, <2>1, Unseen DEF SetUp
<1>4. CASE StopCommand \/ ReportExit \/ PersistFails
  <2>1. vol' = vol
    BY <1>4 DEF StopCommand, ReportExit, PersistFails
  <2>2. ~ Executing => ~ Executing'
    BY <1>1, <1>4, NewBoxes DEF StopCommand, ReportExit, PersistFails, At, Goto, Executing, Doing, Box, IInv
  <2>3. CASE Executing /\ ~ Executing'
    BY <1>1, <2>1, <2>3 DEF Executing, Doing, Execution!Next, Execution!Interrupt
  <2> QED
    BY <1>1, <2>1, <2>2, <2>3, Unseen
<1>5. ASSUME NEW o \in {"complete", "refused"}, Collect(o)
      PROVE  UNCHANGED Execution!vars
  <2>1. vol' = vol /\ (Executing <=> Executing')
    BY <1>1, <1>5 DEF Collect, At, Executing, Doing, Box
  <2> QED
    BY <1>1, <2>1, Unseen
<1>6. CASE Persist
  <2>1. /\ Executing /\ ~ Executing' /\ vol.receipt = NoReceipt
        /\ vol'.receipt = [code |-> box.code, outputs |-> box.outputs]
        /\ box.code \in {"ok", "error"} /\ box.outputs \in {"complete", "refused"}
    BY <1>1, <1>6 DEF Persist, At, Goto, Executing, Doing, Box, Volume, IInv, Evidence
  <2>2. vol'.receipt \in Receipt
    BY <2>1 DEF Receipt
  <2> QED
    BY <1>1, <2>1, <2>2 DEF Executing, Doing, Execution!Next, Execution!Complete
<1> QED
  BY <1>2, <1>3, <1>4, <1>5, <1>6 DEF Run

\* All other steps leave the execution as it is.
LEMMA OtherSteps ==
  ASSUME IInv, Gate \/ Command \/ OpenActivation \/ FillActivation \/ Poll \/ Substrate
  PROVE  [Execution!Next]_Execution!vars
<1>1. task' = task /\ box \in Box(task) /\ vol \in Volume(task) /\ task.extension \in BOOLEAN
      /\ golden \in Golden(task) \cup {NoSnapshot}
  BY MountFacts DEF IInv, Typed, Gate, Command, Work, Exit, Killed, OpenActivation, FillActivation, Poll,
       Substrate, Snapshot, ResumeActor, SuspendActor, Signal, Suspended, Crash, Recreate, Local
<1>2. CASE Gate
  <2>1. vol' = vol /\ granted' = granted /\ ~ Executing /\ vol.activation = "id"
    BY <1>2 DEF Gate, At, Local, Executing, Doing
  <2>2. CASE Executing'
    <3>1. granted /\ vol.receipt = NoReceipt
      BY <1>1, <1>2, <2>1, <2>2 DEF IInv, Evidence, Gate, Goto, Executing, Doing, Box
    <3> QED
      BY <1>1, <2>1, <2>2, <3>1 DEF Executing, Doing, Execution!Next, Execution!Begin
  <2> QED
    BY <1>1, <2>1, <2>2, Unseen
<1>3. CASE Command
  <2>1. vol'.receipt = vol.receipt /\ granted' = granted /\ (Executing <=> Executing')
    BY <1>1, <1>3 DEF Command, Work, Exit, Killed, At, Local, Executing, Doing, Box, Volume
  <2> QED
    BY <1>1, <2>1, Unseen
<1>4. CASE OpenActivation \/ Poll \/ SuspendActor \/ Signal
  <2>1. vol'.receipt = vol.receipt /\ granted' = granted /\ (Executing <=> Executing')
    BY <1>1, <1>4 DEF OpenActivation, Poll, SuspendActor, Signal, history, Executing, Box, Volume
  <2> QED
    BY <1>1, <2>1, Unseen
<1>5. CASE FillActivation
  <2>1. vol'.receipt = vol.receipt /\ granted' = TRUE /\ box' = box
    BY <1>1, <1>5 DEF FillActivation, Volume
  <2> QED
    BY <1>1, <2>1 DEF Execution!Next, Execution!Permit
<1>6. CASE Snapshot \/ Suspended \/ Crash
  <2>1. vol' = vol /\ granted' = granted /\ ~ Executing'
    BY <1>1, <1>6, NewBoxes DEF IInv, Snapshot, Suspended, Crash, history, Executing, Doing
  <2>2. CASE Executing
    BY <1>1, <2>1, <2>2 DEF Executing, Doing, Execution!Next, Execution!Interrupt
  <2> QED
    BY <1>1, <2>1, <2>2, Unseen
<1>7. CASE ResumeActor
  <2>1. vol' = vol /\ granted' = granted /\ ~ Executing
    BY <1>7 DEF ResumeActor, history, IInv, Evidence, Executing, Doing
  <2>2. ~ Executing'
    BY <1>1, <1>7, NewBoxes DEF ResumeActor, IInv, Evidence, Executing, Doing
  <2> QED
    BY <1>1, <2>1, <2>2, Unseen
<1>8. CASE Recreate
  <2>1. ~ Executing /\ box' = box /\ granted' = FALSE
    BY <1>8 DEF Recreate, IInv, Evidence, Executing, Doing
  <2>2. vol'.receipt = NoReceipt
    BY <1>8 DEF Recreate, EmptyVolume, IInv, Evidence
  <2> QED
    BY <1>1, <2>1, <2>2 DEF Executing, Doing, Execution!Next, Execution!Replace
<1> QED
  BY <1>2, <1>3, <1>4, <1>5, <1>6, <1>7, <1>8 DEF Substrate

\* The runner implements what the task graph relies on: the command begins only
\* after the activation and never again once its receipt is there.
THEOREM RunnerImplementsExecution == Spec => ImplementsExecution
<1>1. Init => Execution!Init
  BY ExecutionInit
<1>2. IInv /\ [Next]_vars => [Execution!Next]_Execution!vars
  <2>1. CASE UNCHANGED vars
    BY <2>1 DEF vars, history, Execution!vars
  <2> QED
    BY <2>1, RunnerSteps, OtherSteps DEF Next
<1> QED
  BY <1>1, <1>2, Inductive, PTL DEF Spec, ImplementsExecution, Execution!Spec
=============================================================================
