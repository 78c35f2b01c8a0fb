------------------------------- MODULE Tunnel -------------------------------
(***************************************************************************)
(* The port-forwards of the ax CLI: the background tunnel to the AX server *)
(* that every command of a Kubernetes context finds or starts, and the one *)
(* that `ax ssh' starts for a session.  The commands share nothing but the *)
(* files under ~/.ax/tunnels and the machine's processes and ports.  A     *)
(* Context is a Kubernetes context with the namespace of its AX server.    *)
(***************************************************************************)
EXTENDS Naturals, FiniteSets, Functions

CONSTANTS
  Cli,          \* terminals, each with a command after another
  Ssh,          \* the terminals where `ax ssh' is among them
  Context, FileName,
  SanitizeContext,  \* the name of a context's files; several may have the same
  Pid, Port,    \* process and port numbers, which are given out again
  PipeSize,     \* lines of output that wait in a pipe
  MaxCommands,  \* bound on commands
  MaxLines,     \* bound on the lines of one session's kubectl
  MaxFaults,    \* bound on faults
  ExitCodes     \* of what a session runs

ASSUME TunnelAssumption ==
  /\ SanitizeContext \in [Context -> FileName]
  /\ 0 \notin Pid \cup Port /\ IsFiniteSet(Pid) /\ IsFiniteSet(Port)
  /\ PipeSize \in Nat \ {0} /\ MaxCommands \in Nat /\ MaxLines \in Nat /\ MaxFaults \in Nat
  /\ ExitCodes \subseteq Nat /\ Ssh \subseteq Cli

VARIABLES
  file,      \* what a state file records
  log,       \* the port a log file shows, or 0
  proc,      \* the kubectl processes
  cli,       \* the commands
  session,   \* the output of a session's kubectl on its way
  commands, faults,
  spoiled,   \* history: files of overlapping, killed or hindered commands
  ended      \* history: files whose kubectl no command of theirs has ended

bounds == <<commands, faults>>
history == <<spoiled, ended>>
vars == <<file, log, proc, cli, session, bounds, history>>

Absent == [kind |-> "absent"]
Torn == [kind |-> "torn"]
Info(port, pid) == [kind |-> "info", port |-> port, pid |-> pid]
Free == [st |-> "free"]
Idle == [pc |-> "idle"]
NoSession == [reader |-> "off", pipe |-> 0, lines |-> 0, ports |-> 0]

At(c, pc) == cli[c].pc = pc
Live(p) == proc[p].st \in {"starting", "listening"}
Listening(p, port) == proc[p].st = "listening" /\ proc[p].port = port
\* IsTunnelHealthy: an AX server answers; what a session is forwarded to does not.
Servers(port) == {p \in Pid : Listening(p, port) /\ proc[p].out = "log"}
Serving(port) == Servers(port) # {}
\* The files that a process is the tunnel of.
FilesOf(p) == IF Live(p) /\ proc[p].out = "log" THEN {proc[p].file} ELSE {}
\* An exited child has its number until its parent's exit.
Killed(p) ==
  IF ~ Live(p) THEN proc
  ELSE [proc EXCEPT ![p] = IF proc[p].parent = {} THEN Free
                           ELSE [proc[p] EXCEPT !.st = "exited", !.port = 0, !.told = FALSE]]

Init ==
  /\ file = [f \in FileName |-> Absent] /\ log = [f \in FileName |-> 0]
  /\ proc = [p \in Pid |-> Free]
  /\ cli = [c \in Cli |-> Idle]
  /\ session = [c \in Cli |-> NoSession]
  /\ commands = 0 /\ faults = 0
  /\ spoiled = {} /\ ended = {}

Fault == faults < MaxFaults /\ faults' = faults + 1 /\ UNCHANGED commands
Goto(c, pc) == cli' = [cli EXCEPT ![c].pc = pc]

\* kubectl port-forward, in a process group of its own.
Started(c, out) ==
  [st |-> "starting", file |-> cli[c].file, port |-> 0, told |-> FALSE, parent |-> {c}, out |-> out]

\* The process of the command is over: its children have no parent any more.
Quit(c, procs) ==
  /\ cli' = [cli EXCEPT ![c] = Idle]
  /\ session' = [session EXCEPT ![c] = NoSession]
  /\ proc' = [p \in Pid |->
       IF procs[p] = Free \/ procs[p].parent # {c} THEN procs[p]
       ELSE IF procs[p].st = "exited" THEN Free ELSE [procs[p] EXCEPT !.parent = {}]]

-----------------------------------------------------------------------------
(* EnsureServerURL, `ax tunnel stop' *)

\* Steps that use the files.
Managing(c, f) ==
  /\ cli[c].pc \in {"probe", "kill", "remove", "spawn", "port", "health", "save", "saving"}
  /\ cli[c].file = f

Command(c, k) ==
  /\ At(c, "idle") /\ commands < MaxCommands
  /\ commands' = commands + 1 /\ UNCHANGED faults
  /\ LET f == SanitizeContext[k]
     IN  spoiled' = IF \E d \in Cli : Managing(d, f) THEN spoiled \cup {f} ELSE spoiled
  /\ UNCHANGED <<file, log, proc, session, ended>>

\* Mutant: any tunnel will do.
FindAny(c, k) ==
  /\ Command(c, k)
  /\ \/ \E f \in FileName :
          /\ file[f].kind = "info"
          /\ cli' = [cli EXCEPT ![c] = [pc |-> "probe", file |-> SanitizeContext[k], info |-> file[f], next |-> "spawn"]]
     \/ /\ file[SanitizeContext[k]].kind # "info"
        /\ cli' = [cli EXCEPT ![c] = [pc |-> "spawn", file |-> SanitizeContext[k]]]

\* GetTunnel: a file that cannot be read is no file.  The context and the namespace
\* in it are never compared, so that a tunnel is its file name's, not its context's.
Find(c, k) ==
  LET found == file[SanitizeContext[k]]
  IN  /\ Command(c, k)
      /\ cli' = [cli EXCEPT ![c] =
           IF found.kind = "info"
           THEN [pc |-> "probe", file |-> SanitizeContext[k], info |-> found, next |-> "spawn"]
           ELSE [pc |-> "spawn", file |-> SanitizeContext[k]]]
Stop(c, k) ==
  LET found == file[SanitizeContext[k]]
  IN  /\ Command(c, k) /\ found.kind = "info"
      /\ cli' = [cli EXCEPT ![c] = [pc |-> "kill", file |-> SanitizeContext[k], info |-> found, next |-> "idle"]]

Use(c, port, server) ==
  cli' = [cli EXCEPT ![c] = [pc |-> "done", file |-> cli[c].file, port |-> port, server |-> server]]

Reuse(c) ==
  /\ At(c, "probe")
  /\ \E p \in Servers(cli[c].info.port) :
       Use(c, cli[c].info.port, proc[p].file)
  /\ UNCHANGED <<file, log, proc, session, bounds, history>>
\* An answer that takes more than 400 ms is none.
Reject(c) ==
  /\ At(c, "probe")
  /\ IF Serving(cli[c].info.port) THEN Fault ELSE UNCHANGED bounds
  /\ Goto(c, "kill")
  /\ UNCHANGED <<file, log, proc, session, history>>

\* Mutant: the file is removed, the process forgotten.
KillNothing(c) ==
  /\ At(c, "kill")
  /\ Goto(c, "remove")
  /\ UNCHANGED <<file, log, proc, session, bounds, history>>

\* StopTunnel signals whatever process has the number now.
Kill(c) ==
  /\ At(c, "kill")
  /\ proc' = Killed(cli[c].info.pid)
  /\ ended' = ended \cup (FilesOf(cli[c].info.pid) \ {cli[c].file})
  /\ Goto(c, "remove")
  /\ UNCHANGED <<file, log, session, bounds, spoiled>>
Remove(c) ==
  /\ At(c, "remove")
  /\ file' = [file EXCEPT ![cli[c].file] = Absent]
  /\ IF cli[c].next = "idle" THEN Quit(c, proc)
     ELSE cli' = [cli EXCEPT ![c] = [pc |-> "spawn", file |-> cli[c].file]]
          /\ UNCHANGED <<proc, session>>
  /\ UNCHANGED <<log, bounds, history>>

\* The log is truncated and kubectl started.
Spawn(c) ==
  /\ At(c, "spawn")
  /\ log' = [log EXCEPT ![cli[c].file] = 0]
  /\ \E p \in Pid :
       /\ proc[p] = Free
       /\ proc' = [proc EXCEPT ![p] = Started(c, "log")]
       /\ cli' = [cli EXCEPT ![c] = [pc |-> "port", file |-> cli[c].file, pid |-> p]]
  /\ ended' = ended \ {cli[c].file}
  /\ UNCHANGED <<file, session, bounds, spoiled>>
SpawnFails(c) ==
  /\ At(c, "spawn")
  /\ IF Free \in Range(proc) THEN Fault ELSE UNCHANGED bounds
  /\ log' = [log EXCEPT ![cli[c].file] = 0]
  /\ Quit(c, proc)
  /\ UNCHANGED <<file, history>>

\* Mutant: the wait's outcome is not looked at.
AwaitPortUnchecked(c) ==
  /\ At(c, "port")
  /\ cli' = [cli EXCEPT ![c] = [pc |-> "save", port |-> log[cli[c].file],
                                 file |-> cli[c].file, pid |-> cli[c].pid, server |-> cli[c].file]]
  /\ UNCHANGED <<file, log, proc, session, bounds, history>>

AwaitPort(c) ==
  /\ At(c, "port") /\ log[cli[c].file] # 0
  /\ cli' = [cli EXCEPT ![c] = [pc |-> "health", port |-> log[cli[c].file],
                                 file |-> cli[c].file, pid |-> cli[c].pid]]
  /\ UNCHANGED <<file, log, proc, session, bounds, history>>

\* Mutant: the probe of the process is trusted to notice its end.
GiveUpOnExit(c) ==
  /\ At(c, "port") /\ proc[cli[c].pid] = Free
  /\ Quit(c, Killed(cli[c].pid))
  /\ UNCHANGED <<file, log, bounds, history>>

\* Five seconds for the port, three for the first answer.  That kubectl has
\* exited shows in neither: an unwaited child can still be signalled.
GiveUp(c) ==
  /\ cli[c].pc \in {"port", "health"}
  /\ Quit(c, Killed(cli[c].pid))
  /\ UNCHANGED <<file, log, bounds, history>>

AwaitHealth(c) ==
  /\ At(c, "health")
  /\ \E p \in Servers(cli[c].port) :
       cli' = [cli EXCEPT ![c] = [pc |-> "save", file |-> cli[c].file, port |-> cli[c].port,
                                  pid |-> cli[c].pid, server |-> proc[p].file]]
  /\ UNCHANGED <<file, log, proc, session, bounds, history>>

\* SaveTunnel: the file is emptied, then written.
Truncate(c) ==
  /\ At(c, "save")
  /\ file' = [file EXCEPT ![cli[c].file] = Torn]
  /\ Goto(c, "saving")
  /\ UNCHANGED <<log, proc, session, bounds, history>>
SaveTunnel(c) ==
  /\ At(c, "saving")
  /\ file' = [file EXCEPT ![cli[c].file] = Info(cli[c].port, cli[c].pid)]
  /\ Use(c, cli[c].port, cli[c].server)
  /\ UNCHANGED <<log, proc, session, bounds, history>>
\* The error is ignored.
SaveFails(c) ==
  /\ At(c, "saving") /\ Fault
  /\ spoiled' = spoiled \cup {cli[c].file}
  /\ Use(c, cli[c].port, cli[c].server)
  /\ UNCHANGED <<file, log, proc, session, ended>>

\* The command itself, over the URL.
Finish(c) ==
  /\ At(c, "done")
  /\ Quit(c, proc)
  /\ UNCHANGED <<file, log, bounds, history>>

-----------------------------------------------------------------------------
(* runSSH, PortForward *)

\* The worker cannot be reached directly; if it can, the session needs no kubectl.
Forward(c) ==
  /\ At(c, "done") /\ c \in Ssh
  /\ \E p \in Pid :
       /\ proc[p] = Free
       /\ proc' = [proc EXCEPT ![p] = Started(c, "pipe")]
       /\ cli' = [cli EXCEPT ![c] = [pc |-> "forward", file |-> cli[c].file, pid |-> p]]
  /\ session' = [session EXCEPT ![c].reader = "read"]
  /\ UNCHANGED <<file, log, bounds, history>>

\* The reader keeps all output: once the port is in it, every read finds it.
ReadPipe(c) ==
  /\ session[c].reader = "read" /\ session[c].pipe > 0
  /\ session' = [session EXCEPT ![c].pipe = 0, ![c].reader = "send"]
  /\ UNCHANGED <<file, log, proc, cli, bounds, history>>

\* Mutant: a channel without room, where only a waiting receiver takes a port.
RoomIfAwaited(c) == At(c, "forward") /\ session[c].ports = 0

\* portChan has room for one port.
Room(c) == session[c].ports = 0

SendPort(c) ==
  /\ session[c].reader = "send" /\ Room(c)
  /\ session' = [session EXCEPT ![c].ports = 1, ![c].reader = "read"]
  /\ UNCHANGED <<file, log, proc, cli, bounds, history>>

Forwarded(c) ==
  /\ At(c, "forward") /\ session[c].ports = 1
  /\ session' = [session EXCEPT ![c].ports = 0]
  /\ Goto(c, "session")
  /\ UNCHANGED <<file, log, proc, bounds, history>>

\* Eight seconds.  kubectl's end does not show earlier: the CLI holds the
\* pipe's other end open itself.
ForwardTimeout(c) ==
  /\ At(c, "forward")
  /\ Quit(c, Killed(cli[c].pid))
  /\ UNCHANGED <<file, log, bounds, history>>

\* guest.Client.Exec: the code of what ran, from the stream or from polling; an
\* error on the way ends the session as 0 does.
Exec == ExitCodes \cup {0}

\* os.Exit, with any other code, runs no deferred cleanup.
EndSession(c, code) ==
  /\ At(c, "session")
  /\ Quit(c, IF code = 0 THEN Killed(cli[c].pid) ELSE proc)
  /\ UNCHANGED <<file, log, bounds, history>>

-----------------------------------------------------------------------------
(* kubectl, interruptions *)

Listen(p) ==
  /\ proc[p].st = "starting"
  /\ \E o \in Port :
       /\ \A q \in Pid : ~ Listening(q, o)
       /\ proc' = [proc EXCEPT ![p].st = "listening", ![p].port = o]
  /\ UNCHANGED <<file, log, cli, session, bounds, history>>

\* "Forwarding from 127.0.0.1:<port> -> ...": once to the log, to a pipe with
\* more lines to follow, while there is room.
Report(p) ==
  /\ proc[p].st = "listening" /\ proc[p].out = "log" /\ ~ proc[p].told
  /\ log' = [log EXCEPT ![proc[p].file] = proc[p].port]
  /\ proc' = [proc EXCEPT ![p].told = TRUE]
  /\ UNCHANGED <<file, cli, session, bounds, history>>
PrintLine(p) ==
  /\ proc[p].st = "listening" /\ proc[p].out = "pipe"
  /\ \E c \in proc[p].parent :
       /\ session[c].pipe < PipeSize /\ session[c].lines < MaxLines
       /\ session' = [session EXCEPT ![c].pipe = @ + 1, ![c].lines = @ + 1]
  /\ UNCHANGED <<file, log, proc, cli, bounds, history>>

Exit(p) ==
  /\ Live(p) /\ Fault
  /\ proc' = Killed(p)
  /\ ended' = ended \cup FilesOf(p)
  /\ UNCHANGED <<file, log, cli, session, spoiled>>

\* The user interrupts the command; kubectl is in another process group.
Interrupt(c) ==
  /\ ~ At(c, "idle") /\ Fault
  /\ spoiled' = IF Managing(c, cli[c].file) THEN spoiled \cup {cli[c].file} ELSE spoiled
  /\ Quit(c, proc)
  /\ UNCHANGED <<file, log, ended>>

-----------------------------------------------------------------------------

Ensure(c) ==
  \/ Reuse(c) \/ Reject(c) \/ Kill(c) \/ Remove(c) \/ Spawn(c) \/ SpawnFails(c) \/ AwaitPort(c) \/ GiveUp(c)
  \/ AwaitHealth(c) \/ Truncate(c) \/ SaveTunnel(c)
Session(c) == ReadPipe(c) \/ SendPort(c) \/ Forwarded(c) \/ ForwardTimeout(c)
Kubectl(p) == Listen(p) \/ Report(p) \/ PrintLine(p)

Next ==
  \/ \E c \in Cli :
       \/ Ensure(c) \/ Session(c) \/ Finish(c) \/ Forward(c)
       \/ SaveFails(c) \/ Interrupt(c)
       \/ \E k \in Context : Find(c, k) \/ Stop(c, k)
       \/ \E code \in Exec : EndSession(c, code)
  \/ \E p \in Pid : Kubectl(p) \/ Exit(p)

Spec == Init /\ [][Next]_vars

\* Calls go on, and what they wait for has a time limit.
Fairness ==
  \A c \in Cli : WF_vars(Ensure(c)) /\ WF_vars(Forwarded(c) \/ ForwardTimeout(c))
FairSpec == Spec /\ Fairness

-----------------------------------------------------------------------------
(* Properties *)

TypeOK ==
  /\ \A f \in FileName :
       /\ file[f] \in {Absent, Torn} \cup {Info(o, p) : o \in Port, p \in Pid}
       /\ log[f] \in Port \cup {0}
  /\ \A p \in Pid : proc[p].st = "listening" => proc[p].port \in Port
  /\ \A c \in Cli : session[c].pipe \in 0 .. PipeSize /\ session[c].lines \in 0 .. MaxLines
  /\ \A p, q \in Pid : proc[p].st = "listening" /\ proc[q].st = "listening" /\ proc[p].port = proc[q].port => p = q

\* README.md: background tunnels, whose state lives in ~/.ax/tunnels.  While no
\* command is at a state file, there is one tunnel at most that it could be the
\* file of, and it names that tunnel's process and port, so that it can be used
\* again and stopped; only overlapping, interrupted or hindered commands may leave
\* others behind.
TunnelIsRecorded ==
  \A f \in FileName \ spoiled : (\A c \in Cli : ~ Managing(c, f)) =>
    \A p \in Pid : Live(p) /\ proc[p].out = "log" /\ proc[p].file = f =>
                     file[f] = Info(proc[p].port, p)

\* EnsureServerURL: the AX server that answered at the port before a command uses
\* it is the one of the command's own state file, though port and process numbers
\* are given out again: unless that file's kubectl has ended otherwise than by a
\* command for the file, or commands overlapped or were interrupted there.  That it
\* is the server of the command's own context is not so: contexts whose files have
\* the same name use each other's.
UsesItsOwnTunnel ==
  [][\A c \in Cli : ~ At(c, "done") /\ At(c, "done")' =>
       cli'[c].server = cli[c].file \/ cli[c].file \in spoiled \cup ended]_vars

\* A session's kubectl is held up by a reader that cannot hand on the port once
\* more only when it has printed three lines and a full pipe.
OutputFlows ==
  \A c \in Cli :
    At(c, "session") /\ session[c].reader = "send" /\ ~ Room(c) /\ session[c].pipe = PipeSize
    => session[c].lines >= PipeSize + 3

\* Every command gets its answer, whatever kubectl does.
Answered ==
  \A c \in Cli : []<>(cli[c].pc \in {"idle", "done", "session"})

\* tunnel.go: PortForward starts an ephemeral port-forward: it does not
\* outlive the command.
EphemeralEnds ==
  \A p \in Pid : Live(p) /\ proc[p].out = "pipe" => proc[p].parent # {}
=============================================================================
