----------------------------- MODULE TunnelProofs -----------------------------
(***************************************************************************)
(* What holds of Tunnel for every set of terminals, contexts, file names,  *)
(* processes and ports and every number of commands and faults: the files hold       *)
(* records of their kind, no two processes listen on one port, the tunnel  *)
(* of a file is on record, and a command uses the one that is.             *)
(***************************************************************************)
EXTENDS Tunnel, TLAPS

Infos == {Info(o, p) : o \in Port, p \in Pid}
Process ==
  [st : {"starting", "listening", "exited"}, file : FileName, port : Port \cup {0},
   told : BOOLEAN, parent : SUBSET Cli, out : {"log", "pipe"}]
Transfer ==
  [reader : {"off", "read", "send"}, pipe : 0 .. PipeSize, lines : 0 .. MaxLines, ports : {0, 1}]

\* A command by the step it is at.
Recorded == [pc : {"probe", "kill", "remove"}, file : FileName, info : Infos, next : {"spawn", "idle"}]
Spawning == [pc : {"spawn"}, file : FileName]
Begun == [pc : {"port", "forward", "session"}, file : FileName, pid : Pid]
Answering == [pc : {"health"}, file : FileName, port : Port, pid : Pid]
Saving == [pc : {"save", "saving"}, file : FileName, port : Port, pid : Pid, server : FileName]
Using == [pc : {"done"}, file : FileName, port : Port, server : FileName]
Commands == {Idle} \cup Recorded \cup Spawning \cup Begun \cup Answering \cup Saving \cup Using

Typed ==
  /\ file \in [FileName -> {Absent, Torn} \cup Infos]
  /\ log \in [FileName -> Port \cup {0}]
  /\ proc \in [Pid -> {Free} \cup Process]
  /\ cli \in [Cli -> Commands]
  /\ session \in [Cli -> Transfer]

\* A process that listens has a port, and has it alone.
Ports ==
  \A p \in Pid : proc[p].st = "listening" =>
    /\ proc[p].port \in Port
    /\ \A q \in Pid : proc[q].st = "listening" /\ proc[p].port = proc[q].port => p = q

IInv == Typed /\ Ports

-----------------------------------------------------------------------------
(* What the parts are made of *)

\* The step a command is at says which record it is.
LEMMA Shapes ==
  ASSUME Typed, NEW c \in Cli
  PROVE  /\ cli[c] \in Commands
         /\ cli[c].pc \in {"probe", "kill", "remove"} => cli[c] \in Recorded
         /\ cli[c].pc = "spawn" => cli[c] \in Spawning
         /\ cli[c].pc \in {"port", "forward", "session"} => cli[c] \in Begun
         /\ cli[c].pc = "health" => cli[c] \in Answering
         /\ cli[c].pc \in {"save", "saving"} => cli[c] \in Saving
         /\ cli[c].pc = "done" => cli[c] \in Using
  BY DEF Typed, Commands, Idle, Recorded, Spawning, Begun, Answering, Saving, Using

\* What a process that listens serves is a file's tunnel.
LEMMA ServerFacts ==
  ASSUME Typed, NEW port, NEW p \in Servers(port)
  PROVE  p \in Pid /\ proc[p].file \in FileName
  BY DEF Typed, Servers, Listening, Process, Free

\* What a file records has a port and a process.
LEMMA InfoFacts ==
  /\ \A i \in Infos : i.kind = "info" /\ i.port \in Port /\ i.pid \in Pid
  /\ Absent.kind # "info" /\ Torn.kind # "info"
  BY DEF Infos, Info, Absent, Torn

\* A killed process does not listen; the others are as they were.
LEMMA KilledFacts ==
  ASSUME Typed, NEW p \in Pid
  PROVE  /\ Killed(p) \in [Pid -> {Free} \cup Process]
         /\ \A q \in Pid : Killed(p)[q].st = "listening" => Killed(p)[q] = proc[q]
<1>1. proc \in [Pid -> {Free} \cup Process]
  BY DEF Typed
<1>2. CASE ~ Live(p)
  BY <1>1, <1>2 DEF Killed
<1>3. CASE Live(p)
  <2> DEFINE v == IF proc[p].parent = {} THEN Free ELSE [proc[p] EXCEPT !.st = "exited", !.port = 0, !.told = FALSE]
  <2>1. proc[p] \in Process
    BY <1>1, <1>3 DEF Live, Free
  <2>2. v \in {Free} \cup Process /\ v.st # "listening"
    BY <2>1 DEF Process, Free
  <2>3. Killed(p) = [proc EXCEPT ![p] = v]
    BY <1>3 DEF Killed
  <2> HIDE DEF v
  <2> QED
    BY <1>1, <2>2, <2>3
<1> QED
  BY <1>2, <1>3

\* kubectl is started for a terminal and does not listen yet.
LEMMA StartedFacts ==
  ASSUME NEW c \in Cli, NEW out \in {"log", "pipe"}, cli[c].file \in FileName
  PROVE  Started(c, out) \in Process /\ Started(c, out).st = "starting"
  BY DEF Started, Process

-----------------------------------------------------------------------------
(* Steps of commands *)

\* A command goes on; processes may end or start, but none begins to listen.
LEMMA CommandStep ==
  ASSUME IInv, NEW c \in Cli, NEW v \in Commands, cli' = [cli EXCEPT ![c] = v],
         session' \in [Cli -> Transfer], proc' \in [Pid -> {Free} \cup Process],
         \A q \in Pid : proc'[q].st = "listening" =>
           proc[q].st = "listening" /\ proc'[q].port = proc[q].port,
         file' \in [FileName -> {Absent, Torn} \cup Infos],
         log' \in [FileName -> Port \cup {0}]
  PROVE  IInv'
<1>1. Typed'
  BY DEF IInv, Typed
<1>2. Ports'
  BY DEF IInv, Ports
<1> QED
  BY <1>1, <1>2 DEF IInv

\* A command whose processes, files and session stay as they are.
LEMMA LocalStep ==
  ASSUME IInv, NEW c \in Cli, NEW v \in Commands, cli' = [cli EXCEPT ![c] = v],
         UNCHANGED <<file, log, proc, session>>
  PROVE  IInv'
  BY CommandStep DEF IInv, Typed

\* A command ends, and what it has killed with it.
LEMMA QuitStep ==
  ASSUME IInv, NEW c \in Cli, NEW procs \in [Pid -> {Free} \cup Process],
         \A q \in Pid : procs[q].st = "listening" => procs[q] = proc[q],
         Quit(c, procs),
         file' \in [FileName -> {Absent, Torn} \cup Infos],
         log' \in [FileName -> Port \cup {0}]
  PROVE  IInv'
<1>1. /\ cli' = [cli EXCEPT ![c] = Idle] /\ session' = [session EXCEPT ![c] = NoSession]
      /\ proc' = [p \in Pid |->
           IF procs[p] = Free \/ procs[p].parent # {c} THEN procs[p]
           ELSE IF procs[p].st = "exited" THEN Free ELSE [procs[p] EXCEPT !.parent = {}]]
  BY DEF Quit
<1>2. Idle \in Commands
  BY DEF Commands
<1>3. session' \in [Cli -> Transfer]
  <2>1. NoSession \in Transfer
    BY TunnelAssumption DEF NoSession, Transfer
  <2> QED
    BY <1>1, <2>1 DEF IInv, Typed
<1>4. ASSUME NEW q \in Pid
      PROVE  /\ proc'[q] \in {Free} \cup Process
             /\ proc'[q].st = "listening" =>
                  proc[q].st = "listening" /\ proc'[q].port = proc[q].port
  <2>1. CASE procs[q] = Free \/ procs[q].parent # {c}
    BY <1>1, <2>1
  <2>2. CASE procs[q] \in Process /\ procs[q].parent = {c} /\ procs[q].st = "exited"
    BY <1>1, <2>2 DEF Free
  <2>3. CASE procs[q] \in Process /\ procs[q].parent = {c} /\ procs[q].st # "exited"
    <3>1. proc'[q] = [procs[q] EXCEPT !.parent = {}]
      BY <1>1, <2>3 DEF Process, Free
    <3> QED
      BY <2>3, <3>1 DEF Process
  <2> QED
    BY <2>1, <2>2, <2>3
<1>5. proc' \in [Pid -> {Free} \cup Process]
  BY <1>1, <1>4
<1> QED
  BY <1>1, <1>2, <1>3, <1>4, <1>5, CommandStep

\* A command finds the record of the file its context has.
LEMMA FindStopOK ==
  ASSUME IInv, NEW c \in Cli, NEW k \in Context, Find(c, k) \/ Stop(c, k)
  PROVE  IInv'
<1> DEFINE f == SanitizeContext[k]
           probe == [pc |-> "probe", file |-> f, info |-> file[f], next |-> "spawn"]
           kill == [pc |-> "kill", file |-> f, info |-> file[f], next |-> "idle"]
           spawn == [pc |-> "spawn", file |-> f]
<1>1. UNCHANGED <<file, log, proc, session>> /\ f \in FileName
  BY TunnelAssumption DEF Find, Stop, Command
<1>2. spawn \in Commands
  BY <1>1 DEF Spawning, Commands
<1>3. file[f].kind = "info" => probe \in Commands /\ kill \in Commands
  <2>1. file[f].kind = "info" => file[f] \in Infos
    BY <1>1, InfoFacts DEF IInv, Typed
  <2> QED
    BY <1>1, <2>1 DEF Recorded, Commands
<1>4. CASE Find(c, k) /\ file[f].kind = "info"
  <2>1. cli' = [cli EXCEPT ![c] = probe]
    BY <1>4 DEF Find
  <2> HIDE DEF probe
  <2> QED
    BY <1>1, <1>3, <1>4, <2>1, LocalStep
<1>5. CASE Find(c, k) /\ file[f].kind # "info"
  <2>1. cli' = [cli EXCEPT ![c] = spawn]
    BY <1>5 DEF Find
  <2> HIDE DEF spawn
  <2> QED
    BY <1>1, <1>2, <2>1, LocalStep
<1>6. CASE Stop(c, k)
  <2>1. cli' = [cli EXCEPT ![c] = kill] /\ file[f].kind = "info"
    BY <1>6 DEF Stop
  <2> HIDE DEF kill
  <2> QED
    BY <1>1, <1>3, <2>1, LocalStep
<1> QED
  BY <1>4, <1>5, <1>6

\* The recorded tunnel is used or given up; the file may be removed.
LEMMA RecordedOK ==
  ASSUME IInv, NEW c \in Cli, Reuse(c) \/ Reject(c) \/ Kill(c) \/ Remove(c)
  PROVE  IInv'
<1>1. cli[c] \in Recorded
  BY Shapes DEF IInv, Reuse, Reject, Kill, Remove, At
<1>2. cli[c].info \in Infos /\ cli[c].file \in FileName
  BY <1>1 DEF Recorded
<1>3. CASE Reuse(c)
  <2>1. PICK p \in Servers(cli[c].info.port) : Use(c, cli[c].info.port, proc[p].file)
    BY <1>3 DEF Reuse
  <2> DEFINE v == [pc |-> "done", file |-> cli[c].file, port |-> cli[c].info.port, server |-> proc[p].file]
  <2>2. v \in Commands
    BY <1>2, InfoFacts, ServerFacts DEF Using, Commands, IInv
  <2>3. cli' = [cli EXCEPT ![c] = v] /\ UNCHANGED <<file, log, proc, session>>
    BY <1>3, <2>1 DEF Reuse, Use
  <2> HIDE DEF v
  <2> QED
    BY <2>2, <2>3, LocalStep
<1>4. ASSUME NEW step \in {"kill", "remove"}
      PROVE  [cli[c] EXCEPT !.pc = step] \in Commands
  BY <1>1 DEF Recorded, Commands
<1>5. CASE Reject(c)
  <2>1. cli' = [cli EXCEPT ![c] = [cli[c] EXCEPT !.pc = "kill"]] /\ UNCHANGED <<file, log, proc, session>>
    BY <1>5 DEF Reject, Goto, IInv, Typed
  <2> QED
    BY <1>4, <2>1, LocalStep
<1>6. CASE Kill(c)
  <2>1. cli' = [cli EXCEPT ![c] = [cli[c] EXCEPT !.pc = "remove"]] /\ UNCHANGED <<file, log, session>>
        /\ proc' = Killed(cli[c].info.pid)
    BY <1>6 DEF Kill, Goto, IInv, Typed
  <2>2. cli[c].info.pid \in Pid
    BY <1>2, InfoFacts
  <2>3. proc' \in [Pid -> {Free} \cup Process] /\ \A q \in Pid : proc'[q].st = "listening" => proc'[q] = proc[q]
    BY <2>1, <2>2, KilledFacts DEF IInv
  <2>4. session' \in [Cli -> Transfer] /\ file' \in [FileName -> {Absent, Torn} \cup Infos]
        /\ log' \in [FileName -> Port \cup {0}]
    BY <2>1 DEF IInv, Typed
  <2> QED
    BY <1>4, <2>1, <2>3, <2>4, CommandStep
<1>7. CASE Remove(c)
  <2>1. file' = [file EXCEPT ![cli[c].file] = Absent] /\ log' = log
    BY <1>7 DEF Remove
  <2>2. file' \in [FileName -> {Absent, Torn} \cup Infos] /\ log' \in [FileName -> Port \cup {0}]
    BY <2>1 DEF IInv, Typed
  <2>3. proc \in [Pid -> {Free} \cup Process] /\ session \in [Cli -> Transfer]
    BY DEF IInv, Typed
  <2>4. CASE Quit(c, proc)
    BY <2>1, <2>2, <2>3, <2>4, QuitStep
  <2>5. CASE cli' = [cli EXCEPT ![c] = [pc |-> "spawn", file |-> cli[c].file]]
             /\ UNCHANGED <<proc, session>>
    <3>1. [pc |-> "spawn", file |-> cli[c].file] \in Commands
      BY <1>2 DEF Spawning, Commands
    <3> QED
      BY <2>2, <2>3, <2>5, <3>1, CommandStep
  <2> QED
    BY <1>7, <2>4, <2>5 DEF Remove
<1> QED
  BY <1>3, <1>5, <1>6, <1>7

\* The log is emptied and kubectl started for it, or not.
LEMMA SpawnOK ==
  ASSUME IInv, NEW c \in Cli, Spawn(c) \/ SpawnFails(c)
  PROVE  IInv'
<1>1. cli[c] \in Spawning
  BY Shapes DEF IInv, Spawn, SpawnFails, At
<1>2. cli[c].file \in FileName
  BY <1>1 DEF Spawning
<1>3. log' = [log EXCEPT ![cli[c].file] = 0] /\ file' = file
  BY DEF Spawn, SpawnFails
<1>4. /\ log' \in [FileName -> Port \cup {0}]
      /\ file' \in [FileName -> {Absent, Torn} \cup Infos]
      /\ proc \in [Pid -> {Free} \cup Process] /\ session \in [Cli -> Transfer]
  BY <1>2, <1>3 DEF IInv, Typed
<1>5. CASE SpawnFails(c)
  <2>1. Quit(c, proc)
    BY <1>5 DEF SpawnFails
  <2> QED
    BY <1>3, <1>4, <2>1, QuitStep
<1>6. CASE Spawn(c)
  <2>1. PICK p \in Pid :
          /\ proc' = [proc EXCEPT ![p] = Started(c, "log")]
          /\ cli' = [cli EXCEPT ![c] = [pc |-> "port", file |-> cli[c].file, pid |-> p]]
    BY <1>6 DEF Spawn
  <2>2. session' = session
    BY <1>6 DEF Spawn
  <2>3. proc' \in [Pid -> {Free} \cup Process] /\ \A q \in Pid : proc'[q].st = "listening" => proc'[q] = proc[q]
    BY <1>2, <1>4, <2>1, StartedFacts
  <2>4. [pc |-> "port", file |-> cli[c].file, pid |-> p] \in Commands
    BY <1>2 DEF Begun, Commands
  <2> QED
    BY <1>4, <2>1, <2>2, <2>3, <2>4, CommandStep
<1> QED
  BY <1>5, <1>6

\* The port is that in the log, the server whoever answers at it.
LEMMA AwaitOK ==
  ASSUME IInv, NEW c \in Cli, AwaitPort(c) \/ AwaitHealth(c)
  PROVE  IInv'
<1>1. UNCHANGED <<file, log, proc, session>>
  BY DEF AwaitPort, AwaitHealth
<1>2. CASE AwaitPort(c)
  <2> DEFINE v == [pc |-> "health", port |-> log[cli[c].file], file |-> cli[c].file, pid |-> cli[c].pid]
  <2>1. cli[c] \in Begun /\ log[cli[c].file] # 0 /\ cli' = [cli EXCEPT ![c] = v]
    BY <1>2, Shapes DEF IInv, AwaitPort, At
  <2>2. v \in Commands
    BY <2>1 DEF Begun, Answering, Commands, IInv, Typed
  <2> HIDE DEF v
  <2> QED
    BY <1>1, <2>1, <2>2, LocalStep
<1>3. CASE AwaitHealth(c)
  <2>1. PICK p \in Servers(cli[c].port) :
          cli' = [cli EXCEPT ![c] = [pc |-> "save", file |-> cli[c].file, port |-> cli[c].port,
                                     pid |-> cli[c].pid, server |-> proc[p].file]]
    BY <1>3 DEF AwaitHealth
  <2> DEFINE v == [pc |-> "save", file |-> cli[c].file, port |-> cli[c].port,
                   pid |-> cli[c].pid, server |-> proc[p].file]
  <2>2. cli[c] \in Answering
    BY <1>3, Shapes DEF IInv, AwaitHealth, At
  <2>3. v \in Commands
    BY <2>2, ServerFacts DEF Answering, Saving, Commands, IInv
  <2>4. cli' = [cli EXCEPT ![c] = v]
    BY <2>1
  <2> HIDE DEF v
  <2> QED
    BY <1>1, <2>3, <2>4, LocalStep
<1> QED
  BY <1>2, <1>3

\* The file records the port that was in the log.
LEMMA SaveOK ==
  ASSUME IInv, NEW c \in Cli, Truncate(c) \/ SaveTunnel(c) \/ SaveFails(c)
  PROVE  IInv'
<1> DEFINE use == [pc |-> "done", file |-> cli[c].file, port |-> cli[c].port, server |-> cli[c].server]
           saving == [cli[c] EXCEPT !.pc = "saving"]
<1>1. cli[c] \in Saving /\ UNCHANGED <<log, proc, session>>
  BY Shapes DEF IInv, Truncate, SaveTunnel, SaveFails, At
<1>2. use \in Commands /\ saving \in Commands
  BY <1>1 DEF Saving, Using, Commands
<1>3. cli' = [cli EXCEPT ![c] = use] \/ cli' = [cli EXCEPT ![c] = saving]
  BY DEF Truncate, SaveTunnel, SaveFails, Use, Goto, IInv, Typed
<1>4. file' \in [FileName -> {Absent, Torn} \cup Infos]
  <2>1. Info(cli[c].port, cli[c].pid) \in Infos
    BY <1>1 DEF Infos, Saving
  <2> QED
    BY <2>1 DEF Truncate, SaveTunnel, SaveFails, IInv, Typed
<1> HIDE DEF use, saving
<1>5. session' \in [Cli -> Transfer] /\ proc' \in [Pid -> {Free} \cup Process] /\ log' \in [FileName -> Port \cup {0}]
  BY <1>1 DEF IInv, Typed
<1> QED
  BY <1>1, <1>2, <1>3, <1>4, <1>5, CommandStep

\* A command that ends leaves the files; what it killed does not listen.
LEMMA EndOK ==
  ASSUME IInv, NEW c \in Cli,
         \/ GiveUp(c) \/ Finish(c) \/ ForwardTimeout(c) \/ Interrupt(c)
         \/ \E code \in Exec : EndSession(c, code)
  PROVE  IInv'
<1>1. UNCHANGED <<file, log>>
  BY DEF GiveUp, Finish, ForwardTimeout, Interrupt, EndSession
<1>2. /\ file' \in [FileName -> {Absent, Torn} \cup Infos] /\ log' \in [FileName -> Port \cup {0}]
      /\ proc \in [Pid -> {Free} \cup Process]
  BY <1>1 DEF IInv, Typed
<1>3. CASE Quit(c, proc)
  BY <1>1, <1>2, <1>3, QuitStep
<1>4. CASE cli[c].pid \in Pid /\ Quit(c, Killed(cli[c].pid))
  <2>1. Killed(cli[c].pid) \in [Pid -> {Free} \cup Process]
        /\ \A q \in Pid : Killed(cli[c].pid)[q].st = "listening" => Killed(cli[c].pid)[q] = proc[q]
    BY <1>4, KilledFacts DEF IInv
  <2> QED
    BY <1>1, <1>2, <1>4, <2>1, QuitStep
<1>5. cli[c].pc \in {"port", "health", "forward", "session"} => cli[c].pid \in Pid
  BY Shapes DEF IInv, Begun, Answering
<1> QED
  BY <1>3, <1>4, <1>5 DEF GiveUp, Finish, ForwardTimeout, Interrupt, EndSession, At

\* A session's kubectl, and the port on its way to the session.
LEMMA SessionOK ==
  ASSUME IInv, NEW c \in Cli, Forward(c) \/ ReadPipe(c) \/ SendPort(c) \/ Forwarded(c)
  PROVE  IInv'
<1>1. UNCHANGED <<file, log>>
  BY DEF Forward, ReadPipe, SendPort, Forwarded
<1>2. session' \in [Cli -> Transfer]
  BY TunnelAssumption DEF IInv, Typed, Transfer, Forward, ReadPipe, SendPort, Forwarded
<1>3. CASE UNCHANGED <<cli, proc>>
  BY <1>1, <1>2, <1>3 DEF IInv, Typed, Ports
<1>4. /\ file' \in [FileName -> {Absent, Torn} \cup Infos] /\ log' \in [FileName -> Port \cup {0}]
      /\ proc \in [Pid -> {Free} \cup Process]
  BY <1>1 DEF IInv, Typed
<1>5. CASE Forward(c)
  <2>1. cli[c].file \in FileName
    BY <1>5, Shapes DEF IInv, Forward, At, Using
  <2>2. PICK p \in Pid :
          /\ proc' = [proc EXCEPT ![p] = Started(c, "pipe")]
          /\ cli' = [cli EXCEPT ![c] = [pc |-> "forward", file |-> cli[c].file, pid |-> p]]
    BY <1>5 DEF Forward
  <2>3. proc' \in [Pid -> {Free} \cup Process] /\ \A q \in Pid : proc'[q].st = "listening" => proc'[q] = proc[q]
    BY <1>4, <2>1, <2>2, StartedFacts
  <2>4. [pc |-> "forward", file |-> cli[c].file, pid |-> p] \in Commands
    BY <2>1 DEF Begun, Commands
  <2> QED
    BY <1>2, <1>4, <2>2, <2>3, <2>4, CommandStep
<1>6. CASE Forwarded(c)
  <2> DEFINE v == [cli[c] EXCEPT !.pc = "session"]
  <2>1. cli[c] \in Begun /\ cli' = [cli EXCEPT ![c] = v] /\ proc' = proc
    BY <1>6, Shapes DEF IInv, Typed, Forwarded, At, Goto
  <2>2. v \in Commands
    BY <2>1 DEF Begun, Commands
  <2> HIDE DEF v
  <2> QED
    BY <1>2, <1>4, <2>1, <2>2, CommandStep
<1> QED
  BY <1>3, <1>5, <1>6 DEF ReadPipe, SendPort

-----------------------------------------------------------------------------
(* Steps of kubectl *)

\* A process takes a port that is free.
LEMMA ListenOK ==
  ASSUME IInv, NEW p \in Pid, Listen(p)
  PROVE  IInv'
<1>1. UNCHANGED <<file, log, cli, session>> /\ proc[p].st = "starting"
  BY DEF Listen
<1>2. PICK o \in Port :
        /\ \A q \in Pid : ~ Listening(q, o)
        /\ proc' = [proc EXCEPT ![p].st = "listening", ![p].port = o]
  BY DEF Listen
<1>3. proc[p] \in Process
  BY <1>1 DEF IInv, Typed, Free
<1>4. /\ proc'[p].st = "listening" /\ proc'[p].port = o
      /\ \A q \in Pid \ {p} : proc'[q] = proc[q]
      /\ proc' \in [Pid -> {Free} \cup Process]
  BY <1>2, <1>3 DEF IInv, Typed, Process
<1>5. Typed'
  BY <1>1, <1>4 DEF IInv, Typed
<1>6. Ports'
  BY <1>2, <1>4 DEF IInv, Ports, Listening
<1> QED
  BY <1>5, <1>6 DEF IInv

\* The log shows the port of a process.
LEMMA ReportOK ==
  ASSUME IInv, NEW p \in Pid, Report(p)
  PROVE  IInv'
<1>1. /\ UNCHANGED <<file, cli, session>>
      /\ proc[p].st = "listening"
      /\ log' = [log EXCEPT ![proc[p].file] = proc[p].port]
      /\ proc' = [proc EXCEPT ![p].told = TRUE]
  BY DEF Report
<1>2. proc[p] \in Process
  BY <1>1 DEF IInv, Typed, Free
<1>3. /\ proc' \in [Pid -> {Free} \cup Process]
      /\ \A q \in Pid : proc'[q].st = proc[q].st /\ proc'[q].port = proc[q].port
  BY <1>1, <1>2 DEF IInv, Typed, Process
<1>4. log' \in [FileName -> Port \cup {0}]
  BY <1>1, <1>2 DEF IInv, Typed, Ports
<1>5. Typed'
  BY <1>1, <1>3, <1>4 DEF IInv, Typed
<1>6. Ports'
  BY <1>3 DEF IInv, Ports
<1> QED
  BY <1>5, <1>6 DEF IInv

\* Output and the end of a process.
LEMMA PrintExitOK ==
  ASSUME IInv, NEW p \in Pid, PrintLine(p) \/ Exit(p)
  PROVE  IInv'
<1>1. UNCHANGED <<file, log, cli>>
  BY DEF PrintLine, Exit
<1>2. CASE PrintLine(p)
  <2>1. PICK c \in proc[p].parent :
          /\ session[c].pipe < PipeSize /\ session[c].lines < MaxLines
          /\ session' = [session EXCEPT ![c].pipe = @ + 1, ![c].lines = @ + 1]
    BY <1>2 DEF PrintLine
  <2>2. c \in Cli
    BY <1>2 DEF PrintLine, IInv, Typed, Process, Free
  <2>3. session[c].pipe + 1 \in 0 .. PipeSize /\ session[c].lines + 1 \in 0 .. MaxLines
    BY <2>1, <2>2, TunnelAssumption DEF IInv, Typed, Transfer
  <2>4. session' \in [Cli -> Transfer]
    BY <2>1, <2>2, <2>3 DEF IInv, Typed, Transfer
  <2>5. proc' = proc
    BY <1>2 DEF PrintLine
  <2> QED
    BY <1>1, <2>4, <2>5 DEF IInv, Typed, Ports
<1>3. CASE Exit(p)
  <2>1. proc' = Killed(p) /\ session' = session
    BY <1>3 DEF Exit
  <2>2. proc' \in [Pid -> {Free} \cup Process] /\ \A q \in Pid : proc'[q].st = "listening" => proc'[q] = proc[q]
    BY <2>1, KilledFacts DEF IInv
  <2> QED
    BY <1>1, <2>1, <2>2 DEF IInv, Typed, Ports
<1> QED
  BY <1>2, <1>3

-----------------------------------------------------------------------------
(* The steps together *)

\* What every state is made of, and that no port is taken twice.
THEOREM Inductive == Spec => []IInv
<1>1. Init => IInv
  <2>1. SUFFICES ASSUME Init
                 PROVE  IInv
    OBVIOUS
  <2>2. NoSession \in Transfer /\ Idle \in Commands
    BY TunnelAssumption DEF NoSession, Transfer, Commands
  <2>3. Typed
    BY <2>1, <2>2 DEF Init, Typed
  <2>4. Ports
    BY <2>1 DEF Init, Ports, Free
  <2> QED
    BY <2>3, <2>4 DEF IInv
<1>2. IInv /\ [Next]_vars => IInv'
  <2>1. SUFFICES ASSUME IInv, [Next]_vars
                 PROVE  IInv'
    OBVIOUS
  <2>2. ASSUME NEW c \in Cli,
               \/ Ensure(c) \/ Session(c) \/ Finish(c) \/ Forward(c) \/ SaveFails(c) \/ Interrupt(c)
               \/ (\E k \in Context : Find(c, k) \/ Stop(c, k))
               \/ (\E code \in Exec : EndSession(c, code))
        PROVE  IInv'
    BY <2>1, <2>2, FindStopOK, RecordedOK, SpawnOK, AwaitOK, SaveOK, EndOK, SessionOK DEF Ensure, Session
  <2>3. ASSUME NEW p \in Pid, Kubectl(p) \/ Exit(p)
        PROVE  IInv'
    BY <2>1, <2>3, ListenOK, ReportOK, PrintExitOK DEF Kubectl
  <2>4. CASE UNCHANGED vars
    BY <2>1, <2>4 DEF vars, IInv, Typed, Ports
  <2> QED
    BY <2>1, <2>2, <2>3, <2>4 DEF Next
<1> QED
  BY <1>1, <1>2, PTL DEF Spec

\* Files, logs and sessions hold what they should, and no two processes listen on
\* one port, however often process and port numbers are given out again.
THEOREM TypeCorrect == Spec => []TypeOK
<1>1. IInv => TypeOK
  <2>1. SUFFICES ASSUME IInv
                 PROVE  TypeOK
    OBVIOUS
  <2>2. \A k \in FileName : file[k] \in {Absent, Torn} \cup {Info(o, p) : o \in Port, p \in Pid}
                           /\ log[k] \in Port \cup {0}
    BY <2>1 DEF IInv, Typed, Infos
  <2>3. \A c \in Cli : session[c].pipe \in 0 .. PipeSize /\ session[c].lines \in 0 .. MaxLines
    BY <2>1 DEF IInv, Typed, Transfer
  <2> QED
    BY <2>1, <2>2, <2>3 DEF IInv, Ports, TypeOK
<1> QED
  BY <1>1, Inductive, PTL

-----------------------------------------------------------------------------
(* The tunnel of a file is on record *)

Tunneling(p, k) == Live(p) /\ proc[p].out = "log" /\ proc[p].file = k
OnRecord(p, k) == proc[p].st = "listening" /\ file[k] = Info(proc[p].port, p)

\* What the command that is at the files of a name knows of the tunnel.
InHand(c, p, k) ==
  CASE cli[c].pc \in {"probe", "kill"} -> cli[c].info = file[k] /\ OnRecord(p, k)
    [] cli[c].pc \in {"remove", "spawn"} -> FALSE
    [] cli[c].pc = "port" -> p = cli[c].pid /\ (log[k] # 0 => Listening(p, log[k]))
    [] OTHER -> p = cli[c].pid /\ Listening(p, cli[c].port)

\* One command at a time is at the files of a name.
Alone == \A k \in FileName \ spoiled, c, d \in Cli : Managing(c, k) /\ Managing(d, k) => c = d

\* A tunnel is on record, or in the hands of the command that is at the files.
Accounted(p, k) ==
  Tunneling(p, k) =>
    /\ (\A c \in Cli : ~ Managing(c, k)) => OnRecord(p, k)
    /\ \A c \in Cli : Managing(c, k) => InHand(c, p, k)
Kept == \A k \in FileName \ spoiled, p \in Pid : Accounted(p, k)

Tended == IInv /\ Alone /\ Kept

\* No tunnel starts, and none that is left is another one.
Continues ==
  \A p \in Pid : Live(p)' /\ proc'[p].out = "log" =>
    /\ proc'[p].st = proc[p].st /\ proc'[p].port = proc[p].port
    /\ proc'[p].file = proc[p].file /\ proc'[p].out = proc[p].out

\* A killed process is not alive; nothing else changes.
LEMMA KilledEnds ==
  ASSUME Typed, NEW p \in Pid
  PROVE  \A q \in Pid : Killed(p)[q].st \in {"starting", "listening"} =>
           Killed(p)[q] = proc[q] /\ q # p
<1>1. proc \in [Pid -> {Free} \cup Process]
  BY DEF Typed
<1>2. CASE ~ Live(p)
  BY <1>1, <1>2 DEF Killed, Live
<1>3. CASE Live(p)
  <2> DEFINE v == IF proc[p].parent = {} THEN Free ELSE [proc[p] EXCEPT !.st = "exited", !.port = 0, !.told = FALSE]
  <2>1. proc[p] \in Process
    BY <1>1, <1>3 DEF Live, Free
  <2>2. v.st \notin {"starting", "listening"}
    BY <2>1 DEF Process, Free
  <2>3. Killed(p) = [proc EXCEPT ![p] = v]
    BY <1>3 DEF Killed
  <2> HIDE DEF v
  <2> QED
    BY <1>1, <2>2, <2>3
<1> QED
  BY <1>2, <1>3

\* The end of a command orphans its children and leaves the others alone.
LEMMA QuitContinues ==
  ASSUME Typed, NEW c \in Cli, NEW procs \in [Pid -> {Free} \cup Process], Quit(c, procs),
         \A q \in Pid : procs[q].st \in {"starting", "listening"} => procs[q] = proc[q]
  PROVE  /\ Continues
         /\ \A q \in Pid : Live(q)' => procs[q].st \in {"starting", "listening"}
<1>1. proc' = [p \in Pid |->
           IF procs[p] = Free \/ procs[p].parent # {c} THEN procs[p]
           ELSE IF procs[p].st = "exited" THEN Free ELSE [procs[p] EXCEPT !.parent = {}]]
  BY DEF Quit
<1>2. ASSUME NEW q \in Pid, Live(q)'
      PROVE  /\ procs[q].st \in {"starting", "listening"}
             /\ proc'[q].st = procs[q].st /\ proc'[q].port = procs[q].port
             /\ proc'[q].file = procs[q].file /\ proc'[q].out = procs[q].out
  <2>0. proc'[q].st \in {"starting", "listening"}
    BY <1>2 DEF Live
  <2>1. CASE procs[q] = Free \/ procs[q].parent # {c}
    BY <1>1, <2>0, <2>1
  <2>2. CASE procs[q] \in Process /\ procs[q].parent = {c} /\ procs[q].st = "exited"
    BY <1>1, <2>0, <2>2 DEF Free
  <2>3. CASE procs[q] \in Process /\ procs[q].parent = {c} /\ procs[q].st # "exited"
    <3>1. proc'[q] = [procs[q] EXCEPT !.parent = {}]
      BY <1>1, <2>3 DEF Process, Free
    <3> QED
      BY <2>3, <3>1 DEF Process
  <2> QED
    BY <2>1, <2>2, <2>3
<1> QED
  BY <1>2 DEF Continues

\* Files that no step and no command at them touches.
LEMMA Elsewhere ==
  ASSUME NEW k \in FileName, NEW p \in Pid, Accounted(p, k), Continues,
         file'[k] = file[k], log'[k] = log[k],
         \A c \in Cli : (Managing(c, k) \/ Managing(c, k)') => cli'[c] = cli[c]
  PROVE  Accounted(p, k)'
<1>1. SUFFICES ASSUME Tunneling(p, k)'
               PROVE  /\ (\A c \in Cli : ~ Managing(c, k)') => OnRecord(p, k)'
                      /\ \A c \in Cli : Managing(c, k)' => InHand(c, p, k)'
  BY DEF Accounted
<1>2. /\ proc'[p].st = proc[p].st /\ proc'[p].port = proc[p].port
      /\ Tunneling(p, k)
  BY <1>1 DEF Tunneling, Continues, Live
<1>3. \A c \in Cli : Managing(c, k)' <=> Managing(c, k)
  BY DEF Managing
<1>4. OnRecord(p, k)' <=> OnRecord(p, k)
  BY <1>2 DEF OnRecord
<1>5. ASSUME NEW c \in Cli, Managing(c, k)'
      PROVE  InHand(c, p, k)'
  <2>1. InHand(c, p, k) /\ cli'[c] = cli[c]
    BY <1>2, <1>3, <1>5 DEF Accounted
  <2>2. \A o : Listening(p, o)' <=> Listening(p, o)
    BY <1>2 DEF Listening
  <2> QED
    BY <1>4, <2>1, <2>2 DEF InHand, Listening
<1> QED
  BY <1>2, <1>3, <1>4, <1>5 DEF Accounted

\* A command that is alone at its files, and goes on.
LEMMA AtTheFiles ==
  ASSUME NEW k \in FileName, NEW p \in Pid, NEW c \in Cli,
         \A d \in Cli \ {c} : ~ Managing(d, k)',
         Tunneling(p, k)' => IF Managing(c, k)' THEN InHand(c, p, k)' ELSE OnRecord(p, k)'
  PROVE  Accounted(p, k)'
  BY DEF Accounted

\* Commands stay alone when none comes to files where one is.
LEMMA StayAlone ==
  ASSUME Alone, NEW c \in Cli, NEW v, Typed, cli' = [cli EXCEPT ![c] = v], spoiled \subseteq spoiled',
         \A k \in FileName \ spoiled' : Managing(c, k)' => Managing(c, k) \/ \A d \in Cli : ~ Managing(d, k)
  PROVE  Alone'
<1>1. \A d \in Cli \ {c} : cli'[d] = cli[d]
  BY DEF Typed
<1>2. \A d \in Cli \ {c}, k \in FileName : Managing(d, k)' <=> Managing(d, k)
  BY <1>1 DEF Managing
<1> QED
  BY <1>2 DEF Alone

\* A step that is not at any files.
LEMMA AwayFromFiles ==
  ASSUME Tended, NEW c \in Cli, NEW v, cli' = [cli EXCEPT ![c] = v],
         \A k \in FileName : ~ Managing(c, k) /\ ~ Managing(c, k)',
         Continues, UNCHANGED <<file, log, spoiled>>
  PROVE  Alone' /\ Kept'
<1>1. Alone'
  BY StayAlone DEF Tended, IInv
<1>2. ASSUME NEW k \in FileName, NEW p \in Pid, Accounted(p, k)
      PROVE  Accounted(p, k)'
  <2>1. \A d \in Cli \ {c} : cli'[d] = cli[d]
    BY DEF Tended, IInv, Typed
  <2> QED
    BY <1>2, <2>1, Elsewhere
<1> QED
  BY <1>1, <1>2 DEF Tended, Kept

\* A step at the files of one name: the others are as they were.
LEMMA AtFilesOf ==
  ASSUME Tended, NEW c \in Cli, NEW j \in FileName, NEW v, cli' = [cli EXCEPT ![c] = v],
         Managing(c, j) \/ \A k \in FileName : ~ Managing(c, k),
         \A k \in FileName \ {j} : ~ Managing(c, k) /\ ~ Managing(c, k)',
         spoiled \subseteq spoiled',
         j \notin spoiled' => Managing(c, j) \/ \A d \in Cli : ~ Managing(d, j),
         Continues,
         \A k \in FileName \ {j} : file'[k] = file[k] /\ log'[k] = log[k],
         \A p \in Pid : j \notin spoiled' /\ Tunneling(p, j)' =>
           IF Managing(c, j)' THEN InHand(c, p, j)' ELSE OnRecord(p, j)'
  PROVE  Alone' /\ Kept'
<1>1. \A d \in Cli \ {c} : cli'[d] = cli[d]
  BY DEF Tended, IInv, Typed
<1>2. Alone'
  <2>1. \A k \in FileName \ spoiled' : Managing(c, k)' => Managing(c, k) \/ \A d \in Cli : ~ Managing(d, k)
    OBVIOUS
  <2> QED
    BY <2>1, StayAlone DEF Tended, IInv
<1>3. ASSUME NEW k \in FileName \ spoiled', NEW p \in Pid
      PROVE  Accounted(p, k)'
  <2>1. Accounted(p, k)
    BY <1>3 DEF Tended, Kept
  <2>2. CASE k # j
    BY <1>1, <2>1, <2>2, Elsewhere
  <2>3. CASE k = j
    <3>1. \A d \in Cli \ {c} : ~ Managing(d, j)
      BY <1>3, <2>3 DEF Tended, Alone
    <3>2. \A d \in Cli \ {c} : ~ Managing(d, j)'
      BY <1>1, <3>1 DEF Managing
    <3> QED
      BY <1>3, <2>3, <3>2, AtTheFiles
  <2> QED
    BY <2>2, <2>3
<1> QED
  BY <1>2, <1>3 DEF Kept

\* The record is read by a command that finds nobody at the files.
LEMMA FindStopKept ==
  ASSUME Tended, NEW c \in Cli, NEW k \in Context, Find(c, k) \/ Stop(c, k)
  PROVE  Alone' /\ Kept'
<1>0. PICK j \in FileName : j = SanitizeContext[k]
  BY TunnelAssumption
<1> DEFINE v == IF Find(c, k)
                THEN IF file[j].kind = "info"
                     THEN [pc |-> "probe", file |-> j, info |-> file[j], next |-> "spawn"]
                     ELSE [pc |-> "spawn", file |-> j]
                ELSE [pc |-> "kill", file |-> j, info |-> file[j], next |-> "idle"]
<1>1. UNCHANGED <<file, log, proc>> /\ cli[c].pc = "idle"
      /\ spoiled' = IF \E d \in Cli : Managing(d, j) THEN spoiled \cup {j} ELSE spoiled
  BY <1>0 DEF Find, Stop, Command, At
<1>2. cli' = [cli EXCEPT ![c] = v]
  BY <1>0 DEF Find, Stop
<1>3. cli'[c] = v /\ v.file = j /\ v.pc \in {"probe", "spawn", "kill"}
      /\ (v.pc = "spawn" => file[j].kind # "info")
      /\ (v.pc # "spawn" => v.info = file[j])
  BY <1>2 DEF Tended, IInv, Typed
<1> HIDE DEF v
<1>4. \A f \in FileName : ~ Managing(c, f) /\ (Managing(c, f)' <=> f = j)
  BY <1>1, <1>3 DEF Managing
<1>5. spoiled \subseteq spoiled' /\ (j \notin spoiled' => \A d \in Cli : ~ Managing(d, j))
  BY <1>1
<1>6. Continues
  BY <1>1 DEF Continues
<1>7. ASSUME NEW p \in Pid, j \notin spoiled', Tunneling(p, j)'
      PROVE  InHand(c, p, j)'
  <2>1. OnRecord(p, j)
    BY <1>1, <1>5, <1>7 DEF Tended, Kept, Accounted, Tunneling, Live
  <2>2. OnRecord(p, j)' /\ file[j].kind = "info"
    BY <1>1, <2>1 DEF OnRecord, Info
  <2> QED
    BY <1>1, <1>3, <2>2 DEF InHand
<1> QED
  BY <1>1, <1>2, <1>4, <1>5, <1>6, <1>7, AtFilesOf

\* What a manager knows of the tunnel before its step.
LEMMA ManagerKnows ==
  ASSUME Tended, NEW c \in Cli, NEW k \in FileName \ spoiled, NEW p \in Pid, Managing(c, k), Tunneling(p, k)
  PROVE  InHand(c, p, k)
  BY DEF Tended, Kept, Accounted

\* The recorded tunnel is answered, or killed before its record is removed.
LEMMA RecordedKept ==
  ASSUME Tended, NEW c \in Cli, Reuse(c) \/ Reject(c) \/ Kill(c) \/ Remove(c)
  PROVE  Alone' /\ Kept'
<1>1. cli[c] \in Recorded
  BY Shapes DEF Tended, IInv, Reuse, Reject, Kill, Remove, At
<1>2. PICK j \in FileName : j = cli[c].file /\ cli[c].info.pid \in Pid
  BY <1>1, InfoFacts DEF Recorded
<1>3. Managing(c, j) /\ \A k \in FileName \ {j} : ~ Managing(c, k)
  BY <1>2 DEF Managing, Reuse, Reject, Kill, Remove, At
<1>4. spoiled' = spoiled
  BY DEF Reuse, Reject, Kill, Remove, history
<1>5. ASSUME NEW p \in Pid, j \notin spoiled', Tunneling(p, j)
      PROVE  InHand(c, p, j)
  BY <1>2, <1>3, <1>4, <1>5, ManagerKnows
<1>6. CASE Reuse(c)
  <2>0. PICK q \in Pid : Use(c, cli[c].info.port, proc[q].file)
    BY <1>6 DEF Reuse, Servers
  <2> DEFINE v == [pc |-> "done", file |-> cli[c].file, port |-> cli[c].info.port, server |-> proc[q].file]
  <2>1. cli' = [cli EXCEPT ![c] = v] /\ UNCHANGED <<file, log, proc>> /\ cli[c].pc = "probe"
    BY <1>6, <2>0 DEF Reuse, Use, At
  <2>2. \A k \in FileName : ~ Managing(c, k)'
    BY <2>1 DEF Managing, Tended, IInv, Typed
  <2>3. Continues
    BY <2>1 DEF Continues
  <2>4. ASSUME NEW p \in Pid, j \notin spoiled', Tunneling(p, j)'
        PROVE  OnRecord(p, j)'
    <3>1. InHand(c, p, j)
      BY <1>5, <2>1, <2>4 DEF Tunneling, Live
    <3> QED
      BY <2>1, <3>1 DEF InHand, OnRecord
  <2> HIDE DEF v
  <2> QED
    BY <1>2, <1>3, <1>4, <2>1, <2>2, <2>3, <2>4, AtFilesOf
<1>7. ASSUME NEW step \in {"kill", "remove"}, cli' = [cli EXCEPT ![c].pc = step]
      PROVE  LET v == [cli[c] EXCEPT !.pc = step]
             IN  /\ cli' = [cli EXCEPT ![c] = v] /\ cli'[c].pc = step /\ cli'[c].info = cli[c].info
                 /\ \A k \in FileName : Managing(c, k)' <=> k = j
  <2>1. cli'[c] = [cli[c] EXCEPT !.pc = step]
    BY <1>7 DEF Tended, IInv, Typed
  <2>2. cli'[c].pc = step /\ cli'[c].info = cli[c].info /\ cli'[c].file = cli[c].file
    BY <1>1, <2>1 DEF Recorded
  <2> QED
    BY <1>2, <1>7, <2>2 DEF Managing, Tended, IInv, Typed
<1>8. CASE Reject(c)
  <2>1. cli' = [cli EXCEPT ![c].pc = "kill"] /\ UNCHANGED <<file, log, proc>> /\ cli[c].pc = "probe"
    BY <1>8 DEF Reject, At, Goto
  <2> DEFINE v == [cli[c] EXCEPT !.pc = "kill"]
  <2>2. cli' = [cli EXCEPT ![c] = v] /\ cli'[c].pc = "kill" /\ cli'[c].info = cli[c].info
        /\ \A k \in FileName : Managing(c, k)' <=> k = j
    BY <1>7, <2>1
  <2>3. Continues
    BY <2>1 DEF Continues
  <2>4. ASSUME NEW p \in Pid, j \notin spoiled', Tunneling(p, j)'
        PROVE  InHand(c, p, j)'
    <3>1. InHand(c, p, j)
      BY <1>5, <2>1, <2>4 DEF Tunneling, Live
    <3> QED
      BY <2>1, <2>2, <3>1 DEF InHand, OnRecord
  <2> HIDE DEF v
  <2> QED
    BY <1>2, <1>3, <1>4, <2>1, <2>2, <2>3, <2>4, AtFilesOf
<1>9. CASE Kill(c)
  <2>1. cli' = [cli EXCEPT ![c].pc = "remove"] /\ UNCHANGED <<file, log>> /\ cli[c].pc = "kill"
        /\ proc' = Killed(cli[c].info.pid)
    BY <1>9 DEF Kill, At, Goto
  <2> DEFINE v == [cli[c] EXCEPT !.pc = "remove"]
  <2>2. cli' = [cli EXCEPT ![c] = v] /\ \A k \in FileName : Managing(c, k)' <=> k = j
    BY <1>7, <2>1
  <2>3. \A q \in Pid : Live(q)' => proc'[q] = proc[q] /\ q # cli[c].info.pid
    BY <1>2, <2>1, KilledEnds DEF Tended, IInv, Live
  <2>4. Continues
    BY <2>3 DEF Continues
  <2>5. ASSUME NEW p \in Pid, j \notin spoiled', Tunneling(p, j)'
        PROVE  FALSE
    <3>1. Tunneling(p, j) /\ p # cli[c].info.pid
      BY <2>3, <2>5 DEF Tunneling, Live
    <3>2. cli[c].info = Info(proc[p].port, p)
      BY <1>5, <2>1, <2>5, <3>1 DEF InHand, OnRecord
    <3> QED
      BY <3>1, <3>2 DEF Info
  <2> HIDE DEF v
  <2> QED
    BY <1>2, <1>3, <1>4, <2>1, <2>2, <2>4, <2>5, AtFilesOf
<1>10. CASE Remove(c)
  <2>1. file' = [file EXCEPT ![j] = Absent] /\ log' = log /\ cli[c].pc = "remove"
    BY <1>2, <1>10 DEF Remove, At
  <2> DEFINE v == IF cli[c].next = "idle" THEN Idle ELSE [pc |-> "spawn", file |-> j]
  <2>2. cli' = [cli EXCEPT ![c] = v]
    BY <1>2, <1>10 DEF Remove, Quit
  <2>3. cli'[c] = v /\ \A k \in FileName \ {j} : ~ Managing(c, k)'
    BY <1>2, <2>2 DEF Managing, Tended, IInv, Typed, Idle
  <2>4. Continues /\ \A q \in Pid : Live(q)' => Live(q)
    <3>1. CASE Quit(c, proc)
      BY <3>1, QuitContinues DEF Tended, IInv, Typed, Continues, Live
    <3>2. CASE proc' = proc
      BY <3>2 DEF Continues, Live
    <3> QED
      BY <1>10, <3>1, <3>2 DEF Remove
  <2>5. ASSUME NEW p \in Pid, j \notin spoiled', Tunneling(p, j)'
        PROVE  FALSE
    <3>1. InHand(c, p, j)
      BY <1>5, <2>4, <2>5 DEF Tunneling, Continues
    <3> QED
      BY <2>1, <3>1 DEF InHand
  <2>6. \A k \in FileName \ {j} : file'[k] = file[k]
    BY <2>1 DEF Tended, IInv, Typed
  <2> HIDE DEF v
  <2> QED
    BY <1>2, <1>3, <1>4, <2>1, <2>2, <2>3, <2>4, <2>5, <2>6, AtFilesOf
<1> QED
  BY <1>6, <1>8, <1>9, <1>10

\* There is no tunnel when one is started: it is the only one.
LEMMA SpawnKept ==
  ASSUME Tended, NEW c \in Cli, Spawn(c) \/ SpawnFails(c)
  PROVE  Alone' /\ Kept'
<1>1. cli[c] \in Spawning /\ cli[c].pc = "spawn"
  BY Shapes DEF Tended, IInv, Spawn, SpawnFails, At
<1>2. PICK j \in FileName : j = cli[c].file
  BY <1>1 DEF Spawning
<1>3. Managing(c, j) /\ \A k \in FileName \ {j} : ~ Managing(c, k)
  BY <1>1, <1>2 DEF Managing
<1>4. spoiled' = spoiled /\ log' = [log EXCEPT ![j] = 0] /\ file' = file
  BY <1>2 DEF Spawn, SpawnFails, history
<1>5. log'[j] = 0 /\ \A k \in FileName \ {j} : log'[k] = log[k] /\ file'[k] = file[k]
  BY <1>2, <1>4 DEF Tended, IInv, Typed
<1>6. ASSUME NEW p \in Pid, j \notin spoiled', Tunneling(p, j)
      PROVE  FALSE
  <2>1. InHand(c, p, j)
    BY <1>2, <1>3, <1>4, <1>6, ManagerKnows
  <2> QED
    BY <1>1, <2>1 DEF InHand
<1>7. CASE SpawnFails(c)
  <2>1. Quit(c, proc) /\ proc \in [Pid -> {Free} \cup Process]
    BY <1>7 DEF SpawnFails, Tended, IInv, Typed
  <2>2. Continues /\ \A q \in Pid : Live(q)' => Live(q)
    BY <2>1, QuitContinues DEF Tended, IInv, Live
  <2>3. cli' = [cli EXCEPT ![c] = Idle] /\ \A k \in FileName : ~ Managing(c, k)'
    BY <2>1 DEF Quit, Managing, Idle, Tended, IInv, Typed
  <2>4. \A p \in Pid : j \notin spoiled' => ~ Tunneling(p, j)'
    BY <1>6, <2>2 DEF Tunneling, Continues
  <2> QED
    BY <1>2, <1>3, <1>4, <1>5, <2>2, <2>3, <2>4, AtFilesOf
<1>8. CASE Spawn(c)
  <2>1. PICK p \in Pid :
          /\ proc[p] = Free
          /\ proc' = [proc EXCEPT ![p] = Started(c, "log")]
          /\ cli' = [cli EXCEPT ![c] = [pc |-> "port", file |-> cli[c].file, pid |-> p]]
    BY <1>8 DEF Spawn
  <2> DEFINE v == [pc |-> "port", file |-> j, pid |-> p]
  <2>2. cli' = [cli EXCEPT ![c] = v] /\ cli'[c].pc = "port" /\ cli'[c].pid = p
        /\ \A k \in FileName : Managing(c, k)' <=> k = j
    BY <1>2, <2>1 DEF Managing, Tended, IInv, Typed
  <2>3. proc'[p] = Started(c, "log") /\ \A q \in Pid \ {p} : proc'[q] = proc[q]
    BY <2>1 DEF Tended, IInv, Typed
  <2>4. \A q \in Pid : j \notin spoiled' /\ Tunneling(q, j)' => InHand(c, q, j)'
    BY <1>5, <1>6, <2>2, <2>3 DEF InHand, Tunneling, Live
  <2>5. Alone'
    <3>1. \A k \in FileName \ spoiled' : Managing(c, k)' => Managing(c, k)
      BY <1>3, <2>2
    <3> HIDE DEF v
    <3> QED
      BY <1>4, <2>2, <3>1, StayAlone DEF Tended, IInv
  <2>6. ASSUME NEW k \in FileName \ spoiled', NEW q \in Pid
        PROVE  Accounted(q, k)'
    <3>1. \A d \in Cli \ {c} : cli'[d] = cli[d]
      BY <2>2 DEF Tended, IInv, Typed
    <3>2. CASE k = j
      <4>1. \A d \in Cli \ {c} : ~ Managing(d, j)
        BY <1>3, <1>4, <2>6, <3>2 DEF Tended, Alone
      <4>2. \A d \in Cli \ {c} : ~ Managing(d, j)'
        BY <3>1, <4>1 DEF Managing
      <4> QED
        BY <2>2, <2>4, <2>6, <3>2, <4>2, AtTheFiles
    <3>3. CASE k # j /\ q = p
      BY <1>2, <2>3, <3>3 DEF Accounted, Tunneling, Started
    <3>4. CASE k # j /\ q # p
      <4>1. Accounted(q, k) /\ proc'[q] = proc[q]
        BY <1>4, <2>3, <2>6, <3>4 DEF Tended, Kept
      <4>2. \A d \in Cli : Managing(d, k) \/ Managing(d, k)' => cli'[d] = cli[d]
        BY <1>3, <2>2, <3>1, <3>4
      <4>3. \A d \in Cli : Managing(d, k)' <=> Managing(d, k)
        BY <4>2 DEF Managing
      <4>4. \A d \in Cli : Managing(d, k)' /\ InHand(d, q, k) => InHand(d, q, k)'
        BY <1>5, <3>4, <4>1, <4>2 DEF InHand, OnRecord, Listening
      <4> QED
        BY <1>5, <3>4, <4>1, <4>3, <4>4 DEF Accounted, Tunneling, Live, OnRecord
    <3> QED
      BY <3>2, <3>3, <3>4
  <2> QED
    BY <2>5, <2>6 DEF Kept
<1> QED
  BY <1>7, <1>8

\* The port in the log is that of the only tunnel of the file.
LEMMA AwaitKept ==
  ASSUME Tended, NEW c \in Cli, AwaitPort(c) \/ AwaitHealth(c)
  PROVE  Alone' /\ Kept'
<1>1. /\ AwaitPort(c) => cli[c] \in Begun /\ cli[c].pc = "port"
      /\ AwaitHealth(c) => cli[c] \in Answering /\ cli[c].pc = "health"
  BY Shapes DEF Tended, IInv, AwaitPort, AwaitHealth, At
<1>2. PICK j \in FileName : j = cli[c].file
  BY <1>1 DEF Begun, Answering
<1>3. Managing(c, j) /\ \A k \in FileName \ {j} : ~ Managing(c, k)
  BY <1>1, <1>2 DEF Managing
<1>4. UNCHANGED <<file, log, proc, spoiled>> /\ Continues
  BY DEF AwaitPort, AwaitHealth, history, Continues
<1>5. ASSUME NEW p \in Pid, j \notin spoiled', Tunneling(p, j)'
      PROVE  InHand(c, p, j)
  BY <1>2, <1>3, <1>4, <1>5, ManagerKnows DEF Tunneling, Live
<1>6. CASE AwaitPort(c)
  <2> DEFINE v == [pc |-> "health", port |-> log[cli[c].file],
                   file |-> cli[c].file, pid |-> cli[c].pid]
  <2>1. cli' = [cli EXCEPT ![c] = v] /\ log[j] # 0
    BY <1>2, <1>6 DEF AwaitPort
  <2>2. cli'[c].pc = "health" /\ cli'[c].port = log[j] /\ cli'[c].pid = cli[c].pid
        /\ \A k \in FileName : Managing(c, k)' <=> k = j
    BY <1>2, <2>1 DEF Managing, Tended, IInv, Typed
  <2>3. \A p \in Pid : j \notin spoiled' /\ Tunneling(p, j)' => InHand(c, p, j)'
    BY <1>1, <1>4, <1>5, <1>6, <2>1, <2>2 DEF InHand, Listening
  <2> HIDE DEF v
  <2> QED
    BY <1>3, <1>4, <2>1, <2>2, <2>3, AtFilesOf
<1>7. CASE AwaitHealth(c)
  <2>0. PICK q \in Pid :
          cli' = [cli EXCEPT ![c] = [pc |-> "save", file |-> cli[c].file, port |-> cli[c].port,
                                     pid |-> cli[c].pid, server |-> proc[q].file]]
    BY <1>7 DEF AwaitHealth, Servers
  <2> DEFINE v == [pc |-> "save", file |-> cli[c].file, port |-> cli[c].port,
                   pid |-> cli[c].pid, server |-> proc[q].file]
  <2>1. cli' = [cli EXCEPT ![c] = v]
    BY <2>0
  <2>2. cli'[c].pc = "save" /\ cli'[c].port = cli[c].port /\ cli'[c].pid = cli[c].pid
        /\ \A k \in FileName : Managing(c, k)' <=> k = j
    BY <1>1, <1>2, <1>7, <2>1 DEF Answering, Managing, Tended, IInv, Typed
  <2>3. \A p \in Pid : j \notin spoiled' /\ Tunneling(p, j)' => InHand(c, p, j)'
    BY <1>1, <1>4, <1>5, <1>7, <2>2 DEF InHand, Listening
  <2> HIDE DEF v
  <2> QED
    BY <1>3, <1>4, <2>1, <2>2, <2>3, AtFilesOf
<1> QED
  BY <1>6, <1>7

\* What is recorded is the tunnel's process and its port.
LEMMA SaveKept ==
  ASSUME Tended, NEW c \in Cli, Truncate(c) \/ SaveTunnel(c) \/ SaveFails(c)
  PROVE  Alone' /\ Kept'
<1>1. cli[c] \in Saving
  BY Shapes DEF Tended, IInv, Truncate, SaveTunnel, SaveFails, At
<1>2. PICK j \in FileName : j = cli[c].file
  BY <1>1 DEF Saving
<1>3. Managing(c, j) /\ \A k \in FileName \ {j} : ~ Managing(c, k)
  BY <1>1, <1>2 DEF Managing, Saving
<1>4. UNCHANGED <<log, proc>> /\ Continues /\ spoiled \subseteq spoiled'
      /\ (SaveFails(c) => j \in spoiled')
  BY <1>2 DEF Truncate, SaveTunnel, SaveFails, history, Continues
<1>5. ASSUME NEW p \in Pid, j \notin spoiled', Tunneling(p, j)'
      PROVE  p = cli[c].pid /\ Listening(p, cli[c].port)
  <2>1. InHand(c, p, j)
    BY <1>2, <1>3, <1>4, <1>5, ManagerKnows DEF Tunneling, Live
  <2> QED
    BY <1>1, <2>1 DEF InHand, Saving
<1> DEFINE use == [pc |-> "done", file |-> cli[c].file, port |-> cli[c].port, server |-> cli[c].server]
           saving == [cli[c] EXCEPT !.pc = "saving"]
<1>6. PICK step \in {"saving", "done"} :
        /\ step = "saving" <=> Truncate(c)
        /\ cli' = [cli EXCEPT ![c] = IF step = "saving" THEN saving ELSE use]
  <2>1. CASE Truncate(c)
    BY <2>1 DEF Truncate, Goto, Tended, IInv, Typed
  <2>2. CASE SaveTunnel(c) \/ SaveFails(c)
    <3>1. ~ Truncate(c)
      BY <2>2 DEF Truncate, SaveTunnel, SaveFails, At
    <3> QED
      BY <2>2, <3>1 DEF SaveTunnel, SaveFails, Use
  <2> QED
    BY <2>1, <2>2
<1> DEFINE v == IF step = "saving" THEN saving ELSE use
<1>7. cli' = [cli EXCEPT ![c] = v]
  BY <1>6
<1>8. /\ cli'[c].pc = step /\ cli'[c].port = cli[c].port
      /\ step = "saving" => cli'[c].pid = cli[c].pid
      /\ \A k \in FileName : Managing(c, k)' <=> (k = j /\ step = "saving")
  <2>1. cli'[c] = v
    BY <1>7 DEF Tended, IInv, Typed
  <2>2. v.pc = step /\ v.port = cli[c].port /\ v.file = j /\ (step = "saving" => v.pid = cli[c].pid)
    BY <1>1, <1>2 DEF Saving
  <2> QED
    BY <2>1, <2>2 DEF Managing
<1>9. \A k \in FileName \ {j} : file'[k] = file[k]
  BY <1>2 DEF Truncate, SaveTunnel, SaveFails, Tended, IInv, Typed
<1>10. ASSUME NEW p \in Pid, j \notin spoiled', Tunneling(p, j)'
       PROVE  IF Managing(c, j)' THEN InHand(c, p, j)' ELSE OnRecord(p, j)'
  <2>1. CASE step = "saving"
    BY <1>4, <1>5, <1>8, <1>10, <2>1 DEF InHand, Listening
  <2>2. CASE step = "done"
    <3>1. SaveTunnel(c)
      BY <1>4, <1>6, <1>10, <2>2
    <3>2. file'[j] = Info(cli[c].port, cli[c].pid)
      BY <1>2, <3>1 DEF SaveTunnel, Tended, IInv, Typed
    <3> QED
      BY <1>4, <1>5, <1>8, <1>10, <2>2, <3>2 DEF OnRecord, Listening
  <2> QED
    BY <2>1, <2>2
<1> HIDE DEF v, use, saving
<1> QED
  BY <1>2, <1>3, <1>4, <1>7, <1>8, <1>9, <1>10, AtFilesOf

\* A command that gives up has killed the tunnel; one that is interrupted at the
\* files spoils them; the others were not at them.
LEMMA EndKept ==
  ASSUME Tended, NEW c \in Cli,
         \/ GiveUp(c) \/ Finish(c) \/ ForwardTimeout(c) \/ Interrupt(c)
         \/ \E code \in Exec : EndSession(c, code)
  PROVE  Alone' /\ Kept'
<1>1. UNCHANGED <<file, log>>
  BY DEF GiveUp, Finish, ForwardTimeout, Interrupt, EndSession
<1>2. cli' = [cli EXCEPT ![c] = Idle]
  BY DEF GiveUp, Finish, ForwardTimeout, Interrupt, EndSession, Quit
<1>3. \A k \in FileName : ~ Managing(c, k)'
  BY <1>2 DEF Managing, Idle, Tended, IInv, Typed
<1>4. cli[c].pc \in {"port", "health", "forward", "session"} => cli[c].pid \in Pid
  BY Shapes DEF Tended, IInv, Begun, Answering
<1>5. /\ proc \in [Pid -> {Free} \cup Process]
      /\ \A q \in Pid : proc[q].st \in {"starting", "listening"} => proc[q] = proc[q]
  BY DEF Tended, IInv, Typed
<1>6. ASSUME NEW p \in Pid
      PROVE  /\ Killed(p) \in [Pid -> {Free} \cup Process]
             /\ \A q \in Pid : Killed(p)[q].st \in {"starting", "listening"} => Killed(p)[q] = proc[q] /\ q # p
  BY KilledFacts, KilledEnds DEF Tended, IInv
<1>7. Continues
  <2>1. CASE Quit(c, proc)
    BY <1>5, <2>1, QuitContinues DEF Tended, IInv
  <2>2. CASE cli[c].pid \in Pid /\ Quit(c, Killed(cli[c].pid))
    BY <1>6, <2>2, QuitContinues DEF Tended, IInv
  <2> QED
    BY <1>4, <2>1, <2>2 DEF GiveUp, Finish, ForwardTimeout, Interrupt, EndSession, At
<1>8. CASE \A k \in FileName : ~ Managing(c, k)
  <2>1. spoiled' = spoiled
    <3>1. CASE Interrupt(c) /\ At(c, "done")
      BY <3>1 DEF Interrupt, Managing, At
    <3>2. CASE Interrupt(c) /\ ~ At(c, "done")
      <4>1. ~ Managing(c, cli[c].file)
        BY <1>8, <3>2, Shapes DEF Tended, IInv, Interrupt, At, Managing, Begun, Recorded, Spawning, Answering, Saving
      <4> QED
        BY <3>2, <4>1 DEF Interrupt
    <3> QED
      BY <3>1, <3>2 DEF GiveUp, Finish, ForwardTimeout, EndSession, history
  <2> QED
    BY <1>1, <1>2, <1>3, <1>7, <1>8, <2>1, AwayFromFiles
<1>9. CASE \E k \in FileName : Managing(c, k)
  <2>1. PICK j \in FileName : Managing(c, j)
    BY <1>9
  <2>2. j = cli[c].file /\ \A k \in FileName \ {j} : ~ Managing(c, k)
    BY <2>1 DEF Managing
  <2>3. spoiled \subseteq spoiled' /\ (Interrupt(c) => j \in spoiled')
    BY <2>1, <2>2 DEF GiveUp, Finish, ForwardTimeout, Interrupt, EndSession, history
  <2>4. ASSUME NEW p \in Pid, j \notin spoiled', Tunneling(p, j)'
        PROVE  FALSE
    <3>1. GiveUp(c)
      BY <2>1, <2>3, <2>4 DEF Managing, Finish, ForwardTimeout, EndSession, At
    <3>2. cli[c].pid \in Pid /\ Quit(c, Killed(cli[c].pid)) /\ cli[c].pc \in {"port", "health"}
      BY <1>4, <3>1 DEF GiveUp
    <3>3. p # cli[c].pid
      BY <1>6, <2>4, <3>2, QuitContinues DEF Tended, IInv, Tunneling
    <3>4. Tunneling(p, j)
      BY <1>7, <2>4 DEF Tunneling, Continues, Live
    <3>5. InHand(c, p, j)
      BY <2>1, <2>3, <2>4, <3>4, ManagerKnows
    <3> QED
      BY <3>2, <3>3, <3>5 DEF InHand
  <2> QED
    BY <1>1, <1>2, <1>3, <1>7, <2>1, <2>2, <2>3, <2>4, AtFilesOf
<1> QED
  BY <1>8, <1>9

\* A session has nothing to do with the files.
LEMMA SessionKept ==
  ASSUME Tended, NEW c \in Cli, Forward(c) \/ ReadPipe(c) \/ SendPort(c) \/ Forwarded(c)
  PROVE  Alone' /\ Kept'
<1>1. UNCHANGED <<file, log, spoiled>>
  BY DEF Forward, ReadPipe, SendPort, Forwarded, history
<1>2. Continues
  <2>1. CASE proc' = proc
    BY <2>1 DEF Continues, Live
  <2>2. CASE Forward(c)
    BY <2>2 DEF Forward, Continues, Live, Started, Tended, IInv, Typed
  <2> QED
    BY <2>1, <2>2 DEF ReadPipe, SendPort, Forwarded
<1>3. CASE cli' = cli
  <2>1. cli' = [cli EXCEPT ![c] = cli[c]]
    BY <1>3 DEF Tended, IInv, Typed
  <2>2. \A k \in FileName, p \in Pid : Accounted(p, k) => Accounted(p, k)'
    BY <1>1, <1>2, <1>3, Elsewhere
  <2> QED
    BY <1>1, <1>3, <2>2 DEF Tended, Alone, Kept, Managing
<1>4. CASE Forward(c)
  <2>1. PICK p \in Pid : cli' = [cli EXCEPT ![c] = [pc |-> "forward", file |-> cli[c].file, pid |-> p]]
    BY <1>4 DEF Forward
  <2> DEFINE v == [pc |-> "forward", file |-> cli[c].file, pid |-> p]
  <2>2. \A k \in FileName : ~ Managing(c, k) /\ ~ Managing(c, k)'
    BY <1>4, <2>1 DEF Forward, At, Managing, Tended, IInv, Typed
  <2> HIDE DEF v
  <2>3. cli' = [cli EXCEPT ![c] = v]
    BY <2>1 DEF v
  <2> QED
    BY <1>1, <1>2, <2>2, <2>3, AwayFromFiles
<1>5. CASE Forwarded(c)
  <2> DEFINE v == [cli[c] EXCEPT !.pc = "session"]
  <2>1. cli' = [cli EXCEPT ![c] = v] /\ cli[c].pc = "forward" /\ cli[c] \in Begun
    BY <1>5, Shapes DEF Forwarded, Goto, At, Tended, IInv, Typed
  <2>2. cli'[c].pc = "session"
    BY <2>1 DEF Begun, Tended, IInv, Typed
  <2>3. \A k \in FileName : ~ Managing(c, k) /\ ~ Managing(c, k)'
    BY <2>1, <2>2 DEF Managing
  <2> HIDE DEF v
  <2> QED
    BY <1>1, <1>2, <2>1, <2>3, AwayFromFiles
<1> QED
  BY <1>3, <1>4, <1>5 DEF ReadPipe, SendPort

\* A tunnel gets its port and reports it while its command waits for it; it may
\* end at any time.
LEMMA KubectlKept ==
  ASSUME Tended, NEW p \in Pid, Kubectl(p) \/ Exit(p)
  PROVE  Alone' /\ Kept'
<1>1. UNCHANGED <<file, cli, spoiled>>
  BY DEF Kubectl, Listen, Report, PrintLine, Exit, history
<1>2. Alone'
  BY <1>1 DEF Tended, Alone, Managing
<1>3. \A c \in Cli, k \in FileName : Managing(c, k)' <=> Managing(c, k)
  BY <1>1 DEF Managing
<1>4. CASE PrintLine(p) \/ Exit(p)
  <2>1. log' = log
    BY <1>4 DEF PrintLine, Exit
  <2>2. Continues
    <3>1. CASE PrintLine(p)
      BY <3>1 DEF PrintLine, Continues, Live
    <3>2. CASE Exit(p)
      BY <3>2, KilledEnds DEF Exit, Continues, Live, Tended, IInv
    <3> QED
      BY <1>4, <3>1, <3>2
  <2>3. \A k \in FileName, q \in Pid : Accounted(q, k) => Accounted(q, k)'
    BY <1>1, <2>1, <2>2, Elsewhere
  <2> QED
    BY <1>1, <1>2, <2>3 DEF Tended, Kept
<1>5. CASE Listen(p)
  <2>1. PICK o \in Port : proc' = [proc EXCEPT ![p].st = "listening", ![p].port = o]
    BY <1>5 DEF Listen
  <2>2. proc[p] \in Process /\ proc[p].st = "starting" /\ log' = log
    BY <1>5 DEF Listen, Tended, IInv, Typed, Free
  <2>3. /\ proc'[p].file = proc[p].file /\ proc'[p].out = proc[p].out
        /\ \A q \in Pid \ {p} : proc'[q] = proc[q]
    BY <2>1, <2>2 DEF Process, Tended, IInv, Typed
  <2>4. ASSUME NEW k \in FileName \ spoiled', NEW q \in Pid, Tunneling(q, k)'
        PROVE  /\ (\A c \in Cli : ~ Managing(c, k)) => OnRecord(q, k)'
               /\ \A c \in Cli : Managing(c, k) => InHand(c, q, k)'
    <3>1. Tunneling(q, k) /\ Accounted(q, k)
      BY <1>1, <2>2, <2>3, <2>4 DEF Tunneling, Live, Tended, Kept
    <3>2. CASE q # p
      BY <1>1, <2>2, <2>3, <3>1, <3>2 DEF Accounted, OnRecord, InHand, Listening
    <3>3. CASE q = p
      <4>1. ~ OnRecord(q, k) /\ \A i : ~ Listening(q, i)
        BY <2>2, <3>3 DEF OnRecord, Listening
      <4>2. \A c \in Cli : Managing(c, k) => InHand(c, q, k)' 
        BY <1>1, <2>2, <3>1, <4>1 DEF Accounted, InHand
      <4> QED
        BY <3>1, <4>1, <4>2 DEF Accounted
    <3> QED
      BY <3>2, <3>3
  <2> QED
    BY <1>2, <1>3, <2>4 DEF Kept, Accounted
<1>6. CASE Report(p)
  <2>1. /\ proc[p].st = "listening" /\ proc[p].out = "log"
        /\ log' = [log EXCEPT ![proc[p].file] = proc[p].port]
        /\ proc' = [proc EXCEPT ![p].told = TRUE]
    BY <1>6 DEF Report
  <2>2. proc[p] \in Process
    BY <2>1 DEF Tended, IInv, Typed, Free
  <2>3. \A q \in Pid : /\ proc'[q].st = proc[q].st /\ proc'[q].port = proc[q].port
                       /\ proc'[q].file = proc[q].file /\ proc'[q].out = proc[q].out
    BY <2>1, <2>2 DEF Process, Tended, IInv, Typed
  <2>4. Tunneling(p, proc[p].file)
    BY <2>1 DEF Tunneling, Live
  <2>5. ASSUME NEW k \in FileName \ spoiled', NEW q \in Pid, Tunneling(q, k)'
        PROVE  /\ (\A c \in Cli : ~ Managing(c, k)) => OnRecord(q, k)'
               /\ \A c \in Cli : Managing(c, k) => InHand(c, q, k)'
    <3>1. Tunneling(q, k) /\ Accounted(q, k) /\ k \notin spoiled
      BY <1>1, <2>3, <2>5 DEF Tunneling, Live, Tended, Kept
    <3>2. OnRecord(q, k)' <=> OnRecord(q, k)
      BY <1>1, <2>3 DEF OnRecord
    <3>3. \A o : Listening(q, o)' <=> Listening(q, o)
      BY <2>3 DEF Listening
    <3>4. ASSUME NEW c \in Cli, Managing(c, k), cli[c].pc = "port", log'[k] # 0
          PROVE  Listening(q, log'[k])
      <4>1. q = cli[c].pid
        BY <3>1, <3>4 DEF Accounted, InHand
      <4>2. CASE k = proc[p].file
        <5>1. Accounted(p, k)
          BY <3>1 DEF Tended, Kept
        <5>2. p = cli[c].pid
          BY <2>4, <3>4, <4>2, <5>1 DEF Accounted, InHand
        <5>3. log'[k] = proc[p].port
          BY <2>1, <4>2 DEF Tended, IInv, Typed
        <5> QED
          BY <2>1, <4>1, <5>2, <5>3 DEF Listening
      <4>3. CASE k # proc[p].file
        <5>1. log'[k] = log[k]
          BY <2>1, <4>3 DEF Tended, IInv, Typed
        <5> QED
          BY <3>1, <3>4, <5>1 DEF Accounted, InHand
      <4> QED
        BY <4>2, <4>3
    <3>5. ASSUME NEW c \in Cli, Managing(c, k)
          PROVE  InHand(c, q, k)'
      <4>1. InHand(c, q, k)
        BY <3>1, <3>5 DEF Accounted
      <4>2. CASE cli[c].pc = "port"
        <5>1. log'[k] # 0 => Listening(q, log[k])'
          BY <2>3, <3>4, <3>5, <4>2 DEF Listening
        <5> QED
          BY <1>1, <4>1, <4>2, <5>1 DEF InHand
      <4>3. CASE cli[c].pc # "port"
        BY <1>1, <3>2, <3>3, <4>1, <4>3 DEF InHand, Listening
      <4> QED
        BY <4>2, <4>3
    <3> QED
      BY <3>1, <3>2, <3>5 DEF Accounted
  <2> QED
    BY <1>2, <1>3, <2>5 DEF Kept, Accounted
<1> QED
  BY <1>4, <1>5, <1>6 DEF Kubectl

\* Files, commands and tunnels fit together in every state.
THEOREM TendedAlways == Spec => []Tended
<1>1. Init => Alone /\ Kept
  BY DEF Init, Alone, Kept, Accounted, Tunneling, Managing, Idle, Live, Free
<1>2. Tended /\ [Next]_vars => Alone' /\ Kept'
  <2>1. SUFFICES ASSUME Tended, [Next]_vars
                 PROVE  Alone' /\ Kept'
    OBVIOUS
  <2>2. ASSUME NEW c \in Cli,
               \/ Ensure(c) \/ Session(c) \/ Finish(c) \/ Forward(c) \/ SaveFails(c) \/ Interrupt(c)
               \/ (\E k \in Context : Find(c, k) \/ Stop(c, k))
               \/ (\E code \in Exec : EndSession(c, code))
        PROVE  Alone' /\ Kept'
    BY <2>1, <2>2, FindStopKept, RecordedKept, SpawnKept, AwaitKept, SaveKept, EndKept, SessionKept
       DEF Ensure, Session
  <2>3. ASSUME NEW p \in Pid, Kubectl(p) \/ Exit(p)
        PROVE  Alone' /\ Kept'
    BY <2>1, <2>3, KubectlKept
  <2>4. CASE UNCHANGED vars
    BY <2>1, <2>4 DEF vars, history, Tended, Alone, Kept, Accounted, Tunneling, Managing, InHand, OnRecord,
                      Listening, Live
  <2> QED
    BY <2>1, <2>2, <2>3, <2>4 DEF Next
<1> QED
  BY <1>1, <1>2, Inductive, PTL DEF Spec, Tended

\* While no command is at its files, the tunnel of a file is the one that the
\* file names, unless commands overlapped or were interrupted or hindered.
THEOREM TunnelsAreRecorded == Spec => []TunnelIsRecorded
<1>1. Tended => TunnelIsRecorded
  BY DEF Tended, Kept, Accounted, Tunneling, OnRecord, TunnelIsRecorded
<1> QED
  BY <1>1, TendedAlways, PTL

-----------------------------------------------------------------------------
(* Whose server answers *)

\* A command's kubectl is its child, alive or not, and was started for its file.
Child(c, out) ==
  LET p == cli[c].pid
  IN  proc[p] # Free /\ proc[p].parent = {c} /\ proc[p].file = cli[c].file /\ proc[p].out = out
OwnChild(c) ==
  /\ cli[c].pc \in {"port", "health", "save", "saving"} => Child(c, "log")
  /\ cli[c].pc \in {"forward", "session"} => Child(c, "pipe")
Children == \A c \in Cli : OwnChild(c)

\* At a port, a tunnel of a file answers.
Served(o, k) == \E p \in Pid : Listening(p, o) /\ Tunneling(p, k)

\* What is recorded, or in the hands of the command at the files, is alive.
Holds(c, k) ==
  CASE cli[c].pc = "probe" -> Served(cli[c].info.port, k)
    [] cli[c].pc \in {"port", "health"} -> Tunneling(cli[c].pid, k)
    [] cli[c].pc \in {"save", "saving"} -> Tunneling(cli[c].pid, k) /\ cli[c].server = k
    [] OTHER -> TRUE
Intact(k) ==
  /\ (\A c \in Cli : ~ Managing(c, k)) /\ file[k].kind = "info" => Served(file[k].port, k)
  /\ \A c \in Cli : Managing(c, k) => Holds(c, k)
Guarded == \A k \in FileName \ (spoiled \cup ended) : Intact(k)

\* A command that starts a tunnel has found no record, or removed it.
Starting(c, k) == Managing(c, k) /\ cli[c].pc \in {"spawn", "port", "health"}
Cleared == \A k \in FileName \ spoiled, c \in Cli : Starting(c, k) => file[k].kind # "info"

Trusted == Tended /\ Children /\ Guarded /\ Cleared

\* The tunnel of a file goes on as it is.
Endures(k) ==
  \A p \in Pid : Tunneling(p, k) => Tunneling(p, k)' /\ \A o : Listening(p, o) => Listening(p, o)'
\* A process stays a child of its parent.
Stays(p) ==
  /\ proc'[p] # Free /\ proc'[p].parent = proc[p].parent
  /\ proc'[p].file = proc[p].file /\ proc'[p].out = proc[p].out

\* Killing a process leaves the tunnels of other files as they are, and its number
\* to one that has a parent.
LEMMA KilledSpares ==
  ASSUME Typed, NEW p \in Pid
  PROVE  /\ \A k \in FileName \ FilesOf(p), q \in Pid : Tunneling(q, k) => Killed(p)[q] = proc[q]
         /\ \A q \in Pid : proc[q] # Free /\ proc[q].parent # {} =>
              /\ Killed(p)[q] # Free /\ Killed(p)[q].parent = proc[q].parent
              /\ Killed(p)[q].file = proc[q].file /\ Killed(p)[q].out = proc[q].out
<1>1. proc \in [Pid -> {Free} \cup Process]
  BY DEF Typed
<1>2. CASE ~ Live(p)
  BY <1>1, <1>2 DEF Killed
<1>3. CASE Live(p)
  <2> DEFINE v == IF proc[p].parent = {} THEN Free
                  ELSE [proc[p] EXCEPT !.st = "exited", !.port = 0, !.told = FALSE]
  <2>1. proc[p] \in Process
    BY <1>1, <1>3 DEF Live, Free
  <2>2. proc[p].parent # {} => /\ v # Free /\ v.parent = proc[p].parent
                               /\ v.file = proc[p].file /\ v.out = proc[p].out
    BY <2>1 DEF Process, Free
  <2>3. Killed(p) = [proc EXCEPT ![p] = v]
    BY <1>3 DEF Killed
  <2>4. \A k \in FileName \ FilesOf(p) : ~ Tunneling(p, k)
    BY <1>3 DEF FilesOf, Tunneling
  <2> HIDE DEF v
  <2> QED
    BY <1>1, <2>2, <2>3, <2>4
<1> QED
  BY <1>2, <1>3

\* The end of a command takes no tunnel along and no other command's child.
LEMMA QuitSpares ==
  ASSUME NEW c \in Cli, NEW procs \in [Pid -> {Free} \cup Process], Quit(c, procs)
  PROVE  /\ \A k \in FileName : (\A q \in Pid : Tunneling(q, k) => procs[q] = proc[q]) => Endures(k)
         /\ \A q \in Pid, d \in Cli \ {c} : procs[q].parent = {d} => proc'[q] = procs[q]
<1>1. proc' = [p \in Pid |->
           IF procs[p] = Free \/ procs[p].parent # {c} THEN procs[p]
           ELSE IF procs[p].st = "exited" THEN Free ELSE [procs[p] EXCEPT !.parent = {}]]
  BY DEF Quit
<1>2. ASSUME NEW q \in Pid, NEW k \in FileName, Tunneling(q, k), procs[q] = proc[q]
      PROVE  Tunneling(q, k)' /\ \A o : Listening(q, o) => Listening(q, o)'
  <2>1. procs[q] \in Process /\ procs[q].st # "exited"
    BY <1>2 DEF Tunneling, Live, Free
  <2>2. CASE procs[q].parent # {c}
    <3>1. proc'[q] = proc[q]
      BY <1>1, <1>2, <2>2
    <3> QED
      BY <1>2, <3>1 DEF Tunneling, Listening, Live
  <2>3. CASE procs[q].parent = {c}
    <3>1. proc'[q] = [procs[q] EXCEPT !.parent = {}]
      BY <1>1, <2>1, <2>3 DEF Process, Free
    <3>2. proc'[q].st = proc[q].st /\ proc'[q].port = proc[q].port
          /\ proc'[q].out = proc[q].out /\ proc'[q].file = proc[q].file
      BY <1>2, <2>1, <3>1 DEF Process
    <3> QED
      BY <1>2, <3>2 DEF Tunneling, Listening, Live
  <2> QED
    BY <2>2, <2>3
<1>3. \A q \in Pid, d \in Cli \ {c} : procs[q].parent = {d} => proc'[q] = procs[q]
  BY <1>1
<1> QED
  BY <1>2, <1>3 DEF Endures

\* A process that listens at a tunnel's port is that tunnel.
LEMMA OneServer ==
  ASSUME Ports, NEW o, NEW k \in FileName, Served(o, k), NEW p \in Servers(o)
  PROVE  proc[p].file = k
  BY DEF Ports, Served, Servers, Listening, Tunneling

\* A file that no command at it and no process of it changes.
LEMMA IntactElsewhere ==
  ASSUME Typed, NEW k \in FileName, Intact(k), Endures(k), file'[k] = file[k],
         \A c \in Cli : (Managing(c, k) \/ Managing(c, k)') => cli'[c] = cli[c]
  PROVE  Intact(k)'
<1>1. \A c \in Cli : Managing(c, k)' <=> Managing(c, k)
  BY DEF Managing
<1>2. \A o : Served(o, k) => Served(o, k)'
  BY DEF Served, Endures
<1>3. ASSUME NEW c \in Cli, Managing(c, k)'
      PROVE  Holds(c, k)'
  <2>1. Holds(c, k) /\ cli'[c] = cli[c]
    BY <1>1, <1>3 DEF Intact
  <2>2. cli[c].pc \in {"port", "health", "save", "saving"} => cli[c].pid \in Pid
    BY Shapes DEF Begun, Answering, Saving
  <2>3. cli[c].pc \in {"port", "health", "save", "saving"} /\ Tunneling(cli[c].pid, k) => Tunneling(cli[c].pid, k)'
    BY <2>1, <2>2 DEF Endures
  <2>4. cli[c].pc = "probe" => Served(cli[c].info.port, k)'
    BY <1>2, <2>1 DEF Holds
  <2> QED
    BY <2>1, <2>3, <2>4 DEF Holds
<1> QED
  BY <1>1, <1>2, <1>3 DEF Intact

\* A step away from the files: no command at them goes on.
LEMMA GuardedAway ==
  ASSUME Trusted, file' = file, spoiled \subseteq spoiled', ended \subseteq ended',
         \A c \in Cli, k \in FileName : (Managing(c, k) \/ Managing(c, k)') => cli'[c] = cli[c],
         \A k \in FileName \ ended' : Endures(k)
  PROVE  Guarded' /\ Cleared'
<1>1. Guarded'
  BY IntactElsewhere DEF Trusted, Tended, IInv, Guarded
<1>2. Cleared'
  BY DEF Trusted, Cleared, Starting, Managing
<1> QED
  BY <1>1, <1>2

\* A step at the files of one name: the others are as they were.
LEMMA GuardedAt ==
  ASSUME Trusted, NEW c \in Cli, NEW j \in FileName, NEW v, cli' = [cli EXCEPT ![c] = v],
         \A k \in FileName \ {j} : ~ Managing(c, k) /\ ~ Managing(c, k)' /\ file'[k] = file[k],
         spoiled \subseteq spoiled', ended \subseteq ended' \cup {j},
         j \notin spoiled' => Managing(c, j) \/ \A d \in Cli : ~ Managing(d, j),
         \A k \in FileName \ ({j} \cup ended') : Endures(k),
         j \notin spoiled' \cup ended' => IF Managing(c, j)' THEN Holds(c, j)'
                                          ELSE file'[j].kind = "info" => Served(file[j].port, j)',
         j \notin spoiled' /\ Starting(c, j)' => file'[j].kind # "info"
  PROVE  Guarded' /\ Cleared'
<1>1. \A d \in Cli \ {c} : cli'[d] = cli[d]
  BY DEF Trusted, Tended, IInv, Typed
<1>2. \A d \in Cli \ {c}, k \in FileName : Managing(d, k)' <=> Managing(d, k)
  BY <1>1 DEF Managing
<1>3. j \notin spoiled' => \A d \in Cli \ {c} : ~ Managing(d, j)'
  BY <1>2 DEF Trusted, Tended, Alone
<1>4. ASSUME NEW k \in FileName \ (spoiled' \cup ended')
      PROVE  Intact(k)'
  <2>1. CASE k = j
    BY <1>3, <1>4, <2>1 DEF Intact
  <2>2. CASE k # j
    <3>1. Intact(k) /\ Endures(k) /\ file'[k] = file[k]
      BY <1>4, <2>2 DEF Trusted, Guarded
    <3>2. \A d \in Cli : (Managing(d, k) \/ Managing(d, k)') => cli'[d] = cli[d]
      BY <1>1, <2>2
    <3> QED
      BY <3>1, <3>2, IntactElsewhere DEF Trusted, Tended, IInv
  <2> QED
    BY <2>1, <2>2
<1>5. ASSUME NEW k \in FileName \ spoiled', NEW d \in Cli, Starting(d, k)'
      PROVE  file'[k].kind # "info"
  <2>1. CASE k = j
    BY <1>3, <1>5, <2>1 DEF Starting
  <2>2. CASE k # j
    <3>1. Starting(d, k) /\ file'[k] = file[k]
      BY <1>1, <1>5, <2>2 DEF Starting, Managing
    <3> QED
      BY <1>5, <3>1 DEF Trusted, Cleared
  <2> QED
    BY <2>1, <2>2
<1> QED
  BY <1>4, <1>5 DEF Guarded, Cleared

\* Nothing ends when no process changes.
LEMMA SameProcesses ==
  ASSUME proc' = proc
  PROVE  /\ \A k \in FileName : Endures(k)
         /\ \A o, k : Served(o, k)' <=> Served(o, k)
         /\ \A p, k : Tunneling(p, k)' <=> Tunneling(p, k)
  BY DEF Endures, Served, Tunneling, Listening, Live

\* The record that is found is that of a tunnel that answers.
LEMMA FindStopGuarded ==
  ASSUME Trusted, NEW c \in Cli, NEW k \in Context, Find(c, k) \/ Stop(c, k)
  PROVE  Guarded' /\ Cleared'
<1>0. PICK j \in FileName : j = SanitizeContext[k]
  BY TunnelAssumption
<1> DEFINE v == IF Find(c, k)
                THEN IF file[j].kind = "info"
                     THEN [pc |-> "probe", file |-> j, info |-> file[j], next |-> "spawn"]
                     ELSE [pc |-> "spawn", file |-> j]
                ELSE [pc |-> "kill", file |-> j, info |-> file[j], next |-> "idle"]
<1>1. UNCHANGED <<file, proc, ended>> /\ cli[c].pc = "idle"
      /\ spoiled' = IF \E d \in Cli : Managing(d, j) THEN spoiled \cup {j} ELSE spoiled
  BY <1>0 DEF Find, Stop, Command, At
<1>2. cli' = [cli EXCEPT ![c] = v]
  BY <1>0 DEF Find, Stop
<1>3. /\ cli'[c].file = j /\ cli'[c].pc \in {"probe", "spawn", "kill"}
      /\ cli'[c].pc = "spawn" => file[j].kind # "info"
      /\ cli'[c].pc = "probe" => cli'[c].info = file[j] /\ file[j].kind = "info"
  BY <1>2 DEF Trusted, Tended, IInv, Typed
<1> HIDE DEF v
<1>4. \A f \in FileName : ~ Managing(c, f) /\ (Managing(c, f)' <=> f = j)
  BY <1>1, <1>3 DEF Managing
<1>5. spoiled \subseteq spoiled' /\ (j \notin spoiled' => \A d \in Cli : ~ Managing(d, j))
  BY <1>1
<1>6. ASSUME j \notin spoiled' \cup ended'
      PROVE  Holds(c, j)'
  <2>1. file[j].kind = "info" => Served(file[j].port, j)'
    BY <1>1, <1>5, <1>6, SameProcesses DEF Trusted, Guarded, Intact
  <2> QED
    BY <1>1, <1>3, <2>1 DEF Holds
<1>7. Starting(c, j)' => file'[j].kind # "info"
  BY <1>1, <1>3 DEF Starting
<1> QED
  BY <1>1, <1>2, <1>4, <1>5, <1>6, <1>7, SameProcesses, GuardedAt

\* What holds of the files of a command at them, and of its tunnel.
LEMMA OwnFile ==
  ASSUME Trusted, NEW c \in Cli, NEW j \in FileName \ (spoiled \cup ended), Managing(c, j)
  PROVE  /\ Holds(c, j)
         /\ \A p \in Pid : Tunneling(p, j) => InHand(c, p, j)
  BY ManagerKnows DEF Trusted, Guarded, Intact

\* At the probe the record is that of the tunnel that answers; afterwards the
\* process with the recorded number is killed and the record removed.
LEMMA RecordedGuarded ==
  ASSUME Trusted, NEW c \in Cli, Reuse(c) \/ Reject(c) \/ Kill(c) \/ Remove(c)
  PROVE  Guarded' /\ Cleared'
<1>1. cli[c] \in Recorded
  BY Shapes DEF Trusted, Tended, IInv, Reuse, Reject, Kill, Remove, At
<1>2. PICK j \in FileName : j = cli[c].file /\ cli[c].info.pid \in Pid
  BY <1>1, InfoFacts DEF Recorded
<1>3. Managing(c, j) /\ \A k \in FileName \ {j} : ~ Managing(c, k)
  BY <1>1, <1>2 DEF Managing, Recorded
<1>4. spoiled' = spoiled /\ ended \subseteq ended'
  BY DEF Reuse, Reject, Kill, Remove, history
<1>5. CASE Reuse(c)
  <2>0. PICK q \in Pid : Use(c, cli[c].info.port, proc[q].file)
    BY <1>5 DEF Reuse, Servers
  <2> DEFINE v == [pc |-> "done", file |-> cli[c].file, port |-> cli[c].info.port, server |-> proc[q].file]
  <2>1. cli' = [cli EXCEPT ![c] = v] /\ UNCHANGED <<file, proc, ended>> /\ cli[c].pc = "probe"
    BY <1>5, <2>0 DEF Reuse, Use, At, history
  <2>2. \A k \in FileName : ~ Managing(c, k)'
    BY <2>1 DEF Managing, Trusted, Tended, IInv, Typed
  <2> HIDE DEF v
  <2>3. ASSUME j \notin spoiled' \cup ended'
        PROVE  Served(file[j].port, j)'
    <3>1. Served(cli[c].info.port, j)
      BY <1>3, <1>4, <2>1, <2>3, OwnFile DEF Holds
    <3>2. PICK p \in Pid : Tunneling(p, j)
      BY <3>1 DEF Served
    <3>3. cli[c].info = file[j]
      BY <1>3, <1>4, <2>1, <2>3, <3>2, OwnFile DEF InHand
    <3> QED
      BY <2>1, <3>1, <3>3, SameProcesses
  <2> QED
    BY <1>2, <1>3, <1>4, <2>1, <2>2, <2>3, SameProcesses, GuardedAt DEF Starting
<1>6. ASSUME NEW step \in {"kill", "remove"}, cli' = [cli EXCEPT ![c].pc = step]
      PROVE  /\ cli' = [cli EXCEPT ![c] = [cli[c] EXCEPT !.pc = step]] /\ cli'[c].pc = step
             /\ \A k \in FileName : Managing(c, k)' <=> k = j
  <2>1. cli'[c] = [cli[c] EXCEPT !.pc = step]
    BY <1>6 DEF Trusted, Tended, IInv, Typed
  <2>2. cli'[c].pc = step /\ cli'[c].file = cli[c].file
    BY <1>1, <2>1 DEF Recorded
  <2> QED
    BY <1>2, <1>6, <2>2 DEF Managing, Trusted, Tended, IInv, Typed
<1>7. CASE Reject(c)
  <2>1. cli' = [cli EXCEPT ![c].pc = "kill"] /\ UNCHANGED <<file, proc, ended>>
    BY <1>7 DEF Reject, Goto, history
  <2>2. /\ cli' = [cli EXCEPT ![c] = [cli[c] EXCEPT !.pc = "kill"]] /\ cli'[c].pc = "kill"
        /\ \A k \in FileName : Managing(c, k)' <=> k = j
    BY <1>6, <2>1
  <2>3. Holds(c, j)' /\ ~ Starting(c, j)'
    BY <2>2 DEF Holds, Starting
  <2> QED
    BY <1>2, <1>3, <1>4, <2>1, <2>2, <2>3, SameProcesses, GuardedAt
<1>8. CASE Kill(c)
  <2>1. /\ cli' = [cli EXCEPT ![c].pc = "remove"] /\ file' = file /\ proc' = Killed(cli[c].info.pid)
        /\ ended' = ended \cup (FilesOf(cli[c].info.pid) \ {j})
    BY <1>2, <1>8 DEF Kill, Goto
  <2>2. /\ cli' = [cli EXCEPT ![c] = [cli[c] EXCEPT !.pc = "remove"]] /\ cli'[c].pc = "remove"
        /\ \A k \in FileName : Managing(c, k)' <=> k = j
    BY <1>6, <2>1
  <2>3. Holds(c, j)' /\ ~ Starting(c, j)'
    BY <2>2 DEF Holds, Starting
  <2>4. ASSUME NEW k \in FileName \ ({j} \cup ended')
        PROVE  Endures(k)
    <3>1. \A q \in Pid : Tunneling(q, k) => proc'[q] = proc[q]
      BY <1>2, <2>1, <2>4, KilledSpares DEF Trusted, Tended, IInv
    <3> QED
      BY <3>1 DEF Endures, Tunneling, Listening, Live
  <2> QED
    BY <1>2, <1>3, <1>4, <2>1, <2>2, <2>3, <2>4, GuardedAt
<1>9. CASE Remove(c)
  <2>1. file' = [file EXCEPT ![j] = Absent] /\ ended' = ended
    BY <1>2, <1>9 DEF Remove, history
  <2>2. file'[j].kind # "info" /\ \A k \in FileName \ {j} : file'[k] = file[k]
    BY <2>1, InfoFacts DEF Trusted, Tended, IInv, Typed
  <2> DEFINE v == IF cli[c].next = "idle" THEN Idle ELSE [pc |-> "spawn", file |-> j]
  <2>3. cli' = [cli EXCEPT ![c] = v]
    BY <1>2, <1>9 DEF Remove, Quit
  <2>4. cli'[c].pc \in {"idle", "spawn"} /\ \A k \in FileName \ {j} : ~ Managing(c, k)'
    BY <1>2, <2>3 DEF Managing, Trusted, Tended, IInv, Typed, Idle
  <2> HIDE DEF v
  <2>5. \A k \in FileName : Endures(k)
    <3>1. CASE Quit(c, proc)
      BY <3>1, QuitSpares DEF Trusted, Tended, IInv, Typed
    <3>2. CASE proc' = proc
      BY <3>2, SameProcesses
    <3> QED
      BY <1>9, <3>1, <3>2 DEF Remove
  <2>6. Managing(c, j)' => Holds(c, j)'
    BY <2>4 DEF Holds, Managing
  <2> QED
    BY <1>2, <1>3, <1>4, <2>1, <2>2, <2>3, <2>4, <2>5, <2>6, GuardedAt
<1> QED
  BY <1>5, <1>7, <1>8, <1>9

\* The new tunnel is its command's child; what came before it is forgotten.
LEMMA SpawnGuarded ==
  ASSUME Trusted, NEW c \in Cli, Spawn(c) \/ SpawnFails(c)
  PROVE  Guarded' /\ Cleared'
<1>1. cli[c] \in Spawning
  BY Shapes DEF Trusted, Tended, IInv, Spawn, SpawnFails, At
<1>2. PICK j \in FileName : j = cli[c].file
  BY <1>1 DEF Spawning
<1>3. Managing(c, j) /\ Starting(c, j) /\ \A k \in FileName \ {j} : ~ Managing(c, k)
  BY <1>1, <1>2 DEF Managing, Starting, Spawning
<1>4. spoiled' = spoiled /\ file' = file /\ ended \subseteq ended' \cup {j}
  BY <1>2 DEF Spawn, SpawnFails, history
<1>5. j \notin spoiled' => file'[j].kind # "info"
  BY <1>3, <1>4 DEF Trusted, Cleared
<1>6. proc \in [Pid -> {Free} \cup Process]
  BY DEF Trusted, Tended, IInv, Typed
<1>7. CASE SpawnFails(c)
  <2>1. Quit(c, proc)
    BY <1>7 DEF SpawnFails
  <2>2. cli' = [cli EXCEPT ![c] = Idle] /\ \A k \in FileName : ~ Managing(c, k)'
    BY <2>1 DEF Quit, Managing, Idle, Trusted, Tended, IInv, Typed
  <2>3. \A k \in FileName : Endures(k)
    BY <1>6, <2>1, QuitSpares
  <2> QED
    BY <1>2, <1>3, <1>4, <1>5, <2>2, <2>3, GuardedAt
<1>8. CASE Spawn(c)
  <2>1. PICK p \in Pid :
          /\ proc[p] = Free
          /\ proc' = [proc EXCEPT ![p] = Started(c, "log")]
          /\ cli' = [cli EXCEPT ![c] = [pc |-> "port", file |-> cli[c].file, pid |-> p]]
    BY <1>8 DEF Spawn
  <2> DEFINE v == [pc |-> "port", file |-> j, pid |-> p]
  <2>2. /\ cli' = [cli EXCEPT ![c] = v] /\ cli'[c].pc = "port" /\ cli'[c].pid = p
        /\ \A k \in FileName : Managing(c, k)' <=> k = j
    BY <1>2, <2>1 DEF Managing, Trusted, Tended, IInv, Typed
  <2> HIDE DEF v
  <2>3. proc'[p] = Started(c, "log") /\ \A q \in Pid \ {p} : proc'[q] = proc[q]
    BY <1>6, <2>1
  <2>4. Tunneling(p, j)'
    BY <1>2, <2>3 DEF Tunneling, Live, Started
  <2>5. Holds(c, j)'
    BY <2>2, <2>4 DEF Holds
  <2>6. \A k \in FileName : Endures(k)
    BY <2>1, <2>3 DEF Endures, Tunneling, Listening, Live, Free
  <2> QED
    BY <1>2, <1>3, <1>4, <1>5, <2>2, <2>5, <2>6, GuardedAt
<1> QED
  BY <1>7, <1>8

\* Who answers at the port of the log is the command's own child.
LEMMA AwaitGuarded ==
  ASSUME Trusted, NEW c \in Cli, AwaitPort(c) \/ AwaitHealth(c)
  PROVE  Guarded' /\ Cleared'
<1>1. cli[c] \in Begun \cup Answering /\ cli[c].pc \in {"port", "health"} /\ cli[c].pid \in Pid
  BY Shapes DEF Trusted, Tended, IInv, AwaitPort, AwaitHealth, At, Begun, Answering
<1>2. PICK j \in FileName : j = cli[c].file
  BY <1>1 DEF Begun, Answering
<1>3. Managing(c, j) /\ Starting(c, j) /\ \A k \in FileName \ {j} : ~ Managing(c, k)
  BY <1>1, <1>2 DEF Managing, Starting
<1>4. UNCHANGED <<file, proc, spoiled, ended>>
  BY DEF AwaitPort, AwaitHealth, history
<1>5. j \notin spoiled' => file'[j].kind # "info"
  BY <1>3, <1>4 DEF Trusted, Cleared
<1>6. j \notin spoiled \cup ended => Tunneling(cli[c].pid, j) /\ InHand(c, cli[c].pid, j)
  BY <1>1, <1>3, OwnFile DEF Holds
<1>7. CASE AwaitPort(c)
  <2> DEFINE v == [pc |-> "health", port |-> log[cli[c].file], file |-> cli[c].file, pid |-> cli[c].pid]
  <2>1. cli' = [cli EXCEPT ![c] = v]
    BY <1>7 DEF AwaitPort
  <2>2. cli'[c].pc = "health" /\ cli'[c].pid = cli[c].pid /\ \A k \in FileName : Managing(c, k)' <=> k = j
    BY <1>2, <2>1 DEF Managing, Trusted, Tended, IInv, Typed
  <2> HIDE DEF v
  <2>3. j \notin spoiled' \cup ended' => Holds(c, j)'
    BY <1>4, <1>6, <2>2, SameProcesses DEF Holds, Tunneling, Live
  <2> QED
    BY <1>2, <1>3, <1>4, <1>5, <2>1, <2>2, <2>3, SameProcesses, GuardedAt
<1>8. CASE AwaitHealth(c)
  <2>1. PICK q \in Servers(cli[c].port) :
          cli' = [cli EXCEPT ![c] = [pc |-> "save", file |-> cli[c].file, port |-> cli[c].port,
                                     pid |-> cli[c].pid, server |-> proc[q].file]]
    BY <1>8 DEF AwaitHealth
  <2> DEFINE v == [pc |-> "save", file |-> cli[c].file, port |-> cli[c].port,
                   pid |-> cli[c].pid, server |-> proc[q].file]
  <2>2. /\ cli' = [cli EXCEPT ![c] = v] /\ cli'[c].pc = "save" /\ cli'[c].pid = cli[c].pid
        /\ cli'[c].server = proc[q].file /\ \A k \in FileName : Managing(c, k)' <=> k = j
    BY <1>2, <2>1 DEF Managing, Trusted, Tended, IInv, Typed
  <2> HIDE DEF v
  <2>3. ASSUME j \notin spoiled' \cup ended'
        PROVE  Holds(c, j)'
    <3>1. Served(cli[c].port, j)
      BY <1>1, <1>4, <1>6, <1>8, <2>3 DEF Served, InHand, AwaitHealth, At
    <3>2. proc[q].file = j
      BY <3>1, OneServer DEF Trusted, Tended, IInv
    <3> QED
      BY <1>4, <1>6, <2>2, <2>3, <3>2 DEF Holds, Tunneling, Live
  <2>4. ~ Starting(c, j)'
    BY <2>2 DEF Starting
  <2> QED
    BY <1>2, <1>3, <1>4, <2>2, <2>3, <2>4, SameProcesses, GuardedAt
<1> QED
  BY <1>7, <1>8

\* What is recorded is the tunnel, with its port.
LEMMA SaveGuarded ==
  ASSUME Trusted, NEW c \in Cli, Truncate(c) \/ SaveTunnel(c) \/ SaveFails(c)
  PROVE  Guarded' /\ Cleared'
<1>1. cli[c] \in Saving
  BY Shapes DEF Trusted, Tended, IInv, Truncate, SaveTunnel, SaveFails, At
<1>2. PICK j \in FileName : j = cli[c].file /\ cli[c].pid \in Pid
  BY <1>1 DEF Saving
<1>3. Managing(c, j) /\ \A k \in FileName \ {j} : ~ Managing(c, k)
  BY <1>1, <1>2 DEF Managing, Saving
<1>4. UNCHANGED <<proc, ended>> /\ spoiled \subseteq spoiled' /\ (SaveFails(c) => j \in spoiled')
  BY <1>2 DEF Truncate, SaveTunnel, SaveFails, history
<1>5. \A k \in FileName \ {j} : file'[k] = file[k]
  BY <1>2 DEF Truncate, SaveTunnel, SaveFails, Trusted, Tended, IInv, Typed
<1>6. j \notin spoiled \cup ended => /\ Tunneling(cli[c].pid, j) /\ Listening(cli[c].pid, cli[c].port)
                                     /\ cli[c].server = j
  BY <1>1, <1>2, <1>3, OwnFile DEF Holds, InHand, Saving
<1>7. CASE Truncate(c)
  <2> DEFINE v == [cli[c] EXCEPT !.pc = "saving"]
  <2>1. cli' = [cli EXCEPT ![c] = v]
    BY <1>7 DEF Truncate, Goto, Trusted, Tended, IInv, Typed
  <2>2. /\ cli'[c].pc = "saving" /\ cli'[c].pid = cli[c].pid /\ cli'[c].server = cli[c].server
        /\ \A k \in FileName : Managing(c, k)' <=> k = j
    BY <1>1, <1>2, <2>1 DEF Saving, Managing, Trusted, Tended, IInv, Typed
  <2> HIDE DEF v
  <2>3. j \notin spoiled' \cup ended' => Holds(c, j)'
    BY <1>4, <1>6, <2>2 DEF Holds, Tunneling, Live
  <2>4. ~ Starting(c, j)'
    BY <2>2 DEF Starting
  <2> QED
    BY <1>3, <1>4, <1>5, <2>1, <2>2, <2>3, <2>4, SameProcesses, GuardedAt
<1>8. CASE SaveTunnel(c) \/ SaveFails(c)
  <2> DEFINE v == [pc |-> "done", file |-> cli[c].file, port |-> cli[c].port, server |-> cli[c].server]
  <2>1. cli' = [cli EXCEPT ![c] = v]
    BY <1>8 DEF SaveTunnel, SaveFails, Use
  <2>2. \A k \in FileName : ~ Managing(c, k)'
    BY <2>1 DEF Managing, Trusted, Tended, IInv, Typed
  <2> HIDE DEF v
  <2>3. ASSUME j \notin spoiled' \cup ended'
        PROVE  Served(file[j].port, j)'
    <3>1. file'[j] = Info(cli[c].port, cli[c].pid)
      BY <1>2, <1>4, <1>8, <2>3 DEF SaveTunnel, Trusted, Tended, IInv, Typed
    <3>2. file'[j].port = cli[c].port
      BY <3>1 DEF Info
    <3>3. Served(cli[c].port, j)
      BY <1>2, <1>4, <1>6, <2>3 DEF Served
    <3> QED
      BY <1>4, <3>2, <3>3 DEF Served, Tunneling, Listening, Live
  <2>4. ~ Starting(c, j)'
    BY <2>2 DEF Starting
  <2> QED
    BY <1>3, <1>4, <1>5, <2>1, <2>2, <2>3, <2>4, SameProcesses, GuardedAt
<1> QED
  BY <1>7, <1>8

\* A command takes no more than its own kubectl along: before it is recorded, when
\* it gives up, or that of its session.
LEMMA EndGuarded ==
  ASSUME Trusted, NEW c \in Cli,
         \/ GiveUp(c) \/ Finish(c) \/ ForwardTimeout(c) \/ Interrupt(c)
         \/ \E code \in Exec : EndSession(c, code)
  PROVE  Guarded' /\ Cleared'
<1>1. UNCHANGED <<file, ended>> /\ spoiled \subseteq spoiled'
  BY DEF GiveUp, Finish, ForwardTimeout, Interrupt, EndSession, history
<1>2. cli' = [cli EXCEPT ![c] = Idle]
  BY DEF GiveUp, Finish, ForwardTimeout, Interrupt, EndSession, Quit
<1>3. \A k \in FileName : ~ Managing(c, k)'
  BY <1>2 DEF Managing, Idle, Trusted, Tended, IInv, Typed
<1>4. cli[c].pc \in {"port", "health", "forward", "session"} => cli[c].pid \in Pid
  BY Shapes DEF Trusted, Tended, IInv, Begun, Answering
<1>5. CASE Quit(c, proc)
  <2>1. \A k \in FileName : Endures(k)
    BY <1>5, QuitSpares DEF Trusted, Tended, IInv, Typed
  <2>2. CASE \A k \in FileName : ~ Managing(c, k)
    <3>1. \A d \in Cli, k \in FileName : (Managing(d, k) \/ Managing(d, k)') => cli'[d] = cli[d]
      BY <1>2, <1>3, <2>2 DEF Trusted, Tended, IInv, Typed
    <3> QED
      BY <1>1, <2>1, <3>1, GuardedAway
  <2>3. ASSUME NEW j \in FileName, Managing(c, j)
        PROVE  Guarded' /\ Cleared'
    <3>1. \A k \in FileName \ {j} : ~ Managing(c, k)
      BY <2>3 DEF Managing
    <3>2. cli[c].file = j
      BY <2>3 DEF Managing
    <3>3. CASE Interrupt(c)
      <4>1. j \in spoiled'
        BY <2>3, <3>2, <3>3 DEF Interrupt
      <4> QED
        BY <1>1, <1>2, <1>3, <2>1, <2>3, <3>1, <4>1, GuardedAt
    <3>4. CASE ~ Interrupt(c)
      <4>1. GiveUp(c)
        BY <2>3, <3>4 DEF Finish, ForwardTimeout, EndSession, At, Managing
      <4>2. Starting(c, j)
        BY <2>3, <4>1 DEF GiveUp, Starting
      <4>3. j \notin spoiled' => file'[j].kind # "info"
        BY <1>1, <4>2 DEF Trusted, Cleared
      <4> QED
        BY <1>1, <1>2, <1>3, <2>1, <2>3, <3>1, <4>3, GuardedAt DEF Starting
    <3> QED
      BY <3>3, <3>4
  <2> QED
    BY <2>2, <2>3
<1>6. CASE Quit(c, Killed(cli[c].pid)) /\ cli[c].pc \in {"port", "health", "forward", "session"} /\ ~ Interrupt(c)
  <2>1. Killed(cli[c].pid) \in [Pid -> {Free} \cup Process]
    BY <1>4, <1>6, KilledFacts DEF Trusted, Tended, IInv
  <2>2. ASSUME NEW k \in FileName \ FilesOf(cli[c].pid)
        PROVE  Endures(k)
    <3>1. \A q \in Pid : Tunneling(q, k) => Killed(cli[c].pid)[q] = proc[q]
      BY <1>4, <1>6, KilledSpares DEF Trusted, Tended, IInv
    <3> QED
      BY <1>6, <2>1, <3>1, QuitSpares
  <2>3. CASE cli[c].pc \in {"forward", "session"}
    <3>1. FilesOf(cli[c].pid) = {}
      BY <2>3 DEF FilesOf, Trusted, Children, OwnChild, Child
    <3>2. \A d \in Cli, k \in FileName : (Managing(d, k) \/ Managing(d, k)') => cli'[d] = cli[d]
      BY <1>2, <1>3, <2>3 DEF Managing, Trusted, Tended, IInv, Typed
    <3> QED
      BY <1>1, <2>2, <3>1, <3>2, GuardedAway
  <2>4. CASE cli[c].pc \in {"port", "health"}
    <3>1. PICK j \in FileName : j = cli[c].file
      BY <2>4, Shapes DEF Trusted, Tended, IInv, Begun, Answering
    <3>2. Starting(c, j) /\ Managing(c, j) /\ \A k \in FileName \ {j} : ~ Managing(c, k)
      BY <2>4, <3>1 DEF Starting, Managing
    <3>3. FilesOf(cli[c].pid) \subseteq {j}
      BY <2>4, <3>1 DEF FilesOf, Trusted, Children, OwnChild, Child
    <3>4. j \notin spoiled' => file'[j].kind # "info"
      BY <1>1, <3>2 DEF Trusted, Cleared
    <3>5. \A k \in FileName \ ({j} \cup ended') : Endures(k)
      BY <2>2, <3>3
    <3> QED
      BY <1>1, <1>2, <1>3, <3>2, <3>4, <3>5, GuardedAt DEF Starting
  <2> QED
    BY <1>6, <2>3, <2>4
<1> QED
  BY <1>5, <1>6 DEF GiveUp, Finish, ForwardTimeout, Interrupt, EndSession, At

\* Neither a session nor kubectl is at the files.  A kubectl that ends is counted.
LEMMA AwayGuarded ==
  ASSUME Trusted,
         \/ \E c \in Cli : Forward(c) \/ ReadPipe(c) \/ SendPort(c) \/ Forwarded(c)
         \/ \E p \in Pid : Kubectl(p) \/ Exit(p)
  PROVE  Guarded' /\ Cleared'
<1>1. UNCHANGED <<file, spoiled>> /\ ended \subseteq ended'
  BY DEF Forward, ReadPipe, SendPort, Forwarded, Kubectl, Listen, Report, PrintLine, Exit, history
<1>2. proc \in [Pid -> {Free} \cup Process] /\ cli \in [Cli -> Commands]
  BY DEF Trusted, Tended, IInv, Typed
<1>3. ASSUME NEW d \in Cli, NEW k \in FileName, Managing(d, k) \/ Managing(d, k)'
      PROVE  cli'[d] = cli[d]
  <2>1. CASE cli' = cli
    BY <2>1
  <2>2. ASSUME NEW c \in Cli, NEW p \in Pid, At(c, "done"),
               cli' = [cli EXCEPT ![c] = [pc |-> "forward", file |-> cli[c].file, pid |-> p]]
        PROVE  cli'[d] = cli[d]
    BY <1>2, <1>3, <2>2 DEF Managing, At
  <2>3. ASSUME NEW c \in Cli, Forwarded(c)
        PROVE  cli'[d] = cli[d]
    <3>1. cli[c] \in Begun /\ cli'[c] = [cli[c] EXCEPT !.pc = "session"] /\ cli[c].pc = "forward"
      BY <1>2, <2>3, Shapes DEF Forwarded, Goto, At, Trusted, Tended, IInv
    <3>2. cli'[c].pc = "session"
      BY <3>1 DEF Begun
    <3> QED
      BY <1>2, <1>3, <2>3, <3>1, <3>2 DEF Managing, Forwarded, Goto
  <2> QED
    BY <2>1, <2>2, <2>3 DEF Forward, ReadPipe, SendPort, Kubectl, Listen, Report, PrintLine, Exit
<1>4. ASSUME NEW k \in FileName \ ended'
      PROVE  Endures(k)
  <2>1. CASE proc' = proc
    BY <2>1, SameProcesses
  <2>2. ASSUME NEW c \in Cli, NEW p \in Pid, proc[p] = Free, proc' = [proc EXCEPT ![p] = Started(c, "pipe")]
        PROVE  Endures(k)
    BY <1>2, <2>2 DEF Endures, Tunneling, Listening, Live, Free
  <2>3. ASSUME NEW p \in Pid, Exit(p)
        PROVE  Endures(k)
    <3>1. \A q \in Pid : Tunneling(q, k) => proc'[q] = proc[q]
      BY <1>4, <2>3, KilledSpares DEF Exit, Trusted, Tended, IInv
    <3> QED
      BY <3>1 DEF Endures, Tunneling, Listening, Live
  <2>4. ASSUME NEW p \in Pid, Listen(p) \/ Report(p)
        PROVE  Endures(k)
    <3>1. proc[p] \in Process
      BY <1>2, <2>4 DEF Listen, Report, Free
    <3>2. /\ \A q \in Pid \ {p} : proc'[q] = proc[q]
          /\ proc'[p].st = "listening" /\ proc'[p].out = proc[p].out /\ proc'[p].file = proc[p].file
          /\ proc[p].st = "listening" => proc'[p].port = proc[p].port
      BY <1>2, <2>4, <3>1 DEF Listen, Report, Process
    <3> QED
      BY <3>2 DEF Endures, Tunneling, Listening, Live
  <2> QED
    BY <2>1, <2>2, <2>3, <2>4 DEF Forward, ReadPipe, SendPort, Forwarded, Kubectl, PrintLine
<1> QED
  BY <1>1, <1>3, <1>4, GuardedAway

\* No step takes the child of another command.
LEMMA OthersStay ==
  ASSUME IInv, NEW c \in Cli,
         \/ Ensure(c) \/ Session(c) \/ Finish(c) \/ Forward(c) \/ SaveFails(c) \/ Interrupt(c)
         \/ (\E k \in Context : Find(c, k) \/ Stop(c, k))
         \/ (\E code \in Exec : EndSession(c, code)),
         NEW q \in Pid, NEW d \in Cli \ {c}, proc[q] # Free, proc[q].parent = {d}
  PROVE  Stays(q)
<1>1. proc \in [Pid -> {Free} \cup Process] /\ Typed
  BY DEF IInv, Typed
<1>2. CASE proc' = proc
  BY <1>2 DEF Stays
<1>3. CASE Quit(c, proc)
  <2>1. proc'[q] = proc[q]
    BY <1>1, <1>3, QuitSpares
  <2> QED
    BY <2>1 DEF Stays
<1>4. ASSUME NEW p \in Pid, proc' = Killed(p) \/ Quit(c, Killed(p))
      PROVE  Stays(q)
  <2>1. Killed(p) \in [Pid -> {Free} \cup Process]
    BY <1>1, KilledFacts
  <2>2. /\ Killed(p)[q] # Free /\ Killed(p)[q].parent = proc[q].parent
        /\ Killed(p)[q].file = proc[q].file /\ Killed(p)[q].out = proc[q].out
    BY <1>1, KilledSpares
  <2>3. proc'[q] = Killed(p)[q]
    <3>1. CASE Quit(c, Killed(p))
      BY <2>1, <2>2, <3>1, QuitSpares
    <3> QED
      BY <1>4, <3>1
  <2> QED
    BY <2>2, <2>3 DEF Stays
<1>5. ASSUME NEW p \in Pid, NEW w, proc[p] = Free, proc' = [proc EXCEPT ![p] = w]
      PROVE  Stays(q)
  BY <1>1, <1>5 DEF Stays
<1>6. /\ cli[c].pc \in {"port", "health", "forward", "session"} => cli[c].pid \in Pid
      /\ cli[c].pc = "kill" => cli[c].info.pid \in Pid
  BY <1>1, Shapes, InfoFacts DEF Begun, Answering, Recorded
<1>7. CASE Ensure(c)
  BY <1>2, <1>3, <1>4, <1>5, <1>6, <1>7
     DEF Ensure, Reuse, Reject, Kill, Remove, Spawn, SpawnFails, AwaitPort, GiveUp, AwaitHealth,
         Truncate, SaveTunnel, At
<1>8. CASE Session(c) \/ Finish(c) \/ Forward(c) \/ SaveFails(c) \/ Interrupt(c)
  BY <1>2, <1>3, <1>4, <1>5, <1>6, <1>8
     DEF Session, ReadPipe, SendPort, Forwarded, ForwardTimeout, Finish, Forward, SaveFails, Interrupt, At
<1>9. CASE (\E k \in Context : Find(c, k) \/ Stop(c, k)) \/ (\E code \in Exec : EndSession(c, code))
  BY <1>2, <1>3, <1>4, <1>6, <1>9 DEF Find, Stop, Command, EndSession, At
<1> QED
  BY <1>7, <1>8, <1>9

\* A command keeps the child that it has started.
LEMMA OwnStays ==
  ASSUME IInv, NEW c \in Cli, OwnChild(c),
         \/ Ensure(c) \/ Session(c) \/ Finish(c) \/ Forward(c) \/ SaveFails(c) \/ Interrupt(c)
         \/ (\E k \in Context : Find(c, k) \/ Stop(c, k))
         \/ (\E code \in Exec : EndSession(c, code))
  PROVE  OwnChild(c)'
<1>1. proc \in [Pid -> {Free} \cup Process] /\ cli \in [Cli -> Commands]
  BY DEF IInv, Typed
<1>2. CASE cli'[c].pc \notin {"port", "health", "save", "saving", "forward", "session"}
  BY <1>2 DEF OwnChild
<1>3. ASSUME cli'[c].pid = cli[c].pid, cli'[c].file = cli[c].file, proc' = proc,
             \/ cli[c].pc \in {"port", "health", "save"} /\ cli'[c].pc \in {"health", "save", "saving"}
             \/ cli[c].pc = "forward" /\ cli'[c].pc = "session"
      PROVE  OwnChild(c)'
  BY <1>3 DEF OwnChild, Child
<1>4. ASSUME NEW p \in Pid, NEW pc \in {"port", "forward"},
             proc' = [proc EXCEPT ![p] = Started(c, IF pc = "port" THEN "log" ELSE "pipe")],
             cli' = [cli EXCEPT ![c] = [pc |-> pc, file |-> cli[c].file, pid |-> p]]
      PROVE  OwnChild(c)'
  BY <1>1, <1>4 DEF OwnChild, Child, Started, Free
<1>5. CASE cli' = cli /\ proc' = proc
  BY <1>5 DEF OwnChild, Child
<1>6. CASE \E procs : Quit(c, procs)
  BY <1>1, <1>2, <1>6 DEF Quit, Idle
<1>7. CASE (\E k \in Context : Find(c, k) \/ Stop(c, k)) \/ Reuse(c) \/ Remove(c) \/ SaveTunnel(c) \/ SaveFails(c)
  <2>1. CASE Remove(c) /\ cli[c].next = "idle"
    BY <1>6, <2>1 DEF Remove
  <2>2. CASE ~ (Remove(c) /\ cli[c].next = "idle")
    BY <1>1, <1>2, <1>7, <2>2 DEF Find, Stop, Reuse, Remove, SaveTunnel, SaveFails, Use
  <2> QED
    BY <2>1, <2>2
<1>8. CASE Reject(c) \/ Kill(c)
  <2>1. cli[c] \in Recorded
    BY <1>8, Shapes DEF IInv, Reject, Kill, At
  <2>2. cli'[c].pc \in {"kill", "remove"}
    BY <1>1, <1>8, <2>1 DEF Reject, Kill, Goto, Recorded
  <2> QED
    BY <1>2, <2>2
<1>9. CASE Truncate(c) \/ Forwarded(c)
  <2>1. cli[c] \in Saving \cup Begun
    BY <1>9, Shapes DEF IInv, Truncate, Forwarded, At
  <2>2. /\ cli'[c].pid = cli[c].pid /\ cli'[c].file = cli[c].file /\ proc' = proc
        /\ \/ cli[c].pc = "save" /\ cli'[c].pc = "saving"
           \/ cli[c].pc = "forward" /\ cli'[c].pc = "session"
    BY <1>1, <1>9, <2>1 DEF Truncate, Forwarded, Goto, At, Saving, Begun
  <2> QED
    BY <1>3, <2>2
<1>10. CASE AwaitPort(c) \/ AwaitHealth(c)
  BY <1>1, <1>3, <1>10 DEF AwaitPort, AwaitHealth, At
<1>11. CASE Spawn(c) \/ Forward(c)
  BY <1>4, <1>11 DEF Spawn, Forward
<1>12. CASE ReadPipe(c) \/ SendPort(c)
  BY <1>5, <1>12 DEF ReadPipe, SendPort
<1> QED
  BY <1>6, <1>7, <1>8, <1>9, <1>10, <1>11, <1>12
     DEF Ensure, Session, SpawnFails, GiveUp, Finish, ForwardTimeout, Interrupt, EndSession

\* Commands have their children, whatever the others and kubectl do.
LEMMA ChildrenStay ==
  ASSUME IInv, Children, [Next]_vars
  PROVE  Children'
<1>1. proc \in [Pid -> {Free} \cup Process] /\ cli \in [Cli -> Commands] /\ Typed
  BY DEF IInv, Typed
<1>2. ASSUME NEW d \in Cli, cli'[d] = cli[d],
             \A q \in Pid : proc[q] # Free /\ proc[q].parent = {d} => Stays(q)
      PROVE  OwnChild(d)'
  <2>1. cli[d].pc \in {"port", "health", "save", "saving", "forward", "session"} => cli[d].pid \in Pid
    BY <1>1, Shapes DEF Begun, Answering, Saving
  <2> QED
    BY <1>2, <2>1 DEF Children, OwnChild, Child, Stays
<1>3. ASSUME NEW c \in Cli,
             \/ Ensure(c) \/ Session(c) \/ Finish(c) \/ Forward(c) \/ SaveFails(c) \/ Interrupt(c)
             \/ (\E k \in Context : Find(c, k) \/ Stop(c, k))
             \/ (\E code \in Exec : EndSession(c, code))
      PROVE  Children'
  <2>1. OwnChild(c)'
    BY <1>3, OwnStays DEF Children
  <2>2. \A d \in Cli \ {c} : cli'[d] = cli[d]
    BY <1>1, <1>3 DEF Ensure, Session, Finish, Forward, SaveFails, Interrupt, Find, Stop, EndSession, Reuse, Reject, Kill,
       Remove, Spawn, SpawnFails, AwaitPort, GiveUp, AwaitHealth, Truncate, SaveTunnel, ReadPipe, SendPort,
       Forwarded, ForwardTimeout, Goto, Use, Quit
  <2>3. \A d \in Cli \ {c} : OwnChild(d)'
    BY <1>2, <1>3, <2>2, OthersStay
  <2> QED
    BY <2>1, <2>3 DEF Children
<1>4. ASSUME NEW p \in Pid, Kubectl(p) \/ Exit(p)
      PROVE  Children'
  <2>1. cli' = cli
    BY <1>4 DEF Kubectl, Listen, Report, PrintLine, Exit
  <2>2. ASSUME NEW q \in Pid, NEW d \in Cli, proc[q] # Free, proc[q].parent = {d}
        PROVE  Stays(q)
    <3>1. CASE Exit(p)
      BY <1>1, <2>2, <3>1, KilledSpares DEF Exit, Stays
    <3>2. CASE PrintLine(p)
      BY <3>2, <2>2 DEF PrintLine, Stays
    <3>3. CASE Listen(p) \/ Report(p)
      <4>1. proc[p] \in Process
        BY <1>1, <3>3 DEF Listen, Report, Free
      <4> QED
        BY <1>1, <2>2, <3>3, <4>1 DEF Listen, Report, Stays, Process, Free
    <3> QED
      BY <1>4, <3>1, <3>2, <3>3 DEF Kubectl
  <2> QED
    BY <1>2, <2>1, <2>2 DEF Children
<1>5. CASE UNCHANGED vars
  BY <1>5 DEF vars, Children, OwnChild, Child
<1> QED
  BY <1>3, <1>4, <1>5 DEF Next

\* A command is given its URL.
LEMMA UseFollows ==
  ASSUME Trusted, NEW c \in Cli, Reuse(c) \/ SaveTunnel(c) \/ SaveFails(c)
  PROVE  cli'[c].server = cli[c].file \/ cli[c].file \in spoiled \cup ended
<1>1. cli[c] \in Recorded \cup Saving
  BY Shapes DEF Trusted, Tended, IInv, Reuse, SaveTunnel, SaveFails, At
<1>2. PICK j \in FileName : j = cli[c].file
  BY <1>1 DEF Recorded, Saving
<1>3. SUFFICES ASSUME j \notin spoiled \cup ended
               PROVE  cli'[c].server = j
  BY <1>2
<1>4. Managing(c, j)
  BY <1>1, <1>2 DEF Managing, Recorded, Saving
<1>5. Holds(c, j)
  BY <1>3, <1>4, OwnFile
<1>6. CASE Reuse(c)
  <2>1. PICK p \in Servers(cli[c].info.port) : Use(c, cli[c].info.port, proc[p].file)
    BY <1>6 DEF Reuse
  <2>2. cli'[c].server = proc[p].file
    BY <2>1 DEF Use, Trusted, Tended, IInv, Typed
  <2>3. Served(cli[c].info.port, j)
    BY <1>5, <1>6 DEF Holds, Reuse, At
  <2> QED
    BY <2>2, <2>3, OneServer DEF Trusted, Tended, IInv
<1>7. CASE SaveTunnel(c) \/ SaveFails(c)
  BY <1>5, <1>7 DEF Holds, SaveTunnel, SaveFails, Use, At, Trusted, Tended, IInv, Typed
<1> QED
  BY <1>6, <1>7

\* A command uses the tunnel of its own state file, unless that tunnel's kubectl has
\* ended behind the file's back or commands overlapped or were interrupted at it.
THEOREM CommandsUseTheirTunnel == Spec => UsesItsOwnTunnel
<1>1. Init => Children /\ Guarded /\ Cleared
  BY DEF Init, Children, OwnChild, Guarded, Intact, Cleared, Starting, Managing, Idle, Absent
<1>2. Trusted /\ [Next]_vars => Children' /\ Guarded' /\ Cleared'
  <2>1. SUFFICES ASSUME Trusted, [Next]_vars
                 PROVE  Guarded' /\ Cleared'
    BY ChildrenStay DEF Trusted, Tended
  <2>2. CASE UNCHANGED vars
    <3>1. \A k \in FileName : Endures(k)
      BY <2>2, SameProcesses DEF vars
    <3> QED
      BY <2>1, <2>2, <3>1, GuardedAway DEF vars, history
  <2>3. ASSUME NEW c \in Cli,
               \/ Ensure(c) \/ Session(c) \/ Finish(c) \/ Forward(c) \/ SaveFails(c) \/ Interrupt(c)
               \/ (\E k \in Context : Find(c, k) \/ Stop(c, k))
               \/ (\E code \in Exec : EndSession(c, code))
        PROVE  Guarded' /\ Cleared'
    BY <2>1, <2>3, FindStopGuarded, RecordedGuarded, SpawnGuarded, AwaitGuarded, SaveGuarded, EndGuarded,
       AwayGuarded DEF Ensure, Session
  <2> QED
    BY <2>1, <2>2, <2>3, AwayGuarded DEF Next
<1>3. Trusted /\ [Next]_vars =>
        [\A c \in Cli : ~ At(c, "done") /\ At(c, "done")' =>
           cli'[c].server = cli[c].file \/ cli[c].file \in spoiled \cup ended]_vars
  <2>1. SUFFICES ASSUME Trusted, [Next]_vars, NEW c \in Cli, cli[c].pc # "done", cli'[c].pc = "done"
                 PROVE  cli'[c].server = cli[c].file \/ cli[c].file \in spoiled \cup ended
    BY DEF At
  <2>2. Reuse(c) \/ SaveTunnel(c) \/ SaveFails(c)
    <3>1. cli \in [Cli -> Commands] /\ Typed
      BY <2>1 DEF Trusted, Tended, IInv, Typed
    <3>2. ASSUME NEW d \in Cli, NEW pc \in {"kill", "remove", "saving", "session"},
                 cli' = [cli EXCEPT ![d].pc = pc], cli[d] \in Recorded \cup Begun \cup Saving
          PROVE  FALSE
      BY <2>1, <3>1, <3>2 DEF Recorded, Begun, Saving
    <3>3. ASSUME NEW d \in Cli, Reject(d) \/ Kill(d) \/ Truncate(d) \/ Forwarded(d)
          PROVE  FALSE
      <4>1. cli[d] \in Recorded \cup Begun \cup Saving
        BY <3>1, <3>3, Shapes DEF Reject, Kill, Truncate, Forwarded, At
      <4> QED
        BY <3>2, <3>3, <4>1 DEF Reject, Kill, Truncate, Forwarded, Goto
    <3>4. ASSUME NEW d \in Cli, \E procs : Quit(d, procs)
          PROVE  FALSE
      BY <2>1, <3>1, <3>4 DEF Quit, Idle
    <3>5. ASSUME NEW d \in Cli,
                 Spawn(d) \/ AwaitPort(d) \/ AwaitHealth(d) \/ Forward(d) \/ (\E k \in Context : Find(d, k) \/ Stop(d, k))
                 \/ Remove(d)
          PROVE  FALSE
      <4>1. CASE Remove(d) /\ cli[d].next = "idle"
        BY <3>4, <4>1 DEF Remove
      <4>2. CASE ~ (Remove(d) /\ cli[d].next = "idle")
        BY <2>1, <3>1, <3>5, <4>2 DEF Spawn, AwaitPort, AwaitHealth, Forward, Find, Stop, Remove
      <4> QED
        BY <4>1, <4>2
    <3>6. cli' # cli
      BY <2>1
    <3>7. ASSUME NEW d \in Cli, Reuse(d) \/ SaveTunnel(d) \/ SaveFails(d)
          PROVE  d = c
      BY <2>1, <3>1, <3>7 DEF Reuse, SaveTunnel, SaveFails, Use
    <3>8. \A d \in Cli : ~ (SpawnFails(d) \/ GiveUp(d) \/ Finish(d) \/ ForwardTimeout(d) \/ Interrupt(d))
          /\ \A code \in Exec : ~ EndSession(d, code)
      BY <3>4 DEF SpawnFails, GiveUp, Finish, ForwardTimeout, Interrupt, EndSession
    <3>9. \A d \in Cli : ~ ReadPipe(d) /\ ~ SendPort(d)
      BY <3>6 DEF ReadPipe, SendPort
    <3>10. \A p \in Pid : ~ Kubectl(p) /\ ~ Exit(p)
      BY <3>6 DEF Kubectl, Listen, Report, PrintLine, Exit
    <3>11. PICK d \in Cli : Reuse(d) \/ SaveTunnel(d) \/ SaveFails(d)
      BY <2>1, <3>3, <3>5, <3>6, <3>8, <3>9, <3>10 DEF Next, Ensure, Session, vars
    <3> QED
      BY <3>7, <3>11
  <2> QED
    BY <2>1, <2>2, UseFollows
<1> QED
  BY <1>1, <1>2, <1>3, TendedAlways, PTL DEF Spec, Trusted, UsesItsOwnTunnel

-----------------------------------------------------------------------------
(* The output of a session *)

\* A kubectl has one parent at most; that of a session has its terminal.
Parents ==
  \A p \in Pid : proc[p] # Free =>
    \A c \in proc[p].parent :
      /\ proc[p].parent = {c}
      /\ proc[p].out = "pipe" => cli[c].pc \in {"forward", "session"}

\* Every port on its way, in the reader's hand, in the channel or already with
\* the session, and every line in the pipe is a line that kubectl has printed.
Onward(c) == (IF session[c].reader = "send" THEN 1 ELSE 0) + (IF At(c, "session") THEN 1 ELSE 0)
Counted ==
  \A c \in Cli :
    /\ cli[c].pc \notin {"forward", "session"} => session[c] = NoSession
    /\ session[c].pipe + session[c].ports + Onward(c) <= session[c].lines

Flows == IInv /\ Parents /\ Counted

\* A process whose end or orphaning changes nothing but that.
LEMMA ParentsStay ==
  ASSUME Flows, NEW c \in Cli,
         \A d \in Cli \ {c} : cli'[d] = cli[d],
         \A p \in Pid : proc'[p] # Free =>
           /\ proc[p] # Free /\ proc'[p].parent \subseteq proc[p].parent /\ proc'[p].out = proc[p].out
           /\ \/ c \notin proc'[p].parent
              \/ proc[p].out = "log"
              \/ cli[c].pc \in {"forward", "session"} => cli'[c].pc \in {"forward", "session"}
  PROVE  Parents'
<1>1. ASSUME NEW p \in Pid, proc'[p] # Free, NEW d \in proc'[p].parent
      PROVE  proc'[p].parent = {d} /\ (proc'[p].out = "pipe" => cli'[d].pc \in {"forward", "session"})
  <2>1. d \in proc[p].parent /\ proc[p] # Free /\ proc[p] \in Process
    BY <1>1 DEF Flows, IInv, Typed
  <2>2. proc[p].parent = {d} /\ (proc[p].out = "pipe" => cli[d].pc \in {"forward", "session"}) /\ d \in Cli
    BY <2>1 DEF Flows, Parents, Process
  <2>3. proc'[p].parent = {d}
    BY <1>1, <2>2
  <2>4. proc'[p].out = "pipe" => cli'[d].pc \in {"forward", "session"}
    BY <1>1, <2>2
  <2> QED
    BY <2>3, <2>4
<1> QED
  BY <1>1 DEF Parents

\* A killed process keeps its parent and its output, if it keeps its number.
LEMMA KilledKeeps ==
  ASSUME Typed, NEW p \in Pid
  PROVE  \A q \in Pid : Killed(p)[q] # Free =>
           proc[q] # Free /\ Killed(p)[q].parent = proc[q].parent /\ Killed(p)[q].out = proc[q].out
<1>1. proc \in [Pid -> {Free} \cup Process]
  BY DEF Typed
<1>2. CASE ~ Live(p)
  BY <1>1, <1>2 DEF Killed
<1>3. CASE Live(p)
  <2> DEFINE v == IF proc[p].parent = {} THEN Free ELSE [proc[p] EXCEPT !.st = "exited", !.port = 0, !.told = FALSE]
  <2>1. proc[p] \in Process
    BY <1>1, <1>3 DEF Live, Free
  <2>2. v # Free => v.parent = proc[p].parent /\ v.out = proc[p].out
    BY <2>1 DEF Process, Free
  <2>3. Killed(p) = [proc EXCEPT ![p] = v]
    BY <1>3 DEF Killed
  <2>4. proc[p] # Free
    BY <1>3 DEF Live, Free
  <2> HIDE DEF v
  <2> QED
    BY <1>1, <2>2, <2>3, <2>4
<1> QED
  BY <1>2, <1>3

\* At its end a command's session is forgotten and its children have no parent.
LEMMA QuitFlows ==
  ASSUME Flows, NEW c \in Cli, NEW procs \in [Pid -> {Free} \cup Process], Quit(c, procs),
         \A q \in Pid : procs[q] # Free =>
           proc[q] # Free /\ procs[q].parent = proc[q].parent /\ procs[q].out = proc[q].out
  PROVE  Parents' /\ Counted'
<1>1. /\ cli' = [cli EXCEPT ![c] = Idle] /\ session' = [session EXCEPT ![c] = NoSession]
      /\ proc' = [p \in Pid |->
           IF procs[p] = Free \/ procs[p].parent # {c} THEN procs[p]
           ELSE IF procs[p].st = "exited" THEN Free ELSE [procs[p] EXCEPT !.parent = {}]]
  BY DEF Quit
<1>2. /\ \A d \in Cli \ {c} : cli'[d] = cli[d] /\ session'[d] = session[d]
      /\ cli'[c].pc = "idle" /\ session'[c] = NoSession
  BY <1>1 DEF Idle, Flows, IInv, Typed
<1>3. ASSUME NEW p \in Pid, proc'[p] # Free
      PROVE  /\ proc[p] # Free /\ proc'[p].parent \subseteq proc[p].parent /\ proc'[p].out = proc[p].out
             /\ c \notin proc'[p].parent
  <2>1. proc'[p] = procs[p] \/ proc'[p] = Free \/ proc'[p] = [procs[p] EXCEPT !.parent = {}]
    BY <1>1
  <2>2. procs[p] # Free /\ procs[p] \in Process
    BY <1>1, <1>3
  <2>3. proc[p] # Free /\ procs[p].parent = proc[p].parent /\ procs[p].out = proc[p].out
    BY <2>2
  <2>4. CASE procs[p].parent # {c}
    <3>1. proc'[p] = procs[p]
      BY <1>1, <2>4
    <3>2. c \notin procs[p].parent
      BY <2>3, <2>4 DEF Flows, Parents
    <3> QED
      BY <2>3, <3>1, <3>2
  <2>5. CASE procs[p].parent = {c}
    <3>1. proc'[p] = [procs[p] EXCEPT !.parent = {}]
      BY <1>1, <1>3, <2>2, <2>5
    <3>2. proc'[p].parent = {} /\ proc'[p].out = procs[p].out
      BY <2>2, <3>1 DEF Process
    <3> QED
      BY <2>3, <3>2
  <2> QED
    BY <2>4, <2>5
<1>4. Parents'
  BY <1>2, <1>3, ParentsStay
<1>5. Counted'
  <2>1. NoSession.pipe + NoSession.ports + ((IF NoSession.reader = "send" THEN 1 ELSE 0) + 0) <= NoSession.lines
    BY DEF NoSession
  <2> QED
    BY <1>2, <2>1 DEF Counted, Onward, At, Flows
<1> QED
  BY <1>4, <1>5

\* A command on its way to its end or to its session.
LEMMA CommandFlows ==
  ASSUME Flows, NEW c \in Cli,
         \/ (\E k \in Context : Find(c, k) \/ Stop(c, k))
         \/ Ensure(c) \/ Finish(c) \/ ForwardTimeout(c) \/ Interrupt(c) \/ SaveFails(c)
         \/ (\E code \in Exec : EndSession(c, code))
  PROVE  Parents' /\ Counted'
<1>1. cli[c].pc \in {"port", "health", "forward", "session"} => cli[c].pid \in Pid
  BY Shapes DEF Flows, IInv, Begun, Answering
<1>2. proc \in [Pid -> {Free} \cup Process]
  BY DEF Flows, IInv, Typed
<1>3. CASE Quit(c, proc)
  BY <1>2, <1>3, QuitFlows
<1>4. CASE cli[c].pid \in Pid /\ Quit(c, Killed(cli[c].pid))
  <2>1. Killed(cli[c].pid) \in [Pid -> {Free} \cup Process]
    BY <1>4, KilledFacts DEF Flows, IInv
  <2>2. \A q \in Pid : Killed(cli[c].pid)[q] # Free =>
          /\ proc[q] # Free /\ Killed(cli[c].pid)[q].parent = proc[q].parent
          /\ Killed(cli[c].pid)[q].out = proc[q].out
    BY <1>4, KilledKeeps DEF Flows, IInv
  <2> QED
    BY <1>4, <2>1, <2>2, QuitFlows
<1>5. ASSUME session' = session, \A d \in Cli \ {c} : cli'[d] = cli[d],
             cli[c].pc \notin {"forward", "session"}, cli'[c].pc \notin {"forward", "session"}
      PROVE  Counted'
  <2>1. \A d \in Cli : At(d, "session")' <=> At(d, "session")
    BY <1>5 DEF At
  <2> QED
    BY <1>5, <2>1 DEF Flows, Counted, Onward
<1>6. ASSUME session' = session, \A d \in Cli \ {c} : cli'[d] = cli[d],
             cli[c].pc \notin {"forward", "session"}, cli'[c].pc \notin {"forward", "session"},
             \A p \in Pid : proc'[p] # Free =>
               proc[p] # Free /\ proc'[p].parent = proc[p].parent /\ proc'[p].out = proc[p].out
      PROVE  Parents' /\ Counted'
  BY <1>5, <1>6, ParentsStay
<1>7. CASE Spawn(c)
  <2>1. PICK p \in Pid :
          /\ proc' = [proc EXCEPT ![p] = Started(c, "log")]
          /\ cli' = [cli EXCEPT ![c] = [pc |-> "port", file |-> cli[c].file, pid |-> p]]
    BY <1>7 DEF Spawn
  <2>2. session' = session /\ cli[c].pc = "spawn"
    BY <1>7 DEF Spawn, At
  <2>3. cli'[c].pc = "port" /\ \A d \in Cli \ {c} : cli'[d] = cli[d]
    BY <2>1 DEF Flows, IInv, Typed
  <2>4. proc'[p] = Started(c, "log") /\ \A q \in Pid \ {p} : proc'[q] = proc[q]
    BY <1>2, <2>1
  <2>5. ASSUME NEW q \in Pid, proc'[q] # Free, NEW d \in proc'[q].parent
        PROVE  proc'[q].parent = {d} /\ (proc'[q].out = "pipe" => cli'[d].pc \in {"forward", "session"})
    <3>1. CASE q = p
      BY <2>4, <2>5, <3>1 DEF Started
    <3>2. CASE q # p
      <4>1. proc[q].parent = {d} /\ (proc[q].out = "pipe" => cli[d].pc \in {"forward", "session"}) /\ d \in Cli
        BY <1>2, <2>4, <2>5, <3>2 DEF Flows, Parents, Process
      <4> QED
        BY <2>2, <2>3, <2>4, <3>2, <4>1
    <3> QED
      BY <3>1, <3>2
  <2> QED
    BY <1>5, <2>2, <2>3, <2>5 DEF Parents
<1>8. CASE Kill(c)
  <2>1. cli[c].info.pid \in Pid /\ cli[c] \in Recorded
    BY <1>8, Shapes, InfoFacts DEF Kill, At, Recorded, Flows, IInv
  <2>2. proc' = Killed(cli[c].info.pid) /\ session' = session /\ cli' = [cli EXCEPT ![c].pc = "remove"]
        /\ cli[c].pc = "kill"
    BY <1>8 DEF Kill, Goto, At
  <2>3. cli'[c].pc = "remove" /\ \A d \in Cli \ {c} : cli'[d] = cli[d]
    BY <2>1, <2>2 DEF Recorded, Flows, IInv, Typed
  <2> QED
    BY <1>6, <2>1, <2>2, <2>3, KilledKeeps DEF Flows, IInv
<1>9. CASE \/ (\E k \in Context : Find(c, k) \/ Stop(c, k))
           \/ Reuse(c) \/ Reject(c) \/ Remove(c) \/ AwaitPort(c) \/ AwaitHealth(c)
           \/ Truncate(c) \/ SaveTunnel(c) \/ SaveFails(c)
  <2>1. cli[c].pc \notin {"forward", "session"}
    BY <1>9 DEF Find, Stop, Command, Reuse, Reject, Remove, AwaitPort, AwaitHealth, Truncate, SaveTunnel, SaveFails, At
  <2>2. ASSUME ~ Quit(c, proc)
        PROVE  UNCHANGED <<proc, session>>
    BY <1>9, <2>2 DEF Find, Stop, Command, Reuse, Reject, Remove, AwaitPort, AwaitHealth, Truncate, SaveTunnel, SaveFails
  <2>3. ASSUME ~ Quit(c, proc)
        PROVE  cli'[c].pc \notin {"forward", "session"} /\ \A d \in Cli \ {c} : cli'[d] = cli[d]
    <3>1. CASE \/ (\E k \in Context : Find(c, k) \/ Stop(c, k)) \/ Reuse(c) \/ Remove(c) \/ AwaitPort(c)
               \/ AwaitHealth(c) \/ SaveTunnel(c) \/ SaveFails(c)
      BY <2>3, <3>1 DEF Find, Stop, Reuse, Remove, AwaitPort, AwaitHealth, SaveTunnel, SaveFails, Use,
                        Flows, IInv, Typed
    <3>2. CASE Reject(c) \/ Truncate(c)
      <4>1. cli[c] \in Recorded \cup Saving
        BY <3>2, Shapes DEF Reject, Truncate, At, Flows, IInv
      <4>2. PICK step \in {"kill", "saving"} : cli' = [cli EXCEPT ![c].pc = step]
        BY <3>2 DEF Reject, Truncate, Goto
      <4>3. cli'[c] = [cli[c] EXCEPT !.pc = step] /\ \A d \in Cli \ {c} : cli'[d] = cli[d]
        BY <4>2 DEF Flows, IInv, Typed
      <4>4. [cli[c] EXCEPT !.pc = step].pc = step
        BY <4>1 DEF Recorded, Saving
      <4> QED
        BY <4>3, <4>4
    <3> QED
      BY <1>9, <3>1, <3>2
  <2>4. ASSUME ~ Quit(c, proc)
        PROVE  Parents' /\ Counted'
    BY <1>6, <2>1, <2>2, <2>3, <2>4
  <2> QED
    BY <1>3, <2>4
<1> QED
  BY <1>1, <1>3, <1>4, <1>7, <1>8, <1>9
     DEF Ensure, SpawnFails, GiveUp, Finish, ForwardTimeout, Interrupt, EndSession, At

\* The session's kubectl starts, its output is read and its port handed on.
LEMMA SessionFlows ==
  ASSUME Flows, NEW c \in Cli, Forward(c) \/ ReadPipe(c) \/ SendPort(c) \/ Forwarded(c)
  PROVE  Parents' /\ Counted'
<1>1. session[c] \in Transfer /\ \A d \in Cli : session[d] \in Transfer
  BY DEF Flows, IInv, Typed
<1>2. \A d \in Cli \ {c} : session'[d] = session[d] /\ cli'[d] = cli[d]
  BY DEF Forward, ReadPipe, SendPort, Forwarded, Goto, Flows, IInv, Typed
<1>3. \A d \in Cli \ {c} :
        /\ cli'[d].pc \notin {"forward", "session"} => session'[d] = NoSession
        /\ session'[d].pipe + session'[d].ports + Onward(d)' <= session'[d].lines
  BY <1>2 DEF Flows, Counted, Onward, At
<1>4. session[c].pipe + session[c].ports + Onward(c) <= session[c].lines
  BY DEF Flows, Counted
<1>5. session[c].pipe \in Nat /\ session[c].ports \in {0, 1} /\ session[c].lines \in Nat
  BY <1>1, TunnelAssumption DEF Transfer
<1>6. CASE Forward(c)
  <2>1. PICK p \in Pid :
          /\ proc' = [proc EXCEPT ![p] = Started(c, "pipe")]
          /\ cli' = [cli EXCEPT ![c] = [pc |-> "forward", file |-> cli[c].file, pid |-> p]]
    BY <1>6 DEF Forward
  <2>2. session' = [session EXCEPT ![c].reader = "read"] /\ cli[c].pc = "done"
    BY <1>6 DEF Forward, At
  <2>3. session[c] = NoSession
    BY <2>2 DEF Flows, Counted
  <2>4. cli'[c].pc = "forward" /\ session'[c] = [NoSession EXCEPT !.reader = "read"]
    BY <2>1, <2>2, <2>3 DEF Flows, IInv, Typed
  <2>5. session'[c].pipe + session'[c].ports + Onward(c)' <= session'[c].lines
    BY <2>4 DEF NoSession, Onward, At
  <2>6. proc'[p] = Started(c, "pipe") /\ \A q \in Pid \ {p} : proc'[q] = proc[q]
    BY <2>1 DEF Flows, IInv, Typed
  <2>7. ASSUME NEW q \in Pid, proc'[q] # Free, NEW d \in proc'[q].parent
        PROVE  proc'[q].parent = {d} /\ (proc'[q].out = "pipe" => cli'[d].pc \in {"forward", "session"})
    <3>1. CASE q = p
      BY <2>4, <2>6, <2>7, <3>1 DEF Started
    <3>2. CASE q # p
      <4>1. proc[q].parent = {d} /\ (proc[q].out = "pipe" => cli[d].pc \in {"forward", "session"}) /\ d \in Cli
        BY <2>6, <2>7, <3>2 DEF Flows, Parents, Process, IInv, Typed
      <4> QED
        BY <1>2, <2>4, <2>6, <3>2, <4>1
    <3> QED
      BY <3>1, <3>2
  <2>8. Parents'
    BY <2>7 DEF Parents
  <2>9. Counted'
    BY <1>3, <2>4, <2>5 DEF Counted
  <2> QED
    BY <2>8, <2>9
<1>7. ASSUME proc' = proc
      PROVE  Parents'
  <2>1. cli[c].pc \in {"forward", "session"} => cli'[c].pc \in {"forward", "session"}
    <3>1. CASE Forwarded(c)
      <4>1. cli'[c] = [cli[c] EXCEPT !.pc = "session"] /\ cli[c] \in Begun
        BY <3>1, Shapes DEF Forwarded, Goto, At, Flows, IInv, Typed
      <4> QED
        BY <4>1 DEF Begun
    <3>2. CASE cli' = cli
      BY <3>2
    <3>3. CASE Forward(c)
      BY <3>3 DEF Forward, At
    <3> QED
      BY <3>1, <3>2, <3>3 DEF ReadPipe, SendPort
  <2> QED
    BY <1>2, <1>7, <2>1, ParentsStay
<1>8. CASE ReadPipe(c)
  <2>1. /\ session[c].reader = "read" /\ session[c].pipe > 0
        /\ session'[c].pipe = 0 /\ session'[c].reader = "send"
        /\ session'[c].ports = session[c].ports /\ session'[c].lines = session[c].lines
    BY <1>1, <1>8 DEF ReadPipe, Transfer, Flows, IInv, Typed
  <2>2. cli' = cli /\ proc' = proc
    BY <1>8 DEF ReadPipe
  <2>3. cli[c].pc \in {"forward", "session"}
    BY <2>1 DEF Flows, Counted, NoSession
  <2>4. session'[c].pipe + session'[c].ports + Onward(c)' <= session'[c].lines
    BY <1>4, <1>5, <2>1, <2>2 DEF Onward, At
  <2> QED
    BY <1>3, <1>7, <2>2, <2>3, <2>4 DEF Counted
<1>9. CASE SendPort(c)
  <2>1. /\ session[c].reader = "send" /\ session[c].ports = 0
        /\ session'[c].ports = 1 /\ session'[c].reader = "read"
        /\ session'[c].pipe = session[c].pipe /\ session'[c].lines = session[c].lines
    BY <1>1, <1>9 DEF SendPort, Room, Transfer, Flows, IInv, Typed
  <2>2. cli' = cli /\ proc' = proc
    BY <1>9 DEF SendPort
  <2>3. cli[c].pc \in {"forward", "session"}
    BY <2>1 DEF Flows, Counted, NoSession
  <2>4. session'[c].pipe + session'[c].ports + Onward(c)' <= session'[c].lines
    BY <1>4, <1>5, <2>1, <2>2 DEF Onward, At
  <2> QED
    BY <1>3, <1>7, <2>2, <2>3, <2>4 DEF Counted
<1>10. CASE Forwarded(c)
  <2>1. /\ session[c].ports = 1 /\ session'[c].ports = 0
        /\ session'[c].pipe = session[c].pipe /\ session'[c].lines = session[c].lines
        /\ session'[c].reader = session[c].reader
    BY <1>1, <1>10 DEF Forwarded, Transfer, Flows, IInv, Typed
  <2>2. cli[c].pc = "forward" /\ proc' = proc /\ cli[c] \in Begun
    BY <1>10, Shapes DEF Forwarded, At, Flows, IInv
  <2>3. cli'[c].pc = "session"
    BY <1>10, <2>2 DEF Forwarded, Goto, Begun, Flows, IInv, Typed
  <2>4. session'[c].pipe + session'[c].ports + Onward(c)' <= session'[c].lines
    BY <1>4, <1>5, <2>1, <2>2, <2>3 DEF Onward, At
  <2> QED
    BY <1>3, <1>7, <2>2, <2>3, <2>4 DEF Counted
<1> QED
  BY <1>6, <1>8, <1>9, <1>10

\* A line goes to the pipe of a terminal that has a session.
LEMMA KubectlFlows ==
  ASSUME Flows, NEW p \in Pid, Kubectl(p) \/ Exit(p)
  PROVE  Parents' /\ Counted'
<1>1. cli' = cli
  BY DEF Kubectl, Listen, Report, PrintLine, Exit
<1>2. ASSUME NEW q \in Pid, proc'[q] # Free
      PROVE  proc[q] # Free /\ proc'[q].parent = proc[q].parent /\ proc'[q].out = proc[q].out
  <2>1. CASE Exit(p)
    BY <1>2, <2>1, KilledKeeps DEF Exit, Flows, IInv
  <2>2. CASE proc' = proc
    BY <1>2, <2>2
  <2>3. CASE Listen(p) \/ Report(p)
    <3>1. proc[p] \in Process
      BY <2>3 DEF Listen, Report, Free, Flows, IInv, Typed
    <3> QED
      BY <1>2, <2>3, <3>1 DEF Listen, Report, Process, Free, Flows, IInv, Typed
  <2> QED
    BY <2>1, <2>2, <2>3 DEF Kubectl, PrintLine
<1>3. Parents'
  BY <1>1, <1>2 DEF Flows, Parents
<1>4. CASE session' = session
  BY <1>1, <1>3, <1>4 DEF Flows, Counted, Onward, At
<1>5. CASE PrintLine(p)
  <2>1. PICK c \in proc[p].parent : session' = [session EXCEPT ![c].pipe = @ + 1, ![c].lines = @ + 1]
    BY <1>5 DEF PrintLine
  <2>2. proc[p] \in Process /\ proc[p] # Free /\ proc[p].out = "pipe"
    BY <1>5 DEF PrintLine, Free, Flows, IInv, Typed
  <2>3. c \in Cli /\ cli[c].pc \in {"forward", "session"}
    BY <2>2 DEF Flows, Parents, Process
  <2>4. session[c].pipe \in Nat /\ session[c].ports \in {0, 1} /\ session[c].lines \in Nat
        /\ session[c] \in Transfer
    BY <2>3, TunnelAssumption DEF Transfer, Flows, IInv, Typed
  <2>5. /\ session'[c].pipe = session[c].pipe + 1 /\ session'[c].lines = session[c].lines + 1
        /\ session'[c].ports = session[c].ports /\ session'[c].reader = session[c].reader
        /\ \A d \in Cli \ {c} : session'[d] = session[d]
    BY <2>1, <2>3, <2>4 DEF Transfer, Flows, IInv, Typed
  <2>6. session[c].pipe + session[c].ports + Onward(c) <= session[c].lines
    BY <2>3 DEF Flows, Counted
  <2>7. session'[c].pipe + session'[c].ports + Onward(c)' <= session'[c].lines
    BY <1>1, <2>4, <2>5, <2>6 DEF Onward, At
  <2> QED
    BY <1>1, <1>3, <2>3, <2>5, <2>7 DEF Flows, Counted, Onward, At
<1> QED
  BY <1>4, <1>5 DEF Kubectl, Listen, Report, Exit

\* A session whose reader cannot hand on the port once more, with its pipe full,
\* has had that port, the one before it and the reader's in lines of their own.
THEOREM SessionsFlow == Spec => []OutputFlows
<1>1. Init => Parents /\ Counted
  BY DEF Init, Parents, Counted, Onward, At, NoSession, Idle
<1>2. Flows /\ [Next]_vars => Parents' /\ Counted'
  <2>1. SUFFICES ASSUME Flows, [Next]_vars
                 PROVE  Parents' /\ Counted'
    OBVIOUS
  <2>2. ASSUME NEW c \in Cli,
               \/ Ensure(c) \/ Session(c) \/ Finish(c) \/ Forward(c) \/ SaveFails(c) \/ Interrupt(c)
               \/ (\E k \in Context : Find(c, k) \/ Stop(c, k))
               \/ (\E code \in Exec : EndSession(c, code))
        PROVE  Parents' /\ Counted'
    BY <2>1, <2>2, CommandFlows, SessionFlows DEF Session
  <2>3. ASSUME NEW p \in Pid, Kubectl(p) \/ Exit(p)
        PROVE  Parents' /\ Counted'
    BY <2>1, <2>3, KubectlFlows
  <2>4. CASE UNCHANGED vars
    BY <2>1, <2>4 DEF vars, Flows, Parents, Counted, Onward, At
  <2> QED
    BY <2>1, <2>2, <2>3, <2>4 DEF Next
<1>3. Flows => OutputFlows
  <2>1. SUFFICES ASSUME Flows, NEW c \in Cli, At(c, "session"), session[c].reader = "send", ~ Room(c),
                        session[c].pipe = PipeSize
                 PROVE  session[c].lines >= PipeSize + 3
    BY DEF OutputFlows
  <2>2. session[c].ports \in {0, 1} /\ session[c].lines \in Nat /\ PipeSize \in Nat
    BY <2>1, TunnelAssumption DEF Transfer, Flows, IInv, Typed
  <2>3. session[c].pipe + session[c].ports + Onward(c) <= session[c].lines
    BY <2>1 DEF Flows, Counted
  <2>4. session[c].ports = 1 /\ Onward(c) = 2
    BY <2>1, <2>2 DEF Room, Onward
  <2> QED
    BY <2>1, <2>2, <2>3, <2>4
<1> QED
  BY <1>1, <1>2, <1>3, Inductive, PTL DEF Spec, Flows
=============================================================================
