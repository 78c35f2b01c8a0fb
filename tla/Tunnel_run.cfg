SPECIFICATION FairSpec
CONSTANTS
  Cli = {c1, c2}
  Ssh = {c1}
  k1 = k1  k2 = k2  k3 = k3  f1 = f1  f2 = f2
  Context = {k1, k2, k3}
  FileName = {f1, f2}
  SanitizeContext <- SharedFiles
  Pid = {1, 2}
  Port = {1, 2}
  PipeSize = 1
  MaxCommands = 3
  MaxLines = 4
  MaxFaults = 1
  ExitCodes = {0, 1}
INVARIANTS
  TypeOK
  TunnelIsRecorded
  OutputFlows
PROPERTIES
  UsesItsOwnTunnel
  Answered
CHECK_DEADLOCK FALSE
