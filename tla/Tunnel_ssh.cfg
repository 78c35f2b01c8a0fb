SPECIFICATION Spec
CONSTANTS
  Cli = {c1}
  Ssh = {c1}
  k1 = k1  k2 = k2  k3 = k3  f1 = f1  f2 = f2
  Context = {k1}
  FileName = {f1}
  SanitizeContext <- OwnFile
  Pid = {1, 2}
  Port = {1, 2}
  PipeSize = 1
  MaxCommands = 3
  MaxLines = 4
  MaxFaults = 0
  ExitCodes = {0, 1}
INVARIANTS
  EphemeralEnds
CHECK_DEADLOCK FALSE
