SPECIFICATION Spec
CONSTANTS
  Task = {t}
  Manifest = {m}
  Client = {c}
  Worker = {w}
  BatchSize = 2
  MaxCommands = 3
  MaxFaults = 0
INVARIANTS StopIsFinal
CHECK_DEADLOCK FALSE
