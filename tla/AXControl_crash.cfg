SPECIFICATION FairSpec
CONSTANTS
  Task = {t}
  Manifest = {m}
  Client = {c}
  Worker = {w}
  BatchSize = 2
  MaxCommands = 2
  MaxFaults = 1
PROPERTIES EventsAreHandled
CHECK_DEADLOCK FALSE
