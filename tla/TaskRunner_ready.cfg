SPECIFICATION Spec
CONSTANTS
  Tasks <- PlainTasks
  GitRetries = 2
  MaxFaults = 0
  MaxStops <- NoStops
INVARIANTS WorkspaceReadyIsTrue
CHECK_DEADLOCK FALSE
