SPECIFICATION FairSpec
CONSTANTS
  Tasks <- AllTasks
  GitRetries = 2
  MaxFaults = 1
  MaxStops <- Stops
INVARIANTS
  TypeOK
  ReceiptIsEvidence
  MarkedIsPrepared
PROPERTIES
  WorkIsKept
  ImplementsExecution
  Answered
CHECK_DEADLOCK FALSE
