SPECIFICATION FairSpec
CONSTANTS
  Task = {t}
  Manifest = {m, n}
  Client = {c1, c2}
  Worker = {w}
  BatchSize = 2
  MaxCommands = 3
  MaxFaults = 2
INVARIANTS
  TypeOK
  IInv
  NoOrphanActor
  QuietAgrees
  DeletePrevails
  UnlistedIsTerminating
PROPERTIES DeletionCompletes
CHECK_DEADLOCK FALSE
