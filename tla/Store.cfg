SPECIFICATION FairSpec
CONSTANTS
  Impls = {"redis", "memory"}
  Kinds = {"Task", "Model"}
  Client = {c1, c2}
  Value = {v}
  ChannelSize = 2
  QueueSize = 1
  MaxCommands = 3
  MaxLosses = 1
INVARIANTS
  TypeOK
  StableIsListed
  CreatedIsTrue
PROPERTIES
  ImplementsRegistry
  WatchEnds
  DeleteAnswers
CHECK_DEADLOCK FALSE
