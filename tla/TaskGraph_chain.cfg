SPECIFICATION Spec
CONSTANTS
  a = a  b = b  x = x  y = y  v = v  w = w
  Node = {a, b}
  Body = {x, y}
  Value = {v, w}
  NoFiles = NoFiles
  Plans <- ChangedPlans
  Operator = {o1, o2}
  Nobody = Nobody
  Commands = {"apply", "run", "suspend", "resume"}
  Faults = {"fail", "crash"}
  MaxFaults = 1
INVARIANTS
  TypeOK
  IInv
  LockCoversCopies
  IdentityStoredFirst
  WantedIsOwned
  EnsureIsIdempotent
  AdoptedWasValidated
  AttemptsFitPlan
  SomethingIsDue
  ImpactCovers
PROPERTIES
  AttemptsArePermanent
  PhasesAdvance
  RevisionStartsQuiet
  ImplementsContract
SYMMETRY Symmetry
