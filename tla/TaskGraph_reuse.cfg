SPECIFICATION Spec
CONSTANTS
  a = a  b = b  x = x  y = y  v = v  w = w
  Node = {a, b}
  Body = {x, y}
  Value = {v, w}
  NoFiles = NoFiles
  Plans <- RevertedPlans
  Operator = {o1}
  Nobody = Nobody
  Commands = {"apply", "run"}
  Faults = {"fail", "crash"}
  MaxFaults = 0
INVARIANTS UnchangedIsReused
