SPECIFICATION FairSpec
CONSTANTS
  a = a  b = b  x = x  y = y  v = v  w = w
  Node = {a}
  Body = {x, y}
  Value = {v, w}
  NoFiles = NoFiles
  Plans <- SinglePlan
  Operator = {o1}
  Nobody = Nobody
  Commands = {"apply", "run", "suspend"}
  Faults = {"fail", "crash"}
  MaxFaults = 0
PROPERTIES SuspensionAlwaysSettles
