SPECIFICATION FairSpec
CONSTANTS
  a = a  b = b  x = x  y = y  v = v  w = w
  Node = {a, b}
  Body = {x, y}
  Value = {v}
  NoFiles = NoFiles
  Plans <- SettlingPlans
  Operator = {o1}
  Nobody = Nobody
  Commands = {"apply", "run", "suspend", "resume"}
  Faults = {"fail", "crash", "overwrite"}
  MaxFaults = 2
PROPERTIES
  RunSettles
  SuspensionSettles
