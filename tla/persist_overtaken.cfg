SPECIFICATION Spec
CONSTANTS
  Clients = {c1, c2}
  Pool = {w1, w2}
  Callers = {}
  MaxVersion = 65535
  MaxChanges = 2
  MaxCrashes = 0
INVARIANT FileCatchesUp
CHECK_DEADLOCK FALSE
