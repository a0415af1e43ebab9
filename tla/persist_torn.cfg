SPECIFICATION Spec
CONSTANTS
  Clients = {c1, c2}
  Pool = {w1}
  Callers = {}
  MaxVersion = 65535
  MaxChanges = 2
  MaxCrashes = 1
INVARIANT RestartedConsistent
CHECK_DEADLOCK FALSE
