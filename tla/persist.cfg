SPECIFICATION Spec
CONSTANTS
  Clients = {c1, c2}
  Pool = {w1, w2}
  Callers = {a}
  MaxVersion = 2
  MaxChanges = 3
  MaxCrashes = 1
SYMMETRY PoolSymmetry
INVARIANT TypeOK AlwaysLoadable 
CHECK_DEADLOCK FALSE
