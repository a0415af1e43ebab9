SPECIFICATION Spec
CONSTANTS
  Peers = {p}
  Pids = {pid}
  Chars = {a, b}
  Services = {{a}, {b}}
  Accessories = {{a, b}}
  Values = {v0, v1}
  Stored = {v0, v1}
  Start = v0
  Taken <- MCTaken
  AlwaysNull = {}
  Invalid = Invalid
  Null = Null
  Missing = Missing
  Unknown = Unknown
  TTLs = {1}
  MaxTime = 2
  MaxQueries = 2
  MaxEffects = 1
INVARIANT ExpiredWriteRefused
