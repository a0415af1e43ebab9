SPECIFICATION DatabaseSpec
CONSTANTS
  Bridge = bridge
  X = x
  Y = y
  Accessories = {x, y}
  InfoOfBridge = ib
  InfoOfX = ix
  InfoOfY = iy
  Info <- MCInfo
  Services = {ib, ix, iy, s}
  Chars = {c}
  TypeOf <- MCTypeOf
  GivenAids = {1, 3}
  None = None
  NotCached = NotCached
  MaxIid = 4
  MaxListed = 2
  Threads = {thread}
  Loop = loop
  Inputs = {2, 6}
  Configs <- MCConfigs
  MaxCalls = 3
  Peers = {peer}
  Pids = {pid}
  WrittenChars = {a, b}
  WrittenServices = {{a}, {b}}
  WrittenAccessories = {{a, b}}
  Values = {v1, over, bad}
  Stored = {v0, v1, most}
  Start = v0
  Taken <- MCTaken
  Over = over
  Most = most
  Bad = bad
  Invalid = Invalid
  AlwaysNull = {b}
  Null = Null
  Missing = Missing
  Unknown = Unknown
  TTLs = {0}
  MaxTime = 1
  MaxQueries = 2
  MaxEffects = 1
CHECK_DEADLOCK FALSE
SYMMETRY Symmetry
INVARIANT AllTypesOK ListedIsFound CacheIsCurrentUnlessRaced  PreparesEndWithConnection SuccessIsTrue
PROPERTY NeverReassigned
