SPECIFICATION Spec
CONSTANTS
  Ids = {i1, i2}
  LegacyStreams = {0}
  TierStream = 1
  MaxSetups = 2
  MaxEncoders = 2
  MaxJobs = 2
CHECK_DEADLOCK FALSE
INVARIANT StopStopsEverything
