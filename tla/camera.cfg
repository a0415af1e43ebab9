SPECIFICATION MCSpec
CONSTANTS
  Ids = {i1, i2}
  LegacyStreams = {0}
  TierStream = 1
  MaxSetups = 3
  MaxEncoders = 3
  MaxJobs = 2
  WebRTCIds = {w1, w2}
  CMAFIds = {c1, c2}
  Limits = {1, 2, 9}
  MaxEvents = 4
CHECK_DEADLOCK FALSE
INVARIANT AllTypesOK EncoderCanBeStopped  StopIsThorough NoEventIsMissed SessionEndsOnce
SYMMETRY Symmetry
