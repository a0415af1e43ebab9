SPECIFICATION Spec
CONSTANTS
  Transports = {t1, t2}
  Conns = {c1, c2}
  Tasks = {r1, r2}
  Ids = {i1, i2}
  None = None
  ChunkSize = 2
  Sizes = {0, 2, 3}
  MaxFragments = 2
SYMMETRY Symmetry
INVARIANT TypeOK OneConnectionPerTransport FragmentsBelong RecordingIsWhole
PROPERTY StopReachesBound NoDataAfterClose
CHECK_DEADLOCK FALSE
