SPECIFICATION FairSpec
CHECK_DEADLOCK FALSE
CONSTANTS
  Parsers = {"avc", "ffmpeg"}
  Chunks <- MCChunks
  Sizes <- MCSizes
  BufSize = 2
  Ids = 11
  MaxQueue = 3
  Faults = TRUE
INVARIANTS
  TypeOK
  NothingFreedInUse
  NothingLeft
  InOrder
  ReadExact
  FrontSound
PROPERTIES
  StopReturns
  Delivered
