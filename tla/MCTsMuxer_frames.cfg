SPECIFICATION Spec
CHECK_DEADLOCK FALSE
CONSTANTS
  Sizes <- EdgeSizes
  FirstHeaders = {103}
  Steps = {3003, 9000}
  Delays = {0, 3600}
  MaxFrames = 3
INVARIANTS
  TypeOK
  BufferExact
  PacketsFull
  BucketSound
  FramesArrive
  Continuity
  TablesFresh
