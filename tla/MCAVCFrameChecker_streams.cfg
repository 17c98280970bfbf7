SPECIFICATION Spec
CHECK_DEADLOCK FALSE
CONSTANTS
  Encoders <- Streams
  MaxNals = 6
INVARIANTS
  TypeOK
  Partition
  HeaderExact
  KeyFrames
