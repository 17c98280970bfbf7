SPECIFICATION Spec
CHECK_DEADLOCK FALSE
CONSTANTS
  Sources = {"file"}
  Streams <- PaddedStreams
INVARIANTS
  PaddingAccepted
