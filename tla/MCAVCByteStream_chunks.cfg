SPECIFICATION Spec
CHECK_DEADLOCK FALSE
CONSTANTS
  Sources = {"file", "camera"}
  Streams <- MCStreams
INVARIANTS
  TypeOK
  UnitsExact
  PayloadsExact
  AssertionsHold
