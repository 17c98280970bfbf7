SPECIFICATION Spec
CHECK_DEADLOCK FALSE
CONSTANTS
  Encoders <- Poc1
  MaxNals = 6
INVARIANTS
  Partition
