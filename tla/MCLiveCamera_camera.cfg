SPECIFICATION CameraSpec
CONSTANTS
  Ids = 4
  MaxQueue = 2
INVARIANTS TypeOK InOrder EncodesWhileBuilt RefsBalanced
PROPERTIES InterruptExits
CHECK_DEADLOCK FALSE
