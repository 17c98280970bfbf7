SPECIFICATION QuietCameraSpec
CONSTANTS
  Ids = 4
  MaxQueue = 2
PROPERTIES InterruptExits
CHECK_DEADLOCK FALSE
