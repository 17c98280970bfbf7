SPECIFICATION Spec
CONSTANTS
  Duration = 1
  Segments = 2
  ClockSteps <- WholeSteps
  MaxClock = 9000000
  MaxAhead = 0
  MaxSegment = 7
  MaxRestarts = 0
  Faults = {}
INVARIANTS ListedPlayable WindowExact NoOrphans StorageBounded
PROPERTIES Retained ImplementsPlaylist
CHECK_DEADLOCK FALSE
