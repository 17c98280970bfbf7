SPECIFICATION Spec
CONSTANTS
  Duration = 1
  Segments = 1
  ClockSteps <- BackSteps
  MaxClock = 10000000
  MaxAhead = 1200
  MaxSegment = 2
  MaxRestarts = 1
  Faults = {"kept", "lost", "open", "remove", "write", "close"}
INVARIANTS TypeOK ListedPlayable
CHECK_DEADLOCK FALSE
