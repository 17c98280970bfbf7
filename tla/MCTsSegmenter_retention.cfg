SPECIFICATION Spec
CONSTANTS
  Duration = 1
  Segments = 3
  ClockSteps <- WholeSteps
  MaxClock = 10000000
  MaxAhead = 0
  MaxSegment = 8
  MaxRestarts = 0
  Faults = {}
PROPERTIES RetainedAsQuoted
CHECK_DEADLOCK FALSE
