SPECIFICATION FairSpec
CONSTANTS
  Results = {0, 11}
  MaxSpawns = 6
INVARIANTS TypeOK JoinedMeansGone
PROPERTIES ImplementsJoin WaitReturns
CHECK_DEADLOCK FALSE
