SPECIFICATION FairSpec
CONSTANTS
  Body = 4
  Output = 5
  Capacity = 2
  NoResult = NoResult
CHECK_DEADLOCK FALSE
INVARIANTS AllOrNothing NothingLeft
PROPERTY CallEnds
