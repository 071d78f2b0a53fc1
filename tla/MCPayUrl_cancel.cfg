\* The server is stopped while a call waits for its turn.
CONSTANTS
  r1 = r1
  r2 = r2
  r3 = r3
  Orders = {o1}
  Reqs <- MCReqs
  MaxCalls = 1
  NoOrder = NoOrder
  Group <- MCGroup
SPECIFICATION Spec
INVARIANT Exclusive
CHECK_DEADLOCK FALSE
