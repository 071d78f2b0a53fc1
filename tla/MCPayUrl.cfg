\* Three callers, two orders, the server is stopped at any moment.
CONSTANTS
  r1 = r1
  r2 = r2
  r3 = r3
  Orders = {o1, o2}
  Reqs <- MCReqs
  MaxCalls = 2
  NoOrder = NoOrder
  Group <- MCGroup
SPECIFICATION FairSpec
INVARIANTS ExclusiveUnlessAbandoned NoOrphanEntry
PROPERTY CallsEnd
CHECK_DEADLOCK FALSE
