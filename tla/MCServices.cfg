SPECIFICATION AllSpec
CONSTANTS
  Merchants = {m1, m2}
  Commits = {c1, c2, c3}
  NoCommit = NoCommit
  MaxLoads = 2
  MaxPushes = 3
  MaxRestarts = 1
  m1 = m1
  q1 = q1
  q2 = q2
  q3 = q3
  Calls = {q1, q2, q3}
  Invalid = {q3}
  Notes = {n1}
  MaxWindow = 3
  NoCall = NoCall
  p1 = p1
  p2 = p2
  p3 = p3
  a1 = a1
  a2 = a2
  Fields = {"appid", "key"}
  Details = {p1, p2, p3}
  Apps = {a1, a2}
  AppOf <- MCAppOf
  None = None
  Reqs = {x1, x2}
  MaxBatches = 3
  MaxStarts = 2
CHECK_DEADLOCK FALSE
INVARIANTS ServicesTypeOK UnchangedIsCurrent ConfigOfOneCall
PROPERTIES IndexCatchesUp FifoSpec EveryCallAnswered
