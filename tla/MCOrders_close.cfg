\* order_close against doc/api.md.
CONSTANTS
  Orders = {o1}
  Buyers = {b}
  Merchants = {m1}
  None = None
  Reqs = {r1}
  Prices = {1}
  Fees = {0}
  Waybills = {}
  MaxTries = 1
  MaxCrashes = 0
  Ops = {"create", "close"}
SPECIFICATION Spec
INVARIANT CloseCloses
