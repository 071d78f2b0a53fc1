CONSTANTS
  Orders = {o1}
  Buyers = {b}
  Merchants = {m1}
  None = None
  Reqs = {r1, r2, r3}
  Packers = {p1, p2}
  Prices = {1, 2}
  Fees = {0, 1}
  Waybills = {w1, w2, w3}
  MaxTries = 1
  MaxCrashes = 0
  Ops = {"create", "alter", "prepay"}
SPECIFICATION RowsSpec
SYMMETRY Symmetry
INVARIANTS ChargedTotalWasStored NoDuplicateWaybill
