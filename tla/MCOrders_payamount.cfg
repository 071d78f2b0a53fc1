\* pay_amount_ against its comment in db.hpp.
CONSTANTS
  Orders = {o1}
  Buyers = {b}
  Merchants = {m1}
  None = None
  Reqs = {r1}
  Prices = {1}
  Fees = {0}
  Waybills = {}
  MaxTries = 1
  MaxCrashes = 0
  Ops = {"create", "prepay", "wx"}
SPECIFICATION Spec
INVARIANT PayAmountIsCharged
