\* One order payed with WeChat while the seller reprices and deletes it.
CONSTANTS
  Orders = {o1}
  Buyers = {b}
  Merchants = {m1}
  None = None
  Reqs = {r1, r2}
  Prices = {1}
  Fees = {0}
  Waybills = {}
  MaxTries = 2
  MaxCrashes = 1
  Ops = {"create", "alter", "delete", "prepay", "wx", "close", "detail"}
SPECIFICATION FairSpec
PROPERTY WxPaymentRecorded
