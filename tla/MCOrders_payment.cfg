\* Every operation on one order, two handlers at a time, one price.
CONSTANTS
  Orders = {o1}
  Buyers = {b}
  Merchants = {m1, m2}
  None = None
  Reqs = {r1, r2}
  Prices = {1}
  Fees = {0}
  Waybills = {w1}
  MaxTries = 2
  MaxCrashes = 0
  Ops = {"create", "check", "mcheck", "mark", "alter", "kuaidi", "delete", "prepay", "wx"}
SPECIFICATION Spec
SYMMETRY Symmetry
INVARIANTS PayedIsConfirmed ToldPayedIsConfirmed AckMeansRecorded
PROPERTY LostOnlyToStaleWrite
