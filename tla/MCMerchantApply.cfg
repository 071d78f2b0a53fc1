CONSTANTS
  Users = {u1}
  Reqs = {r1, r2, r3, r4}
  MaxApps = 3
  NoUser = NoUser
SPECIFICATION Spec
SYMMETRY Symmetry
INVARIANTS AtMostOneWaiting ApprovedIsMerchant MerchantWasApproved InitAtMostOnce
