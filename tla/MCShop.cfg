SPECIFICATION AllSpec
CONSTANTS
  Keys = {k1, k2}
  Values = {v1, v2}
  None = None
  Reqs = {r1, r2}
  MaxPuts = 4
  MaxRepeats = 1
  u1 = u1
  u2 = u2
  c1 = c1
  c2 = c2
  c3 = c3
  m1 = m1
  m2 = m2
  i1 = i1
  i2 = i2
  i3 = i3
  g1 = g1
  g2 = g2
  h1 = h1
  h2 = h2
  Users = {u1, u2}
  Conns = {c1, c2, c3}
  Owner <- MCOwner
  Merchants = {m1}
  Items = {i1}
  MerchantOf <- MCMerchantOf
  Counts = {0, 2}
  MaxCount = 2
  MaxId = 2
  MaxCalls = 3
  Enabled = {"fav"}
  Goods = {g1, g2}
  Lists <- MCLists
  MaxPageCalls = 4
  MaxRows = 4
  Sellers = {m1, m2}
  Wares = {i1, i2, i3}
  SellerOf <- MCSellerOf
  Baskets <- MCBaskets
  Commits = {h1, h2}
  Offer <- MCOffer
  Addresses = {a1, a2}
  MaxOrders = 1
  MaxChanges = 3
SYMMETRY Symmetry
CHECK_DEADLOCK FALSE
INVARIANTS ShopTypeOK RowsAsAsked ViewsCurrent PositionsDistinct PricesWereOffered OrderIsAsCalled
PROPERTIES MapSpec OwnersChangeRows SetReplaces
