SPECIFICATION AllSpec
CONSTANTS
  t1 = t1
  t2 = t2
  s1 = s1
  s2 = s2
  u1 = u1
  a1 = a1
  Conns = {c1, c2}
  NoConn = NoConn
  Sids = {s1, s2}
  Tels = {t1, t2}
  NoTel = NoTel
  MaxUsers = 2
  Enabled = {"prelogin", "fast"}
  MaxCalls = 3
  Registered <- Empty
  Appointed <- Empty
  Traders = {}
  Kept <- NoSessions
  Reqs = {r1, r2}
  Cookies = {k1, k2}
  Codes = {v1}
  Senders = {s1}
  Lifetime = 4
  PurgeEvery = 2
  MaxTime = 9
  Users = {u1, u2}
  Merchants = {u1}
  Sessions = {s1}
  Owner <- MCOwner
  Addresses = {a1, a2}
  Names = {n1}
  Passwords = {p1, p2}
  None = None
  Changes = {"ban", "disable", "enable", "mchid", "rename", "reset", "add", "erase"}
  MaxChanges = 3
  MaxRepeats = 1
SYMMETRY Symmetry
CHECK_DEADLOCK FALSE
INVARIANTS UsersTypeOK ActiveIsLoggedIn CodeBelongsToNumber SudoHasOrigin PasswordAgrees
PROPERTIES StoreSpec BansStick AddressesStay
