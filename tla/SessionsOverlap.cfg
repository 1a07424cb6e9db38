SPECIFICATION Spec
CONSTANTS
  u1 = u1 u2 = u2 root = root
  h1 = h1 h2 = h2 s1 = s1 s2 = s2 s3 = s3
  NoUser = NoUser NoId = NoId
  Users = {u1, u2, root}
  Admins = {root}
  Handlers = {h1, h2}
  Ids = {s1, s2, s3}
  MaxConcurrent = 1
  IdleTimeout = 1
  MaxLag = 1
SYMMETRY Alike
INVARIANTS SeatIsFreed
PROPERTIES DeadStaysDead NobodyTooMany SoleAfterLogin
