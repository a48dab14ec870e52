SPECIFICATION Spec
CONSTANTS
  Users = {u1}
  Roles = {user, k1}
  BuiltIn = {user}
  UserRole = user
  Permissions = {p1}
  Seed <- MCSeed
  Tokens = {t1, t2}
  Requests = {r1, r2}
  NoRole = NoRole
  NoUser = NoUser
SYMMETRY Symmetry
INVARIANTS TypeOK DisabledStays PermissionsReplaced OneLiveToken TokenUsedOnce
