SPECIFICATION Spec
CONSTANTS
  Ids = {i1, i2, i3, i4}
  FromHere = {i4}
  Seconds = 3
  Limit = 2
  Cap = 3
  Default = 2
  NoRow = NoRow
  Numbers = {n1, n2}
  Hooks = {h1, h2}
  Toggles = {x1}
  NoToggle = NoToggle
  Turns = {t1, t2, t3}
  Keep = 3
  MaxToolIterations = 2
  Users = {u}
  PlanIds = {free, pro}
  Free = free
  BuiltIn = {free}
  Limits = {l1, l2}
  Seed <- MCSeed
  Requests = {r1, r2}
  NoPlan = NoPlan
  People = {u1, u2}
  Accounts = {a1, a2}
  OwnerOf <- MCOwner
  Keys = {k1}
  Tokens = {j1}
  Roles = {role}
  RoleOf <- MCRole
  NoUser = NoUser
  NoAccount = NoAccount
INVARIANTS TypeOK PagingMissesTiesOnly ListedOnce NoUnwantedReply ConfigFollowsEdits RemembersLatest ClearedStays SubscribedPlansExist LimitsAsEdited LimitsAreHeld RevokedIsOut KeyStaysInScope
