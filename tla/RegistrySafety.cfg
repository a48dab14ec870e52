SPECIFICATION Spec
CONSTANTS
  Ids = {i1, i2}
  Phones = {p1, p2}
  Proxies = {x1}
  Requests = {r1, r2}
  NoId = NoId
  NoPhone = NoPhone
  NoProxy = NoProxy
SYMMETRY Symmetry
INVARIANTS LoadedHasRow UnloadedIsAccounted
PROPERTIES NeverBack BookIsKept
