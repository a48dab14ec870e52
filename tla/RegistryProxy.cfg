SPECIFICATION Spec
CONSTANTS
  Ids = {i1}
  Phones = {p1, p2}
  Proxies = {x1}
  Requests = {r1, r2}
  NoId = NoId
  NoPhone = NoPhone
  NoProxy = NoProxy
SYMMETRY Symmetry
INVARIANT ProxyIsUsed
