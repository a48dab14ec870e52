SPECIFICATION Spec
CONSTANTS
  Senders = {s1, s2}
  Burst = 2
  Cost = 2
  MaxTime = 7
INVARIANT WindowBound
PROPERTY Promise
