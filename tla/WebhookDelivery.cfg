SPECIFICATION FairSpec
CONSTANTS
  Events = {e1}
  Message = e1
  Kind <- MCKind
  Urls = {u1, u2}
  Secrets = {s1}
  NoUrl = NoUrl
  NoSecret = NoSecret
  RetryCount = 2
INVARIANTS SignedForItsUrl GivesUpLast
PROPERTIES Promise OnlyForward QuietAfterAnswer DeliveryEnds
