SPECIFICATION FairSpec
CONSTANTS
  Users = {u1}
  System = System
  NoUser = NoUser
  Requests = {r1, r2, r3}
  MaxConcurrent = 2
  DailyMessages = 1
  MaxAccounts = 1
  PlanWebhooks = FALSE
  MaxSends = 2
  MaxBlind = 1
INVARIANTS TypeOK InFlightBounded UsageIsSent OvershootBounded
PROPERTY RequestEnds
