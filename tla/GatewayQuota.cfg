SPECIFICATION Spec
CONSTANTS
  Users = {u1}
  System = System
  NoUser = NoUser
  Requests = {r1}
  MaxConcurrent = 1
  DailyMessages = 1
  MaxAccounts = 1
  PlanWebhooks = FALSE
  MaxSends = 2
  MaxBlind = 1
INVARIANT QuotaHolds
