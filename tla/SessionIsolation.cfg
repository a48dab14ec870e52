SPECIFICATION Spec
CONSTANTS
  Accounts = {a1, a2}
  Numbers = {n1, n2}
  Slots = {s1, s2}
  Clients <- MCClients
  Owner <- MCOwner
  Registered <- MCRegistered
  Scanned = {n1, n2}
  Suffixes = {}
  Tasks = {t1}
  NoAccount = NoAccount
  NoClient = NoClient
  NoDevice = NoDevice
  MaxAttempts = 1
  MaxRejecters = 1
  MaxEvents = 1
  MaxPhoneEdits = 0
PROPERTY RowKept
