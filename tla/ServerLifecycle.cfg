SPECIFICATION RunningSpec
CONSTANTS
  a1 = a1
  u1 = u1
  t1 = t1
  t2 = t2
  Keys <- MCKeys
  Owner <- MCOwner
  Addresses = {a1}
  Users = {u1}
  Tokens = {t1, t2}
  Admins = {t1}
  Workers = {w1, w2}
  Panics = TRUE
  None = None
  Limit = 1
  Burst = 0
  Minute = 1
  Second = 0
  Horizon = 1
  NoBucket = NoBucket
  MaxLogLines = 2
  MaxRequests = 3
INVARIANT ServerTypeOK
INVARIANT HandlersThrottled
INVARIANT LogIsRecent
INVARIANT HandlesOpen
PROPERTY CleanExit
PROPERTY SignalStops
