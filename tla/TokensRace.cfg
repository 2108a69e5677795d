SPECIFICATION HSpec
CONSTANTS
  Users = {u1}
  Tokens = {t1, t2, t3}
  Workers = {w1, w2}
  Lifetime = 2
  MaxVersion = 1
  Redis = TRUE
  Faults = {}
  None = None
PROPERTY RedeemedOnce
