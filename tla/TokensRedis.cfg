SPECIFICATION FairSpec
CONSTANTS
  Users = {u1}
  Tokens = {t1, t2, t3}
  Workers = {w1, w2}
  Lifetime = 2
  MaxVersion = 2
  Redis = TRUE
  Faults = {"refused", "ack_lost"}
  None = None
INVARIANT TokenInv
PROPERTY DeliveredUsable
PROPERTY NeverStranded
PROPERTY DeadStaysDead
PROPERTY KeysExpire
