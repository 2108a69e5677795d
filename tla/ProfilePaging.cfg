SPECIFICATION Spec
CONSTANTS
  Users = {u1, u2}
  Ids = {p1, p2, p3}
  Times <- MCTimes
  Second = 2
  Fallback = 2
  MaxLimit = 2
  Asked = {0, 1, 3}
  NoRow = NoRow
  None = None
SYMMETRY Symmetry
INVARIANT TypeOK
INVARIANT SkipsOnlyWithinSecond
INVARIANT OffsetSkipsOnlyOnRemoval
PROPERTY NeverShownTwice
PROPERTY TotalFitsPage
