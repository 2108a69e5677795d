SPECIFICATION Spec
CONSTANTS
  i1 = i1
  e1 = e1
  p1 = p1
  n1 = n1
  Ids = {i1, i2, i3}
  Emails = {e1, e2}
  Passwords = {p1, p2}
  Names = {n1}
  Images = {picture}
  Markup = Markup
  Blank = Blank
  Null = Null
  NoRow = NoRow
  Imported <- OneAccount
  Workers = {w1, w2}
  Ops = {"register", "login", "refresh", "getMe", "updateMe"}
  Faults = {"refused", "ack_lost"}
INVARIANT AccountsConsistent
INVARIANT TokensToOwner
INVARIANT ConflictIsTrue
PROPERTY IdentityKept
