SPECIFICATION Spec
CONSTANTS
  i1 = i1
  e1 = e1
  p1 = p1
  n1 = n1
  Ids = {i1}
  Emails = {e1}
  Passwords = {p1, p2}
  Names = {n1}
  Images = {picture}
  Markup = Markup
  Blank = Blank
  Null = Null
  NoRow = NoRow
  Imported <- NoAccount
  Workers = {w1}
  Ops = {"register", "login"}
  Faults = {}
INVARIANT RegisteredCanLogin
