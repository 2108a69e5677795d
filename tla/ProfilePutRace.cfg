SPECIFICATION HSpec
CONSTANTS
  Users = {u1}
  Ids = {p1}
  Workers = {w1, w2}
  Hello = Hello
  Texts = {Hello}
  Markup = Markup
  Tagged = Tagged
  Bare = Hello
  Empty = Empty
  Null = Null
  NoRow = NoRow
  CreateBodies <- OneCreateBody
  PatchBodies <- OnePatchBody
  BulkBodies <- NoBulk
  Versions = {1, 2}
  Ops = {"create", "put"}
  Faults = {}
PROPERTY AtMostOneWinner
