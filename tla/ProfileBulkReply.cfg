SPECIFICATION Spec
CONSTANTS
  Users = {u1}
  Ids = {p1, p2}
  Workers = {w1}
  Hello = Hello
  Texts = {Hello}
  Markup = Markup
  Tagged = Tagged
  Bare = Hello
  Empty = Empty
  Null = Null
  NoRow = NoRow
  CreateBodies <- MCCreateBodies
  PatchBodies <- MCPatchBodies
  BulkBodies <- MCBulkBodies
  Versions = {1}
  Ops = {"bulk_create"}
  Faults = {"refused"}
INVARIANT CreatedAreStored
