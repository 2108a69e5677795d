SPECIFICATION Spec
CONSTANTS
  Users = {u1, u2}
  Ids = {p1, p2}
  Workers = {w1, w2}
  Hello = Hello
  Texts = {Hello}
  Markup = Markup
  Tagged = Tagged
  Bare = Hello
  Empty = Empty
  Null = Null
  NoRow = NoRow
  CreateBodies <- MCCreateBodies
  PatchBodies <- MCPatchBodies
  BulkBodies <- MCBulkBodies
  Versions = {1, 2}
  Ops = {"create", "bulk_create", "get", "put", "patch", "delete", "bulk_delete"}
  Faults = {"refused", "ack_lost"}
SYMMETRY Symmetry
INVARIANT TypeOK
INVARIANT RequestsConsistent
INVARIANT ResponseOwned
PROPERTY DeletedStaysDeleted
PROPERTY ImplementsStore
