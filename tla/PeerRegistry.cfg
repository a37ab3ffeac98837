SPECIFICATION Spec
CONSTANTS
  u1 = u1
  u2 = u2
  k1 = k1
  k2 = k2
  Url = {u1, u2}
  Key = {k1, k2}
  NoKey = NoKey
  Asked = {"downstream", "other"}
  Path = {p1}
  SelfUrl = u2
  SelfKey = k2
  Lists <- OneItem
  Admin = {a1}
  Gossip = {g1}
  MaxId = 2
  None = None
INVARIANTS OneRowPerNode OperatorPromotes CheckedUnknown NoOrphanPaths
PROPERTY RowsFollowTheirNode
CHECK_DEADLOCK FALSE
