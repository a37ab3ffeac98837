SPECIFICATION Spec
CONSTANTS
  vault = vault
  sub = sub
  empty = empty
  index = index
  guide = guide
  Folder <- SomeFolders
  Parent <- SomeParent
  Guide <- SomeGuides
  In <- SomeIn
  IndexOf <- SomeIndexOf
  Body = {b1, b2}
  Text = {t1, t2}
  Scanner = {s1, s2}
  Admin = {a1, a2}
  Absent = Absent
  None = None
  MaxEdits = 4
  MaxScans = 2
  MaxTexts = 2
INVARIANTS RowsConnected CountsAreRows OverrideShown
PROPERTY CompleteScanAgrees
SYMMETRY Symmetry
CHECK_DEADLOCK FALSE
