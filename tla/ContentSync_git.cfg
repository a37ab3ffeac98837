SPECIFICATION Spec
CONSTANTS
  f1 = f1
  f3 = f3
  e1 = e1
  File = {f1}
  Entry = {e1}
  Owner <- OwnerOne
  Git = {e1}
  Matches <- MatchesOne
  Preset = {e1}
  Cloned = {}
  Main = Main
  Hook = {h1}
  Admin = {a1}
  Content = {c1}
  Absent = Absent
  Torn = Torn
  None = None
INVARIANTS StaleIsOwedOrDropped PulledIsIndexed SuppressionHasOwner
CHECK_DEADLOCK FALSE
