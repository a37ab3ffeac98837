SPECIFICATION Spec
CONSTANTS
  f1 = f1
  f3 = f3
  e1 = e1
  File = {f1, f3}
  Entry = {e1}
  Owner <- OwnerOne
  Git = {}
  Matches <- MatchesOne
  Preset = {e1}
  Cloned = {}
  Main = Main
  Hook = {h1}
  Admin = {}
  Content = {c1}
  Absent = Absent
  Torn = Torn
  None = None
INVARIANT PulledIsIndexed
PROPERTY IndexIsMap
CHECK_DEADLOCK FALSE
