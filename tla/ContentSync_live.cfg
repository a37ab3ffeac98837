SPECIFICATION FairSpec
CONSTANTS
  f1 = f1
  f3 = f3
  e1 = e1
  File = {f1}
  Entry = {e1}
  Owner <- OwnerOne
  Git = {e1}
  Matches <- MatchesOne
  Preset = {e1}
  Cloned = {e1}
  Main = Main
  Hook = {h1}
  Admin = {}
  Content = {c1}
  Absent = Absent
  Torn = Torn
  None = None
PROPERTY DeltasAreServed
CHECK_DEADLOCK FALSE
