SPECIFICATION FairMainSpec
CONSTANTS
  Id = {1, 2}
  Key = {k1}
  NoKey = NoKey
  Path = {p1}
  File = {f1, f2}
  MaxStops = 2
  Seed = {f1, f2}
  Setting = {"site_name"}
  MaxIdentities = 3
  MaxEdits = 2
INVARIANTS NothingLost PubFileMatches SeedsArrive RemovedStaysOut SettingsKept
PROPERTIES LostForGood IdentityKept ComesUp
CHECK_DEADLOCK FALSE
