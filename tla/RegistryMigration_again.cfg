SPECIFICATION FairSpec
CONSTANTS
  Id = {1, 2}
  Key = {k1}
  NoKey = NoKey
  Path = {p1, p2}
  File = {f1}
  MaxStops = 2
PROPERTY OpensAgain
CHECK_DEADLOCK FALSE
