SPECIFICATION Spec
CONSTANTS
  Root = Root
  top = top
  sub = sub
  below = below
  f1 = f1
  f2 = f2
  f3 = f3
  f4 = f4
  f5 = f5
  Dir <- SomeDirs
  NamedRoot <- RootOnly
  File <- SomeFiles
  In <- SomeIn
  Above <- SomeAbove
  Body = {b1, b2}
  None = None
  Url <- SomeUrls
  NoPath <- Empty
  UrlOf <- SomeUrlOf
  FolderUrl <- SomeFolderUrl
  WithoutMd <- SomeWithoutMd
  Default <- SomeDefault
  Hidden <- SomeHidden
INVARIANTS TreeIsMap SearchIsFull EmptySectionsAreLeftovers SearchOpens RecentOpens
PROPERTY IndexIsMap
SYMMETRY Symmetry
CHECK_DEADLOCK FALSE
