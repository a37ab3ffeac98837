SPECIFICATION Spec
CONSTANTS
  repo = repo  mirror = mirror  hub = hub  archive = archive  document = document  peer = peer
  Dir <- SomeDirs
  Document <- SomeDocuments
  Inside <- SomeInside
  Base <- SomeBase
  Md <- SomeMd
  Name <- SomeDirs
  Config <- SomeConfig
  Source = {repo, mirror, archive, peer}
  Kind <- SomeKind
  Peer <- SomePeers
  Incoming = {hub}
  Matches <- SomeMatches
  Own = Own
  Edit = Edit
  Written <- TopName
  Main = {main}
  Hook = {hook}
  Request = {r1}
  None = None
  MaxRequests = 2
INVARIANTS OkIsThere 
 
CHECK_DEADLOCK FALSE
