SPECIFICATION FairSpec
CONSTANTS
  Peer = {k1}
  Url = {u1, u2}
  Request = {r1, r2}
  MaxNonce = 2
  None = None
INVARIANTS SpentNotPending UrlIsNewest
CHECK_DEADLOCK FALSE
PROPERTIES PromiseKept FreshIsUsed ChallengeGoes
