CONSTANTS
  Selections <- MCSelections
  SeqMod = 8
  TlsKey = tlsKey
  PeerKeys = {tlsKey, otherKey}
  CREDS_LEN = 50
  MaxCalls = 3
  MaxPeerSeals = 2
  MAX_SKIP = 4
  Offers <- MCOffers
  UserIds = {1007}
  Renames <- MCRenames
  MaxStray = 1
  MaxDemand = 1
  MaxUnread = 1
SPECIFICATION FairSpec
INVARIANTS NlaBeforeSession CredentialsMatchSelection TimeoutsMatchStage
PROPERTY HandshakeBounded
CHECK_DEADLOCK FALSE
