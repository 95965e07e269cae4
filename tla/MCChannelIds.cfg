CONSTANTS
  MAX_SKIP = 16
  Offers <- MCOffers
  UserIds = {1007}
  Renames <- MCRenames
  MaxStray = 0
  MaxDemand = 1
  MaxUnread = 1
SPECIFICATION Spec
INVARIANT ChannelIdsAreVirtual
CHECK_DEADLOCK FALSE
