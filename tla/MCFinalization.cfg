CONSTANTS
  MAX_SKIP = 16
  Offers <- MCOffers
  UserIds = {1007}
  Renames <- MCRenames
  MaxStray = 1
  MaxDemand = 1
  MaxUnread = 4
SPECIFICATION Spec
INVARIANT FinalizationDrained
CHECK_DEADLOCK FALSE
