CONSTANTS
  MAX_SKIP = 4
  Offers <- MCOffers
  UserIds = {1007}
  Renames <- MCRenames
  MaxStray = 4
  MaxDemand = 2
  MaxUnread = 1
SPECIFICATION FairSpec
INVARIANTS JoinedInOrder SkipLimitExact FirstRequestWins ShareAgreement IInv
PROPERTIES Terminates EventuallyActive
CHECK_DEADLOCK FALSE
