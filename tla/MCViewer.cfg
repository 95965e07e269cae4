CONSTANTS
  Codes = {"BITMAP", "BITMAP malformed", "BITMAP panics"}
  MaxUpdates = 3
  MaxParts = 3
  MaxFrames = 2
  MaxPieces = 2
  MaxBatches = 2
SPECIFICATION FairSpec
INVARIANTS TypeOK PublishedIsCurrent
PROPERTIES ReassembledWhole EventuallyShown InputDelivered
CHECK_DEADLOCK FALSE
