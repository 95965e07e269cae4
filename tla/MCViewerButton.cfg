CONSTANTS
  Codes = {"BITMAP"}
  MaxUpdates = 2
  MaxParts = 3
  MaxFrames = 2
  MaxPieces = 2
  MaxBatches = 2
SPECIFICATION FairSpec
INVARIANT ButtonForwarded
CHECK_DEADLOCK FALSE
