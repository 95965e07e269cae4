CONSTANTS
  Bitmaps <- MCBitmaps
  Masks = {129}
SPECIFICATION RleSpec
INVARIANT BadRectSkipped
CHECK_DEADLOCK FALSE
