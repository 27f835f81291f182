SPECIFICATION MainSpec
CONSTANTS
  COLORS = 3
  COLOR_PAIRS = 7
  Depth = 3
  Unset = Unset
  NANOSECS_IN_MS = 4
  Milliseconds = {1}
  FADE_MILLISECONDS = 1
  MaxLate = 3
  Palettes <- Uneven
INVARIANTS
  MainTypeOK
  PairsNumbered
  Configured
  Silent
  Restored
PROPERTIES
  Ends
\* The program ends.
CHECK_DEADLOCK FALSE
