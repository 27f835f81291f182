SPECIFICATION FadeSpec
CONSTANTS
  COLORS = 2
  COLOR_PAIRS = 4
  Depth = 4
  Unset = Unset
  NANOSECS_IN_MS = 4
  Milliseconds = {1}
  MaxLate = 0
  Palettes <- Bright
INVARIANTS
  ReachesTarget
\* C may leave undefined what a fade does next.
CHECK_DEADLOCK FALSE
