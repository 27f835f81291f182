SPECIFICATION FairFadeSpec
CONSTANTS
  COLORS = 2
  COLOR_PAIRS = 4
  Depth = 3
  Unset = Unset
  NANOSECS_IN_MS = 4
  Milliseconds = {0,1}
  MaxLate = 3
  Palettes <- Uneven
INVARIANTS
  FadeTypeOK
  AfterFadeout
  Punctual
  Defined
PROPERTIES
  OneWay
  NothingLost
  FadeEnds
\* C may leave undefined what a fade does next.
CHECK_DEADLOCK FALSE
