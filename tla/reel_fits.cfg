SPECIFICATION Spec
CONSTANTS
  A = A
  B = B
  C = C
  NULL = NULL
  Tablets = {A, B, C}
  Foreign = {}
  LineCounts = {1, 2}
  LINES = 14
  COLS = 8
  Parent <- Screen
  toff = 1
  roff = 0
  boff = 0
  loff = 0
  infinitescroll = TRUE
  circular = TRUE
  bordermask <- NoBottomBorder
  tabletmask <- NoTopBorder
  MoveTargets <- NoMoves
  MemoryFails = FALSE
SYMMETRY Symmetry
INVARIANTS
  Valid
  Stacked
  AlwaysVisible
\* The system stops: the reel is freed, or the process dies.
CHECK_DEADLOCK FALSE
