SPECIFICATION Spec
CONSTANTS
  A = A
  B = B
  X = X
  NULL = NULL
  Tablets = {A, B}
  Foreign = {X}
  LineCounts = {1}
  LINES = 8
  COLS = 8
  Parent <- Screen
  toff = 0
  roff = 0
  boff = 0
  loff = 0
  infinitescroll = TRUE
  circular = TRUE
  bordermask <- AllBorders
  tabletmask <- AllBorders
  MoveTargets <- NoMoves
  MemoryFails = FALSE
SYMMETRY Symmetry
INVARIANTS
  CountsTablets
\* The system stops: the reel is freed, or the process dies.
CHECK_DEADLOCK FALSE
