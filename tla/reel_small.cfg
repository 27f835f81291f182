SPECIFICATION Spec
CONSTANTS
  A = A
  B = B
  C = C
  D = D
  NULL = NULL
  Tablets = {A, B, C, D}
  Foreign = {}
  LineCounts = {1, 3}
  LINES = 11
  COLS = 9
  Parent <- Screen
  toff = 0
  roff = 1
  boff = 1
  loff = 0
  infinitescroll = TRUE
  circular = TRUE
  bordermask <- AllBorders
  tabletmask <- AllBorders
  MoveTargets <- Moves
  MemoryFails = FALSE
SYMMETRY Symmetry
INVARIANTS
  FocusShown
  InsideReel
  AlignedColumns
PROPERTIES
  FocusWhole
  FocusUndisturbed
\* The system stops: the reel is freed, or the process dies.
CHECK_DEADLOCK FALSE
