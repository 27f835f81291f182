SPECIFICATION FairSpec
CONSTANTS
  A = A
  B = B
  C = C
  X = X
  NULL = NULL
  Tablets = {A, B, C}
  Foreign = {X}
  LineCounts = {1, 4}
  LINES = 9
  COLS = 8
  Parent <- Screen
  toff = 1
  roff = 0
  boff = 0
  loff = 0
  infinitescroll = TRUE
  circular = TRUE
  bordermask <- AllBorders
  tabletmask <- AllBorders
  MoveTargets <- NoMoves
  MemoryFails = TRUE
INVARIANTS
  TypeOK
  RingOK
  CountTracks
  AllVisiblePanels
  WalksOnLive
PROPERTIES
  ImplementsCarousel
  Returns
\* The system stops: the reel is freed, or the process dies.
CHECK_DEADLOCK FALSE
