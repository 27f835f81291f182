SPECIFICATION FairSpec
CONSTANTS
  T1 = T1
  T2 = T2
  NULL = NULL
  Contexts = {T1, T2}
  CreateFails = TRUE
INVARIANTS
  TypeOK
  NoLostUpdate
  OnlyAllocated
  NoAbandonedLock
  ListMatchesReel
  EndsClean
PROPERTIES
  Served
\* The application ends.
CHECK_DEADLOCK FALSE
