SPECIFICATION Spec
CONSTANTS
  MaxRows = 6
  Width = 4
  MaxLines = 5
  Masks <- FramedMasks
INVARIANTS
  TypeOK
  Framed
  Honest
