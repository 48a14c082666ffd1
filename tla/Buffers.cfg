SPECIFICATION FairSpec
CONSTANTS
  Buf = {b1, b2}
  Gone = Gone
  NoMem = NoMem
  Raw = Raw
  Idle = Idle
  Byte = {0}
  Word = 10
  MaxBytes = 4
  MinCap = 2
  Failing = TRUE
INVARIANTS
  TypeOK
  SizeFits
  InBounds
PROPERTIES
  OldBytesKept
  AppendConcatenates
  GrowthEnds
CHECK_DEADLOCK FALSE
