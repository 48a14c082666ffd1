SPECIFICATION FairSpec
CONSTANTS
  Buf = {b1, b2}
  Gone = Gone
  NoMem = NoMem
  Raw = Raw
  Idle = Idle
  Byte = {0}
  Word = 10
  MaxBytes = 4
  MinCap = 2
  Failing = FALSE
PROPERTIES
  CallsEnd
CHECK_DEADLOCK FALSE
