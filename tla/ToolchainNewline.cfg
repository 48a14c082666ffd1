SPECIFICATION FairSpec
CONSTANTS
  Letter <- MCLetter
  Digit <- MCDigit
  FloatBytes <- MCFloatBytes
  Unfit <- MCUnfit
  Earlier <- MCEarlier
  Sources <- MCSources
  IntMax = 300
  UIntMax = 601
  ULongMax = 4999
  MaxCalls = 3
  MaxArgs = 4
  MaxId = 2
  Layouts = {"newline"}
  Ahead = FALSE
PROPERTIES
  AssemblyEnds
CHECK_DEADLOCK FALSE
