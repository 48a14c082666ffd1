SPECIFICATION FairSpec
CONSTANTS
  Letter <- MCLetter
  Digit <- MCDigit
  FloatBytes <- MCFloatBytes
  Unfit <- MCUnfit
  Earlier <- MCEarlier
  Sources <- MCSources
  IntMax = 300
  UIntMax = 601
  ULongMax = 4999
  MaxCalls = 3
  MaxArgs = 4
  MaxId = 2
  Layouts = {"tight"}
  Ahead = TRUE
PROPERTIES
  ImplementsSource
CHECK_DEADLOCK FALSE
