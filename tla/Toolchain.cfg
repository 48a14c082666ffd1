SPECIFICATION FairSpec
CONSTANTS
  Letter <- MCLetter
  Digit <- MCDigit
  FloatBytes <- MCFloatBytes
  Unfit <- MCUnfit
  Earlier <- MCEarlier
  Sources <- MCSources
  IntMax = 300
  UIntMax = 601
  ULongMax = 4999
  MaxCalls = 3
  MaxArgs = 4
  MaxId = 2
  Layouts = {"tight", "spaced", "commented"}
  Ahead = FALSE
INVARIANTS
  TypeOK
  NothingLost
  WholeWords
  LoadedExact
  TableExact
  Spelt
  LexemesFound
  Assembled
PROPERTIES
  ImplementsSource
  ScanEnds
  AssemblyEnds
CHECK_DEADLOCK FALSE
