SPECIFICATION FairSpec
CONSTANTS
  o1 = o1
  o2 = o2
  Obj = {o1, o2}
  Prim = Prim
  Wild = Wild
  NSlots = 2
  MaxDepth = 2
  MaxSize = 2
  MaxLeak = 0
  ArgCounts = {0, 1}
  Risks = {}
INVARIANTS
  TypeOK
  SubExact
  FieldCountExact
  StoredIsAlive
  NoOrphan
  CleanUntilError
PROPERTIES
  LeakOnlyWhenFull
  HandlerEnds
CHECK_DEADLOCK FALSE
