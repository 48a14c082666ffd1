SPECIFICATION Spec
CONSTANTS
  o1 = o1
  o2 = o2
  Obj = {o1, o2}
  Prim = Prim
  Wild = Wild
  NSlots = 2
  MaxDepth = 2
  MaxSize = 1
  MaxLeak = 0
  ArgCounts = {0, 1}
  Risks = {"garbage"}
SYMMETRY Symmetry
INVARIANTS
  SlotsHoldLive
CHECK_DEADLOCK FALSE
