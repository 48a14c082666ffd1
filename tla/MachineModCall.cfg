SPECIFICATION Spec
CONSTANTS
  o1 = o1
  o2 = o2
  Obj = {o1, o2}
  Prim = Prim
  Wild = Wild
  NSlots = 3
  MaxDepth = 2
  MaxSize = 2
  MaxLeak = 0
  ArgCounts = {0, 1}
  Risks = {"modcall"}
SYMMETRY Symmetry
INVARIANTS
  NoLeak
CHECK_DEADLOCK FALSE
