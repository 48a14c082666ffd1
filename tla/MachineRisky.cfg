SPECIFICATION Spec
CONSTANTS
  o1 = o1
  o2 = o2
  Obj = {o1}
  Prim = Prim
  Wild = Wild
  NSlots = 3
  MaxDepth = 2
  MaxSize = 2
  MaxLeak = 1
  ArgCounts = {0, 2}
  Risks <- ZeroMemory
SYMMETRY Symmetry
INVARIANTS
  NoDangling
  RefExact
CHECK_DEADLOCK FALSE
