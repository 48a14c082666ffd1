SPECIFICATION Spec
CONSTANTS
  Obj = {o1, o2, o3, o4, o5}
  Bucket = {b1, b2, b3}
  Null = Null
  NBits = 2
  Junk <- AnyJunk
  Failing = TRUE
SYMMETRY Symmetry
INVARIANTS
  TypeOK
  OnePlaceEach
  MaskExact
  StackExact
  ChainsEnd
PROPERTIES
  ImplementsPool
CHECK_DEADLOCK FALSE
