SPECIFICATION Spec
CONSTANTS
  W = 4
  P = 2
  Inf = Inf
  NegInf = NegInf
  NaN = NaN
INVARIANTS
  RoundTrip
PROPERTIES
  CompareSound
  CastIntExact
  CastUIntExact
  DivisionExact
CHECK_DEADLOCK FALSE
