CONSTANTS
  K = 2
  Docs = {d1, d2, d3}
  Scores = {0, 1, 2, 3}
SPECIFICATION SafeSpec
INVARIANTS
  SafeTypeOK
  SafeIsExact
  UnsafeIsExactAboveFloor
  ExactAboveFloor
PROPERTIES
  ThresholdNeverFalls
  QueryReturns
CHECK_DEADLOCK FALSE
