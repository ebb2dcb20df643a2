CONSTANTS
  K = 1
  NumDocs = 4
  WordBits = 64
  Size = 4
  Cycle = 2
  PerBlock = 3
  Leftovers = {0, 1}
  Queries = 3
  Thresholds = {0, 1}
  BlockSize = 2
  RangeSizes = {0, 1}
  Workload <- MCWorkload
SPECIFICATION Spec
INVARIANTS
  AnswersAreExact
PROPERTIES
  SessionEnds
CHECK_DEADLOCK FALSE
