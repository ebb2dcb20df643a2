CONSTANTS
  Threads = 2
  MaxKills = 1
  Garbage = {0, 9}
  MaxDocuments = 4
  Documents <- SmallDocuments
  BatchSizes = {0, 1, 2}
  Workload <- MCWorkload
  MaxShards = 2
  InvertBatch = 2
  InvertThreads = 2
  MaxBodies = 2
  Iterations = 1
  Depths = {1, 3}
  Features = {1, 2}
  QuantizationBits = 8
  Config <- MCConfig
SPECIFICATION PipelineSpec
INVARIANTS
  TypeOK
  BuildIsCorrect
  BatchesBounded
  NoIndexAfterFailure
  ShardsHoldTheCollection
  InversionIsExact
  CompressedIndexIsTheCollection
PROPERTIES
  BuildEnds
CHECK_DEADLOCK FALSE
