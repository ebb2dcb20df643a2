SPECIFICATION Spec
INVARIANTS
  PositionIsExact
  SequencesInOrder
PROPERTY ReadsThePostings
CONSTANTS
  WordBits = 8
  LinearScan = 1
  FixCost = 4
  SuperblockBound = 3
  ByteBits = 3
  BlockSize = 3
  GroupBytes = 4
  NumDocs = 7
  Types = {"ef", "single", "pefuniform", "pefopt", "interpolative", "varintgb", "varintg8iu"}
  SequenceKinds = {"ef", "single", "pefuniform", "pefopt"}
  Collections <- MCCollections
  HardwareThreads = {0, 1, 2}
  WorkPerThread = 3
  Prepared <- SequenceBits
  NoBits = NoBits
  Params <- MCParams
  Lists <- MCLists
  OtherList <- MCOther
