SPECIFICATION Spec
CONSTANTS
  n1 = n1
  n2 = n2
  n3 = n3
  hA = hA
  hB = hB
  Nodes <- MCNodes
  Networks <- MCPair
  Hashes <- MCHashes
  BlockCount <- MCBlockCount
  ShortLast <- MCHashes
  Publisher <- MCPublisher
  CacheSlots = 4
  FetchTTL = 1
  BehaveTTL = 2
  Batch = 2
  MaxQueue = 4
  MaxStored = 2
CHECK_DEADLOCK FALSE
INVARIANT AnswersWithThatBlock
