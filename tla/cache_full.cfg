SPECIFICATION Spec
CONSTANTS
  hA = hA
  hB = hB
  hC = hC
  Hashes <- MCHashes
  BlockCount <- MCBlockCount
  ShortLast <- MCShortLast
  Capacities = {0, 4}
  MaxSlots = 4
  Deliveries <- MCExact
CHECK_DEADLOCK FALSE
PROPERTY FullCacheMakesRoom
