SPECIFICATION Spec
CONSTANTS
  hA = hA
  hB = hB
  hC = hC
  Hashes <- MCHashes
  BlockCount <- MCBlockCount
  ShortLast <- MCShortLast
  Capacities = {0, 4}
  MaxSlots = 4
  Deliveries <- MCMixed
CHECK_DEADLOCK FALSE
INVARIANTS TypeOK SlotsPartitioned SingleOwner
PROPERTIES FrozenKept ImplementsBlockStore
