SPECIFICATION Spec
CONSTANTS
  n1 = n1
  n2 = n2
  bA = bA
  bB = bB
  Neighbors <- MCNeighbors
  Blocks <- MCBlocks
  Messages <- MCMessages
  Interval = 1000
  Phases <- MCPhases
  MaxTTL = 1
  Storage = 2
  Bandwidth = 1
  Batch = 1
  Unit = 2
  MaxQueue = 2
  MaxMessages = 2
PROPERTY BroadcastInTime
