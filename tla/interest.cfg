SPECIFICATION FairSpec
CONSTANTS
  n1 = n1
  n2 = n2
  fav = fav
  other = other
  Nodes <- MCNodes
  Types <- MCTypes
  Favourite = fav
  TTL = 3
  TTLRange = 6
  MaxChanges = 3
  OldAge = 4
  MessageRoom = 3
  Garbage <- MCGarbage
  HopRange = 256
  CountRange = 8
INVARIANTS TypeOK RemoteLapses
PROPERTIES OwnInterestKept IrrelevantDies
