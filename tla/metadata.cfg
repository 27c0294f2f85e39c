SPECIFICATION FairSpec
CONSTANTS
  n1 = n1
  n2 = n2
  n3 = n3
  hA = hA
  Nodes <- MCNodes
  Reach <- MCTriangle
  Hashes <- MCHashes
  BlockCount <- MCBlockCount
  ShortLast <- MCHashes
  Publisher <- MCPublisher
  TTL = 2
  MaxDelay = 2
  FetchBatch = 1
  HopRange = 256
  MaxTimers = 1
  MaxFetch = 2
  MaxChanges = 2
INVARIANTS TypeOK NoOwnRemote ExpireAtOnce HopsOfAPath EveryBlockFetched PublisherAnnounces
PROPERTY ExpiredDropped
