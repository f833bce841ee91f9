CONSTANTS
  t1 = t1
  Tasks <- OneTask
  NZones = 2
  MaxOrder = 2
  Present <- TwoZones
  Wmark <- Marks
  LowmemReserve <- Reserve
  DefPriority = 1
  SwapCluster = 1
  ScanFactor = 1
  CostlyOrder = 0
  MaxLru <- Lru
  Kinds <- Two
SPECIFICATION FairSpec
INVARIANTS OomLockSound NoLostWakeup
PROPERTIES KswapdSettles
