SPECIFICATION FairSpec
INVARIANTS TypeOK SlotExclusion CacheCoherent ExactDelivery
PROPERTIES Implements LookupReturns
CONSTANTS
  Threads = {t1, t2}
  Nobody = nobody
  NumRows = 4
  WeightTable <- MCWeight
  ScaleTable <- MCScale
  Bytes <- MCBytes
  Zero = 0
  Garbage <- MCGarbage
  NumLocks = 2
  Modes = {TRUE, FALSE}
  Budgets <- MCBudgets
  Shards <- MCShards
  Ranges <- MCRanges
  Batches <- MCBatches
  MaxLen = 2
  MaxCalls = 2
CHECK_DEADLOCK FALSE
