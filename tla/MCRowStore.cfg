SPECIFICATION Spec
CONSTANTS
  t1 = t1
  t2 = t2
  Threads <- MCThreads
  TableRows = 4
  Budgets <- MCBudgets
  CacheWays <- MCCacheWays
  Ranges <- MCRanges
  Shards <- MCShards
  Layer = 1
  NLocks = 2
  NoThread = NoThread
  MaxLookups = 5
SYMMETRY MCSymmetry
INVARIANTS ServedExact CacheExact
