SPECIFICATION FairSpec
CONSTANTS
  c1 = c1
  c2 = c2
  w1 = w1
  w2 = w2
  NoWork = NoWork
  Callers <- MCCallers
  Workers <- MCWorkers
  Counts <- MCCounts
  SerialBelow = 2
  MaxLookups = 2
INVARIANTS TypeOK ReturnedComplete PublishAlone WorkIsAlive
PROPERTIES PublishedJobReturns WorkersExit ImplementsLookup
