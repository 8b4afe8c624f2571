SPECIFICATION FairSpec
CONSTANTS
  a = a
  b = b
  N = 1
  Operators <- MCOne
  Nobody = Nobody
  Sessions <- MCGuarded
  MaxRounds = 2
PROPERTIES ServeEnds GuardReacts
CHECK_DEADLOCK FALSE
