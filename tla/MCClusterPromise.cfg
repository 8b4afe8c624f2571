SPECIFICATION Spec
CONSTANTS
  a = a
  b = b
  N = 2
  Operators <- MCOne
  Nobody = Nobody
  Sessions <- MCServe
  MaxRounds = 1
INVARIANTS StartupGuardStops
CHECK_DEADLOCK FALSE
