SPECIFICATION AFairSpec
CONSTANTS
  a1 = a1
  a2 = a2
  Addr = {a1, a2}
  TickGrid = 2
  Radix = 2
  MaxSupply = 8
  PageSize = 2
  Sends <- MCSends
  MaxSends = 3
  Bodies = {low, high}
INVARIANTS
  CreditIsBurn
  OraclePriceAttested
PROPERTIES
  CheckKept
  BurnCredited
CHECK_DEADLOCK FALSE
