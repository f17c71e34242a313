SPECIFICATION Spec
CONSTANTS
  a1 = a1
  a2 = a2
  a3 = a3
  Addr = {a1, a2, a3}
  CollGrid = 2
  StableGrid = 2
  MinRatioPct = 151
  LiqBonusPct = 10
  MaxSupply = 8
  RelTol = 151
  AbsTol = 4
  Prices = {2, 3}
  Requests = {2, 3, 4, 6}
  Funds <- MCFunds
SYMMETRY Symmetry
INVARIANTS
  BooksMatchLedger
  ExitOpen
PROPERTIES
  StaysHealthy
  LiquidatedFairly
CHECK_DEADLOCK FALSE
