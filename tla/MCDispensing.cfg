SPECIFICATION MCFairSpec
CONSTANTS
  a1 = a1
  a2 = a2
  Addr = {a1, a2}
  Owner = a1
  PayTick = "pay"
  Prices = {0, 2}
  Units <- MCUnits
  Decks <- MCDecks
  Grids <- MCGrids
  Funds <- MCFunds
  PoolGrid <- MCPoolGrid
  PoolSupply <- MCPoolSupply
  MinOuts = {0, 2}
  FeeNum = 3
  FeeDen = 4
  Locked = 1
  MaxShares = 8
INVARIANTS
  Watermark
  PoolBooksMatchLedger
PROPERTIES
  CardOrRefund
  PaidDrawsServed
  PoolShareValueNeverFalls
CHECK_DEADLOCK FALSE
