SPECIFICATION MCFairSpec
CONSTANTS
  a1 = a1
  a2 = a2
  Addr = {a1, a2, a3}
  NoOne = NoOne
  ItemAmounts = {3, 4}
  ItemGrid = 3
  MinBid = 1
  Window = 1
  ItemFunds <- MCItemFunds
  BidFunds <- MCBidFunds
  MaxHeight = 2
  Bidders = {a1, a2}
  Prices = {1, 3, 4, 6}
  BidGrid = 2
  CurveBlocks = 2
  DutchItems <- MCDutchItems
  DutchBids <- MCDutchBids
  DutchMaxHeight = 3
  Owner = a1
  Rate = 2
  SaleGrid = 3
  SoftCap = 4
  HardCap = 6
  SaleBlocks = 1
  PayFunds <- MCPayFunds
  SaleMaxHeight = 2
INVARIANTS
  Outcome
  CrowdOwedIsCovered
  CrowdSettledAsBought
PROPERTIES
  ImplementsSale
  AuctionEnds
  DutchTermsKept
  DutchImplementsSale
  DutchCoveredSells
  CrowdEveryoneServed
CHECK_DEADLOCK FALSE
