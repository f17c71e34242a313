SPECIFICATION Spec
CONSTANTS
  Addr = {a1, a2}
  NoOne = NoOne
  ItemAmounts = {3}
  Prices = {1, 4}
  ItemGrid = 3
  BidGrid = 2
  Duration = 2
  ItemFunds <- MCItemFunds
  BidFunds <- MCBidFunds
  MaxHeight = 3
INVARIANT
  NeverUnsellable
CHECK_DEADLOCK FALSE
