SPECIFICATION MCFairSpec
CONSTANTS
  a1 = a1
  a2 = a2
  Addr = {a1, a2, a3}
  NoOne = NoOne
  Amount = 2
  Window = 1
  Funds = 1
  MaxHeight = 1
  MaxRequests = 2
  Parties = {a1, a2}
  Grants = {9, 10}
  TickGrid = 3
  Duration = 5
  GrantFunds <- MCGrantFunds
  GrantMaxHeight = 6
INVARIANTS
  SettledRightly
  GrantOnSchedule
PROPERTIES
  CheckNotLost
  ImplementsCustody
  ReclaimWithoutNetwork
  CheckResolved
  GrantEarnedIsKept
  GrantPaidOut
CHECK_DEADLOCK FALSE
