SPECIFICATION FairSpec
CONSTANTS
  Addr = {a1, a2}
  Maker = a1
  Stakes = {3}
  TickGrid = 2
  Window = 1
  MaxReads = 2
  Preload = 2
  Supply = 6
  MaxHeight = 2
  MaxRound = 3
INVARIANT
  DecidedByHistory
PROPERTIES
  DecidedIsFinal
  BetResolves
CHECK_DEADLOCK FALSE
