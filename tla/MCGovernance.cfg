SPECIFICATION MCSpec
CONSTANTS
  a1 = a1
  a2 = a2
  custody = custody
  typo = typo
  foreign = foreign
  Addr = {a1, a2}
  Polls = {p1, p2}
  NoPoll = NoPoll
  MaxProposals = 2
  Recipients = {a2}
  Amounts = {3}
  TickGrid = 2
  MinPropose = 1
  Timelock = 1
  Window = 1
  Funds <- MCFunds
  GovFunds <- MCGovFunds
  MaxHeight = 3
  Callers = {a1, a2}
  WellFormed = {a1, a2, custody, foreign}
  Base58Check = {a1, foreign}
  Bech32 = {a2}
  Settlements <- MCSettlements
  Configs <- MCConfigs
  MaxBps = 4
  ProtocolMax = 4
SYMMETRY Symmetry
INVARIANTS
  MandateBehindPayment
  RecordsMatchLedger
  NeverWedged
  GuardMatchesPolicy
  EmittedClosed
  ChainAccepts
PROPERTY
  DeadStaysDead
CHECK_DEADLOCK FALSE
