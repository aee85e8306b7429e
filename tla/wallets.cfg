SPECIFICATION FairSpec
CONSTANTS
  None = None
  MaxInt = 127
  Scale = 10
  Spellings = {"BRL", "brl"}
  Currencies = {"BRL"}
  CodeOf <- Codes
  NoCurrency = NoCurrency
  Openers = {"o1", "o2", "o3"}
  Players = {"alice"}
  OpeningOf <- RivalOpenings
  Movements = {"m1", "m2", "m3", "m4"}
  MovementOf <- LimitMovements
  Lags <- OneLateClock
  MaxFailures = 1
  Auditors = {"a1"}
  Clients = {"c1"}
  PageLimit = 1
INVARIANTS
  TypeOK
  OneWalletPerHolder
  RepliesAreTrue
  BalanceIsExact
  BookIsChained
  DifferenceIsExplained
  PagesInOrder
  MissedIsExplained
PROPERTIES
  ImplementsAccounts
  EveryOpeningEnds
