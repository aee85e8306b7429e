SPECIFICATION Spec
CONSTANTS
  None = None
  MaxInt = 127
  Scale = 10
  Spellings = {"BRL", "brl"}
  Currencies = {"BRL"}
  CodeOf <- Codes
  NoCurrency = NoCurrency
  Openers = {"o1"}
  Players = {"alice"}
  OpeningOf <- OneOpening
  Movements = {"m1", "m2", "m3"}
  MovementOf <- FewMovements
  Lags <- OnGoodClocks
  MaxFailures = 0
  Auditors = {"a1"}
  Clients = {"c1"}
  PageLimit = 1
INVARIANT
  PagesMissNothing
