SPECIFICATION Spec
CONSTANTS
  None = None
  Gone = Gone
  Wallets = {"alice"}
  Rounds = {"r1"}
  Keys = {"k1", "k2", "k3", "k4", "k5"}
  Externals = {"e1", "e2", "e3", "e4", "e5"}
  Messages = {"m1"}
  Deliveries = {"d1", "d2", "d3", "d4"}
  Workers = {"w1"}
  RequestOf <- ChainRequests
  MessageOf <- OverHttp
  OpeningBalance <- OpenedWithTwo
  BatchSize = 1
  MaxAttempts = 2
  MaxFailures = 0
  SlowWorkers = FALSE
INVARIANTS
  LedgerIsHistory
  TypeOK
  VersionsAnnounced
  ReversalMirrorsReference
PROPERTIES
  ImplementsBook
