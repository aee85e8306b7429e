SPECIFICATION Spec
CONSTANTS
  None = None
  Gone = Gone
  Wallets = {"alice"}
  Rounds = {"r1"}
  Keys = {"k1", "k2", "k3", "k4", "k5"}
  Externals = {"e1", "e2", "e3", "e4", "e5"}
  Messages = {"m1"}
  Deliveries = {"d1", "d2", "d3"}
  Workers = {"w1", "w2"}
  RequestOf <- ReversalRequests
  MessageOf <- OverHttp
  OpeningBalance <- Opened
  BatchSize = 1
  MaxAttempts = 1
  MaxFailures = 0
  SlowWorkers = TRUE
INVARIANTS
  ReversedAtMostOnce
