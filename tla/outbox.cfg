SPECIFICATION FairSpec
CONSTANTS
  b1 = b1
  b2 = b2
  wallet = wallet
  Events = {b1, b2}
  Aggregates = {wallet}
  AggregateOf <- OneWallet
  OccurredAt <- Instants
  Publishers = {p1, p2}
  BatchSize = 2
  MaxFailures = 2
  Gone = gone
  None = none
INVARIANTS TypeOK PublishedMeansSent DuplicatesAreExplained
PROPERTIES OvertakenOnlyByRival HolderDecides PublishedIsFinal DeliversAtLeastOnce
