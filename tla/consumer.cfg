SPECIFICATION FairSpec
CONSTANTS
  bet = bet
  broken = broken
  refused = refused
  player = player
  Messages = {bet, broken, refused}
  Groups = {player}
  GroupOf <- OneGroup
  Verdict <- Outcomes
  Consumers = {c1, c2}
  BatchSize = 2
  MaxReceiveCount = 2
  MaxFailures = 2
  None = none
INVARIANTS TypeOK NothingIsLost DeadOnlyIfExhausted OvertakenOnlyAfterFailure
PROPERTIES EveryMessageEnds
