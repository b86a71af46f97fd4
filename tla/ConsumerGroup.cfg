SPECIFICATION FairSpec
CONSTANTS
  Partitions = {p1, p2}
  Partition = p1
  GroupModes = {TRUE, FALSE}
  Messages = 2
  PublishMayFail = FALSE
  PayloadMayBeBad = TRUE
  ConsumeMayFail = TRUE
  StanMayBeNil = TRUE
  MaxFaults = 2
  MaxRestarts = 1
INVARIANTS TypeOK OutstandingUntilCommitted CommitReachesItsClaim PublishedInOrder
PROPERTIES ImplementsRelay AllDelivered
CHECK_DEADLOCK FALSE
