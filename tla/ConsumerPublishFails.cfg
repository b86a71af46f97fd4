SPECIFICATION Spec
CONSTANTS
  Partitions = {p1, p2}
  Partition = p1
  GroupModes = {TRUE}
  Messages = 2
  PublishMayFail = TRUE
  PayloadMayBeBad = FALSE
  ConsumeMayFail = FALSE
  StanMayBeNil = FALSE
  MaxFaults = 0
  MaxRestarts = 0
INVARIANT OutstandingUntilCommitted
CHECK_DEADLOCK FALSE
