SPECIFICATION Spec
CONSTANTS
  Partitions = {p1}
  Partition = p1
  GroupModes = {TRUE}
  Messages = 1
  PublishMayFail = FALSE
  PayloadMayBeBad = FALSE
  ConsumeMayFail = FALSE
  StanMayBeNil = FALSE
  MaxFaults = 0
  MaxRestarts = 1
INVARIANT ShutdownDoesNotPanic
CHECK_DEADLOCK FALSE
