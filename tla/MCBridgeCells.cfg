SPECIFICATION FairSpec
CONSTANTS
  Connectors = {"c1", "c2"}
  Cells = {"default", "cellb"}
  Default = "default"
  Cluster <- SplitCluster
  Kind <- SplitKind
  IdOf <- DistinctIds
  Durable = {}
  StanConfigured = FALSE
  MaxOutages <- OneOutageOfNamed
  MaxStanLosses = 0
  MaxErrors = 0
INVARIANTS
  TypeOK
  OneTimerGoroutine
  WorkHasTimer
  StoppedIsQuiet
  OneOpenConnection
  ContextOfCurrentConnection
  QueuedIsShutDown
  OutageIsNoticed
PROPERTY AllRecover
