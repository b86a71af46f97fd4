SPECIFICATION Spec
CONSTANTS
  Connectors = {"c1", "c2"}
  Cells = {"default"}
  Default = "default"
  Cluster <- DefaultCluster
  Kind <- StanKind
  IdOf <- DistinctIds
  Durable = {"c1"}
  StanConfigured = TRUE
  MaxOutages <- OneOutageOfDefault
  MaxStanLosses = 1
  MaxErrors = 1
INVARIANTS
  StoppedIsQuiet
  WorkHasTimer
