SPECIFICATION FairSpec
CONSTANTS
  Connectors = {"c1", "c2"}
  Cells = {"default", "cellb"}
  Default = "default"
  Cluster <- NamedCluster
  Kind <- NamedSubKind
  IdOf <- DistinctIds
  Durable = {}
  StanConfigured = FALSE
  MaxOutages <- OneOutageOfNamed
  MaxStanLosses = 0
  MaxErrors = 0
PROPERTY AllRecover
