SPECIFICATION FairSpec
CONSTANTS
  Connectors = {"c1"}
  Cells = {"default", "cellb"}
  Default = "default"
  Cluster <- LoneCluster
  Kind <- LoneKafkaKind
  IdOf <- LoneId
  Durable = {}
  StanConfigured = FALSE
  MaxOutages <- NoOutage
  MaxStanLosses = 0
  MaxErrors = 1
PROPERTY AllRecover
