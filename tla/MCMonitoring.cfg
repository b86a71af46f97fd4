SPECIFICATION Spec
CONSTANTS
  MaxBins = 2
  Connect <- TwoConnectors
  Named = {"named"}
  Streams = {"named"}
  Settings = {"none", "both", "http"}
  Requests = {r1}
  Samples <- Times
  Bytes = 3
  Pending = 1
  MaxIn <- In
  MaxFailed <- Failed
  MaxHTTP = 1
INVARIANTS
  SumsUpTheSamples
  AverageIsMean
  SnapshotsAreConsistent
  VarzListsAll
  VarzIsBetween
PROPERTY StopReturns
CHECK_DEADLOCK FALSE
