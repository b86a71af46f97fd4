SPECIFICATION ConfigSpec
CONSTANTS
  Inputs <- AllInputs
  Kafka <- AllKafka
INVARIANTS
  FileOverDefaults
  LoadsWhatFits
  AcceptsWhatIsWired
  EntriesAreComplete
  ClientsAgree
CHECK_DEADLOCK FALSE
