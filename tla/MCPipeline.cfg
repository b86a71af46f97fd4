SPECIFICATION PipeSpec
CONSTANTS
  MaxPartitions = 3
  Width = 3
  Registry <- Schemas
  Zero <- Default
  MaxSlice = 1000
  Configs <- AllConfigs
  Messages <- AllMessages
  Foreign <- AllForeign
  MaxForeign = 1
INVARIANTS
  PickExists
  LeastOnceAllUsed
  KeysTellEntitiesApart
  EntityInOrder
  ArrivesAsSent
  ReadsItsOwn
  ReadsOtherTypes
CHECK_DEADLOCK FALSE
