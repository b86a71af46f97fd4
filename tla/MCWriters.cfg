SPECIFICATION FairSpec
CONSTANTS
  Messages = {"m1", "m2"}
  Modes = {"core", "durable", "anew"}
  Skips = {{}, {"m1"}}
  Unfit = {"m2"}
  None = "none"
  Topics = {"t1", "t2"}
  Hashes = {"h1", "h2"}
  Dest <- TwoDest
  Hash <- TwoHash
  MaxSubs = 3
  MaxShutdowns = 1
  MaxOutages = 1
INVARIANTS TypeOK AckedIsWritten RightTopic
PROPERTIES ImplementsRelay AllWritten
CHECK_DEADLOCK FALSE
