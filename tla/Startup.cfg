SPECIFICATION Spec
CONSTANTS
  Numbers <- MCNumbers
  BlockOf <- MCBlockOf
  FirstHeight = 2
  LastBlock = 3
  BatchSize = 1
  MaxRetries = 1
  KnowsBlocks = TRUE
  MaxStarts = 2
  MaxFaults = 2
INVARIANTS StoredWithoutHole LiveIsSynced ObservesUpgraded
PROPERTIES NothingThrownAway EventuallyLive TimeIsKnown
CHECK_DEADLOCK FALSE
