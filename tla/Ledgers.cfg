SPECIFICATION LedgersSpec
CONSTANTS
  Adapters = {"ethereum", "zksync", "qldb"}
  DefaultBatchSize = 1
  Genesis = 5
  LastBlock = 3
  MaxPerBlock = 2
  MaxFork = 2
  MaxDisturbances = 1
INVARIANTS
  NothingPassedOver

  
  
