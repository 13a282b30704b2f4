SPECIFICATION FairSpec
CONSTANTS
  Writers = {"self", "w", "other"}
  Self = "self"
  Anchorable <- MCAnchorable
  LastTime = 3
  MaxTransactions = 3
  NormalizedFee <- MCNormalizedFee
  Locks <- MCLocks
  Versions <- MCVersions
  FeeMultiplier = 1
  FeeDivisor = 2
  MaxTransactionsPerTime = 2
  MaxOperationsPerTime = 4
  MaxOperationsPerBatch = 3
  FreeOperations = 1
  MaxConcurrentDownloads = 1
  PageSize = 3
  RereadsCursor = FALSE
  MaxQueued = 4
  MaxListed = 4
  MaxFaults = 1
INVARIANTS
  LimitsAreKept
  
PROPERTIES
  TakesWhatPaidMost
  
CHECK_DEADLOCK FALSE
