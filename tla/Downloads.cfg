SPECIFICATION FairSpec
CONSTANTS
  Downloads <- MCDownloads
  Contents = {"a", "b"}
  ContentOf <- MCContentOf
  MaxConcurrentDownloads = 2
CHECK_DEADLOCK FALSE
INVARIANTS LanesBounded ReturnsOwnResult
PROPERTIES EventuallyReturned
