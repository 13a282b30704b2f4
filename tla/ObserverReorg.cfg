SPECIFICATION Spec
CONSTANTS
  FirstNumber = 1
  LastNumber = 3
  MaxFork = 2
  HandedOver = 1
  MaxConcurrentDownloads = 1
  PageSize = 2
  ReadStyle = "after"
  FindsValid = TRUE
  Results = {"all"}
  MaxListed = 4
  MaxSkipped = 1
  MaxFaults = 2
 
INVARIANT RevertIsComplete
