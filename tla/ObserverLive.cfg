SPECIFICATION FairSpec
CONSTANTS
  FirstNumber = 0
  LastNumber = 2
  MaxFork = 1
  HandedOver = 1
  MaxConcurrentDownloads = 1
  PageSize = 3
  ReadStyle = "from"
  FindsValid = TRUE
  Results = {"failed"}
  MaxListed = 4
  MaxSkipped = 1
  MaxFaults = 1
INVARIANT TypeOK
INVARIANT StoredWithoutGaps
INVARIANT DownloadsBounded
 
