SPECIFICATION DocumentsSpec
CONSTANTS
  BadId = "bad"
  BadValue = "bad"
  Purposes = {"auth", "agree"}
  Deltas <- MCDeltas
  MaxPatches = 5
INVARIANTS
  UnambiguousIds
  
  FormsAgree
  ShownCanBeUpdated
CHECK_DEADLOCK FALSE
