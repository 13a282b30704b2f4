SPECIFICATION FilesSpec
CONSTANTS
  d1 = d1
  d2 = d2
  d3 = d3
  Dids <- MCDids
  MaxQueued = 3
  MaxForeign = 2
SYMMETRY Symmetry
INVARIANTS
  AcceptedComesBack
  
  OneOperationPerDid
  FailsOnlyWhenMixed
CHECK_DEADLOCK FALSE
