SPECIFICATION FairSpec
CONSTANTS
  Requests <- MCRequests
  DidOf <- MCDidOf
  Types = {"update", "deactivate"}
  Allowances = {1, 2}
  OrderedInserts = TRUE
  SwallowsWriteErrors = FALSE
  MaxFaults = 1
INVARIANTS BatchesAreValid AnchoredInOrder 
PROPERTIES EventuallyAnchored 
