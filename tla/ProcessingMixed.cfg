SPECIFICATION Spec
CONSTANTS
  r1 = r1
  r2 = r2
  Types = {"create", "deactivate"}
  MaxOps = 2
  Runs <- MCRuns
  Damages = {"none"}
  Mixed = TRUE
  MaxFaults = 0
INVARIANTS CoreRetained
