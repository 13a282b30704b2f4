SPECIFICATION Spec
CONSTANTS
  r1 = r1
  r2 = r2
  Types = {"create", "update", "recover", "deactivate"}
  MaxOps = 3
  Runs <- MCRuns
  Damages = {"none", "paid", "coreProof", "provisionalProof", "chunk", "sameDid"}
  Mixed = FALSE
  MaxFaults = 1
SYMMETRY Symmetry
INVARIANTS  EndsAsReported
