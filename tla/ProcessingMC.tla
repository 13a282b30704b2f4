---------------------------- MODULE ProcessingMC ----------------------------
(***************************************************************************)
(* Two processings of the same transaction; nothing tells them apart.      *)
(***************************************************************************)
EXTENDS Processing

CONSTANTS r1, r2

MCRuns == {r1, r2}
Symmetry == Permutations(MCRuns)
=============================================================================
