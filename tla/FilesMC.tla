------------------------------- MODULE FilesMC -------------------------------
(* Three DIDs that nothing tells apart.                                    *)
EXTENDS Files

CONSTANTS d1, d2, d3

MCDids == {d1, d2, d3}
Symmetry == Permutations(MCDids)
==============================================================================
