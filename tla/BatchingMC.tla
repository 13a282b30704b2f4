----------------------------- MODULE BatchingMC -----------------------------
(***************************************************************************)
(* Three requests, two of them about the same DID.                         *)
(***************************************************************************)
EXTENDS Batching

MCRequests == 1 .. 3
MCDidOf == <<"d1", "d1", "d2">>
=============================================================================
