---------------------------- MODULE ResolutionMC ----------------------------
(***************************************************************************)
(* Creates with a right and a wrong delta, a recovery, updates that        *)
(* compete for a commitment, fail to patch, follow each other or follow    *)
(* the recovery, and deactivates before and after it, one not signed.      *)
(***************************************************************************)
EXTENDS Resolution

Op(type, reveal, next, update, signed, delta) ==
  [type |-> type, reveal |-> reveal, next |-> next, update |-> update,
   signed |-> signed, delta |-> delta]

MCKinds ==
  {Op("create", 0, 1, 1, TRUE, d) : d \in {"valid", "mismatch"}}
    \cup {Op("recover", 1, 2, 3, TRUE, "valid")}
    \cup {Op("update", 1, 2, 0, TRUE, d) : d \in {"valid", "patchFails"}}
    \cup {Op("update", 2, 4, 0, TRUE, "valid"), Op("update", 3, 4, 0, TRUE, "valid")}
    \cup {Op("deactivate", 1, 0, 0, s, "valid") : s \in BOOLEAN}
    \cup {Op("deactivate", 2, 0, 0, TRUE, "valid")}
=============================================================================
