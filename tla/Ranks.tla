-------------------------------- MODULE Ranks --------------------------------
(***************************************************************************)
(* What Array.sort and Array.filter make of an array: an element is found  *)
(* by its rank, the number of elements that are not after it.  And what    *)
(* appending arrays to one another makes, as a recursive function.         *)
(***************************************************************************)
EXTENDS Integers, Sequences, FiniteSets

\* The numbers of a finite set in ascending order.
Ascending(S) ==
  [k \in 1 .. Cardinality(S) |-> CHOOSE n \in S : Cardinality({m \in S : m <= n}) = k]

\* The elements of a sequence at the given places, in their order.
Picked(s, places) ==
  LET ascending == Ascending(places) IN [k \in DOMAIN ascending |-> s[ascending[k]]]

\* The elements of all parts, part after part.
Joined(parts) ==
  LET upTo[n \in 0 .. Len(parts)] == IF n = 0 THEN << >> ELSE upTo[n - 1] \o parts[n]
  IN upTo[Len(parts)]
==============================================================================
