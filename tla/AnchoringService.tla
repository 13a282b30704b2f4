-------------------------- MODULE AnchoringService --------------------------
(***************************************************************************)
(* What the write side of a node promises to its clients: an operation it  *)
(* took stays with it until a batch with that operation is on the ledger.  *)
(* A batch may be anchored again, but nothing is dropped.                  *)
(***************************************************************************)
CONSTANT Operations

VARIABLES
  waiting,   \* operations the node is holding
  anchored   \* operations that are in some batch on the ledger

vars == <<waiting, anchored>>

Init == waiting = {} /\ anchored = {}

Take(S) ==
  /\ S # {} /\ S \cap (waiting \cup anchored) = {}
  /\ waiting' = waiting \cup S
  /\ UNCHANGED anchored

AnchorBatch(B) ==
  /\ B # {} /\ B \subseteq waiting
  /\ anchored' = anchored \cup B
  /\ UNCHANGED waiting

LetGo(B) ==
  /\ B # {} /\ B \subseteq waiting \cap anchored
  /\ waiting' = waiting \ B
  /\ UNCHANGED anchored

Next ==
  \E B \in SUBSET Operations : Take(B) \/ AnchorBatch(B) \/ LetGo(B)

Spec == Init /\ [][Next]_vars
=============================================================================
