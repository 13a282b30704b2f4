----------------------------- MODULE Resolution -----------------------------
(***************************************************************************)
(* One DID: its operations on the ledger, what the operation store holds   *)
(* of them (MongoDbOperationStore), and the state core/src/Resolver.ts     *)
(* computes with core/src/OperationProcessor.ts.                           *)
(*                                                                         *)
(* Batches are stored in the order their downloads end, some first without *)
(* the provisional files, and are removed again by a reorganisation; a     *)
(* resolution reads the store with one call at any moment in between.  A   *)
(* batch has at most one operation of the DID, so the transaction number   *)
(* tells its operations apart.  Keys and hashes are abstracted to          *)
(* commitments, signatures and patches to whether they are valid, and a    *)
(* document is the sequence of the operations whose patches made it.       *)
(***************************************************************************)
EXTENDS Integers, Sequences, SequencesExt, FiniteSets

CONSTANTS
  Kinds,   \* the operations clients may have anchored
  MaxOps   \* bound: operations on the ledger

Commitments == Nat \ {0}
Undefined == 0

\* An operation reveals one commitment and sets others: `next` for the chain it belongs to,
\* `update` (creates and recovers) in its delta.  `delta` says whether the delta has the
\* signed hash and, if so, whether its patches can be applied.
Operations ==
  [type : {"create", "update", "recover", "deactivate"},
   reveal : Commitments \cup {Undefined}, next : Commitments \cup {Undefined},
   update : Commitments \cup {Undefined},
   signed : BOOLEAN, delta : {"valid", "patchFails", "mismatch"}]

ASSUME ConstantsAssumption ==
  /\ MaxOps \in Nat
  /\ Kinds \subseteq Operations

\* The formats have a commitment wherever one is needed (InputValidator, RecoverOperation).
ASSUME ParsedOperations ==
  \A o \in Kinds : IF o.type = "create" THEN o.next # Undefined ELSE o.reveal # Undefined

\* Clients never commit to a key again; the loops of the resolver end because of it.
ASSUME FreshCommitments ==
  \A o \in Kinds : o.type \in {"update", "recover"} => o.reveal < o.next

VARIABLES
  ledger,  \* the operations of the DID, by transaction number
  stored   \* what the store holds of each: nothing, the core files' part, or all of it

vars == <<ledger, stored>>

-----------------------------------------------------------------------------
(* OperationProcessor.apply                                                *)

\* DidState; `last` is 0 for an undefined state.  `chain` and `updates` record the
\* operations applied: the first two chains of the resolver.
NoState == [doc |-> << >>, recovery |-> Undefined, update |-> Undefined, last |-> 0,
            chain |-> << >>, updates |-> << >>]

DidStates == [doc : Seq(Nat), recovery : Nat, update : Nat, last : Nat,
              chain : Seq(Nat), updates : Seq(Nat)]

\* What a create or a recover makes of its delta, which the core files do not have.
WithDelta(i, s) ==
  IF stored[i] = "core" \/ ledger[i].delta = "mismatch" THEN s
  ELSE [s EXCEPT !.update = ledger[i].update,
                 !.doc = IF ledger[i].delta = "valid" THEN <<i>> ELSE << >>]

\* A create without its delta cannot be parsed.
ApplyCreate(i, s) ==
  IF s # NoState \/ stored[i] = "core" THEN s
  ELSE WithDelta(i, [NoState EXCEPT !.recovery = ledger[i].next, !.last = i, !.chain = <<i>>])

ApplyRecover(i, s) ==
  IF ~ledger[i].signed \/ ledger[i].reveal # s.recovery THEN s
  ELSE WithDelta(i, [NoState EXCEPT !.recovery = ledger[i].next, !.last = i,
                                    !.chain = Append(s.chain, i)])

ApplyDeactivate(i, s) ==
  IF ~ledger[i].signed \/ ledger[i].reveal # s.recovery THEN s
  ELSE [s EXCEPT !.recovery = Undefined, !.update = Undefined, !.last = i,
                 !.chain = Append(s.chain, i)]

\* The commitment moves on even if the patches cannot be applied.
ApplyUpdate(i, s) ==
  IF ~ledger[i].signed \/ ledger[i].reveal # s.update \/ ledger[i].delta = "mismatch" THEN s
  ELSE [s EXCEPT !.update = ledger[i].next, !.last = i, !.updates = Append(s.updates, i),
                 !.doc = IF ledger[i].delta = "valid" THEN Append(s.doc, i) ELSE s.doc]

Apply(s, i) ==
  CASE ledger[i].type = "create"     -> ApplyCreate(i, s)
    [] ledger[i].type = "update"     -> IF s = NoState THEN s ELSE ApplyUpdate(i, s)
    [] ledger[i].type = "recover"    -> IF s = NoState THEN s ELSE ApplyRecover(i, s)
    [] ledger[i].type = "deactivate" -> IF s = NoState THEN s ELSE ApplyDeactivate(i, s)

-----------------------------------------------------------------------------
(* Resolver.resolve                                                        *)

\* get: the operations of the DID, which the store sorts by transaction number.
Get == {i \in DOMAIN ledger : stored[i] # "none"}

OfType(t) == {i \in Get : ledger[i].type = t}

RecoversOnly == OfType("recover")
RecoverAndDeactivate == OfType("recover") \cup OfType("deactivate")

\* The entry of the commit value -> operation map for commitment c.
Revealing(operations, c) == {i \in operations : c # Undefined /\ ledger[i].reveal = c}

\* Operations are tried by transaction number: an entry of the map is sorted before.
Latest(S) == Max(S)
Earliest(S) == Min(S)

\* applyFirstValidOperation: an operation was applied if the state's last one changed.
ApplyFirstValid(operations, s) ==
  LET valid == {i \in operations : Apply(s, i).last # s.last}
  IN  IF valid = {} THEN s ELSE Apply(s, Earliest(valid))

\* The first create that can be parsed gives the initial state.
Created == ApplyFirstValid(OfType("create"), NoState)

\* The loops: each turn applies an operation to the state, until none applies.
WithRecoveries[s \in DidStates] ==
  LET t == ApplyFirstValid(Revealing(RecoverAndDeactivate, s.recovery), s)
  IN  IF t = s THEN s ELSE WithRecoveries[t]

WithUpdates[s \in DidStates] ==
  LET t == ApplyFirstValid(Revealing(OfType("update"), s.update), s)
  IN  IF t = s THEN s ELSE WithUpdates[t]

ResolvedUpdatesFirst ==
  IF Created = NoState THEN NoState ELSE WithRecoveries[WithUpdates[Created]]
Resolved ==
  IF Created = NoState THEN NoState
  ELSE LET recovered == WithRecoveries[Created]
       IN  IF recovered.recovery = Undefined THEN recovered ELSE WithUpdates[recovered]

-----------------------------------------------------------------------------

Init == ledger = << >> /\ stored = << >>

Anchor(o) ==
  /\ Len(ledger) < MaxOps
  /\ ledger' = Append(ledger, o)
  /\ stored' = Append(stored, "none")

\* A processing of transaction i stores the operation (insertOrReplace).  Without the
\* provisional files there is no update, and a deactivate is whole.
Store(i) ==
  /\ \E part \in {"core", "whole"} :
       /\ part = "core" => ledger[i].type \in {"create", "recover"}
       /\ stored' = [stored EXCEPT ![i] = part]
  /\ UNCHANGED ledger

\* A reorganisation, and the revert of the store that follows it.
Kept(n) == SubSeq(stored, 1, n)

Revert(n) ==
  /\ ledger' = SubSeq(ledger, 1, n)
  /\ stored' = Kept(n)

Next ==
  \/ \E o \in Kinds : Anchor(o)
  \/ \E i \in DOMAIN ledger : Store(i) \/ Revert(i - 1)

Spec == Init /\ [][Next]_vars

-----------------------------------------------------------------------------
(* Properties                                                              *)

\* An operation never comes before one that sets the commitment it reveals.
ClientsInOrder ==
  \A i, j \in DOMAIN ledger :
    LET a == ledger[i]  b == ledger[j]
    IN  \/ a.type \in {"create", "recover"} /\ b.type \in {"recover", "deactivate"} /\ a.next = b.reveal
        \/ a.type \in {"create", "recover"} /\ b.type = "update" /\ a.update = b.reveal
        \/ a.type = "update" /\ b.type = "update" /\ a.next = b.reveal
        => i < j

\* The state the operations lead to when they are applied one by one as they were anchored.
Replay(s, i) == IF stored[i] = "none" THEN s ELSE Apply(s, i)
ReplayedUpTo[n \in 0 .. Len(ledger)] == IF n = 0 THEN NoState ELSE Replay(ReplayedUpTo[n - 1], n)
Replayed == ReplayedUpTo[Len(ledger)]

\* The resolver takes the recoveries first and then the updates, by commitments; if clients
\* commit before they reveal, that is the same as replaying the stored operations in the
\* order of the ledger, whichever of them are stored, whole or in part.  Only the document
\* of a deactivated DID differs: the resolver leaves out its last updates.
ReplaysTheLedger ==
  ClientsInOrder =>
    \/ Resolved = Replayed
    \/ /\ Resolved.recovery = Undefined /\ Replayed.recovery = Undefined
       /\ Resolved.chain = Replayed.chain

\* The loops do not stop early: no stored operation could still be applied.
NothingLeftToApply ==
  \A i \in Get : Apply(Resolved, i) = Resolved

\* An operation anchored later than all that are stored never rewrites what a resolution
\* answered: the recoveries applied so far stay, and the updates too unless it recovers or
\* deactivates.  So a deactivated DID stays deactivated, and of two operations that reveal
\* one commitment the later one has no effect.
OnlyExtends ==
  \A i \in DOMAIN ledger :
    /\ ledger' = ledger /\ stored[i] = "none" /\ stored'[i] # "none"
    /\ \A j \in Get : j < i
    => /\ IsPrefix(Resolved.chain, Resolved'.chain)
       /\ Resolved.chain = Resolved'.chain => IsPrefix(Resolved.updates, Resolved'.updates)

HistoryIsFinal == [][OnlyExtends]_vars
=============================================================================
