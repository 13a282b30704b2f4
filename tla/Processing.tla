----------------------------- MODULE Processing -----------------------------
(***************************************************************************)
(* One batch, from the files its writer made (core/src/BatchWriter.ts and  *)
(* the createBuffer functions of the files) to the operations its readers  *)
(* store (core/src/TransactionProcessor.ts).  The same transaction may be  *)
(* processed several times, also at the same time: the Observer reads it   *)
(* again as long as it is not recorded.                                    *)
(*                                                                         *)
(* The operations of a batch are about different DIDs (Batching shows it), *)
(* so an operation is known by its position in the batch; the same number  *)
(* stands for its DID, its signed proof and its delta.  Another writer's   *)
(* batch may have a file whose entries do not match the rest of it.        *)
(***************************************************************************)
EXTENDS Integers, Sequences, SequencesExt, FiniteSets, Ranks

CONSTANTS
  Types,     \* the operation types that are considered
  MaxOps,    \* bound: operations in the batch
  Runs,      \* bound: processings of the transaction under way at the same time
  Damages,   \* what may be wrong with the files
  Mixed,     \* TRUE: deactivates may share a batch with creates and recovers
  MaxFaults  \* bound: rejected inserts and crashes together

AllTypes == {"create", "update", "recover", "deactivate"}

\* Nothing; the number of operations paid for is one too low; the first entry of a file is
\* missing; an update of a DID that the core index file contains as well.
AllDamages == {"none", "paid", "coreProof", "provisionalProof", "chunk", "sameDid"}

ASSUME ConstantsAssumption ==
  /\ Types \subseteq AllTypes /\ Damages \subseteq AllDamages
  /\ MaxOps \in Nat /\ MaxFaults \in Nat
  /\ IsFiniteSet(Runs) /\ Mixed \in BOOLEAN

\* FetchResultCode, by what downloadFileFromCas makes of it; "Throws" stands for every
\* error that is not a SidetreeError, "Invalid" for the remaining SidetreeErrors.
Codes == {"Success", "NotFound", "CasNotReachable", "NotAFile", "Invalid", "Throws"}

Undefined == 0

VARIABLES
  types,     \* the type of each operation of the batch, in the order of the queue
  damage,    \* what is wrong with the files
  pc,        \* the await each processing is at
  todo,      \* operations each processing still has to insert
  outcome,   \* how each processing ended; "none" while it has not
  disturbed, \* processings during or after which another one inserted operations
  store,     \* the transaction's operations in MongoDbOperationStore
  faults     \* faults so far

vars == <<types, damage, pc, todo, outcome, disturbed, store, faults>>

-----------------------------------------------------------------------------
(* The files of the batch, as the writer makes them                        *)

\* The operations of a type keep the order of the queue.
OfType(t) == Ascending({i \in DOMAIN types : types[i] = t})

Creates     == OfType("create")
Recovers    == OfType("recover")
Deactivates == OfType("deactivate")
Updates     == OfType("update")

CoreDids == Creates \o Recovers \o Deactivates

Shortened(s, d) == IF damage = d /\ s # << >> THEN Tail(s) ELSE s

Paid           == Len(types) - IF damage = "paid" THEN 1 ELSE 0
RecoverProofs  == Shortened(Recovers, "coreProof")
DeactivateProofs == IF Recovers = << >> THEN Shortened(Deactivates, "coreProof")
                    ELSE Deactivates
UpdateDids     == IF damage = "sameDid" /\ CoreDids # << >> /\ Updates # << >>
                  THEN <<Head(CoreDids)>> \o Tail(Updates) ELSE Updates
UpdateProofs   == Shortened(Updates, "provisionalProof")
Deltas         == Shortened(Creates \o Recovers \o Updates, "chunk")

HasCoreProof        == Recovers \o Deactivates # << >>
HasProvisionalIndex == Creates \o Recovers \o Updates # << >>
HasProvisionalProof == Updates # << >>

-----------------------------------------------------------------------------
(* What the reader verifies of each file                                   *)

CoreIndexVerifies == Len(CoreDids) <= Paid

\* Each deactivate proof is parsed for the DID at its place, then the proofs are counted.
CoreProofVerifies ==
  /\ \A i \in DOMAIN DeactivateProofs :
       i \in DOMAIN Deactivates /\ DeactivateProofs[i] = Deactivates[i]
  /\ Len(RecoverProofs) + Len(DeactivateProofs) = Len(Recovers) + Len(Deactivates)

ProvisionalIndexVerifies ==
  /\ IsInjective(UpdateDids)
  /\ Len(UpdateDids) <= Paid - Len(CoreDids)
  /\ ToSet(CoreDids) \cap ToSet(UpdateDids) = {}

ProvisionalProofVerifies == Len(UpdateProofs) > 0 /\ Len(UpdateProofs) = Len(UpdateDids)

ChunkVerifiesAtMost == Len(Deltas) <= Len(Creates) + Len(Recovers) + Len(UpdateDids)
ChunkVerifies == Len(Deltas) = Len(Creates) + Len(Recovers) + Len(UpdateDids)

\* The files in the order they are downloaded, and whether the batch has them.
Files == <<"coreIndex", "coreProof", "provisionalIndex", "provisionalProof", "chunk">>
CoreFiles == {"coreIndex", "coreProof"}

Has(f) ==
  CASE f = "coreIndex"         -> TRUE
    [] f = "coreProof"         -> HasCoreProof
    [] f = "provisionalProof"  -> HasProvisionalProof
    [] f \in {"provisionalIndex", "chunk"} -> HasProvisionalIndex

Verifies(f) ==
  CASE f = "coreIndex"         -> CoreIndexVerifies
    [] f = "coreProof"         -> CoreProofVerifies
    [] f = "provisionalIndex"  -> ProvisionalIndexVerifies
    [] f = "provisionalProof"  -> ProvisionalProofVerifies
    [] f = "chunk"             -> ChunkVerifies

\* The next file after f that the batch has; "compose" after the last.
After(f) ==
  LET place == CHOOSE i \in DOMAIN Files : Files[i] = f
      left  == {i \in DOMAIN Files : i > place /\ Has(Files[i])}
  IN  IF left = {} THEN "compose" ELSE Files[Min(left)]

-----------------------------------------------------------------------------
(* The operations composed from the files                                  *)

Entry(s, i) == IF i \in DOMAIN s THEN s[i] ELSE Undefined

Operation(did, type, index, proof, delta) ==
  [did |-> did, type |-> type, index |-> index, proof |-> proof, delta |-> delta]

\* `hasChunk`: the chunk file is not `undefined`.
ComposedCreates(hasChunk) ==
  {Operation(Creates[i], "create", i - 1, Undefined,
             IF hasChunk THEN Entry(Deltas, i) ELSE Undefined) : i \in DOMAIN Creates}

ComposedRecovers(hasChunk) ==
  {Operation(Recovers[i], "recover", Len(Creates) + i - 1, Entry(RecoverProofs, i),
             IF hasChunk THEN Entry(Deltas, Len(Creates) + i) ELSE Undefined) :
     i \in DOMAIN Recovers}

\* The DIDs are taken from all suffixes of the core index file, the references and proofs
\* from those of the deactivates.
ComposedDeactivates ==
  {Operation(CoreDids[i], "deactivate", Len(Creates) + Len(Recovers) + i - 1,
             Entry(DeactivateProofs, i), Undefined) : i \in DOMAIN CoreDids}

\* The reference of a DID that is not there is `undefined`, and its revealValue throws.
DeactivatesThrow == Deactivates # << >> /\ Len(CoreDids) > Len(Deactivates)

ComposedUpdates ==
  {Operation(UpdateDids[i], "update", Len(CoreDids) + i - 1, Entry(UpdateProofs, i),
             Entry(Deltas, Len(Creates) + Len(Recovers) + i)) : i \in DOMAIN UpdateDids}

\* Without the provisional files the operations of the core index file are left.
ComposedOfCore(hasChunk) ==
  ComposedCreates(hasChunk) \cup ComposedRecovers(hasChunk)
    \cup (IF Deactivates = << >> THEN {} ELSE ComposedDeactivates)
Nothing == {}
ComposedWithoutProvisional == ComposedOfCore(FALSE)
Composed == ComposedOfCore(HasProvisionalIndex)
              \cup (IF HasProvisionalIndex THEN ComposedUpdates ELSE {})

\* insertOrReplace: an operation takes the place of one with the same key.
Key(o) == <<o.did, o.index, o.type>>
Replaced(o) == {p \in store : Key(p) # Key(o)} \cup {o}

-----------------------------------------------------------------------------

Init ==
  /\ \E n \in 1 .. MaxOps : types \in [1 .. n -> Types]
  /\ Mixed \/ Deactivates = << >> \/ Creates \o Recovers = << >>
  /\ damage \in Damages
  /\ pc = [r \in Runs |-> "idle"]
  /\ todo = [r \in Runs |-> {}]
  /\ outcome = [r \in Runs |-> "none"]
  /\ disturbed = {} /\ store = {} /\ faults = 0

Begin(r) ==
  /\ pc[r] = "idle"
  /\ pc' = [pc EXCEPT ![r] = "coreIndex"]
  /\ outcome' = [outcome EXCEPT ![r] = "none"]
  /\ disturbed' = disturbed \ {r}
  /\ UNCHANGED <<types, damage, todo, store, faults>>

End(r, result) ==
  /\ pc' = [pc EXCEPT ![r] = "idle"]
  /\ outcome' = [outcome EXCEPT ![r] = result]

\* The composed operations are inserted; composing them may throw.
Insert(r, operations, result) ==
  IF DeactivatesThrow
  THEN End(r, "threw") /\ UNCHANGED todo
  ELSE /\ pc' = [pc EXCEPT ![r] = "insert"]
       /\ todo' = [todo EXCEPT ![r] = operations]
       /\ outcome' = [outcome EXCEPT ![r] = result]

DownloadSucceeds(r) ==
  /\ pc[r] \in ToSet(Files)
  /\ Verifies(pc[r])
  /\ IF After(pc[r]) = "compose"
     THEN Insert(r, Composed, "whole")
     ELSE pc' = [pc EXCEPT ![r] = After(pc[r])] /\ UNCHANGED <<todo, outcome>>
  /\ UNCHANGED <<types, damage, disturbed, store, faults>>

\* A core file that is not found is given up, one that is invalid discards the batch.
CoreFails(r, code) ==
  /\ pc[r] \in CoreFiles
  /\ End(r, CASE code = "NotFound" -> "skipped"
              [] code \in {"CasNotReachable", "Throws"} -> "retry"
              [] code \in {"NotAFile", "Invalid"} -> "discarded")
  /\ UNCHANGED todo

\* A provisional file fails: none of them is used.
ProvisionalFails(r, code) ==
  /\ pc[r] \in ToSet(Files) \ CoreFiles
  /\ Insert(r, ComposedWithoutProvisional,
            IF code = "Invalid" THEN "coreOnly" ELSE "coreRetry")

DownloadFails(r) ==
  /\ pc[r] \in ToSet(Files)
  /\ \E code \in IF Verifies(pc[r]) THEN Codes \ {"Success"} ELSE Codes :
       LET seen == IF code = "Success" THEN "Invalid" ELSE code
       IN  CoreFails(r, seen) \/ ProvisionalFails(r, seen)
  /\ UNCHANGED <<types, damage, disturbed, store, faults>>

\* The operations of the bulk are executed one by one, in no order.
InsertOne(r) ==
  /\ pc[r] = "insert"
  /\ \E o \in todo[r] :
       /\ store' = Replaced(o)
       /\ todo' = [todo EXCEPT ![r] = @ \ {o}]
  /\ disturbed' = disturbed \cup (Runs \ {r})
  /\ UNCHANGED <<types, damage, pc, outcome, faults>>

InsertReturns(r) ==
  /\ pc[r] = "insert"
  /\ todo[r] = {}
  /\ pc' = [pc EXCEPT ![r] = "idle"]
  /\ UNCHANGED <<types, damage, todo, outcome, disturbed, store, faults>>

InsertRejects(r) ==
  /\ pc[r] = "insert"
  /\ faults < MaxFaults
  /\ faults' = faults + 1
  /\ End(r, "threw")
  /\ todo' = [todo EXCEPT ![r] = {}]
  /\ UNCHANGED <<types, damage, disturbed, store>>

Crash ==
  /\ faults < MaxFaults
  /\ faults' = faults + 1
  /\ pc' = [r \in Runs |-> "idle"]
  /\ todo' = [r \in Runs |-> {}]
  /\ outcome' = [r \in Runs |-> IF pc[r] = "idle" THEN outcome[r] ELSE "none"]
  /\ UNCHANGED <<types, damage, disturbed, store>>

Next ==
  \/ \E r \in Runs : \/ Begin(r) \/ DownloadSucceeds(r) \/ DownloadFails(r)
                     \/ InsertOne(r) \/ InsertReturns(r) \/ InsertRejects(r)
  \/ Crash

Spec == Init /\ [][Next]_vars

-----------------------------------------------------------------------------
(* Properties                                                              *)

\* Writer and readers agree on the place of every entry in every file: a stored operation is
\* one of the batch, at the place it has in it, with its own proof and, where it has a delta,
\* its own; an update is never stored without its delta.  A file that does not match the
\* others is noticed before anything is composed from it.
StoredAsWritten ==
  \A o \in store :
    /\ types[o.did] = o.type
    /\ (CoreDids \o Updates)[o.index + 1] = o.did
    /\ o.proof = IF o.type = "create" THEN Undefined ELSE o.did
    /\ o.delta \in {Undefined, o.did}
    /\ o.type = "update" => o.delta = o.did

\* What processTransaction returns is true of the store unless another processing inserted
\* meanwhile: after a complete one all operations are there with their deltas, whatever an
\* interrupted or failed one left; after one whose provisional files failed the operations
\* of the core index file are there.
EndsAsReported ==
  \A r \in Runs :
    pc[r] = "idle" /\ r \notin disturbed =>
      /\ outcome[r] = "whole" =>
           \A i \in DOMAIN types : \E o \in store :
             o.did = i /\ (o.type # "deactivate" => o.delta = i)
      /\ outcome[r] \in {"coreOnly", "coreRetry"} =>
           \A i \in ToSet(CoreDids) : \E o \in store : o.did = i

\* TransactionProcessor.ts: "the operations referenced in core index file must be retained
\* regardless of the validity of provisional and chunk files".
CoreRetained ==
  \A r \in Runs :
    /\ pc[r] = "idle" /\ faults = 0
    /\ outcome[r] \in {"whole", "coreOnly", "coreRetry", "threw"}
    => \A i \in ToSet(CoreDids) : \E o \in store : o.did = i
=============================================================================
