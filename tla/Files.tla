-------------------------------- MODULE Files --------------------------------
(***************************************************************************)
(* The formats of a request and of the files of a batch: what a node       *)
(* accepts as an operation request (core/src/RequestHandler.ts and the     *)
(* *Operation.ts classes), the files its batch writer makes of the queued  *)
(* requests (BatchWriter.ts, the createBuffer functions), what a reader    *)
(* accepts as those files (the parse functions, TransactionProcessor.ts),  *)
(* the requests it composes from them again, and which of those the        *)
(* resolver can parse (Resolver.ts, OperationProcessor.ts).                *)
(*                                                                         *)
(* Another writer may make a batch of requests nobody validated, or leave  *)
(* a file out.  Faults of the store and the payment for a batch are in     *)
(* Processing; the content of a delta is in Documents.                     *)
(***************************************************************************)
EXTENDS Integers, Sequences, SequencesExt, FiniteSets, Functions, Ranks

CONSTANTS
  Dids,        \* DIDs, each also standing for the key that its controller signs with
  MaxQueued,   \* bound: operations in a batch of this node
  MaxForeign   \* bound: operations in a batch of another writer

ASSUME FilesAssumption == IsFiniteSet(Dids) /\ MaxQueued \in Nat /\ MaxForeign \in Nat

RequestTypes == {"create", "update", "recover", "deactivate"}

\* A request.  `suffix` is the form of its didSuffix, `reveal` the key whose hash its
\* revealValue is, `proof` its signed data: the key and the DID in it and what is wrong with
\* it; `extra` an unknown property.  A create has suffixData in place of the first three.
Request(type, did) ==
  [type |-> type, did |-> did, suffix |-> "multihash", suffixData |-> "good", reveal |-> did,
   proof |-> [key |-> did, did |-> did, is |-> "good"],
   delta |-> [of |-> did, is |-> "good"], extra |-> FALSE]

\* "listed": the commitment in it is an array of one element instead of that element.
Flawed(r) ==
  {[r EXCEPT !.extra = TRUE]}
    \cup (IF r.type = "create" THEN {[r EXCEPT !.suffixData = bad] : bad \in {"bad", "listed"}}
          ELSE {[r EXCEPT !.suffix = bad] : bad \in {"string", "missing"}}
                 \cup {[r EXCEPT !.reveal = bad] : bad \in {"otherKey", "notHash"}}
                 \cup {[r EXCEPT !.proof.is = bad] : bad \in {"notJws", "badPayload", "badKey"}})
    \cup (IF r.type = "deactivate" THEN {[r EXCEPT !.proof.did = "other"]}
          ELSE {[r EXCEPT !.delta.is = bad] : bad \in {"bad", "listed", "big", "none"}})

Requests ==
  UNION {{Request(t, did)} \cup Flawed(Request(t, did)) : t \in RequestTypes, did \in Dids}

Edits == {"none", "unknownProperty", "noCoreProof", "strayCoreProof",
          "noProvisionalIndex", "noProvisionalProof", "strayProvisionalProof"}

VARIABLES
  queue,     \* the requests accepted and not yet anchored
  requests,  \* the requests of the batch that was anchored
  foreign,   \* another writer anchored it
  anchored,  \* {} or {its core index file}; a URI is the file it leads to
  result,    \* how reading it ended: "none" before, "discarded", "stored" or "threw"
  stored     \* the requests composed from it, in the order of their operationIndex

filesVars == <<queue, requests, foreign, anchored, result, stored>>

-----------------------------------------------------------------------------
(* What a single operation has to be like                                  *)

\* A string that is a multihash of a supported algorithm.
IsMultihash(value) == value \notin {"string", "missing", "notHash"}

ReferenceIsValid(ref) == IsMultihash(ref.suffix) /\ IsMultihash(ref.reveal)

SuffixDataIsValid(suffixData) == suffixData = "good"

\* validateDelta looks at the properties and patches, Delta.validateDelta also at the size.
DeltaIsValid(delta) == delta.is \in {"good", "big"}
DeltaIsValidAndSmall(delta) == delta.is # "big" /\ DeltaIsValid(delta)

\* The compact JWS; its payload has the properties it has to have, and a valid key.
IsJws(proof) == proof.is # "notJws"
IsEs256kKey(proof) == proof.is # "badKey"
ProofIsValid(proof) == IsJws(proof) /\ proof.is # "badPayload" /\ IsEs256kKey(proof)
DeactivateProofIsValid(proof, did) == ProofIsValid(proof) /\ proof.did = did

\* revealValue is the hash of the key in the signed data.
RevealsKey(r) == r.reveal = r.proof.key

\* A create needs its three properties, but its delta may be invalid, as may that of a
\* recover, which may also be missing.
ParsesAsCreate(r) == ~r.extra /\ SuffixDataIsValid(r.suffixData) /\ r.delta.is # "none"

ParsesWithKey(r) ==
  ~r.extra /\ r.suffix # "missing" /\ IsMultihash(r.reveal) /\ RevealsKey(r)
ParsesAsUpdate(r) == ParsesWithKey(r) /\ ProofIsValid(r.proof) /\ DeltaIsValid(r.delta)
ParsesAsRecover(r) == ParsesWithKey(r) /\ ProofIsValid(r.proof)
ParsesAsDeactivate(r) == ParsesWithKey(r) /\ DeactivateProofIsValid(r.proof, r.did)

\* Operation.parse.
Parses(r) ==
  \/ r.type = "create" /\ ParsesAsCreate(r)
  \/ r.type = "update" /\ ParsesAsUpdate(r)
  \/ r.type = "recover" /\ ParsesAsRecover(r)
  \/ r.type = "deactivate" /\ ParsesAsDeactivate(r)

\* handleOperationRequest.
Accepts(r) ==
  /\ r.type # "deactivate" => DeltaIsValidAndSmall(r.delta)
  /\ Parses(r)
  /\ \A i \in DOMAIN queue : queue[i].did # r.did

-----------------------------------------------------------------------------
(* The files a writer makes                                                *)

RequestsOfType(t, rs) == Picked(rs, {i \in DOMAIN rs : rs[i].type = t})

CreateReferences(rs) == [i \in DOMAIN rs |-> [did |-> rs[i].did, suffixData |-> rs[i].suffixData]]
References(rs) ==
  [i \in DOMAIN rs |-> [did |-> rs[i].did, suffix |-> rs[i].suffix, reveal |-> rs[i].reveal]]
Proofs(rs) == [i \in DOMAIN rs |-> rs[i].proof]
DeltasOf(rs) == [i \in DOMAIN rs |-> rs[i].delta]

CoreProofFile(recovers, deactivates) ==
  IF recovers \o deactivates = << >> THEN {}
  ELSE {[recover |-> Proofs(recovers), deactivate |-> Proofs(deactivates)]}

ProvisionalProofFile(updates) == IF updates = << >> THEN {} ELSE {Proofs(updates)}

ChunkFileUpdatesFirst(creates, recovers, updates) ==
  IF creates \o recovers \o updates = << >> THEN {}
  ELSE {DeltasOf(updates \o creates \o recovers)}
ChunkFile(creates, recovers, updates) ==
  IF creates \o recovers \o updates = << >> THEN {}
  ELSE {DeltasOf(creates \o recovers \o updates)}

\* Only with a chunk file, which a batch of deactivates does not have.
ProvisionalIndexFile(chunk, proofs, updates) ==
  {[chunk |-> c, proof |-> proofs, update |-> References(updates), unknown |-> FALSE] : c \in chunk}

CoreIndexFile(rs) ==
  LET creates     == RequestsOfType("create", rs)
      recovers    == RequestsOfType("recover", rs)
      deactivates == RequestsOfType("deactivate", rs)
      updates     == RequestsOfType("update", rs)
  IN [create |-> CreateReferences(creates), recover |-> References(recovers),
      deactivate |-> References(deactivates),
      proof |-> CoreProofFile(recovers, deactivates),
      provisional |-> ProvisionalIndexFile(ChunkFile(creates, recovers, updates),
                                           ProvisionalProofFile(updates), updates),
      unknown |-> FALSE]

\* What another writer may do to the files.
Edited(file, edit) ==
  LET provisional(F(_)) == [file EXCEPT !.provisional = {F(p) : p \in @}] IN
  CASE edit = "none"                  -> file
    [] edit = "unknownProperty"       -> [file EXCEPT !.unknown = TRUE]
    [] edit = "noCoreProof"           -> [file EXCEPT !.proof = {}]
    [] edit = "strayCoreProof"        -> [file EXCEPT !.proof =
                                            {[recover |-> << >>, deactivate |-> << >>]}]
    [] edit = "noProvisionalIndex"    -> [file EXCEPT !.provisional = {}]
    [] edit = "noProvisionalProof"    -> provisional(LAMBDA p : [p EXCEPT !.proof = {}])
    [] edit = "strayProvisionalProof" -> provisional(LAMBDA p : [p EXCEPT !.proof = {<< >>}])

-----------------------------------------------------------------------------
(* The files a reader accepts                                              *)

DidsOf(refs) == [i \in DOMAIN refs |-> refs[i].did]
DidsOfCore(file) == DidsOf(file.create) \o DidsOf(file.recover) \o DidsOf(file.deactivate)

\* The workaround for an array in place of a commitment, in both files that have one.
Unlisted(value) == IF value = "listed" THEN "good" ELSE value
ReadCreates(file) ==
  [i \in DOMAIN file.create |-> [file.create[i] EXCEPT !.suffixData = Unlisted(@)]]
ReadDeltas(chunk) == [i \in DOMAIN chunk |-> [chunk[i] EXCEPT !.is = Unlisted(@)]]

CoreReferencesAreValid(file) ==
  /\ ~file.unknown
  /\ \A i \in DOMAIN file.create : SuffixDataIsValid(ReadCreates(file)[i].suffixData)
  /\ \A i \in DOMAIN file.recover : ReferenceIsValid(file.recover[i])
  /\ \A i \in DOMAIN file.deactivate : ReferenceIsValid(file.deactivate[i])
  /\ IsInjective(DidsOfCore(file))

CoreIndexParsesWithoutProof(file) ==
  /\ CoreReferencesAreValid(file)
  /\ file.provisional = {} => file.create \o file.recover = << >>
CoreIndexParses(file) ==
  /\ CoreReferencesAreValid(file)
  /\ file.provisional = {} => file.create \o file.recover = << >>
  /\ file.proof = {} <=> file.recover \o file.deactivate = << >>

\* Each deactivate proof is for the DID at its place.
CoreProofParses(file, proofs) ==
  /\ \A i \in DOMAIN proofs.recover : ProofIsValid(proofs.recover[i])
  /\ \A i \in DOMAIN proofs.deactivate :
       i \in DOMAIN file.deactivate
         /\ DeactivateProofIsValid(proofs.deactivate[i], file.deactivate[i].did)
  /\ Len(proofs.recover) + Len(proofs.deactivate) > 0
  /\ Len(proofs.recover) + Len(proofs.deactivate) = Len(file.recover) + Len(file.deactivate)

ProvisionalIndexParsesAlone(file, index) ==
  /\ ~index.unknown
  /\ \A i \in DOMAIN index.update : ReferenceIsValid(index.update[i])
  /\ IsInjective(DidsOf(index.update))
  /\ index.proof = {} <=> index.update = << >>
ProvisionalIndexParses(file, index) ==
  /\ ~index.unknown
  /\ \A i \in DOMAIN index.update : ReferenceIsValid(index.update[i])
  /\ IsInjective(DidsOf(index.update))
  /\ index.proof = {} <=> index.update = << >>
  /\ Range(DidsOfCore(file)) \cap Range(DidsOf(index.update)) = {}

ProvisionalProofParses(index, proofs) ==
  /\ \A i \in DOMAIN proofs : ProofIsValid(proofs[i])
  /\ Len(proofs) > 0 /\ Len(proofs) = Len(index.update)

ChunkParsesUnchecked(file, index) ==
  Len(index.chunk) = Len(file.create) + Len(file.recover) + Len(index.update)
ChunkParses(file, index) ==
  /\ \A i \in DOMAIN index.chunk : DeltaIsValidAndSmall(ReadDeltas(index.chunk)[i])
  /\ Len(index.chunk) = Len(file.create) + Len(file.recover) + Len(index.update)

CoreFilesAreValid(file) ==
  CoreIndexParses(file) /\ \A proofs \in file.proof : CoreProofParses(file, proofs)

ProvisionalFilesAreValid(file) ==
  \A index \in file.provisional :
    /\ ProvisionalIndexParses(file, index)
    /\ \A proofs \in index.proof : ProvisionalProofParses(index, proofs)
    /\ ChunkParses(file, index)

\* The provisional index file that is used; none when one of the three files is invalid.
UsedIndex(file) == IF ProvisionalFilesAreValid(file) THEN file.provisional ELSE {}

-----------------------------------------------------------------------------
(* The requests composed from them                                         *)

\* `deltas`: those of the chunk file, none without it.
DeltaAt(deltas, i, did) == IF i \in DOMAIN deltas THEN deltas[i] ELSE [of |-> did, is |-> "none"]

\* A composed request has the properties of its type and no other.
ComposedRequest(type, ref, proof, delta) ==
  [Request(type, ref.did) EXCEPT !.suffix = ref.suffix, !.reveal = ref.reveal,
                                 !.proof = proof, !.delta = delta]

CreatesFrom(file, deltas) ==
  [i \in DOMAIN file.create |->
     [Request("create", file.create[i].did)
        EXCEPT !.suffixData = Unlisted(file.create[i].suffixData),
               !.delta = DeltaAt(deltas, i, file.create[i].did)]]

RecoversFrom(file, proofs, deltas) ==
  [i \in DOMAIN file.recover |->
     ComposedRequest("recover", file.recover[i], proofs.recover[i],
                     DeltaAt(deltas, Len(file.create) + i, file.recover[i].did))]

DeactivatesFrom(file, proofs) ==
  [i \in DOMAIN file.deactivate |->
     ComposedRequest("deactivate", file.deactivate[i], proofs.deactivate[i],
                     Request("deactivate", file.deactivate[i].did).delta)]

UpdatesFrom(file, index, proofs, deltas) ==
  [i \in DOMAIN index.update |->
     ComposedRequest("update", index.update[i], proofs[i],
                     DeltaAt(deltas, Len(file.create) + Len(file.recover) + i,
                             index.update[i].did))]

\* Composing throws when a proof file that is needed is not there, and for deactivates that
\* share the batch with other operations of the core index file (their DIDs are taken from
\* the whole of it, their references are not).
ComposingThrows(file, used) ==
  \/ file.recover \o file.deactivate # << >> /\ file.proof = {}
  \/ file.deactivate # << >> /\ file.create \o file.recover # << >>
  \/ \E index \in used : index.update # << >> /\ index.proof = {}

\* The sequence made of an optional file, empty without it.
Optional(sequences) == IF sequences = {} THEN << >> ELSE CHOOSE s \in sequences : TRUE

ComposedAll(file, used) ==
  LET deltas == Optional({ReadDeltas(index.chunk) : index \in used})
      signed == {RecoversFrom(file, p, deltas) \o DeactivatesFrom(file, p) : p \in file.proof}
      updates(index) == {UpdatesFrom(file, index, p, deltas) : p \in index.proof}
  IN CreatesFrom(file, deltas) \o Optional(signed)
       \o Optional(UNION {updates(index) : index \in used})

-----------------------------------------------------------------------------

FilesInit ==
  /\ queue = << >> /\ requests = << >> /\ foreign = FALSE
  /\ anchored = {} /\ result = "none" /\ stored = << >>

\* A request that is refused changes nothing.
Enqueue(r) ==
  /\ anchored = {} /\ Len(queue) < MaxQueued
  /\ Accepts(r)
  /\ queue' = Append(queue, r)
  /\ UNCHANGED <<requests, foreign, anchored, result, stored>>

\* The writer parses the queued requests once more.
WriteBatch ==
  /\ anchored = {} /\ queue # << >>
  /\ \A i \in DOMAIN queue : Parses(queue[i])
  /\ requests' = queue /\ queue' = << >>
  /\ anchored' = {CoreIndexFile(queue)}
  /\ UNCHANGED <<foreign, result, stored>>

ForeignBatch ==
  /\ anchored = {} /\ queue = << >>
  /\ \E n \in 1 .. MaxForeign : requests' \in [1 .. n -> Requests]
  /\ foreign' = TRUE
  /\ \E edit \in Edits : anchored' = {Edited(CoreIndexFile(requests'), edit)}
  /\ UNCHANGED <<queue, result, stored>>

\* processTransaction.
DiscardBatch ==
  /\ result = "none"
  /\ \E file \in anchored : ~CoreFilesAreValid(file)
  /\ result' = "discarded"
  /\ UNCHANGED <<queue, requests, foreign, anchored, stored>>

ReadBatch ==
  /\ result = "none"
  /\ \E file \in anchored : \E used \in {UsedIndex(file)} :
       /\ CoreFilesAreValid(file)
       /\ IF ComposingThrows(file, used)
          THEN result' = "threw" /\ UNCHANGED stored
          ELSE result' = "stored" /\ stored' = ComposedAll(file, used)
  /\ UNCHANGED <<queue, requests, foreign, anchored>>

FilesNext ==
  \/ \E r \in Requests : Enqueue(r)
  \/ WriteBatch \/ ForeignBatch \/ DiscardBatch \/ ReadBatch

FilesSpec == FilesInit /\ [][FilesNext]_filesVars

-----------------------------------------------------------------------------
(* Properties                                                              *)

IsOfMultihashDids == \A i \in DOMAIN requests : requests[i].suffix = "multihash"

MixesDeactivates ==
  \E i, j \in DOMAIN requests :
    requests[i].type = "deactivate" /\ requests[j].type \in {"create", "recover"}

\* A batch of accepted requests comes back from its files unchanged: each with its own
\* reference, proof and delta, and in a form the resolver can parse.  The request is checked
\* less than the file is: a didSuffix that is a string and not a multihash is accepted, and
\* the batch is then not readable (UpdateOperation.ts:70, RecoverOperation.ts:72 and
\* DeactivateOperation.ts:69 against InputValidator.ts:94).
AcceptedComesBack ==
  result # "none" /\ ~foreign /\ IsOfMultihashDids /\ ~MixesDeactivates =>
    /\ Range(stored) = Range(requests)
    /\ \A i \in DOMAIN stored : Parses(stored[i])

\* The resolver parses every operation of a DID that is not a create, outside any try block,
\* before it applies one (Resolver.ts:269-299); no stored operation makes it fail, whatever
\* files the batch was read from, unless its revealValue is not that of its signed key, which
\* no file is checked for.
ResolverParsesStored ==
  \A i \in DOMAIN stored :
    stored[i].type # "create" /\ stored[i].reveal # "otherKey" => Parses(stored[i])

\* Whatever the files are, the operations read from a batch are about different DIDs
\* (CoreIndexFile.ts:196, ProvisionalIndexFile.ts:137, TransactionProcessor.ts:375).
OneOperationPerDid ==
  \A i, j \in DOMAIN stored : stored[i].did = stored[j].did => i = j

\* Composing fails for no other reason than deactivates in the batch of creates or recovers:
\* a file that is needed and not there is noticed before (CoreIndexFile.ts:202-236,
\* ProvisionalIndexFile.ts:83-96).
FailsOnlyWhenMixed == result = "threw" => MixesDeactivates
==============================================================================
