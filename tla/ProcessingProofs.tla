---------------------------- MODULE ProcessingProofs ----------------------------
(***************************************************************************)
(* Proofs about Processing, for every batch, whatever is wrong with its    *)
(* files, and every number of processings and faults: what is stored is    *)
(* what was written, and what a processing reports is true of the store.   *)
(* Then proofs about Files, the formats of those files.                    *)
(***************************************************************************)
EXTENDS Processing, Files, RanksProofs, SequenceTheorems, FiniteSetTheorems, TLAPS

-----------------------------------------------------------------------------
(* The inductive invariant, in the parts the theorems need                 *)

Outcomes == {"none", "whole", "coreOnly", "coreRetry", "threw", "skipped", "retry", "discarded"}

TypeOK ==
  /\ types \in Seq(Types) /\ damage \in Damages
  /\ pc \in [Runs -> ToSet(Files) \cup {"idle", "insert"}]
  /\ outcome \in [Runs -> Outcomes]
  /\ todo = [r \in Runs |-> todo[r]]
  /\ disturbed \subseteq Runs /\ faults \in 0 .. MaxFaults

\* What StoredAsWritten says of one operation.
WellFormed(o) ==
  /\ types[o.did] = o.type
  /\ (CoreDids \o Updates)[o.index + 1] = o.did
  /\ o.proof = IF o.type = "create" THEN Undefined ELSE o.did
  /\ o.delta \in {Undefined, o.did}
  /\ o.type = "update" => o.delta = o.did

Verified(files) == \A f \in files : Has(f) => Verifies(f)

\* Whoever downloads a file has verified all those before it.
VerifiedBefore ==
  \A r \in Runs, i, j \in DOMAIN Files :
    pc[r] = Files[j] /\ i < j => Verified({Files[i]})

\* The operations an outcome promises are in the store.
Promised(ending) ==
  IF ending = "whole" THEN Composed
  ELSE IF ending \in {"coreOnly", "coreRetry"} THEN ComposedWithoutProvisional
  ELSE {}

\* Nothing is composed from files that were not verified.
ComposedFromVerified ==
  \A r \in Runs :
    /\ outcome[r] = "whole" => Verified(ToSet(Files)) /\ ~DeactivatesThrow
    /\ outcome[r] \in {"coreOnly", "coreRetry"} => Verified(CoreFiles) /\ ~DeactivatesThrow

\* What is still to be inserted was promised.
TodoIsPromised ==
  /\ \A r \in Runs : todo[r] \subseteq Promised(outcome[r])
  /\ \A r \in Runs : pc[r] # "insert" => todo[r] = {}

\* The rest of it is there, unless somebody else inserted meanwhile.
PromisedIsHeld ==
  \A r \in Runs :
    pc[r] \in {"idle", "insert"} /\ r \notin disturbed =>
      Promised(outcome[r]) \subseteq store \cup todo[r]

Inv ==
  /\ TypeOK /\ VerifiedBefore /\ ComposedFromVerified
  /\ TodoIsPromised /\ PromisedIsHeld /\ StoredAsWritten

-----------------------------------------------------------------------------
(* The sequences the files are made of                                     *)

\* The operations of a type are listed each at its rank among them, so all of them are.
LEMMA OfTypeIs ==
  ASSUME types \in Seq(Types), NEW t
  PROVE  /\ OfType(t) \in Seq(DOMAIN types)
         /\ \A k \in DOMAIN OfType(t) : types[OfType(t)[k]] = t
         /\ \A i \in DOMAIN types : types[i] = t => \E k \in DOMAIN OfType(t) : OfType(t)[k] = i
<1> DEFINE S == {i \in DOMAIN types : types[i] = t}
<1>1. DOMAIN types = 1 .. Len(types) /\ Len(types) \in Nat /\ \A i \in S : i \in Int
  OBVIOUS
<1>2. IsFiniteSet(S)
  <2>1. IsFiniteSet(DOMAIN types)
    BY <1>1, FS_Interval
  <2> QED BY <2>1, FS_Subset
<1>3. OfType(t) = Ascending(S)
  BY DEF OfType
<1>4. /\ OfType(t) \in Seq(S)
      /\ \A i \in S : \E k \in DOMAIN OfType(t) : OfType(t)[k] = i
  <2> HIDE DEF S
  <2> QED BY <1>1, <1>2, <1>3, AscendingIs
<1>5. OfType(t) \in Seq(DOMAIN types)
  BY <1>4
<1> QED
  BY <1>4, <1>5

LEMMA ListsAre ==
  ASSUME types \in Seq(Types)
  PROVE  /\ Creates \in Seq(DOMAIN types) /\ Recovers \in Seq(DOMAIN types)
         /\ Deactivates \in Seq(DOMAIN types) /\ Updates \in Seq(DOMAIN types)
         /\ CoreDids \in Seq(DOMAIN types)
BY OfTypeIs DEF Creates, Recovers, Deactivates, Updates, CoreDids

LEMMA ShortenedIsShorter ==
  ASSUME NEW D, NEW s \in Seq(D), NEW d
  PROVE  /\ Shortened(s, d) \in Seq(D)
         /\ Shortened(s, d) # s => s # << >> /\ Len(Shortened(s, d)) = Len(s) - 1
BY DEF Shortened

\* A core proof file that verifies has the proofs of the core index file's entries.
LEMMA CoreProofsMatch ==
  ASSUME types \in Seq(Types), Verified({"coreProof"})
  PROVE  RecoverProofs = Recovers /\ DeactivateProofs = Deactivates
<1> DEFINE D == DOMAIN types
<1>1. Recovers \in Seq(D) /\ Deactivates \in Seq(D)
  BY ListsAre
<1>2. CASE HasCoreProof
  <2>1. Len(RecoverProofs) + Len(DeactivateProofs) = Len(Recovers) + Len(Deactivates)
    BY <1>2 DEF Verified, Has, Verifies, CoreProofVerifies
  <2>2. /\ RecoverProofs \in Seq(D)
        /\ RecoverProofs # Recovers => Recovers # << >> /\ Len(RecoverProofs) = Len(Recovers) - 1
    BY <1>1, ShortenedIsShorter DEF RecoverProofs
  <2>3. /\ DeactivateProofs \in Seq(D)
        /\ DeactivateProofs # Deactivates =>
             Recovers = << >> /\ Len(DeactivateProofs) = Len(Deactivates) - 1
    BY <1>1, ShortenedIsShorter DEF DeactivateProofs
  <2>4. CASE Recovers = << >>
    <3>1. RecoverProofs = Recovers
      BY <2>2, <2>4
    <3> QED BY <1>1, <2>1, <2>3, <3>1
  <2>5. CASE Recovers # << >>
    <3>1. DeactivateProofs = Deactivates
      BY <2>3, <2>5
    <3> QED BY <1>1, <2>1, <2>2, <3>1
  <2> QED BY <2>4, <2>5
<1>3. CASE ~HasCoreProof
  <2>1. Recovers = << >> /\ Deactivates = << >>
    BY <1>1, <1>3 DEF HasCoreProof
  <2> QED BY <2>1 DEF RecoverProofs, DeactivateProofs, Shortened
<1> QED BY <1>2, <1>3

\* Provisional files that verify have the entries the writer made.
LEMMA ProvisionalFilesMatch ==
  ASSUME types \in Seq(Types), HasProvisionalIndex,
         Verified({"provisionalIndex", "provisionalProof", "chunk"})
  PROVE  UpdateDids = Updates /\ UpdateProofs = Updates /\ Deltas = Creates \o Recovers \o Updates
<1> DEFINE D == DOMAIN types
<1>1. /\ Creates \in Seq(D) /\ Recovers \in Seq(D) /\ Deactivates \in Seq(D)
      /\ Updates \in Seq(D) /\ CoreDids \in Seq(D)
  BY ListsAre
<1>2. /\ ToSet(CoreDids) \cap ToSet(UpdateDids) = {}
      /\ Len(Deltas) = Len(Creates) + Len(Recovers) + Len(UpdateDids)
      /\ Updates # << >> => Len(UpdateProofs) = Len(UpdateDids)
  BY DEF Verified, Has, Verifies, ProvisionalIndexVerifies, ChunkVerifies,
         ProvisionalProofVerifies, HasProvisionalProof
<1>3. UpdateDids = Updates
  <2> SUFFICES ASSUME CoreDids # << >>, Updates # << >>,
                      UpdateDids = <<Head(CoreDids)>> \o Tail(Updates)
               PROVE  FALSE
    BY DEF UpdateDids
  <2>1. UpdateDids[1] = CoreDids[1] /\ 1 \in DOMAIN UpdateDids /\ 1 \in DOMAIN CoreDids
    BY <1>1
  <2> QED BY <1>2, <2>1 DEF ToSet
<1>4. UpdateProofs = Updates
  <2>1. UpdateProofs # Updates => Updates # << >> /\ Len(UpdateProofs) = Len(Updates) - 1
    BY <1>1, ShortenedIsShorter DEF UpdateProofs
  <2> QED BY <1>1, <1>2, <1>3, <2>1
<1>5. Deltas = Creates \o Recovers \o Updates
  <2> DEFINE all == Creates \o Recovers \o Updates
  <2>1. all \in Seq(D) /\ Len(all) = Len(Creates) + Len(Recovers) + Len(Updates)
    BY <1>1
  <2>2. Deltas # all => Len(Deltas) = Len(all) - 1
    <3> HIDE DEF all
    <3>1. Deltas = Shortened(all, "chunk")
      BY DEF Deltas, all
    <3> QED BY <2>1, <3>1, ShortenedIsShorter
  <2>3. Len(Deltas) = Len(all)
    BY <1>1, <1>2, <1>3, <2>1
  <2> HIDE DEF all
  <2>4. Len(all) # Len(all) - 1
    BY <2>1
  <2>5. Deltas = all
    BY <2>2, <2>3, <2>4
  <2> QED BY <2>5 DEF all
<1> QED BY <1>3, <1>4, <1>5

-----------------------------------------------------------------------------
(* What is composed                                                        *)

InARow(a, b, c, d) == a \o b \o c \o d

\* Where the entries of four lists in a row are.
Placed(all, a, b, c, d) ==
  /\ DOMAIN all = 1 .. Len(a) + Len(b) + Len(c) + Len(d)
  /\ \A i \in DOMAIN a : all[i] = a[i]
  /\ \A i \in DOMAIN b : all[Len(a) + i] = b[i]
  /\ \A i \in DOMAIN c : all[Len(a) + Len(b) + i] = c[i]
  /\ \A i \in DOMAIN d : all[Len(a) + Len(b) + Len(c) + i] = d[i]

LEMMA PlacesInARow ==
  ASSUME NEW D, NEW a \in Seq(D), NEW b \in Seq(D), NEW c \in Seq(D), NEW d \in Seq(D)
  PROVE  Placed(InARow(a, b, c, d), a, b, c, d)
<1>1. a \o b \in Seq(D) /\ a \o b \o c \in Seq(D) /\ a \o b \o c \o d \in Seq(D)
  OBVIOUS
<1>2. /\ Len(a \o b) = Len(a) + Len(b) /\ Len(a \o b \o c) = Len(a) + Len(b) + Len(c)
      /\ Len(a \o b \o c \o d) = Len(a) + Len(b) + Len(c) + Len(d)
  BY <1>1
<1>3. /\ \A i \in DOMAIN (a \o b \o c) : (a \o b \o c \o d)[i] = (a \o b \o c)[i]
      /\ \A i \in DOMAIN d : (a \o b \o c \o d)[Len(a) + Len(b) + Len(c) + i] = d[i]
  BY <1>1, <1>2
<1>4. /\ \A i \in DOMAIN (a \o b) : (a \o b \o c)[i] = (a \o b)[i]
      /\ \A i \in DOMAIN c : (a \o b \o c)[Len(a) + Len(b) + i] = c[i]
  BY <1>1, <1>2
<1>5. /\ \A i \in DOMAIN a : (a \o b)[i] = a[i]
      /\ \A i \in DOMAIN b : (a \o b)[Len(a) + i] = b[i]
  BY <1>1, <1>2
<1>6. /\ \A i \in DOMAIN a : i \in DOMAIN (a \o b)
      /\ \A i \in DOMAIN b : Len(a) + i \in DOMAIN (a \o b)
      /\ \A i \in DOMAIN (a \o b) : i \in DOMAIN (a \o b \o c)
      /\ \A i \in DOMAIN c : Len(a) + Len(b) + i \in DOMAIN (a \o b \o c)
  BY <1>1, <1>2
<1> QED BY <1>1, <1>2, <1>3, <1>4, <1>5, <1>6 DEF InARow, Placed

\* Where the entries of each list are in the index files and in the chunk file.
LEMMA PlacesInFiles ==
  ASSUME types \in Seq(Types)
  PROVE  /\ \A i \in DOMAIN Creates : (CoreDids \o Updates)[i] = Creates[i]
         /\ \A i \in DOMAIN Recovers :
              (CoreDids \o Updates)[Len(Creates) + i] = Recovers[i]
         /\ \A i \in DOMAIN Deactivates :
              (CoreDids \o Updates)[Len(Creates) + Len(Recovers) + i] = Deactivates[i]
         /\ \A i \in DOMAIN Updates : (CoreDids \o Updates)[Len(CoreDids) + i] = Updates[i]
<1>1. /\ Creates \in Seq(DOMAIN types) /\ Recovers \in Seq(DOMAIN types)
      /\ Deactivates \in Seq(DOMAIN types) /\ Updates \in Seq(DOMAIN types)
  BY ListsAre
<1>2. CoreDids \o Updates = Creates \o Recovers \o Deactivates \o Updates
  BY DEF CoreDids
<1>3. Len(CoreDids) = Len(Creates) + Len(Recovers) + Len(Deactivates)
  BY <1>1 DEF CoreDids
<1> DEFINE all == InARow(Creates, Recovers, Deactivates, Updates)
<1>4. Placed(all, Creates, Recovers, Deactivates, Updates)
  BY <1>1, PlacesInARow
<1>5. CoreDids \o Updates = all
  BY <1>2 DEF InARow
<1> HIDE DEF all
<1> QED BY <1>3, <1>4, <1>5 DEF Placed

LEMMA PlacesInChunk ==
  ASSUME types \in Seq(Types), HasProvisionalIndex,
         Verified({"provisionalIndex", "provisionalProof", "chunk"})
  PROVE  /\ \A i \in DOMAIN Creates : Entry(Deltas, i) = Creates[i]
         /\ \A i \in DOMAIN Recovers : Entry(Deltas, Len(Creates) + i) = Recovers[i]
         /\ \A i \in DOMAIN Updates :
              Entry(Deltas, Len(Creates) + Len(Recovers) + i) = Updates[i]
<1>1. /\ Creates \in Seq(DOMAIN types) /\ Recovers \in Seq(DOMAIN types)
      /\ Updates \in Seq(DOMAIN types)
  BY ListsAre
<1>2. Deltas = Creates \o Recovers \o Updates
  BY ProvisionalFilesMatch
<1> HIDE DEF Creates, Recovers, Updates
<1>3. /\ \A i \in DOMAIN Creates : i \in DOMAIN Deltas /\ Deltas[i] = Creates[i]
      /\ \A i \in DOMAIN Recovers : /\ Len(Creates) + i \in DOMAIN Deltas
                                    /\ Deltas[Len(Creates) + i] = Recovers[i]
      /\ \A i \in DOMAIN Updates : /\ Len(Creates) + Len(Recovers) + i \in DOMAIN Deltas
                                   /\ Deltas[Len(Creates) + Len(Recovers) + i] = Updates[i]
  <2> DEFINE all == InARow(Creates, Recovers, Updates, << >>)
  <2>1. << >> \in Seq(DOMAIN types) /\ Len(<< >>) = 0
    OBVIOUS
  <2>2. Placed(all, Creates, Recovers, Updates, << >>)
    BY <1>1, <2>1, PlacesInARow
  <2>3. Deltas = all
    <3>1. Creates \o Recovers \o Updates \in Seq(DOMAIN types)
      BY <1>1
    <3> QED BY <1>2, <3>1 DEF InARow
  <2> HIDE DEF all
  <2>4. /\ Len(Creates) \in Nat /\ DOMAIN Creates = 1 .. Len(Creates)
        /\ Len(Recovers) \in Nat /\ DOMAIN Recovers = 1 .. Len(Recovers)
        /\ Len(Updates) \in Nat /\ DOMAIN Updates = 1 .. Len(Updates)
    BY <1>1
  <2> QED BY <2>1, <2>2, <2>3, <2>4 DEF Placed
<1> QED BY <1>3 DEF Entry

\* With a deactivate in a batch that is composed there are no creates and recovers.
LEMMA DeactivatesAlone ==
  ASSUME types \in Seq(Types), ~DeactivatesThrow, Deactivates # << >>
  PROVE  Creates = << >> /\ Recovers = << >> /\ CoreDids = Deactivates
<1>1. /\ Creates \in Seq(DOMAIN types) /\ Recovers \in Seq(DOMAIN types)
      /\ Deactivates \in Seq(DOMAIN types) /\ CoreDids \in Seq(DOMAIN types)
  BY ListsAre
<1>2. Len(CoreDids) <= Len(Deactivates)
  BY <1>1 DEF DeactivatesThrow
<1>3. Len(CoreDids) = Len(Creates) + Len(Recovers) + Len(Deactivates)
  BY <1>1 DEF CoreDids
<1>4. Creates = << >> /\ Recovers = << >>
  BY <1>1, <1>2, <1>3
<1> QED BY <1>1, <1>4 DEF CoreDids

LEMMA TypesOfLists ==
  ASSUME types \in Seq(Types)
  PROVE  /\ \A i \in DOMAIN Creates : types[Creates[i]] = "create"
         /\ \A i \in DOMAIN Recovers : types[Recovers[i]] = "recover"
         /\ \A i \in DOMAIN Deactivates : types[Deactivates[i]] = "deactivate"
         /\ \A i \in DOMAIN Updates : types[Updates[i]] = "update"
BY OfTypeIs DEF Creates, Recovers, Deactivates, Updates

\* What is composed of core files that verify is well formed, with the chunk file if that
\* and the two other provisional files verify too.
LEMMA CoreIsWellFormed ==
  ASSUME types \in Seq(Types), ~DeactivatesThrow, Verified(CoreFiles),
         NEW hasChunk \in BOOLEAN,
         hasChunk => /\ HasProvisionalIndex
                     /\ Verified({"provisionalIndex", "provisionalProof", "chunk"})
  PROVE  \A o \in ComposedOfCore(hasChunk) : WellFormed(o)
<1> USE DEF Operation, WellFormed
<1>1. /\ Creates \in Seq(DOMAIN types) /\ Recovers \in Seq(DOMAIN types)
      /\ Deactivates \in Seq(DOMAIN types)
  BY ListsAre
<1>2. RecoverProofs = Recovers /\ DeactivateProofs = Deactivates
  BY CoreProofsMatch DEF Verified, CoreFiles
<1>3. ASSUME NEW o \in ComposedCreates(hasChunk)
      PROVE  WellFormed(o)
  <2>1. PICK i \in DOMAIN Creates :
          o = Operation(Creates[i], "create", i - 1, Undefined,
                        IF hasChunk THEN Entry(Deltas, i) ELSE Undefined)
    BY <1>3 DEF ComposedCreates
  <2>2. /\ o.did = Creates[i] /\ o.type = "create" /\ o.proof = Undefined
        /\ o.index = i - 1 /\ o.delta \in {Undefined, Creates[i]}
    BY <2>1, PlacesInChunk
  <2>3. i - 1 + 1 = i
    BY <1>1
  <2>4. types[Creates[i]] = "create" /\ (CoreDids \o Updates)[i] = Creates[i]
    BY PlacesInFiles, TypesOfLists
  <2> QED BY <2>2, <2>3, <2>4
<1>4. ASSUME NEW o \in ComposedRecovers(hasChunk)
      PROVE  WellFormed(o)
  <2>1. PICK i \in DOMAIN Recovers :
          o = Operation(Recovers[i], "recover", Len(Creates) + i - 1, Entry(RecoverProofs, i),
                        IF hasChunk THEN Entry(Deltas, Len(Creates) + i) ELSE Undefined)
    BY <1>4 DEF ComposedRecovers
  <2>2. /\ o.did = Recovers[i] /\ o.type = "recover" /\ o.proof = Recovers[i]
        /\ o.index = Len(Creates) + i - 1 /\ o.delta \in {Undefined, Recovers[i]}
    BY <1>2, <2>1, PlacesInChunk DEF Entry
  <2>3. Len(Creates) + i - 1 + 1 = Len(Creates) + i
    BY <1>1
  <2>4. types[Recovers[i]] = "recover" /\ (CoreDids \o Updates)[Len(Creates) + i] = Recovers[i]
    BY PlacesInFiles, TypesOfLists
  <2> QED BY <2>2, <2>3, <2>4
<1>5. ASSUME Deactivates # << >>, NEW o \in ComposedDeactivates
      PROVE  WellFormed(o)
  <2>1. PICK i \in DOMAIN Deactivates :
          o = Operation(Deactivates[i], "deactivate", Len(Creates) + Len(Recovers) + i - 1,
                        Entry(Deactivates, i), Undefined)
    BY <1>2, <1>5, DeactivatesAlone DEF ComposedDeactivates
  <2>2. Len(Creates) + Len(Recovers) + i - 1 + 1 = Len(Creates) + Len(Recovers) + i
    BY <1>1
  <2>3. /\ o.did = Deactivates[i] /\ o.type = "deactivate" /\ o.proof = Deactivates[i]
        /\ o.index = Len(Creates) + Len(Recovers) + i - 1 /\ o.delta = Undefined
    BY <2>1 DEF Entry
  <2>4. /\ types[Deactivates[i]] = "deactivate"
        /\ (CoreDids \o Updates)[Len(Creates) + Len(Recovers) + i] = Deactivates[i]
    BY PlacesInFiles, TypesOfLists
  <2> QED BY <2>2, <2>3, <2>4
<1> QED BY <1>3, <1>4, <1>5 DEF ComposedOfCore

LEMMA WithoutProvisionalIsWellFormed ==
  ASSUME types \in Seq(Types), ~DeactivatesThrow, Verified(CoreFiles)
  PROVE  \A o \in ComposedWithoutProvisional : WellFormed(o)
BY CoreIsWellFormed DEF ComposedWithoutProvisional

LEMMA WholeIsWellFormed ==
  ASSUME types \in Seq(Types), ~DeactivatesThrow, Verified(ToSet(Files))
  PROVE  \A o \in Composed : WellFormed(o)
<1>1. ToSet(Files) = CoreFiles \cup {"provisionalIndex", "provisionalProof", "chunk"}
  BY DEF ToSet, Files, CoreFiles
<1>2. Verified(CoreFiles) /\ Verified({"provisionalIndex", "provisionalProof", "chunk"})
  BY <1>1 DEF Verified
<1>3. HasProvisionalIndex \in BOOLEAN
  BY DEF HasProvisionalIndex
<1>4. \A o \in ComposedOfCore(HasProvisionalIndex) : WellFormed(o)
  BY <1>2, <1>3, CoreIsWellFormed
<1>5. ASSUME HasProvisionalIndex, NEW o \in ComposedUpdates
      PROVE  WellFormed(o)
  <2>1. Updates \in Seq(DOMAIN types) /\ CoreDids \in Seq(DOMAIN types)
    BY ListsAre
  <2>2. UpdateDids = Updates /\ UpdateProofs = Updates
    BY <1>2, <1>5, ProvisionalFilesMatch
  <2>3. PICK i \in DOMAIN Updates :
          o = Operation(Updates[i], "update", Len(CoreDids) + i - 1, Entry(Updates, i),
                        Entry(Deltas, Len(Creates) + Len(Recovers) + i))
    BY <1>5, <2>2 DEF ComposedUpdates
  <2>4. /\ o.did = Updates[i] /\ o.type = "update" /\ o.proof = Updates[i]
        /\ o.index = Len(CoreDids) + i - 1 /\ o.delta = Updates[i]
    BY <1>2, <1>5, <2>3, PlacesInChunk DEF Entry, Operation
  <2>5. Len(CoreDids) + i - 1 + 1 = Len(CoreDids) + i
    BY <2>1
  <2>6. types[Updates[i]] = "update" /\ (CoreDids \o Updates)[Len(CoreDids) + i] = Updates[i]
    BY PlacesInFiles, TypesOfLists
  <2> QED BY <2>4, <2>5, <2>6 DEF WellFormed
<1> QED BY <1>4, <1>5 DEF Composed

\* The place in the batch and the type tell two composed operations apart.
LEMMA PlacesAreDistinct ==
  ASSUME types \in Seq(Types), NEW hasChunk \in BOOLEAN
  PROVE  /\ \A o, p \in ComposedCreates(hasChunk) :
              o.type = "create" /\ (o.index = p.index => o = p)
         /\ \A o, p \in ComposedRecovers(hasChunk) :
              o.type = "recover" /\ (o.index = p.index => o = p)
         /\ \A o, p \in ComposedDeactivates :
              o.type = "deactivate" /\ (o.index = p.index => o = p)
         /\ \A o, p \in ComposedUpdates : o.type = "update" /\ (o.index = p.index => o = p)
<1> USE DEF Operation
<1>1. /\ Creates \in Seq(DOMAIN types) /\ Recovers \in Seq(DOMAIN types)
      /\ CoreDids \in Seq(DOMAIN types) /\ Updates \in Seq(DOMAIN types)
  BY ListsAre
<1>2. /\ DOMAIN Creates \subseteq Int /\ DOMAIN Recovers \subseteq Int
      /\ DOMAIN CoreDids \subseteq Int
      /\ Len(Creates) \in Int /\ Len(Recovers) \in Int /\ Len(CoreDids) \in Int
  BY <1>1
<1>3. DOMAIN UpdateDids \subseteq Int
  BY <1>1 DEF UpdateDids
<1>4. ASSUME NEW o \in ComposedCreates(hasChunk), NEW p \in ComposedCreates(hasChunk)
      PROVE  o.type = "create" /\ (o.index = p.index => o = p)
  <2>1. PICK i \in DOMAIN Creates :
          o = Operation(Creates[i], "create", i - 1, Undefined,
                        IF hasChunk THEN Entry(Deltas, i) ELSE Undefined)
    BY DEF ComposedCreates
  <2>2. PICK j \in DOMAIN Creates :
          p = Operation(Creates[j], "create", j - 1, Undefined,
                        IF hasChunk THEN Entry(Deltas, j) ELSE Undefined)
    BY DEF ComposedCreates
  <2>3. o.type = "create" /\ o.index = i - 1 /\ p.index = j - 1
    BY <2>1, <2>2
  <2>4. i - 1 = j - 1 => i = j
    BY <1>2
  <2> QED BY <2>1, <2>2, <2>3, <2>4
<1>5. ASSUME NEW o \in ComposedRecovers(hasChunk), NEW p \in ComposedRecovers(hasChunk)
      PROVE  o.type = "recover" /\ (o.index = p.index => o = p)
  <2>1. PICK i \in DOMAIN Recovers :
          o = Operation(Recovers[i], "recover", Len(Creates) + i - 1, Entry(RecoverProofs, i),
                        IF hasChunk THEN Entry(Deltas, Len(Creates) + i) ELSE Undefined)
    BY DEF ComposedRecovers
  <2>2. PICK j \in DOMAIN Recovers :
          p = Operation(Recovers[j], "recover", Len(Creates) + j - 1, Entry(RecoverProofs, j),
                        IF hasChunk THEN Entry(Deltas, Len(Creates) + j) ELSE Undefined)
    BY DEF ComposedRecovers
  <2>3. o.type = "recover" /\ o.index = Len(Creates) + i - 1 /\ p.index = Len(Creates) + j - 1
    BY <2>1, <2>2
  <2>4. Len(Creates) + i - 1 = Len(Creates) + j - 1 => i = j
    BY <1>2
  <2> QED BY <2>1, <2>2, <2>3, <2>4
<1>6. ASSUME NEW o \in ComposedDeactivates, NEW p \in ComposedDeactivates
      PROVE  o.type = "deactivate" /\ (o.index = p.index => o = p)
  <2>1. PICK i \in DOMAIN CoreDids :
          o = Operation(CoreDids[i], "deactivate", Len(Creates) + Len(Recovers) + i - 1,
                        Entry(DeactivateProofs, i), Undefined)
    BY DEF ComposedDeactivates
  <2>2. PICK j \in DOMAIN CoreDids :
          p = Operation(CoreDids[j], "deactivate", Len(Creates) + Len(Recovers) + j - 1,
                        Entry(DeactivateProofs, j), Undefined)
    BY DEF ComposedDeactivates
  <2>3. /\ o.type = "deactivate" /\ o.index = Len(Creates) + Len(Recovers) + i - 1
        /\ p.index = Len(Creates) + Len(Recovers) + j - 1
    BY <2>1, <2>2
  <2>4. Len(Creates) + Len(Recovers) + i - 1 = Len(Creates) + Len(Recovers) + j - 1 => i = j
    BY <1>2
  <2> QED BY <2>1, <2>2, <2>3, <2>4
<1>7. ASSUME NEW o \in ComposedUpdates, NEW p \in ComposedUpdates
      PROVE  o.type = "update" /\ (o.index = p.index => o = p)
  <2>1. PICK i \in DOMAIN UpdateDids :
          o = Operation(UpdateDids[i], "update", Len(CoreDids) + i - 1, Entry(UpdateProofs, i),
                        Entry(Deltas, Len(Creates) + Len(Recovers) + i))
    BY DEF ComposedUpdates
  <2>2. PICK j \in DOMAIN UpdateDids :
          p = Operation(UpdateDids[j], "update", Len(CoreDids) + j - 1, Entry(UpdateProofs, j),
                        Entry(Deltas, Len(Creates) + Len(Recovers) + j))
    BY DEF ComposedUpdates
  <2>3. o.type = "update" /\ o.index = Len(CoreDids) + i - 1 /\ p.index = Len(CoreDids) + j - 1
    BY <2>1, <2>2
  <2>4. Len(CoreDids) + i - 1 = Len(CoreDids) + j - 1 => i = j
    BY <1>2, <1>3
  <2> QED BY <2>1, <2>2, <2>3, <2>4
<1> QED BY <1>4, <1>5, <1>6, <1>7

\* So inserting one composed operation never takes the place of another one.
LEMMA KeysAreDistinct ==
  ASSUME types \in Seq(Types), NEW ending,
         NEW o \in Promised(ending), NEW p \in Promised(ending), Key(o) = Key(p)
  PROVE  o = p
<1>1. o.index = p.index /\ o.type = p.type
  BY DEF Key
<1>2. PICK hasChunk \in BOOLEAN :
        {o, p} \subseteq ComposedCreates(hasChunk) \cup ComposedRecovers(hasChunk)
                           \cup ComposedDeactivates \cup ComposedUpdates
  <2>1. HasProvisionalIndex \in BOOLEAN
    BY DEF HasProvisionalIndex
  <2> QED BY <2>1 DEF Promised, Composed, ComposedWithoutProvisional, ComposedOfCore
<1> QED BY <1>1, <1>2, PlacesAreDistinct

\* Every operation of the batch is composed from files that verify, with its delta.
LEMMA EveryOperationIsComposed ==
  ASSUME types \in Seq(Types), ~DeactivatesThrow, Verified(ToSet(Files)), NEW d \in DOMAIN types
  PROVE  \E o \in Composed : o.did = d /\ (o.type # "deactivate" => o.delta = d)
<1> USE DEF Operation
<1>1. types[d] \in AllTypes
  BY ConstantsAssumption
<1>2. Verified({"provisionalIndex", "provisionalProof", "chunk"})
  BY DEF Verified, ToSet, Files
<1>3. /\ Creates \in Seq(DOMAIN types) /\ Recovers \in Seq(DOMAIN types)
      /\ Deactivates \in Seq(DOMAIN types) /\ Updates \in Seq(DOMAIN types)
  BY ListsAre
<1>4. CASE types[d] = "create"
  <2>1. PICK i \in DOMAIN Creates : Creates[i] = d
    BY <1>4, OfTypeIs DEF Creates
  <2>2. HasProvisionalIndex
    BY <1>3, <2>1 DEF HasProvisionalIndex
  <2>3. Entry(Deltas, i) = d
    BY <1>2, <2>1, <2>2, PlacesInChunk
  <2> DEFINE o == Operation(Creates[i], "create", i - 1, Undefined,
                            IF HasProvisionalIndex THEN Entry(Deltas, i) ELSE Undefined)
  <2>4. o \in Composed
    BY DEF Composed, ComposedOfCore, ComposedCreates
  <2>5. o.did = d /\ o.delta = d
    BY <2>1, <2>2, <2>3
  <2> HIDE DEF o
  <2> QED BY <2>4, <2>5
<1>5. CASE types[d] = "recover"
  <2>1. PICK i \in DOMAIN Recovers : Recovers[i] = d
    BY <1>5, OfTypeIs DEF Recovers
  <2>2. HasProvisionalIndex
    BY <1>3, <2>1 DEF HasProvisionalIndex
  <2>3. Entry(Deltas, Len(Creates) + i) = d
    BY <1>2, <2>1, <2>2, PlacesInChunk
  <2> DEFINE o == Operation(Recovers[i], "recover", Len(Creates) + i - 1, Entry(RecoverProofs, i),
                IF HasProvisionalIndex THEN Entry(Deltas, Len(Creates) + i) ELSE Undefined)
  <2>4. o \in Composed
    BY DEF Composed, ComposedOfCore, ComposedRecovers
  <2>5. o.did = d /\ o.delta = d
    BY <2>1, <2>2, <2>3
  <2> HIDE DEF o
  <2> QED BY <2>4, <2>5
<1>6. CASE types[d] = "deactivate"
  <2>1. PICK i \in DOMAIN Deactivates : Deactivates[i] = d
    BY <1>6, OfTypeIs DEF Deactivates
  <2>2. Deactivates # << >>
    BY <1>3, <2>1
  <2>3. CoreDids = Deactivates
    BY <2>2, DeactivatesAlone
  <2> DEFINE o == Operation(CoreDids[i], "deactivate", Len(Creates) + Len(Recovers) + i - 1,
                            Entry(DeactivateProofs, i), Undefined)
  <2>4. o \in Composed
    BY <2>1, <2>2, <2>3 DEF Composed, ComposedOfCore, ComposedDeactivates
  <2>5. o.did = d /\ o.type = "deactivate"
    BY <2>1, <2>3
  <2> HIDE DEF o
  <2> QED BY <2>4, <2>5
<1>7. CASE types[d] = "update"
  <2>1. PICK i \in DOMAIN Updates : Updates[i] = d
    BY <1>7, OfTypeIs DEF Updates
  <2>2. HasProvisionalIndex
    <3>1. Updates # << >>
      BY <1>3, <2>1
    <3> QED BY <1>3, <3>1 DEF HasProvisionalIndex
  <2>3. Entry(Deltas, Len(Creates) + Len(Recovers) + i) = d
    BY <1>2, <2>1, <2>2, PlacesInChunk
  <2>4. UpdateDids = Updates
    BY <1>2, <2>2, ProvisionalFilesMatch
  <2> DEFINE o == Operation(UpdateDids[i], "update", Len(CoreDids) + i - 1,
                    Entry(UpdateProofs, i), Entry(Deltas, Len(Creates) + Len(Recovers) + i))
  <2>5. o \in Composed
    BY <2>1, <2>2, <2>4 DEF Composed, ComposedUpdates
  <2>6. o.did = d /\ o.delta = d
    BY <2>1, <2>3, <2>4
  <2> HIDE DEF o
  <2> QED BY <2>5, <2>6
<1> QED BY <1>1, <1>4, <1>5, <1>6, <1>7 DEF AllTypes

\* Every DID of the core index file is composed without the provisional files too.
LEMMA EveryCoreDidIsComposed ==
  ASSUME types \in Seq(Types), ~DeactivatesThrow, NEW d \in ToSet(CoreDids)
  PROVE  \E o \in ComposedWithoutProvisional : o.did = d
<1> USE DEF Operation
<1>1. /\ Creates \in Seq(DOMAIN types) /\ Recovers \in Seq(DOMAIN types)
      /\ Deactivates \in Seq(DOMAIN types)
  BY ListsAre
<1>2. CASE Deactivates # << >>
  <2>1. PICK i \in DOMAIN CoreDids : CoreDids[i] = d
    BY DEF ToSet
  <2> DEFINE o == Operation(CoreDids[i], "deactivate", Len(Creates) + Len(Recovers) + i - 1,
                            Entry(DeactivateProofs, i), Undefined)
  <2>2. o \in ComposedWithoutProvisional
    BY <1>2, <2>1 DEF ComposedWithoutProvisional, ComposedOfCore, ComposedDeactivates
  <2>3. o.did = d
    BY <2>1
  <2> HIDE DEF o
  <2> QED BY <2>2, <2>3
<1>3. CASE Deactivates = << >>
  <2>1. \/ \E i \in DOMAIN Creates : Creates[i] = d
        \/ \E i \in DOMAIN Recovers : Recovers[i] = d
    <3>1. CoreDids = Creates \o Recovers
      BY <1>1, <1>3 DEF CoreDids
    <3>2. PICK k \in DOMAIN CoreDids : CoreDids[k] = d
      BY DEF ToSet
    <3>3. CASE k <= Len(Creates)
      BY <1>1, <3>1, <3>2, <3>3
    <3>4. CASE ~(k <= Len(Creates))
      <4>1. k - Len(Creates) \in DOMAIN Recovers /\ Recovers[k - Len(Creates)] = d
        BY <1>1, <3>1, <3>2, <3>4
      <4> QED BY <4>1
    <3> QED BY <3>3, <3>4
  <2>2. CASE \E i \in DOMAIN Creates : Creates[i] = d
    <3>1. PICK i \in DOMAIN Creates : Creates[i] = d
      BY <2>2
    <3> DEFINE o == Operation(Creates[i], "create", i - 1, Undefined, Undefined)
    <3>2. o \in ComposedWithoutProvisional
      BY DEF ComposedWithoutProvisional, ComposedOfCore, ComposedCreates
    <3>3. o.did = d
      BY <3>1
    <3> HIDE DEF o
    <3> QED BY <3>2, <3>3
  <2>3. CASE \E i \in DOMAIN Recovers : Recovers[i] = d
    <3>1. PICK i \in DOMAIN Recovers : Recovers[i] = d
      BY <2>3
    <3> DEFINE o == Operation(Recovers[i], "recover", Len(Creates) + i - 1,
                              Entry(RecoverProofs, i), Undefined)
    <3>2. o \in ComposedWithoutProvisional
      BY DEF ComposedWithoutProvisional, ComposedOfCore, ComposedRecovers
    <3>3. o.did = d
      BY <3>1
    <3> HIDE DEF o
    <3> QED BY <3>2, <3>3
  <2> QED BY <2>1, <2>2, <2>3
<1> QED BY <1>2, <1>3

-----------------------------------------------------------------------------
(* What a step leaves alone, and the file after another                    *)

\* The batch and its files never change, nor does what follows from them.
LEMMA FilesAreFixed ==
  ASSUME types' = types, damage' = damage
  PROVE  /\ \A S : Verified(S)' = Verified(S)
         /\ \A ending : Promised(ending)' = Promised(ending)
         /\ DeactivatesThrow' = DeactivatesThrow
         /\ StoredAsWritten' = \A o \in store' : WellFormed(o)
<1>1. \A t : OfType(t)' = OfType(t)
  BY DEF OfType
<1>2. /\ Creates' = Creates /\ Recovers' = Recovers
      /\ Deactivates' = Deactivates /\ Updates' = Updates
  BY <1>1 DEF Creates, Recovers, Deactivates, Updates
<1>3. CoreDids' = CoreDids
  BY <1>2 DEF CoreDids
<1>4. \A s, d : Shortened(s, d)' = Shortened(s, d)
  BY DEF Shortened
<1>5. /\ Paid' = Paid /\ RecoverProofs' = RecoverProofs
      /\ DeactivateProofs' = DeactivateProofs
      /\ UpdateDids' = UpdateDids /\ UpdateProofs' = UpdateProofs /\ Deltas' = Deltas
  BY <1>2, <1>3, <1>4
     DEF Paid, RecoverProofs, DeactivateProofs, UpdateDids, UpdateProofs, Deltas, Shortened
<1>6. /\ HasCoreProof' = HasCoreProof /\ HasProvisionalIndex' = HasProvisionalIndex
      /\ HasProvisionalProof' = HasProvisionalProof
  BY <1>2 DEF HasCoreProof, HasProvisionalIndex, HasProvisionalProof
<1>7. /\ CoreIndexVerifies' = CoreIndexVerifies /\ CoreProofVerifies' = CoreProofVerifies
      /\ ProvisionalIndexVerifies' = ProvisionalIndexVerifies
      /\ ProvisionalProofVerifies' = ProvisionalProofVerifies
      /\ ChunkVerifies' = ChunkVerifies
  BY <1>2, <1>3, <1>5 DEF CoreIndexVerifies, CoreProofVerifies, ProvisionalIndexVerifies,
                          ProvisionalProofVerifies, ChunkVerifies
<1>8. \A f : Has(f)' = Has(f) /\ Verifies(f)' = Verifies(f)
  BY <1>6, <1>7 DEF Has, Verifies
<1>9. \A S : Verified(S)' = Verified(S)
  BY <1>8 DEF Verified
<1>10. DeactivatesThrow' = DeactivatesThrow
  BY <1>2, <1>3 DEF DeactivatesThrow
<1>11. \A h : /\ ComposedCreates(h)' = ComposedCreates(h)
              /\ ComposedRecovers(h)' = ComposedRecovers(h)
  BY <1>2, <1>5 DEF ComposedCreates, ComposedRecovers
<1>12. ComposedDeactivates' = ComposedDeactivates /\ ComposedUpdates' = ComposedUpdates
  BY <1>2, <1>3, <1>5 DEF ComposedDeactivates, ComposedUpdates
<1>13. \A h : ComposedOfCore(h)' = ComposedOfCore(h)
  BY <1>2, <1>11, <1>12 DEF ComposedOfCore
<1>14. Composed' = Composed /\ ComposedWithoutProvisional' = ComposedWithoutProvisional
  BY <1>6, <1>12, <1>13 DEF Composed, ComposedWithoutProvisional
<1>15. \A ending : Promised(ending)' = Promised(ending)
  BY <1>14 DEF Promised
<1>16. StoredAsWritten' = \A o \in store' : WellFormed(o)
  BY <1>2, <1>3 DEF StoredAsWritten, WellFormed
<1> QED BY <1>9, <1>10, <1>15, <1>16

\* The next download begins when all before it are verified, composing when all are.
LEMMA NextFileIsReady ==
  ASSUME NEW f \in ToSet(Files), Verifies(f),
         \A i, j \in DOMAIN Files : f = Files[j] /\ i < j => Verified({Files[i]})
  PROVE  /\ After(f) = "compose" => Verified(ToSet(Files))
         /\ After(f) # "compose" =>
              /\ After(f) \in ToSet(Files)
              /\ \A i, j \in DOMAIN Files : After(f) = Files[j] /\ i < j => Verified({Files[i]})
<1> DEFINE place == CHOOSE i \in DOMAIN Files : Files[i] = f
           left  == {i \in DOMAIN Files : i > place /\ Has(Files[i])}
<1>1. /\ DOMAIN Files = 1 .. 5
      /\ \A i \in DOMAIN Files : Files[i] # "compose"
      /\ \A i, j \in DOMAIN Files : Files[i] = Files[j] => i = j
  BY DEF Files
<1>2. place \in DOMAIN Files /\ Files[place] = f
  BY DEF ToSet
<1>3. \A i \in DOMAIN Files : i <= place => Verified({Files[i]})
  <2>1. Verified({Files[place]})
    BY <1>2 DEF Verified
  <2>2. \A i \in DOMAIN Files : i < place => Verified({Files[i]})
    BY <1>2
  <2> HIDE DEF place
  <2> QED BY <1>1, <1>2, <2>1, <2>2
<1>4. After(f) = IF left = {} THEN "compose" ELSE Files[Min(left)]
  BY DEF After
<1>5. CASE left = {}
  <2>1. \A i \in DOMAIN Files : Verified({Files[i]})
    <3> HIDE DEF place
    <3> QED BY <1>1, <1>2, <1>3, <1>5 DEF Verified
  <2> QED BY <1>4, <1>5, <2>1 DEF Verified, ToSet
<1>6. CASE left # {}
  <2>1. \E m \in left : \A i \in left : m <= i
    <3> HIDE DEF left
    <3>1. left \subseteq 1 .. 5
      BY <1>1 DEF left
    <3>2. CASE 1 \in left
      BY <3>1, <3>2
    <3>3. CASE 1 \notin left /\ 2 \in left
      BY <3>1, <3>3
    <3>4. CASE left \subseteq {3, 4, 5} /\ 3 \in left
      BY <3>1, <3>4
    <3>5. CASE left \subseteq {4, 5} /\ 4 \in left
      BY <3>1, <3>5
    <3>6. CASE left \subseteq {5} /\ 5 \in left
      BY <3>1, <3>6
    <3>7. left \subseteq {1, 2, 3, 4, 5}
      BY <3>1
    <3> QED BY <1>6, <3>2, <3>3, <3>4, <3>5, <3>6, <3>7
  <2> DEFINE m == Min(left)
  <2>2. m \in left /\ \A i \in left : m <= i
    BY <2>1 DEF Min
  <2>3. After(f) = Files[m] /\ m \in DOMAIN Files
    BY <1>4, <1>6, <2>2
  <2>4. ASSUME NEW i \in DOMAIN Files, i < m
        PROVE  Verified({Files[i]})
    <3> HIDE DEF m, place
    <3>1. i <= place \/ i > place
      BY <1>1, <1>2
    <3> QED BY <1>1, <1>2, <1>3, <2>2, <2>4, <3>1 DEF Verified
  <2> HIDE DEF m, place
  <2> QED BY <1>1, <2>3, <2>4 DEF ToSet
<1> QED BY <1>5, <1>6

-----------------------------------------------------------------------------
(* The invariant is inductive                                              *)

LEMMA InitInv == Init => Inv
<1> SUFFICES ASSUME Init PROVE Inv
  OBVIOUS
<1>1. TypeOK
  <2>1. PICK n \in 1 .. MaxOps : types \in [1 .. n -> Types]
    BY DEF Init
  <2>2. n \in Nat
    BY ConstantsAssumption
  <2>3. types \in Seq(Types)
    BY <2>1, <2>2
  <2> QED BY <2>3, ConstantsAssumption DEF Init, TypeOK, Outcomes
<1>2. VerifiedBefore
  BY DEF Init, VerifiedBefore, Files
<1>3. ComposedFromVerified
  BY DEF Init, ComposedFromVerified
<1>4. TodoIsPromised /\ PromisedIsHeld
  BY DEF Init, TodoIsPromised, PromisedIsHeld, Promised
<1>5. StoredAsWritten
  BY DEF Init, StoredAsWritten
<1> QED BY <1>1, <1>2, <1>3, <1>4, <1>5 DEF Inv

LEMMA BeginKeepsInv ==
  ASSUME Inv, NEW r \in Runs, Begin(r)
  PROVE  Inv'
<1> USE DEF Begin
<1>1. /\ \A S : Verified(S)' = Verified(S)
      /\ \A ending : Promised(ending)' = Promised(ending)
      /\ DeactivatesThrow' = DeactivatesThrow
      /\ StoredAsWritten' = \A o \in store : WellFormed(o)
  BY FilesAreFixed
<1>2. TypeOK'
  BY DEF Inv, TypeOK, ToSet, Files, Outcomes
<1>3. VerifiedBefore'
  <2> SUFFICES ASSUME NEW s \in Runs, NEW i \in DOMAIN Files, NEW j \in DOMAIN Files,
                      pc'[s] = Files[j], i < j
               PROVE  Verified({Files[i]})
    BY <1>1 DEF VerifiedBefore
  <2>1. CASE s = r
    <3>1. Files[j] = "coreIndex" /\ i \in 1 .. 5 /\ j \in 1 .. 5
      BY <2>1 DEF Inv, TypeOK, Files
    <3> QED BY <3>1 DEF Files
  <2>2. CASE s # r
    BY <2>2 DEF Inv, TypeOK, VerifiedBefore
  <2> QED BY <2>1, <2>2
<1>4. ComposedFromVerified'
  BY <1>1 DEF Inv, TypeOK, ComposedFromVerified
<1>5. TodoIsPromised'
  BY <1>1 DEF Inv, TypeOK, TodoIsPromised
<1>6. PromisedIsHeld'
  BY <1>1 DEF Inv, TypeOK, PromisedIsHeld
<1>7. StoredAsWritten'
  BY <1>1 DEF Inv, StoredAsWritten, WellFormed
<1> QED BY <1>2, <1>3, <1>4, <1>5, <1>6, <1>7 DEF Inv

\* A processing ends without having inserted what it composed.
LEMMA EndKeepsInv ==
  ASSUME Inv, NEW r \in Runs, NEW ending \in Outcomes \ {"whole", "coreOnly", "coreRetry"},
         End(r, ending), todo' = [todo EXCEPT ![r] = {}], faults' \in 0 .. MaxFaults,
         UNCHANGED <<types, damage, disturbed, store>>
  PROVE  Inv'
<1> USE DEF End
<1>1. /\ \A S : Verified(S)' = Verified(S)
      /\ \A x : Promised(x)' = Promised(x)
      /\ DeactivatesThrow' = DeactivatesThrow
      /\ StoredAsWritten' = \A o \in store : WellFormed(o)
  BY FilesAreFixed
<1>2. TypeOK'
  BY DEF Inv, TypeOK
<1>3. VerifiedBefore'
  <2> SUFFICES ASSUME NEW s \in Runs, NEW i \in DOMAIN Files, NEW j \in DOMAIN Files,
                      pc'[s] = Files[j], i < j
               PROVE  Verified({Files[i]})
    BY <1>1 DEF VerifiedBefore
  <2>1. Files[j] # "idle"
    BY DEF Files
  <2> QED BY <2>1 DEF Inv, TypeOK, VerifiedBefore
<1>4. ComposedFromVerified'
  BY <1>1 DEF Inv, TypeOK, ComposedFromVerified
<1>5. TodoIsPromised'
  BY <1>1 DEF Inv, TypeOK, TodoIsPromised
<1>6. PromisedIsHeld'
  <2>1. Promised(ending) = {}
    BY DEF Promised
  <2> QED BY <1>1, <2>1 DEF Inv, TypeOK, PromisedIsHeld
<1>7. StoredAsWritten'
  BY <1>1 DEF Inv, StoredAsWritten, WellFormed
<1> QED BY <1>2, <1>3, <1>4, <1>5, <1>6, <1>7 DEF Inv

\* What is promised is composed and about to be inserted, or composing it throws.
LEMMA InsertKeepsInv ==
  ASSUME Inv, NEW r \in Runs, NEW ending \in {"whole", "coreOnly", "coreRetry"},
         pc[r] \in ToSet(Files), Insert(r, Promised(ending), ending),
         Verified(IF ending = "whole" THEN ToSet(Files) ELSE CoreFiles),
         UNCHANGED <<types, damage, disturbed, store, faults>>
  PROVE  Inv'
<1>1. CASE DeactivatesThrow
  <2>1. pc[r] # "insert"
    BY DEF ToSet, Files
  <2>2. End(r, "threw") /\ todo' = todo
    BY <1>1 DEF Insert
  <2>3. todo' = [todo EXCEPT ![r] = {}]
    BY <2>1, <2>2 DEF Inv, TypeOK, TodoIsPromised
  <2>4. faults' \in 0 .. MaxFaults
    BY DEF Inv, TypeOK
  <2> QED BY <2>2, <2>3, <2>4, EndKeepsInv DEF Outcomes
<1>2. CASE ~DeactivatesThrow
  <2>1. /\ pc' = [pc EXCEPT ![r] = "insert"]
        /\ todo' = [todo EXCEPT ![r] = Promised(ending)]
        /\ outcome' = [outcome EXCEPT ![r] = ending]
    BY <1>2 DEF Insert
  <2>2. /\ \A S : Verified(S)' = Verified(S)
        /\ \A x : Promised(x)' = Promised(x)
        /\ DeactivatesThrow' = DeactivatesThrow
        /\ StoredAsWritten' = \A o \in store : WellFormed(o)
    BY FilesAreFixed
  <2>3. TypeOK'
    BY <2>1 DEF Inv, TypeOK, Outcomes
  <2>4. VerifiedBefore'
    <3> SUFFICES ASSUME NEW s \in Runs, NEW i \in DOMAIN Files, NEW j \in DOMAIN Files,
                        pc'[s] = Files[j], i < j
                 PROVE  Verified({Files[i]})
      BY <2>2 DEF VerifiedBefore
    <3>1. Files[j] # "insert"
      BY DEF Files
    <3> QED BY <2>1, <3>1 DEF Inv, TypeOK, VerifiedBefore
  <2>5. ComposedFromVerified'
    <3> SUFFICES ASSUME NEW s \in Runs
                 PROVE  /\ outcome'[s] = "whole" => Verified(ToSet(Files)) /\ ~DeactivatesThrow
                        /\ outcome'[s] \in {"coreOnly", "coreRetry"} =>
                             Verified(CoreFiles) /\ ~DeactivatesThrow
      BY <2>2 DEF ComposedFromVerified
    <3>1. CASE s = r
      BY <1>2, <2>1, <3>1 DEF Inv, TypeOK
    <3>2. CASE s # r
      BY <2>1, <3>2 DEF Inv, TypeOK, ComposedFromVerified
    <3> QED BY <3>1, <3>2
  <2>6. TodoIsPromised'
    BY <2>1, <2>2 DEF Inv, TypeOK, TodoIsPromised
  <2>7. PromisedIsHeld'
    BY <2>1, <2>2 DEF Inv, TypeOK, PromisedIsHeld
  <2>8. StoredAsWritten'
    BY <2>2 DEF Inv, StoredAsWritten, WellFormed
  <2> QED BY <2>3, <2>4, <2>5, <2>6, <2>7, <2>8 DEF Inv
<1> QED BY <1>1, <1>2

LEMMA DownloadSucceedsKeepsInv ==
  ASSUME Inv, NEW r \in Runs, DownloadSucceeds(r)
  PROVE  Inv'
<1>1. /\ pc[r] \in ToSet(Files) /\ Verifies(pc[r])
      /\ UNCHANGED <<types, damage, disturbed, store, faults>>
  BY DEF DownloadSucceeds
<1>2. \A i, j \in DOMAIN Files : pc[r] = Files[j] /\ i < j => Verified({Files[i]})
  BY DEF Inv, VerifiedBefore
<1>3. CASE After(pc[r]) = "compose"
  <2>1. Insert(r, Promised("whole"), "whole")
    BY <1>3 DEF DownloadSucceeds, Promised
  <2>2. Verified(ToSet(Files))
    BY <1>1, <1>2, <1>3, NextFileIsReady
  <2> QED BY <1>1, <2>1, <2>2, InsertKeepsInv
<1>4. CASE After(pc[r]) # "compose"
  <2> DEFINE next == After(pc[r])
  <2>1. /\ next \in ToSet(Files)
        /\ \A i, j \in DOMAIN Files : next = Files[j] /\ i < j => Verified({Files[i]})
    BY <1>1, <1>2, <1>4, NextFileIsReady
  <2>2. pc' = [pc EXCEPT ![r] = next] /\ UNCHANGED <<todo, outcome>>
    BY <1>4 DEF DownloadSucceeds
  <2> HIDE DEF next
  <2>3. /\ \A S : Verified(S)' = Verified(S)
        /\ \A x : Promised(x)' = Promised(x)
        /\ DeactivatesThrow' = DeactivatesThrow
        /\ StoredAsWritten' = \A o \in store : WellFormed(o)
    BY <1>1, FilesAreFixed
  <2>4. TypeOK'
    BY <1>1, <2>1, <2>2 DEF Inv, TypeOK
  <2>5. VerifiedBefore'
    BY <2>1, <2>2, <2>3 DEF Inv, TypeOK, VerifiedBefore
  <2>6. ComposedFromVerified'
    BY <2>2, <2>3 DEF Inv, ComposedFromVerified
  <2>7. next \notin {"idle", "insert"} /\ pc[r] \notin {"idle", "insert"}
    BY <1>1, <2>1 DEF ToSet, Files
  <2>8. TodoIsPromised'
    BY <2>2, <2>3, <2>7 DEF Inv, TypeOK, TodoIsPromised
  <2>9. PromisedIsHeld'
    BY <1>1, <2>2, <2>3, <2>7 DEF Inv, TypeOK, PromisedIsHeld
  <2>10. StoredAsWritten'
    BY <2>3 DEF Inv, StoredAsWritten, WellFormed
  <2> QED BY <2>4, <2>5, <2>6, <2>8, <2>9, <2>10 DEF Inv
<1> QED BY <1>3, <1>4

LEMMA DownloadFailsKeepsInv ==
  ASSUME Inv, NEW r \in Runs, DownloadFails(r)
  PROVE  Inv'
<1>1. pc[r] \in ToSet(Files) /\ UNCHANGED <<types, damage, disturbed, store, faults>>
  BY DEF DownloadFails
<1>2. PICK seen \in Codes \ {"Success"} : CoreFails(r, seen) \/ ProvisionalFails(r, seen)
  BY DEF DownloadFails, Codes
<1>3. CASE CoreFails(r, seen)
  <2>1. PICK ending \in {"skipped", "retry", "discarded"} : End(r, ending)
    BY <1>2, <1>3 DEF CoreFails, Codes
  <2>2. pc[r] # "insert"
    BY <1>1 DEF ToSet, Files
  <2>3. todo' = [todo EXCEPT ![r] = {}]
    BY <1>3, <2>2 DEF CoreFails, Inv, TypeOK, TodoIsPromised
  <2>4. faults' \in 0 .. MaxFaults
    BY <1>1 DEF Inv, TypeOK
  <2> QED BY <1>1, <2>1, <2>3, <2>4, EndKeepsInv DEF Outcomes
<1>4. CASE ProvisionalFails(r, seen)
  <2>1. PICK ending \in {"coreOnly", "coreRetry"} :
          Insert(r, ComposedWithoutProvisional, ending)
    BY <1>4 DEF ProvisionalFails
  <2>2. Insert(r, Promised(ending), ending)
    BY <2>1 DEF Promised
  <2>3. Verified(CoreFiles)
    <3>1. /\ pc[r] \in ToSet(Files) \ CoreFiles /\ DOMAIN Files = 1 .. 5
          /\ Files[1] = "coreIndex" /\ Files[2] = "coreProof"
      BY <1>4 DEF ProvisionalFails, Files
    <3>2. PICK j \in 1 .. 5 : pc[r] = Files[j]
      BY <3>1 DEF ToSet
    <3>3. 1 < j /\ 2 < j
      BY <3>1, <3>2 DEF CoreFiles
    <3>4. Verified({Files[1]}) /\ Verified({Files[2]})
      BY <3>1, <3>2, <3>3 DEF Inv, VerifiedBefore
    <3> QED BY <3>1, <3>4 DEF Verified, CoreFiles
  <2> QED BY <1>1, <2>1, <2>2, <2>3, InsertKeepsInv
<1> QED BY <1>2, <1>3, <1>4

LEMMA InsertOneKeepsInv ==
  ASSUME Inv, NEW r \in Runs, InsertOne(r)
  PROVE  Inv'
<1>1. /\ pc[r] = "insert" /\ disturbed' = disturbed \cup (Runs \ {r})
      /\ UNCHANGED <<types, damage, pc, outcome, faults>>
  BY DEF InsertOne
<1>2. PICK o \in todo[r] : store' = Replaced(o) /\ todo' = [todo EXCEPT ![r] = @ \ {o}]
  BY DEF InsertOne
<1>3. /\ \A S : Verified(S)' = Verified(S)
      /\ \A x : Promised(x)' = Promised(x)
      /\ DeactivatesThrow' = DeactivatesThrow
      /\ StoredAsWritten' = \A q \in store' : WellFormed(q)
  BY <1>1, FilesAreFixed
<1>4. o \in Promised(outcome[r])
  BY DEF Inv, TodoIsPromised
<1>5. TypeOK'
  BY <1>1, <1>2 DEF Inv, TypeOK
<1>6. VerifiedBefore'
  BY <1>1, <1>3 DEF Inv, VerifiedBefore
<1>7. ComposedFromVerified'
  BY <1>1, <1>3 DEF Inv, ComposedFromVerified
<1>8. TodoIsPromised'
  BY <1>1, <1>2, <1>3 DEF Inv, TypeOK, TodoIsPromised
<1>9. PromisedIsHeld'
  <2> SUFFICES ASSUME NEW s \in Runs, pc[s] \in {"idle", "insert"}, s \notin disturbed',
                      NEW p \in Promised(outcome[s])
               PROVE  p \in store' \cup todo'[s]
    BY <1>1, <1>3 DEF PromisedIsHeld
  <2>1. s = r /\ s \notin disturbed
    BY <1>1
  <2>2. p \in store \cup todo[r]
    BY <2>1 DEF Inv, PromisedIsHeld
  <2>3. Key(p) = Key(o) => p = o
    BY <1>4, <2>1, KeysAreDistinct DEF Inv, TypeOK
  <2> QED BY <1>2, <2>1, <2>2, <2>3 DEF Replaced, Inv, TypeOK
<1>10. StoredAsWritten'
  <2>1. WellFormed(o)
    <3>1. CASE outcome[r] = "whole"
      BY <1>4, <3>1, WholeIsWellFormed DEF Promised, Inv, TypeOK, ComposedFromVerified
    <3>2. CASE outcome[r] \in {"coreOnly", "coreRetry"}
      BY <1>4, <3>2, WithoutProvisionalIsWellFormed
         DEF Promised, Inv, TypeOK, ComposedFromVerified
    <3> QED BY <1>4, <3>1, <3>2 DEF Promised
  <2>2. \A q \in store : WellFormed(q)
    BY DEF Inv, StoredAsWritten, WellFormed
  <2> QED BY <1>2, <1>3, <2>1, <2>2 DEF Replaced
<1> QED BY <1>5, <1>6, <1>7, <1>8, <1>9, <1>10 DEF Inv

LEMMA InsertReturnsKeepsInv ==
  ASSUME Inv, NEW r \in Runs, InsertReturns(r)
  PROVE  Inv'
<1> USE DEF InsertReturns
<1>1. /\ \A S : Verified(S)' = Verified(S)
      /\ \A x : Promised(x)' = Promised(x)
      /\ DeactivatesThrow' = DeactivatesThrow
      /\ StoredAsWritten' = \A o \in store : WellFormed(o)
  BY FilesAreFixed
<1>2. TypeOK'
  BY DEF Inv, TypeOK
<1>3. VerifiedBefore'
  <2> SUFFICES ASSUME NEW s \in Runs, NEW i \in DOMAIN Files, NEW j \in DOMAIN Files,
                      pc'[s] = Files[j], i < j
               PROVE  Verified({Files[i]})
    BY <1>1 DEF VerifiedBefore
  <2>1. Files[j] # "idle"
    BY DEF Files
  <2> QED BY <2>1 DEF Inv, TypeOK, VerifiedBefore
<1>4. ComposedFromVerified'
  BY <1>1 DEF Inv, ComposedFromVerified
<1>5. TodoIsPromised'
  BY <1>1 DEF Inv, TypeOK, TodoIsPromised
<1>6. PromisedIsHeld'
  BY <1>1 DEF Inv, TypeOK, PromisedIsHeld
<1>7. StoredAsWritten'
  BY <1>1 DEF Inv, StoredAsWritten, WellFormed
<1> QED BY <1>2, <1>3, <1>4, <1>5, <1>6, <1>7 DEF Inv

LEMMA InsertRejectsKeepsInv ==
  ASSUME Inv, NEW r \in Runs, InsertRejects(r)
  PROVE  Inv'
<1>1. faults' \in 0 .. MaxFaults
  BY ConstantsAssumption DEF InsertRejects, Inv, TypeOK
<1> QED BY <1>1, EndKeepsInv DEF InsertRejects, Outcomes

LEMMA CrashKeepsInv ==
  ASSUME Inv, Crash
  PROVE  Inv'
<1>1. /\ pc' = [r \in Runs |-> "idle"] /\ todo' = [r \in Runs |-> {}]
      /\ outcome' = [r \in Runs |-> IF pc[r] = "idle" THEN outcome[r] ELSE "none"]
      /\ UNCHANGED <<types, damage, disturbed, store>>
      /\ faults < MaxFaults /\ faults' = faults + 1
  BY DEF Crash
<1>2. /\ \A S : Verified(S)' = Verified(S)
      /\ \A x : Promised(x)' = Promised(x)
      /\ DeactivatesThrow' = DeactivatesThrow
      /\ StoredAsWritten' = \A o \in store : WellFormed(o)
  BY <1>1, FilesAreFixed
<1>3. TypeOK'
  BY <1>1, ConstantsAssumption DEF Inv, TypeOK, Outcomes
<1>4. VerifiedBefore'
  BY <1>1 DEF VerifiedBefore, Files
<1>5. ComposedFromVerified'
  BY <1>1, <1>2 DEF Inv, ComposedFromVerified
<1>6. TodoIsPromised'
  BY <1>1 DEF TodoIsPromised
<1>7. PromisedIsHeld'
  <2> SUFFICES ASSUME NEW r \in Runs, r \notin disturbed
               PROVE  Promised(outcome'[r]) \subseteq store
    BY <1>1, <1>2 DEF PromisedIsHeld
  <2>1. CASE pc[r] = "idle"
    <3>1. outcome'[r] = outcome[r] /\ todo[r] = {}
      BY <1>1, <2>1 DEF Inv, TodoIsPromised
    <3> QED BY <2>1, <3>1 DEF Inv, PromisedIsHeld
  <2>2. CASE pc[r] # "idle"
    BY <1>1, <2>2 DEF Promised
  <2> QED BY <2>1, <2>2
<1>8. StoredAsWritten'
  BY <1>2 DEF Inv, StoredAsWritten, WellFormed
<1> QED BY <1>3, <1>4, <1>5, <1>6, <1>7, <1>8 DEF Inv

LEMMA NextKeepsInv == Inv /\ [Next]_vars => Inv'
<1> SUFFICES ASSUME Inv, [Next]_vars PROVE Inv'
  OBVIOUS
<1>1. CASE UNCHANGED vars
  <2>1. /\ \A S : Verified(S)' = Verified(S)
        /\ \A x : Promised(x)' = Promised(x)
        /\ DeactivatesThrow' = DeactivatesThrow
        /\ StoredAsWritten' = \A o \in store : WellFormed(o)
    BY <1>1, FilesAreFixed DEF vars
  <2>2. StoredAsWritten'
    BY <2>1 DEF Inv, StoredAsWritten, WellFormed
  <2> QED BY <1>1, <2>1, <2>2 DEF vars, Inv, TypeOK, VerifiedBefore, ComposedFromVerified,
                                  TodoIsPromised, PromisedIsHeld
<1>2. CASE Next
  BY <1>2, BeginKeepsInv, DownloadSucceedsKeepsInv, DownloadFailsKeepsInv, InsertOneKeepsInv,
     InsertReturnsKeepsInv, InsertRejectsKeepsInv, CrashKeepsInv DEF Next
<1> QED BY <1>1, <1>2

LEMMA AlwaysInv == Spec => []Inv
BY InitInv, NextKeepsInv, PTL DEF Spec

-----------------------------------------------------------------------------
(* The theorems                                                            *)

\* Whatever is wrong with the files, and however processings of the transaction overlap, fail
\* and are repeated, every stored operation is one of the batch, at its place, with its own
\* proof and delta (TransactionProcessor.composeAnchoredOperationModels).
THEOREM AlwaysStoredAsWritten == Spec => []StoredAsWritten
<1>1. Inv => StoredAsWritten
  BY DEF Inv
<1> QED BY <1>1, AlwaysInv, PTL

\* A processing that no other one disturbs leaves in the store what it reports: the whole
\* batch, or the operations of the core index file (TransactionProcessor.processTransaction).
THEOREM AlwaysEndsAsReported == Spec => []EndsAsReported
<1>1. Inv => EndsAsReported
  <2> SUFFICES ASSUME Inv, NEW r \in Runs, pc[r] = "idle", r \notin disturbed
               PROVE  /\ outcome[r] = "whole" =>
                           \A i \in DOMAIN types : \E o \in store :
                             o.did = i /\ (o.type # "deactivate" => o.delta = i)
                      /\ outcome[r] \in {"coreOnly", "coreRetry"} =>
                           \A i \in ToSet(CoreDids) : \E o \in store : o.did = i
    BY DEF EndsAsReported
  <2>1. Promised(outcome[r]) \subseteq store
    BY DEF Inv, PromisedIsHeld, TodoIsPromised
  <2>2. ASSUME outcome[r] = "whole", NEW i \in DOMAIN types
        PROVE  \E o \in store : o.did = i /\ (o.type # "deactivate" => o.delta = i)
    BY <2>1, <2>2, EveryOperationIsComposed DEF Promised, Inv, TypeOK, ComposedFromVerified
  <2>3. ASSUME outcome[r] \in {"coreOnly", "coreRetry"}, NEW i \in ToSet(CoreDids)
        PROVE  \E o \in store : o.did = i
    BY <2>1, <2>3, EveryCoreDidIsComposed DEF Promised, Inv, TypeOK, ComposedFromVerified
  <2> QED BY <2>2, <2>3
<1> QED BY <1>1, AlwaysInv, PTL

-----------------------------------------------------------------------------
(***************************************************************************)
(* Files, for every set of DIDs, every length of a batch, and every edit   *)
(* another writer makes.                                                   *)
(***************************************************************************)

-----------------------------------------------------------------------------
(* Requests and the files made of them                                     *)

LEMMA RequestFacts ==
  ASSUME NEW r \in Requests
  PROVE  /\ r.type \in RequestTypes /\ r.did \in Dids
         /\ r.reveal \in {r.did, "otherKey", "notHash"}
         /\ r.proof.key = r.did
<1>1. PICK t \in RequestTypes, did \in Dids :
        r = Request(t, did) \/ r \in Flawed(Request(t, did))
  BY DEF Requests
<1>2. CASE r = Request(t, did)
  BY <1>2 DEF Request
<1>3. CASE r \in Flawed(Request(t, did))
  BY <1>3 DEF Request, Flawed
<1> QED BY <1>1, <1>2, <1>3

\* A request a node accepts, about a DID that is a multihash, is as its controller made it.
LEMMA AcceptedIsGood ==
  ASSUME NEW r \in Requests, Parses(r), r.suffix = "multihash",
         r.type # "deactivate" => DeltaIsValidAndSmall(r.delta)
  PROVE  r = Request(r.type, r.did)
<1>1. PICK t \in RequestTypes, did \in Dids :
        r = Request(t, did) \/ r \in Flawed(Request(t, did))
  BY DEF Requests
<1>2. CASE r = Request(t, did)
  BY <1>2 DEF Request
<1>3. CASE r \in Flawed(Request(t, did))
  <2> USE DEF Request
  <2>1. r.type = t /\ t \in {"create", "update", "recover", "deactivate"}
    BY <1>3 DEF Flawed, RequestTypes
  <2>2. \/ r.extra
        \/ r.type = "create" /\ r.suffixData # "good"
        \/ r.type # "create" /\ (r.reveal = "notHash" \/ r.reveal # r.proof.key)
        \/ r.type # "create" /\ r.proof.is \in {"notJws", "badPayload", "badKey"}
        \/ r.type # "deactivate" /\ r.delta.is \in {"bad", "listed", "big", "none"}
        \/ r.type = "deactivate" /\ r.proof.did # r.did
        \/ r = Request(r.type, r.did)
    BY <1>3, <2>1 DEF Flawed
  <2> HIDE DEF Request
  <2>3. QED
    BY <2>1, <2>2 DEF Parses, ParsesAsCreate,
       ParsesAsUpdate, ParsesAsRecover, ParsesAsDeactivate,
       ParsesWithKey, ProofIsValid, DeactivateProofIsValid,
       IsJws, IsEs256kKey, RevealsKey, IsMultihash,
       SuffixDataIsValid, DeltaIsValidAndSmall, DeltaIsValid
<1> QED BY <1>1, <1>2, <1>3

\* The places in rs that the elements of s, all of type t, are taken from, each its own.
ArePlaces(place, s, rs, t) ==
  /\ place \in [DOMAIN s -> DOMAIN rs]
  /\ \A k \in DOMAIN s : s[k] = rs[place[k]] /\ rs[place[k]].type = t
  /\ \A j, k \in DOMAIN s : place[j] = place[k] => j = k

\* The requests of a type, each taken from a place of its own.
LEMMA OfOneTypeIs ==
  ASSUME NEW S, NEW rs \in Seq(S), NEW t
  PROVE  /\ RequestsOfType(t, rs) \in Seq(S)
         /\ \A i \in DOMAIN rs : rs[i].type = t =>
              \E k \in DOMAIN RequestsOfType(t, rs) : RequestsOfType(t, rs)[k] = rs[i]
         /\ \E place : ArePlaces(place, RequestsOfType(t, rs), rs, t)
<1> DEFINE P == {i \in DOMAIN rs : rs[i].type = t}
           A == Ascending(P)
<1>1. DOMAIN rs = 1 .. Len(rs) /\ Len(rs) \in Nat /\ \A i \in P : i \in Int
  OBVIOUS
<1>2. IsFiniteSet(P)
  <2>1. IsFiniteSet(DOMAIN rs)
    BY <1>1, FS_Interval
  <2> QED BY <2>1, FS_Subset
<1>3. RequestsOfType(t, rs) = [k \in DOMAIN A |-> rs[A[k]]]
  BY DEF RequestsOfType, Picked, Ascending
<1>4. /\ Cardinality(P) \in Nat /\ DOMAIN A = 1 .. Cardinality(P)
      /\ A \in Seq(P) /\ \A i \in P : \E k \in DOMAIN A : A[k] = i
      /\ \A j, k \in DOMAIN A : j < k => A[j] < A[k]
  <2> HIDE DEF P
  <2> QED BY <1>1, <1>2, AscendingIs
<1>5. \A k \in DOMAIN A : A[k] \in DOMAIN rs /\ rs[A[k]].type = t /\ rs[A[k]] \in S
  BY <1>4
<1> HIDE DEF A, P
<1>6. \A j, k \in DOMAIN A : A[j] = A[k] => j = k
  BY <1>1, <1>4, <1>5
<1>7. RequestsOfType(t, rs) \in Seq(S)
  <2>1. RequestsOfType(t, rs) \in [1 .. Cardinality(P) -> S]
    BY <1>3, <1>4, <1>5
  <2>2. Cardinality(P) \in Nat
    BY <1>4
  <2> QED BY <2>1, <2>2, SeqDef
<1>8. ASSUME NEW i \in DOMAIN rs, rs[i].type = t
      PROVE  \E k \in DOMAIN A : rs[A[k]] = rs[i]
  <2>1. i \in P
    BY <1>8 DEF P
  <2> QED BY <1>4, <2>1
<1>9. A \in [DOMAIN A -> DOMAIN rs]
  BY <1>4, <1>5
<1>10. DOMAIN RequestsOfType(t, rs) = DOMAIN A
  BY <1>3
<1>11. ArePlaces(A, RequestsOfType(t, rs), rs, t)
  BY <1>3, <1>5, <1>6, <1>9, <1>10 DEF ArePlaces
<1> QED
  BY <1>3, <1>7, <1>8, <1>10, <1>11

CreatesOf(rs) == RequestsOfType("create", rs)
RecoversOf(rs) == RequestsOfType("recover", rs)
DeactivatesOf(rs) == RequestsOfType("deactivate", rs)
UpdatesOf(rs) == RequestsOfType("update", rs)

LEMMA OfTypeIsSeq ==
  ASSUME NEW S, NEW rs \in Seq(S)
  PROVE  /\ CreatesOf(rs) \in Seq(S) /\ RecoversOf(rs) \in Seq(S)
         /\ DeactivatesOf(rs) \in Seq(S) /\ UpdatesOf(rs) \in Seq(S)
BY OfOneTypeIs DEF CreatesOf, RecoversOf, DeactivatesOf, UpdatesOf

\* Whatever another writer does to the files, the references and the deltas are those of
\* its requests, and a proof file is the one of the batch, missing, or empty.
LEMMA EditedFileIs ==
  ASSUME NEW rs, NEW edit \in Edits, NEW file,
         file = Edited(CoreIndexFile(rs), edit)
  PROVE  /\ file.create = CreateReferences(CreatesOf(rs))
         /\ file.recover = References(RecoversOf(rs))
         /\ file.deactivate = References(DeactivatesOf(rs))
         /\ file.proof \in {CoreProofFile(RecoversOf(rs), DeactivatesOf(rs)), {},
                            {[recover |-> << >>, deactivate |-> << >>]}}
         /\ \A index \in file.provisional :
              /\ index.update = References(UpdatesOf(rs))
              /\ index.chunk = DeltasOf(CreatesOf(rs) \o RecoversOf(rs) \o UpdatesOf(rs))
              /\ index.proof \in {ProvisionalProofFile(UpdatesOf(rs)), {}, {<< >>}}
              /\ file.provisional = {index}
         /\ edit = "none" => file = CoreIndexFile(rs)
<1> DEFINE made == CoreIndexFile(rs)
<1>1. /\ made.create = CreateReferences(CreatesOf(rs))
      /\ made.recover = References(RecoversOf(rs))
      /\ made.deactivate = References(DeactivatesOf(rs))
      /\ made.proof = CoreProofFile(RecoversOf(rs), DeactivatesOf(rs))
      /\ made.provisional = ProvisionalIndexFile(
             ChunkFile(CreatesOf(rs), RecoversOf(rs), UpdatesOf(rs)),
             ProvisionalProofFile(UpdatesOf(rs)), UpdatesOf(rs))
      /\ made = [create |-> made.create, recover |-> made.recover,
                 deactivate |-> made.deactivate, proof |-> made.proof,
                 provisional |-> made.provisional, unknown |-> made.unknown]
  BY DEF CoreIndexFile, CreatesOf, RecoversOf, DeactivatesOf, UpdatesOf
<1>2. ASSUME NEW index \in made.provisional
      PROVE  /\ index.update = References(UpdatesOf(rs))
             /\ index.chunk = DeltasOf(CreatesOf(rs) \o RecoversOf(rs) \o UpdatesOf(rs))
             /\ index.proof = ProvisionalProofFile(UpdatesOf(rs))
             /\ index = [chunk |-> index.chunk, proof |-> index.proof,
                         update |-> index.update, unknown |-> index.unknown]
             /\ made.provisional = {index}
  <2> DEFINE deltas == DeltasOf(CreatesOf(rs) \o RecoversOf(rs) \o UpdatesOf(rs))
             proofs == ProvisionalProofFile(UpdatesOf(rs))
             update == References(UpdatesOf(rs))
             only == [chunk |-> deltas, proof |-> proofs, update |-> update, unknown |-> FALSE]
  <2> HIDE DEF made
  <2>1. ChunkFile(CreatesOf(rs), RecoversOf(rs), UpdatesOf(rs)) \subseteq {deltas}
    BY DEF ChunkFile
  <2>2. made.provisional \subseteq {only}
    <3> HIDE DEF deltas, proofs
    <3> QED BY <1>1, <2>1 DEF ProvisionalIndexFile, proofs
  <2>3. index = only /\ made.provisional = {only}
    <3> HIDE DEF only
    <3> QED BY <1>2, <2>2
  <2> HIDE DEF deltas, proofs, update
  <2> QED BY <2>3 DEF deltas, proofs, update
<1> HIDE DEF made
<1>3. CASE edit = "none"
  BY <1>1, <1>2, <1>3 DEF made, Edited
<1>4. CASE edit = "unknownProperty"
  <2>1. file = [made EXCEPT !.unknown = TRUE]
    BY <1>4 DEF made, Edited
  <2> QED BY <1>1, <1>2, <1>4, <2>1
<1>5. CASE edit = "noCoreProof"
  <2>1. file = [made EXCEPT !.proof = {}]
    BY <1>5 DEF made, Edited
  <2> QED BY <1>1, <1>2, <1>5, <2>1
<1>6. CASE edit = "strayCoreProof"
  <2>1. file = [made EXCEPT !.proof = {[recover |-> << >>, deactivate |-> << >>]}]
    BY <1>6 DEF made, Edited
  <2> QED BY <1>1, <1>2, <1>6, <2>1
<1>7. CASE edit = "noProvisionalIndex"
  <2>1. file = [made EXCEPT !.provisional = {}]
    BY <1>7 DEF made, Edited
  <2> QED BY <1>1, <1>2, <1>7, <2>1
<1>8. CASE edit = "noProvisionalProof"
  <2>1. file = [made EXCEPT !.provisional = {[p EXCEPT !.proof = {}] : p \in @}]
    BY <1>8 DEF made, Edited
  <2>2. file.provisional = {[p EXCEPT !.proof = {}] : p \in made.provisional}
    BY <1>1, <2>1
  <2>3. \A index \in file.provisional :
          /\ index.update = References(UpdatesOf(rs))
          /\ index.chunk = DeltasOf(CreatesOf(rs) \o RecoversOf(rs) \o UpdatesOf(rs))
          /\ index.proof = {} /\ file.provisional = {index}
    <3> SUFFICES ASSUME NEW index \in file.provisional
                 PROVE  /\ index.update = References(UpdatesOf(rs))
                        /\ index.chunk = DeltasOf(CreatesOf(rs) \o RecoversOf(rs) \o UpdatesOf(rs))
                        /\ index.proof = {} /\ file.provisional = {index}
      OBVIOUS
    <3>1. PICK p \in made.provisional : index = [p EXCEPT !.proof = {}]
      BY <2>2
    <3>2. made.provisional = {p}
      BY <1>2
    <3>3. file.provisional = {[p EXCEPT !.proof = {}]}
      BY <2>2, <3>2
    <3> QED BY <1>2, <3>1, <3>3
  <2> QED BY <1>1, <1>8, <2>1, <2>3
<1>9. CASE edit = "strayProvisionalProof"
  <2>1. file = [made EXCEPT !.provisional = {[p EXCEPT !.proof = {<< >>}] : p \in @}]
    BY <1>9 DEF made, Edited
  <2>2. file.provisional = {[p EXCEPT !.proof = {<< >>}] : p \in made.provisional}
    BY <1>1, <2>1
  <2>3. \A index \in file.provisional :
          /\ index.update = References(UpdatesOf(rs))
          /\ index.chunk = DeltasOf(CreatesOf(rs) \o RecoversOf(rs) \o UpdatesOf(rs))
          /\ index.proof = {<< >>} /\ file.provisional = {index}
    <3> SUFFICES ASSUME NEW index \in file.provisional
                 PROVE  /\ index.update = References(UpdatesOf(rs))
                        /\ index.chunk = DeltasOf(CreatesOf(rs) \o RecoversOf(rs) \o UpdatesOf(rs))
                        /\ index.proof = {<< >>} /\ file.provisional = {index}
      OBVIOUS
    <3>1. PICK p \in made.provisional : index = [p EXCEPT !.proof = {<< >>}]
      BY <2>2
    <3>2. made.provisional = {p}
      BY <1>2
    <3>3. file.provisional = {[p EXCEPT !.proof = {<< >>}]}
      BY <2>2, <3>2
    <3> QED BY <1>2, <3>1, <3>3
  <2> QED BY <1>1, <1>9, <2>1, <2>3
<1> QED
  BY <1>3, <1>4, <1>5, <1>6, <1>7, <1>8, <1>9 DEF Edits

-----------------------------------------------------------------------------
(* What is composed from files that are valid                              *)

IsFileOf(file, rs, edit) ==
  /\ rs \in Seq(Requests) /\ edit \in Edits
  /\ file = Edited(CoreIndexFile(rs), edit)

\* The references and the proofs are as many as the requests.
LEMMA AsManyAsRequests ==
  ASSUME NEW rs \in Seq(Requests)
  PROVE  /\ \E S : References(rs) \in Seq(S)
         /\ Len(References(rs)) = Len(rs)
         /\ DOMAIN References(rs) = 1 .. Len(rs)
         /\ \E S : Proofs(rs) \in Seq(S)
         /\ Len(Proofs(rs)) = Len(rs)
         /\ DOMAIN Proofs(rs) = 1 .. Len(rs)
<1> DEFINE n == Len(rs)
           S == {References(rs)[i] : i \in DOMAIN rs}
           T == {Proofs(rs)[i] : i \in DOMAIN rs}
<1>1. n \in Nat /\ DOMAIN rs = 1 .. n
  OBVIOUS
<1>2. References(rs) \in [1 .. n -> S]
  BY <1>1 DEF References
<1>3. Proofs(rs) \in [1 .. n -> T]
  BY <1>1 DEF Proofs
<1> HIDE DEF n, S, T
<1>4. ASSUME NEW X, NEW f \in [1 .. n -> X]
      PROVE  f \in Seq(X) /\ Len(f) = n /\ DOMAIN f = 1 .. n
  BY <1>1
<1>5. /\ References(rs) \in Seq(S) /\ Len(References(rs)) = n
      /\ DOMAIN References(rs) = 1 .. n
  BY <1>2, <1>4
<1>6. /\ Proofs(rs) \in Seq(T) /\ Len(Proofs(rs)) = n
      /\ DOMAIN Proofs(rs) = 1 .. n
  BY <1>3, <1>4
<1> QED BY <1>5, <1>6 DEF n

LEMMA NoReferences ==
  ASSUME NEW rs \in Seq(Requests), NEW ss \in Seq(Requests)
  PROVE  /\ References(rs) \o References(ss) = << >> <=> rs \o ss = << >>
         /\ References(rs) = << >> <=> rs = << >>
<1>1. PICK S, T : References(rs) \in Seq(S) /\ References(ss) \in Seq(T)
  BY AsManyAsRequests
<1>2. Len(References(rs)) = Len(rs) /\ Len(References(ss)) = Len(ss)
  BY AsManyAsRequests
<1>3. ASSUME NEW U, NEW V, NEW s \in Seq(U), NEW t \in Seq(V)
      PROVE  /\ s \o t = << >> <=> Len(s) = 0 /\ Len(t) = 0
             /\ s = << >> <=> Len(s) = 0
  OBVIOUS
<1>4. /\ References(rs) \o References(ss) = << >> <=> Len(rs) = 0 /\ Len(ss) = 0
      /\ References(rs) = << >> <=> Len(rs) = 0
  BY <1>1, <1>2, <1>3
<1> QED BY <1>3, <1>4

\* A proof file that is missing or empty is noticed.
LEMMA CoreProofIs ==
  ASSUME NEW rs, NEW edit, NEW file, IsFileOf(file, rs, edit), CoreFilesAreValid(file)
  PROVE  file.proof = CoreProofFile(RecoversOf(rs), DeactivatesOf(rs))
<1>1. /\ RecoversOf(rs) \in Seq(Requests) /\ DeactivatesOf(rs) \in Seq(Requests)
      /\ file.recover = References(RecoversOf(rs))
      /\ file.deactivate = References(DeactivatesOf(rs))
      /\ file.proof \in {CoreProofFile(RecoversOf(rs), DeactivatesOf(rs)), {},
                         {[recover |-> << >>, deactivate |-> << >>]}}
  BY EditedFileIs, OfTypeIsSeq DEF IsFileOf
<1>2. file.proof = {} <=> RecoversOf(rs) \o DeactivatesOf(rs) = << >>
  <2>1. file.proof = {} <=> file.recover \o file.deactivate = << >>
    BY DEF CoreFilesAreValid, CoreIndexParses
  <2> QED BY <1>1, <2>1, NoReferences
<1>3. file.proof # {[recover |-> << >>, deactivate |-> << >>]}
  <2>1. ASSUME file.proof = {[recover |-> << >>, deactivate |-> << >>]}
        PROVE  FALSE
    <3>1. CoreProofParses(file, [recover |-> << >>, deactivate |-> << >>])
      BY <2>1 DEF CoreFilesAreValid
    <3> QED BY <3>1 DEF CoreProofParses
  <2> QED BY <2>1
<1>4. CASE file.proof = {}
  BY <1>2, <1>4 DEF CoreProofFile
<1> QED BY <1>1, <1>3, <1>4

LEMMA UsedIndexIs ==
  ASSUME NEW rs, NEW edit, NEW file, IsFileOf(file, rs, edit),
         NEW index \in UsedIndex(file)
  PROVE  /\ UsedIndex(file) = {index}
         /\ ProvisionalIndexParses(file, index) /\ ChunkParses(file, index)
         /\ \A proofs \in index.proof : ProvisionalProofParses(index, proofs)
         /\ index.update = References(UpdatesOf(rs))
         /\ index.chunk = DeltasOf(CreatesOf(rs) \o RecoversOf(rs) \o UpdatesOf(rs))
         /\ index.proof = ProvisionalProofFile(UpdatesOf(rs))
<1>1. UsedIndex(file) = file.provisional /\ ProvisionalFilesAreValid(file)
  BY DEF UsedIndex
<1>2. /\ UpdatesOf(rs) \in Seq(Requests)
      /\ index.update = References(UpdatesOf(rs))
      /\ index.chunk = DeltasOf(CreatesOf(rs) \o RecoversOf(rs) \o UpdatesOf(rs))
      /\ index.proof \in {ProvisionalProofFile(UpdatesOf(rs)), {}, {<< >>}}
      /\ file.provisional = {index}
  BY <1>1, EditedFileIs, OfTypeIsSeq DEF IsFileOf
<1>3. /\ ProvisionalIndexParses(file, index) /\ ChunkParses(file, index)
      /\ \A proofs \in index.proof : ProvisionalProofParses(index, proofs)
  BY <1>1, <1>2 DEF ProvisionalFilesAreValid
<1>4. index.proof = {} <=> UpdatesOf(rs) = << >>
  BY <1>2, <1>3, NoReferences DEF ProvisionalIndexParses
<1>5. index.proof # {<< >>}
  BY <1>3 DEF ProvisionalProofParses
<1>6. CASE index.proof = {}
  BY <1>1, <1>2, <1>3, <1>4, <1>6 DEF ProvisionalProofFile
<1> QED BY <1>1, <1>2, <1>3, <1>5, <1>6

\* The requests composed from the files of a batch, written from the batch itself.
DeltasRead(rs) ==
  ReadDeltas(DeltasOf(CreatesOf(rs) \o RecoversOf(rs) \o UpdatesOf(rs)))

CreatesMade(rs, deltas) ==
  [i \in DOMAIN CreatesOf(rs) |->
     [Request("create", CreatesOf(rs)[i].did)
        EXCEPT !.suffixData = Unlisted(CreatesOf(rs)[i].suffixData),
               !.delta = DeltaAt(deltas, i, CreatesOf(rs)[i].did)]]
RecoversMade(rs, deltas) ==
  [i \in DOMAIN RecoversOf(rs) |->
     ComposedRequest("recover", RecoversOf(rs)[i], RecoversOf(rs)[i].proof,
       DeltaAt(deltas, Len(CreatesOf(rs)) + i, RecoversOf(rs)[i].did))]
DeactivatesMade(rs) ==
  [i \in DOMAIN DeactivatesOf(rs) |->
     ComposedRequest("deactivate", DeactivatesOf(rs)[i], DeactivatesOf(rs)[i].proof,
       Request("deactivate", DeactivatesOf(rs)[i].did).delta)]
UpdatesMade(rs, deltas) ==
  [i \in DOMAIN UpdatesOf(rs) |->
     ComposedRequest("update", UpdatesOf(rs)[i], UpdatesOf(rs)[i].proof,
       DeltaAt(deltas, Len(CreatesOf(rs)) + Len(RecoversOf(rs)) + i, UpdatesOf(rs)[i].did))]

CoreMade(rs, deltas) ==
  CreatesMade(rs, deltas) \o (RecoversMade(rs, deltas) \o DeactivatesMade(rs))

LEMMA CreatesFromFile ==
  ASSUME NEW rs, NEW edit, NEW file, IsFileOf(file, rs, edit), NEW deltas
  PROVE  CreatesFrom(file, deltas) = CreatesMade(rs, deltas)
<1>1. file.create = CreateReferences(CreatesOf(rs))
  BY EditedFileIs DEF IsFileOf
<1> QED
  BY <1>1 DEF CreatesFrom, CreatesMade, CreateReferences

LEMMA LengthsInFile ==
  ASSUME NEW rs, NEW edit, NEW file, IsFileOf(file, rs, edit)
  PROVE  /\ Len(file.create) = Len(CreatesOf(rs)) /\ Len(file.recover) = Len(RecoversOf(rs))
         /\ Len(file.deactivate) = Len(DeactivatesOf(rs))
         /\ \A index \in file.provisional : Len(index.update) = Len(UpdatesOf(rs))
<1>1. /\ CreatesOf(rs) \in Seq(Requests) /\ RecoversOf(rs) \in Seq(Requests)
      /\ DeactivatesOf(rs) \in Seq(Requests) /\ UpdatesOf(rs) \in Seq(Requests)
  BY OfTypeIsSeq DEF IsFileOf
<1>2. /\ file.create = CreateReferences(CreatesOf(rs))
      /\ file.recover = References(RecoversOf(rs))
      /\ file.deactivate = References(DeactivatesOf(rs))
      /\ \A index \in file.provisional : index.update = References(UpdatesOf(rs))
  BY EditedFileIs DEF IsFileOf
<1>3. Len(file.create) = Len(CreatesOf(rs))
  BY <1>1, <1>2 DEF CreateReferences
<1> QED
  BY <1>1, <1>2, <1>3, AsManyAsRequests

LEMMA SignedFromFile ==
  ASSUME NEW rs, NEW edit, NEW file, IsFileOf(file, rs, edit), CoreFilesAreValid(file),
         NEW deltas
  PROVE  Optional({RecoversFrom(file, p, deltas)
                            \o DeactivatesFrom(file, p) : p \in file.proof})
           = RecoversMade(rs, deltas) \o DeactivatesMade(rs)
<1>1. /\ RecoversOf(rs) \in Seq(Requests) /\ DeactivatesOf(rs) \in Seq(Requests)
      /\ file.recover = References(RecoversOf(rs))
      /\ file.deactivate = References(DeactivatesOf(rs))
      /\ file.proof = CoreProofFile(RecoversOf(rs), DeactivatesOf(rs))
      /\ Len(file.create) = Len(CreatesOf(rs))
  BY EditedFileIs, OfTypeIsSeq, CoreProofIs, LengthsInFile DEF IsFileOf
<1>2. CASE RecoversOf(rs) \o DeactivatesOf(rs) = << >>
  <2>1. RecoversOf(rs) = << >> /\ DeactivatesOf(rs) = << >>
    BY <1>1, <1>2
  <2>2. RecoversMade(rs, deltas) = << >> /\ DeactivatesMade(rs) = << >>
    BY <2>1 DEF RecoversMade, DeactivatesMade
  <2>3. RecoversMade(rs, deltas) \o DeactivatesMade(rs) = << >>
    BY <2>2
  <2> QED BY <1>1, <1>2, <2>3 DEF CoreProofFile, Optional
<1>3. CASE RecoversOf(rs) \o DeactivatesOf(rs) # << >>
  <2> DEFINE p == [recover |-> Proofs(RecoversOf(rs)),
                   deactivate |-> Proofs(DeactivatesOf(rs))]
  <2>1. file.proof = {p}
    BY <1>1, <1>3 DEF CoreProofFile
  <2>2. RecoversFrom(file, p, deltas) = RecoversMade(rs, deltas)
    BY <1>1 DEF RecoversFrom, RecoversMade, References, Proofs,
                ComposedRequest
  <2>3. DeactivatesFrom(file, p) = DeactivatesMade(rs)
    BY <1>1 DEF DeactivatesFrom, DeactivatesMade, References, Proofs,
                ComposedRequest
  <2> HIDE DEF p
  <2> QED BY <2>1, <2>2, <2>3 DEF Optional
<1> QED BY <1>2, <1>3

LEMMA UpdatesFromFile ==
  ASSUME NEW rs, NEW edit, NEW file, IsFileOf(file, rs, edit),
         NEW index \in UsedIndex(file), NEW deltas
  PROVE  Optional({UpdatesFrom(file, index, p, deltas) : p \in index.proof})
           = UpdatesMade(rs, deltas)
<1>1. /\ index.update = References(UpdatesOf(rs))
      /\ index.proof = ProvisionalProofFile(UpdatesOf(rs))
  BY UsedIndexIs
<1>2. /\ UpdatesOf(rs) \in Seq(Requests)
      /\ Len(file.create) = Len(CreatesOf(rs)) /\ Len(file.recover) = Len(RecoversOf(rs))
  BY OfTypeIsSeq, LengthsInFile DEF IsFileOf
<1>3. CASE UpdatesOf(rs) = << >>
  <2>1. UpdatesMade(rs, deltas) = << >>
    BY <1>3 DEF UpdatesMade
  <2> QED BY <1>1, <1>3, <2>1 DEF ProvisionalProofFile, Optional
<1>4. CASE UpdatesOf(rs) # << >>
  <2> DEFINE proofs == Proofs(UpdatesOf(rs))
  <2>1. index.proof = {proofs}
    BY <1>1, <1>4 DEF ProvisionalProofFile
  <2>2. DOMAIN index.update = DOMAIN UpdatesOf(rs)
    BY <1>1 DEF References
  <2>3. ASSUME NEW i \in DOMAIN UpdatesOf(rs)
        PROVE  /\ index.update[i].did = UpdatesOf(rs)[i].did
               /\ index.update[i].suffix = UpdatesOf(rs)[i].suffix
               /\ index.update[i].reveal = UpdatesOf(rs)[i].reveal
               /\ proofs[i] = UpdatesOf(rs)[i].proof
    BY <1>1 DEF References, Proofs
  <2> HIDE DEF proofs
  <2>4. UpdatesFrom(file, index, proofs, deltas) = UpdatesMade(rs, deltas)
    BY <1>2, <2>2, <2>3 DEF UpdatesFrom, UpdatesMade, ComposedRequest
  <2> QED BY <2>1, <2>4 DEF Optional
<1> QED BY <1>3, <1>4

LEMMA ComposedWithoutIndex ==
  ASSUME NEW rs, NEW edit, NEW file, IsFileOf(file, rs, edit), CoreFilesAreValid(file)
  PROVE  ComposedAll(file, {}) = CoreMade(rs, << >>)
<1>1. CreatesFrom(file, << >>) = CreatesMade(rs, << >>)
  BY CreatesFromFile
<1>2. Optional({RecoversFrom(file, p, << >>)
                         \o DeactivatesFrom(file, p) : p \in file.proof})
        = RecoversMade(rs, << >>) \o DeactivatesMade(rs)
  BY SignedFromFile
<1>3. ComposedAll(file, {}) = CoreMade(rs, << >>) \o << >>
  <2>1. Optional({}) = << >>
    BY DEF Optional
  <2>2. {ReadDeltas(index.chunk) : index \in {}} = {}
    OBVIOUS
  <2>3. UNION {{UpdatesFrom(file, index, p, << >>) : p \in index.proof} : index \in {}} = {}
    OBVIOUS
  <2> QED BY <1>1, <1>2, <2>1, <2>2, <2>3 DEF ComposedAll, CoreMade
<1>4. CoreMade(rs, << >>) \o << >> = CoreMade(rs, << >>)
  BY OfTypeIsSeq DEF CoreMade, CreatesMade, RecoversMade, DeactivatesMade, IsFileOf
<1> QED BY <1>3, <1>4

LEMMA ComposedWithIndex ==
  ASSUME NEW rs, NEW edit, NEW file, IsFileOf(file, rs, edit), CoreFilesAreValid(file),
         UsedIndex(file) # {}
  PROVE  ComposedAll(file, UsedIndex(file))
           = CoreMade(rs, DeltasRead(rs)) \o UpdatesMade(rs, DeltasRead(rs))
<1>1. PICK one \in UsedIndex(file) : TRUE
  OBVIOUS
<1> DEFINE deltas == Optional({ReadDeltas(index.chunk) : index \in {one}})
<1>2. /\ UsedIndex(file) = {one}
      /\ one.chunk = DeltasOf(CreatesOf(rs) \o RecoversOf(rs) \o UpdatesOf(rs))
  BY UsedIndexIs
<1>3. deltas = DeltasRead(rs)
  BY <1>2 DEF DeltasRead, Optional
<1> HIDE DEF deltas
<1>4. CreatesFrom(file, deltas) = CreatesMade(rs, deltas)
  BY CreatesFromFile
<1>5. Optional({RecoversFrom(file, p, deltas)
                         \o DeactivatesFrom(file, p) : p \in file.proof})
        = RecoversMade(rs, deltas) \o DeactivatesMade(rs)
  BY SignedFromFile
<1>6. Optional({UpdatesFrom(file, one, p, deltas) : p \in one.proof})
        = UpdatesMade(rs, deltas)
  BY UpdatesFromFile
<1>7. UNION {{UpdatesFrom(file, index, p, deltas) : p \in index.proof} : index \in {one}}
        = {UpdatesFrom(file, one, p, deltas) : p \in one.proof}
  OBVIOUS
<1>8. ComposedAll(file, {one}) = CoreMade(rs, deltas) \o UpdatesMade(rs, deltas)
  BY <1>4, <1>5, <1>6, <1>7 DEF ComposedAll, CoreMade, deltas
<1> QED BY <1>2, <1>3, <1>8

-----------------------------------------------------------------------------
(* Composing fails only for mixed batches                                  *)

MixedRequests(rs) ==
  \E i, j \in DOMAIN rs : rs[i].type = "deactivate" /\ rs[j].type \in {"create", "recover"}

LEMMA NotEmptyOfType ==
  ASSUME NEW rs \in Seq(Requests), NEW t, RequestsOfType(t, rs) # << >>
  PROVE  \E i \in DOMAIN rs : rs[i].type = t
<1>1. PICK place : ArePlaces(place, RequestsOfType(t, rs), rs, t)
  BY OfOneTypeIs
<1>2. RequestsOfType(t, rs) \in Seq(Requests)
  BY OfOneTypeIs
<1>3. 1 \in DOMAIN RequestsOfType(t, rs)
  BY <1>2
<1> QED BY <1>1, <1>3 DEF ArePlaces

LEMMA ThrowsOnlyWhenMixed ==
  ASSUME NEW rs, NEW edit, NEW file, IsFileOf(file, rs, edit), CoreFilesAreValid(file),
         ComposingThrows(file, UsedIndex(file))
  PROVE  MixedRequests(rs)
<1>1. /\ CreatesOf(rs) \in Seq(Requests) /\ RecoversOf(rs) \in Seq(Requests)
      /\ DeactivatesOf(rs) \in Seq(Requests) /\ UpdatesOf(rs) \in Seq(Requests)
      /\ rs \in Seq(Requests)
  BY OfTypeIsSeq DEF IsFileOf
<1>2. /\ file.create = CreateReferences(CreatesOf(rs))
      /\ file.recover = References(RecoversOf(rs))
      /\ file.deactivate = References(DeactivatesOf(rs))
  BY EditedFileIs DEF IsFileOf
<1>3. ~(file.recover \o file.deactivate # << >> /\ file.proof = {})
  BY DEF CoreFilesAreValid, CoreIndexParses
<1>4. ASSUME NEW index \in UsedIndex(file)
      PROVE  ~(index.update # << >> /\ index.proof = {})
  <2>1. ProvisionalIndexParses(file, index)
    BY UsedIndexIs
  <2> QED BY <2>1 DEF ProvisionalIndexParses
<1>5. file.deactivate # << >> /\ file.create \o file.recover # << >>
  BY <1>3, <1>4 DEF ComposingThrows
<1>6. DeactivatesOf(rs) # << >>
  BY <1>1, <1>2, <1>5, NoReferences
<1>7. CreatesOf(rs) # << >> \/ RecoversOf(rs) # << >>
  <2>1. ASSUME CreatesOf(rs) = << >>, RecoversOf(rs) = << >>
        PROVE  FALSE
    <3>1. file.create = << >>
      BY <1>2, <2>1 DEF CreateReferences
    <3>2. file.recover = << >>
      BY <1>1, <1>2, <2>1, NoReferences
    <3> QED BY <1>5, <3>1, <3>2
  <2> QED BY <2>1
<1>8. \E i \in DOMAIN rs : rs[i].type = "deactivate"
  BY <1>1, <1>6, NotEmptyOfType DEF DeactivatesOf
<1>9. \E i \in DOMAIN rs : rs[i].type \in {"create", "recover"}
  BY <1>1, <1>7, NotEmptyOfType DEF CreatesOf, RecoversOf
<1> QED BY <1>8, <1>9 DEF MixedRequests

-----------------------------------------------------------------------------
(* The resolver can parse what is stored                                   *)

IsSequence(s) == \E S : s \in Seq(S)
IsIn(x, s) == \E k \in DOMAIN s : x = s[k]

LEMMA Concatenated ==
  ASSUME NEW s, NEW t, IsSequence(s), IsSequence(t)
  PROVE  /\ IsSequence(s \o t) /\ Len(s \o t) = Len(s) + Len(t)
         /\ \A x : IsIn(x, s \o t) <=> IsIn(x, s) \/ IsIn(x, t)
<1>1. PICK S, T : s \in Seq(S) /\ t \in Seq(T)
  BY DEF IsSequence
<1>2. s \o t \in Seq(S \cup T)
  BY <1>1
<1>3. /\ Len(s) \in Nat /\ Len(t) \in Nat /\ DOMAIN s = 1 .. Len(s) /\ DOMAIN t = 1 .. Len(t)
      /\ DOMAIN (s \o t) = 1 .. Len(s) + Len(t) /\ Len(s \o t) = Len(s) + Len(t)
  BY <1>1
<1>4. ASSUME NEW i \in DOMAIN (s \o t)
      PROVE  IsIn((s \o t)[i], s) \/ IsIn((s \o t)[i], t)
  <2>1. CASE i <= Len(s)
    <3>1. i \in DOMAIN s /\ (s \o t)[i] = s[i]
      BY <1>1, <1>3, <2>1
    <3> QED BY <3>1 DEF IsIn
  <2>2. CASE i > Len(s)
    <3>1. i - Len(s) \in DOMAIN t /\ (s \o t)[i] = t[i - Len(s)]
      BY <1>1, <1>3, <2>2
    <3> QED BY <3>1 DEF IsIn
  <2> QED BY <1>3, <2>1, <2>2
<1>5. \A x : IsIn(x, s \o t) => IsIn(x, s) \/ IsIn(x, t)
  BY <1>4 DEF IsIn
<1>6. ASSUME NEW k \in DOMAIN s
      PROVE  IsIn(s[k], s \o t)
  <2>1. k \in DOMAIN (s \o t) /\ (s \o t)[k] = s[k]
    BY <1>1, <1>3
  <2> QED BY <2>1 DEF IsIn
<1>7. ASSUME NEW k \in DOMAIN t
      PROVE  IsIn(t[k], s \o t)
  <2>1. Len(s) + k \in DOMAIN (s \o t) /\ (s \o t)[Len(s) + k] = t[k]
    BY <1>1, <1>3
  <2> QED BY <2>1 DEF IsIn
<1>8. \A x : IsIn(x, s) \/ IsIn(x, t) => IsIn(x, s \o t)
  BY <1>6, <1>7 DEF IsIn
<1> QED BY <1>2, <1>3, <1>5, <1>8 DEF IsSequence

LEMMA MadeAreSequences ==
  ASSUME NEW rs \in Seq(Requests), NEW deltas
  PROVE  /\ IsSequence(CreatesMade(rs, deltas)) /\ IsSequence(RecoversMade(rs, deltas))
         /\ IsSequence(DeactivatesMade(rs)) /\ IsSequence(UpdatesMade(rs, deltas))
         /\ Len(CreatesMade(rs, deltas)) = Len(CreatesOf(rs))
         /\ Len(RecoversMade(rs, deltas)) = Len(RecoversOf(rs))
         /\ Len(DeactivatesMade(rs)) = Len(DeactivatesOf(rs))
         /\ Len(UpdatesMade(rs, deltas)) = Len(UpdatesOf(rs))
<1>1. ASSUME NEW S, NEW s \in Seq(S), NEW f, DOMAIN f = DOMAIN s, f = [i \in DOMAIN f |-> f[i]]
      PROVE  IsSequence(f) /\ Len(f) = Len(s)
  <2> DEFINE T == {f[i] : i \in DOMAIN f}
             n == Len(s)
  <2>1. n \in Nat /\ DOMAIN f = 1 .. n
    BY <1>1
  <2>2. f \in [1 .. n -> T]
    BY <1>1, <2>1
  <2> HIDE DEF T, n
  <2>3. f \in Seq(T) /\ Len(f) = n
    BY <2>1, <2>2
  <2> QED BY <2>3 DEF n, IsSequence
<1>2. /\ CreatesOf(rs) \in Seq(Requests) /\ RecoversOf(rs) \in Seq(Requests)
      /\ DeactivatesOf(rs) \in Seq(Requests) /\ UpdatesOf(rs) \in Seq(Requests)
  BY OfTypeIsSeq
<1>3. IsSequence(CreatesMade(rs, deltas)) /\ Len(CreatesMade(rs, deltas)) = Len(CreatesOf(rs))
  <2> DEFINE f == CreatesMade(rs, deltas)
  <2>1. DOMAIN f = DOMAIN CreatesOf(rs) /\ f = [i \in DOMAIN f |-> f[i]]
    BY DEF CreatesMade
  <2> HIDE DEF f
  <2> QED BY <1>1, <1>2, <2>1 DEF f
<1>4. IsSequence(RecoversMade(rs, deltas)) /\ Len(RecoversMade(rs, deltas)) = Len(RecoversOf(rs))
  <2> DEFINE f == RecoversMade(rs, deltas)
  <2>1. DOMAIN f = DOMAIN RecoversOf(rs) /\ f = [i \in DOMAIN f |-> f[i]]
    BY DEF RecoversMade
  <2> HIDE DEF f
  <2> QED BY <1>1, <1>2, <2>1 DEF f
<1>5. IsSequence(DeactivatesMade(rs)) /\ Len(DeactivatesMade(rs)) = Len(DeactivatesOf(rs))
  <2> DEFINE f == DeactivatesMade(rs)
  <2>1. DOMAIN f = DOMAIN DeactivatesOf(rs) /\ f = [i \in DOMAIN f |-> f[i]]
    BY DEF DeactivatesMade
  <2> HIDE DEF f
  <2> QED BY <1>1, <1>2, <2>1 DEF f
<1>6. IsSequence(UpdatesMade(rs, deltas)) /\ Len(UpdatesMade(rs, deltas)) = Len(UpdatesOf(rs))
  <2> DEFINE f == UpdatesMade(rs, deltas)
  <2>1. DOMAIN f = DOMAIN UpdatesOf(rs) /\ f = [i \in DOMAIN f |-> f[i]]
    BY DEF UpdatesMade
  <2> HIDE DEF f
  <2> QED BY <1>1, <1>2, <2>1 DEF f
<1> QED BY <1>3, <1>4, <1>5, <1>6

\* What a valid batch is composed to, with and without a usable chunk file.
StoredOf(rs, used) ==
  IF used = {} THEN CoreMade(rs, << >>)
  ELSE CoreMade(rs, DeltasRead(rs)) \o UpdatesMade(rs, DeltasRead(rs))

LEMMA ComposedIs ==
  ASSUME NEW rs, NEW edit, NEW file, IsFileOf(file, rs, edit), CoreFilesAreValid(file)
  PROVE  ComposedAll(file, UsedIndex(file)) = StoredOf(rs, UsedIndex(file))
BY ComposedWithoutIndex, ComposedWithIndex DEF StoredOf

LEMMA ElementOfStored ==
  ASSUME NEW rs \in Seq(Requests), NEW used, NEW i \in DOMAIN StoredOf(rs, used)
  PROVE  \E deltas :
           \/ \E k \in DOMAIN CreatesOf(rs) : StoredOf(rs, used)[i] = CreatesMade(rs, deltas)[k]
           \/ \E k \in DOMAIN RecoversOf(rs) : StoredOf(rs, used)[i] = RecoversMade(rs, deltas)[k]
           \/ \E k \in DOMAIN DeactivatesOf(rs) : StoredOf(rs, used)[i] = DeactivatesMade(rs)[k]
           \/ /\ used # {} /\ deltas = DeltasRead(rs)
              /\ \E k \in DOMAIN UpdatesOf(rs) : StoredOf(rs, used)[i] = UpdatesMade(rs, deltas)[k]
<1> DEFINE deltas == IF used = {} THEN << >> ELSE DeltasRead(rs)
           C == CreatesMade(rs, deltas)
           R == RecoversMade(rs, deltas)
           D == DeactivatesMade(rs)
           U == UpdatesMade(rs, deltas)
<1>1. /\ DOMAIN C = DOMAIN CreatesOf(rs) /\ DOMAIN R = DOMAIN RecoversOf(rs)
      /\ DOMAIN D = DOMAIN DeactivatesOf(rs) /\ DOMAIN U = DOMAIN UpdatesOf(rs)
  BY DEF CreatesMade, RecoversMade, DeactivatesMade, UpdatesMade
<1>2. IsSequence(C) /\ IsSequence(R) /\ IsSequence(D) /\ IsSequence(U)
  BY MadeAreSequences
<1>3. CoreMade(rs, deltas) = C \o (R \o D)
  BY DEF CoreMade
<1>4. StoredOf(rs, used) = IF used = {} THEN C \o (R \o D) ELSE (C \o (R \o D)) \o U
  BY <1>3 DEF StoredOf
<1>5. used # {} => deltas = DeltasRead(rs)
  OBVIOUS
<1> HIDE DEF C, R, D, U, deltas
<1>6. /\ IsSequence(R \o D)
      /\ \A x : IsIn(x, R \o D) => IsIn(x, R) \/ IsIn(x, D)
  BY <1>2, Concatenated
<1>7. /\ IsSequence(C \o (R \o D))
      /\ \A x : IsIn(x, C \o (R \o D)) => IsIn(x, C) \/ IsIn(x, R) \/ IsIn(x, D)
  <2> DEFINE v == R \o D
  <2>1. IsSequence(v) /\ \A x : IsIn(x, v) => IsIn(x, R) \/ IsIn(x, D)
    BY <1>6
  <2> HIDE DEF v
  <2>2. IsSequence(C \o v) /\ \A x : IsIn(x, C \o v) => IsIn(x, C) \/ IsIn(x, v)
    BY <1>2, <2>1, Concatenated
  <2> QED BY <2>1, <2>2 DEF v
<1>8. \A x : IsIn(x, (C \o (R \o D)) \o U)
           => IsIn(x, C) \/ IsIn(x, R) \/ IsIn(x, D) \/ IsIn(x, U)
  <2> DEFINE v == C \o (R \o D)
  <2>1. IsSequence(v) /\ \A x : IsIn(x, v) => IsIn(x, C) \/ IsIn(x, R) \/ IsIn(x, D)
    BY <1>7
  <2> HIDE DEF v
  <2>2. \A x : IsIn(x, v \o U) => IsIn(x, v) \/ IsIn(x, U)
    BY <1>2, <2>1, Concatenated
  <2> QED BY <2>1, <2>2 DEF v
<1>9. IsIn(StoredOf(rs, used)[i], StoredOf(rs, used))
  BY DEF IsIn
<1>10. LET x == StoredOf(rs, used)[i] IN
         IsIn(x, C) \/ IsIn(x, R) \/ IsIn(x, D) \/ (used # {} /\ IsIn(x, U))
  BY <1>4, <1>7, <1>8, <1>9
<1>11. /\ \A x : IsIn(x, C) => \E k \in DOMAIN C : x = C[k]
       /\ \A x : IsIn(x, R) => \E k \in DOMAIN R : x = R[k]
       /\ \A x : IsIn(x, D) => \E k \in DOMAIN D : x = D[k]
       /\ \A x : IsIn(x, U) => \E k \in DOMAIN U : x = U[k]
  BY DEF IsIn
<1> QED
  BY <1>1, <1>5, <1>10, <1>11 DEF C, R, D, U

LEMMA MadeCreate ==
  ASSUME NEW rs, NEW deltas, NEW k \in DOMAIN CreatesOf(rs)
  PROVE  /\ CreatesMade(rs, deltas)[k].type = "create"
         /\ CreatesMade(rs, deltas)[k].did = CreatesOf(rs)[k].did
BY DEF CreatesMade, Request

\* The request x, of type t, has the reference and the signed data of r.
IsMadeOf(x, t, r) ==
  /\ x.type = t /\ x.did = r.did /\ x.extra = FALSE
  /\ x.suffix = r.suffix /\ x.reveal = r.reveal /\ x.proof = r.proof

LEMMA MadeRecover ==
  ASSUME NEW rs, NEW deltas, NEW k \in DOMAIN RecoversOf(rs)
  PROVE  IsMadeOf(RecoversMade(rs, deltas)[k], "recover", RecoversOf(rs)[k])
BY DEF IsMadeOf, RecoversMade, ComposedRequest, Request

LEMMA MadeDeactivate ==
  ASSUME NEW rs, NEW k \in DOMAIN DeactivatesOf(rs)
  PROVE  IsMadeOf(DeactivatesMade(rs)[k], "deactivate", DeactivatesOf(rs)[k])
BY DEF IsMadeOf, DeactivatesMade, ComposedRequest, Request

LEMMA MadeUpdate ==
  ASSUME NEW rs, NEW deltas, NEW k \in DOMAIN UpdatesOf(rs)
  PROVE  /\ IsMadeOf(UpdatesMade(rs, deltas)[k], "update", UpdatesOf(rs)[k])
         /\ UpdatesMade(rs, deltas)[k].delta =
           DeltaAt(deltas, Len(CreatesOf(rs)) + Len(RecoversOf(rs)) + k,
                                     UpdatesOf(rs)[k].did)
BY DEF IsMadeOf, UpdatesMade, ComposedRequest, Request

\* The signed data at its place in a proof file was checked with it.
LEMMA SignedIsValid ==
  ASSUME NEW rs, NEW edit, NEW file, IsFileOf(file, rs, edit), CoreFilesAreValid(file)
  PROVE  /\ \A k \in DOMAIN RecoversOf(rs) :
              /\ IsMultihash(RecoversOf(rs)[k].suffix)
              /\ IsMultihash(RecoversOf(rs)[k].reveal)
              /\ ProofIsValid(RecoversOf(rs)[k].proof)
         /\ \A k \in DOMAIN DeactivatesOf(rs) :
              /\ IsMultihash(DeactivatesOf(rs)[k].suffix)
              /\ IsMultihash(DeactivatesOf(rs)[k].reveal)
              /\ DeactivateProofIsValid(DeactivatesOf(rs)[k].proof, DeactivatesOf(rs)[k].did)
<1>1. /\ RecoversOf(rs) \in Seq(Requests) /\ DeactivatesOf(rs) \in Seq(Requests)
      /\ file.recover = References(RecoversOf(rs))
      /\ file.deactivate = References(DeactivatesOf(rs))
      /\ file.proof = CoreProofFile(RecoversOf(rs), DeactivatesOf(rs))
  BY EditedFileIs, OfTypeIsSeq, CoreProofIs DEF IsFileOf
<1>2. /\ \A k \in DOMAIN file.recover : ReferenceIsValid(file.recover[k])
      /\ \A k \in DOMAIN file.deactivate : ReferenceIsValid(file.deactivate[k])
  BY DEF CoreFilesAreValid, CoreIndexParses, CoreReferencesAreValid
<1>3. /\ \A k \in DOMAIN RecoversOf(rs) :
           IsMultihash(RecoversOf(rs)[k].suffix) /\ IsMultihash(RecoversOf(rs)[k].reveal)
      /\ \A k \in DOMAIN DeactivatesOf(rs) :
           IsMultihash(DeactivatesOf(rs)[k].suffix) /\ IsMultihash(DeactivatesOf(rs)[k].reveal)
  BY <1>1, <1>2 DEF References, ReferenceIsValid
<1> DEFINE p == [recover |-> Proofs(RecoversOf(rs)),
                 deactivate |-> Proofs(DeactivatesOf(rs))]
<1>4. RecoversOf(rs) \o DeactivatesOf(rs) # << >> => CoreProofParses(file, p)
  <2>1. RecoversOf(rs) \o DeactivatesOf(rs) # << >> => file.proof = {p}
    BY <1>1 DEF CoreProofFile
  <2> HIDE DEF p
  <2> QED BY <2>1 DEF CoreFilesAreValid
<1>5. ASSUME NEW k \in DOMAIN RecoversOf(rs)
      PROVE  ProofIsValid(RecoversOf(rs)[k].proof)
  <2>1. RecoversOf(rs) \o DeactivatesOf(rs) # << >>
    BY <1>1
  <2>2. \A i \in DOMAIN p.recover : ProofIsValid(p.recover[i])
    BY <1>4, <2>1 DEF CoreProofParses
  <2>3. p.recover = [i \in DOMAIN RecoversOf(rs) |-> RecoversOf(rs)[i].proof]
    BY DEF Proofs
  <2> HIDE DEF p
  <2> QED BY <2>2, <2>3
<1>6. ASSUME NEW k \in DOMAIN DeactivatesOf(rs)
      PROVE  DeactivateProofIsValid(DeactivatesOf(rs)[k].proof, DeactivatesOf(rs)[k].did)
  <2>1. RecoversOf(rs) \o DeactivatesOf(rs) # << >>
    BY <1>1
  <2>2. \A i \in DOMAIN p.deactivate :
          DeactivateProofIsValid(p.deactivate[i], file.deactivate[i].did)
    BY <1>4, <2>1 DEF CoreProofParses
  <2>3. p.deactivate = [i \in DOMAIN DeactivatesOf(rs) |-> DeactivatesOf(rs)[i].proof]
    BY DEF Proofs
  <2>4. file.deactivate[k].did = DeactivatesOf(rs)[k].did
    BY <1>1 DEF References
  <2> HIDE DEF p
  <2> QED BY <2>2, <2>3, <2>4
<1> QED BY <1>3, <1>5, <1>6

LEMMA UpdatesAreValid ==
  ASSUME NEW rs, NEW edit, NEW file, IsFileOf(file, rs, edit),
         UsedIndex(file) # {}, NEW k \in DOMAIN UpdatesOf(rs)
  PROVE  /\ IsMultihash(UpdatesOf(rs)[k].suffix)
         /\ IsMultihash(UpdatesOf(rs)[k].reveal)
         /\ ProofIsValid(UpdatesOf(rs)[k].proof)
         /\ DeltaIsValidAndSmall(
              DeltaAt(DeltasRead(rs), Len(CreatesOf(rs)) + Len(RecoversOf(rs)) + k,
                             UpdatesOf(rs)[k].did))
<1>1. PICK index \in UsedIndex(file) : TRUE
  OBVIOUS
<1>2. /\ ProvisionalIndexParses(file, index) /\ ChunkParses(file, index)
      /\ \A proofs \in index.proof : ProvisionalProofParses(index, proofs)
      /\ index.update = References(UpdatesOf(rs))
      /\ index.chunk = DeltasOf(CreatesOf(rs) \o RecoversOf(rs) \o UpdatesOf(rs))
      /\ index.proof = ProvisionalProofFile(UpdatesOf(rs))
  BY UsedIndexIs
<1>3. /\ CreatesOf(rs) \in Seq(Requests) /\ RecoversOf(rs) \in Seq(Requests)
      /\ UpdatesOf(rs) \in Seq(Requests)
  BY OfTypeIsSeq DEF IsFileOf
<1>4. ReferenceIsValid(index.update[k])
  BY <1>2 DEF ProvisionalIndexParses, References
<1>5. IsMultihash(UpdatesOf(rs)[k].suffix) /\ IsMultihash(UpdatesOf(rs)[k].reveal)
  BY <1>2, <1>4 DEF References, ReferenceIsValid
<1>6. ProofIsValid(UpdatesOf(rs)[k].proof)
  <2>1. index.proof = {Proofs(UpdatesOf(rs))}
    BY <1>2, <1>3 DEF ProvisionalProofFile
  <2>2. ProvisionalProofParses(index, Proofs(UpdatesOf(rs)))
    BY <1>2, <2>1
  <2> QED BY <2>2 DEF ProvisionalProofParses, Proofs
<1> DEFINE at == Len(CreatesOf(rs)) + Len(RecoversOf(rs)) + k
           all == CreatesOf(rs) \o RecoversOf(rs) \o UpdatesOf(rs)
<1>7. at \in DOMAIN all
  BY <1>3
<1> HIDE DEF at, all
<1>8. at \in DOMAIN index.chunk
  BY <1>2, <1>7 DEF all, DeltasOf
<1>9. DeltaIsValidAndSmall(ReadDeltas(index.chunk)[at])
  BY <1>2, <1>8 DEF ChunkParses
<1>10. at \in DOMAIN DeltasRead(rs) /\ DeltasRead(rs) = ReadDeltas(index.chunk)
  BY <1>2, <1>8 DEF DeltasRead, ReadDeltas
<1>11. DeltaIsValidAndSmall(DeltaAt(DeltasRead(rs), at, UpdatesOf(rs)[k].did))
  BY <1>9, <1>10 DEF DeltaAt
<1> QED BY <1>5, <1>6, <1>11 DEF at

LEMMA StoredParses ==
  ASSUME NEW rs, NEW edit, NEW file, IsFileOf(file, rs, edit), CoreFilesAreValid(file),
         NEW i \in DOMAIN StoredOf(rs, UsedIndex(file)),
         NEW x, x = StoredOf(rs, UsedIndex(file))[i],
         x.type # "create", x.reveal # "otherKey"
  PROVE  Parses(x)
<1>1. rs \in Seq(Requests)
  BY DEF IsFileOf
<1>2. PICK deltas :
        \/ \E k \in DOMAIN CreatesOf(rs) : x = CreatesMade(rs, deltas)[k]
        \/ \E k \in DOMAIN RecoversOf(rs) : x = RecoversMade(rs, deltas)[k]
        \/ \E k \in DOMAIN DeactivatesOf(rs) : x = DeactivatesMade(rs)[k]
        \/ /\ UsedIndex(file) # {} /\ deltas = DeltasRead(rs)
           /\ \E k \in DOMAIN UpdatesOf(rs) : x = UpdatesMade(rs, deltas)[k]
  BY <1>1, ElementOfStored
<1>3. /\ RecoversOf(rs) \in Seq(Requests) /\ DeactivatesOf(rs) \in Seq(Requests)
      /\ UpdatesOf(rs) \in Seq(Requests)
  BY <1>1, OfTypeIsSeq
<1>4. ASSUME NEW r \in Requests, IsMultihash(r.reveal), r.reveal # "otherKey"
      PROVE  r.reveal = r.proof.key
  BY <1>4, RequestFacts DEF IsMultihash
<1>5. CASE \E k \in DOMAIN CreatesOf(rs) : x = CreatesMade(rs, deltas)[k]
  BY <1>5, MadeCreate
<1>6. CASE \E k \in DOMAIN RecoversOf(rs) : x = RecoversMade(rs, deltas)[k]
  <2>1. PICK k \in DOMAIN RecoversOf(rs) : x = RecoversMade(rs, deltas)[k]
    BY <1>6
  <2> DEFINE r == RecoversOf(rs)[k]
  <2>2. r \in Requests
    BY <1>3
  <2>3. IsMadeOf(x, "recover", r)
    BY <2>1, MadeRecover
  <2>4. IsMultihash(r.suffix) /\ IsMultihash(r.reveal) /\ ProofIsValid(r.proof)
    BY SignedIsValid
  <2> HIDE DEF r
  <2> QED
    BY <1>4, <2>2, <2>3, <2>4 DEF Parses, ParsesAsRecover, ParsesWithKey, IsMadeOf,
       RevealsKey, IsMultihash
<1>7. CASE \E k \in DOMAIN DeactivatesOf(rs) : x = DeactivatesMade(rs)[k]
  <2>1. PICK k \in DOMAIN DeactivatesOf(rs) : x = DeactivatesMade(rs)[k]
    BY <1>7
  <2> DEFINE r == DeactivatesOf(rs)[k]
  <2>2. r \in Requests
    BY <1>3
  <2>3. IsMadeOf(x, "deactivate", r)
    BY <2>1, MadeDeactivate
  <2>4. /\ IsMultihash(r.suffix) /\ IsMultihash(r.reveal)
        /\ DeactivateProofIsValid(r.proof, r.did)
    BY SignedIsValid
  <2> HIDE DEF r
  <2> QED
    BY <1>4, <2>2, <2>3, <2>4 DEF Parses, ParsesAsDeactivate, ParsesWithKey, IsMadeOf,
       RevealsKey, IsMultihash
<1>8. CASE /\ UsedIndex(file) # {} /\ deltas = DeltasRead(rs)
           /\ \E k \in DOMAIN UpdatesOf(rs) : x = UpdatesMade(rs, deltas)[k]
  <2>1. PICK k \in DOMAIN UpdatesOf(rs) : x = UpdatesMade(rs, deltas)[k]
    BY <1>8
  <2> DEFINE r == UpdatesOf(rs)[k]
             at == Len(CreatesOf(rs)) + Len(RecoversOf(rs)) + k
  <2>2. r \in Requests
    BY <1>3
  <2>3. IsMadeOf(x, "update", r) /\ x.delta = DeltaAt(DeltasRead(rs), at, r.did)
    BY <1>8, <2>1, MadeUpdate
  <2>4. /\ IsMultihash(r.suffix) /\ IsMultihash(r.reveal)
        /\ ProofIsValid(r.proof)
        /\ DeltaIsValidAndSmall(DeltaAt(DeltasRead(rs), at, r.did))
    BY <1>8, UpdatesAreValid
  <2> HIDE DEF r, at
  <2> QED
    BY <1>4, <2>2, <2>3, <2>4 DEF Parses, ParsesAsUpdate, ParsesWithKey, IsMadeOf,
       RevealsKey, IsMultihash, DeltaIsValidAndSmall
<1> QED BY <1>2, <1>5, <1>6, <1>7, <1>8

-----------------------------------------------------------------------------
(* One operation of a DID                                                  *)

\* The DIDs of the requests in s, one after the other.
DidsAre(s, dids) ==
  /\ IsSequence(s) /\ IsSequence(dids)
  /\ Len(s) = Len(dids) /\ \A i \in DOMAIN s : s[i].did = dids[i]

LEMMA DidsConcatenated ==
  ASSUME NEW s, NEW t, NEW d, NEW e, DidsAre(s, d), DidsAre(t, e)
  PROVE  DidsAre(s \o t, d \o e)
<1>1. PICK S, T, D, E : s \in Seq(S) /\ t \in Seq(T) /\ d \in Seq(D) /\ e \in Seq(E)
  BY DEF DidsAre, IsSequence
<1>2. /\ Len(s) \in Nat /\ Len(t) \in Nat /\ Len(d) = Len(s) /\ Len(e) = Len(t)
      /\ DOMAIN s = 1 .. Len(s) /\ DOMAIN t = 1 .. Len(t)
      /\ DOMAIN (s \o t) = 1 .. Len(s) + Len(t) /\ DOMAIN (d \o e) = 1 .. Len(s) + Len(t)
  <2>1. Len(s) = Len(d) /\ Len(t) = Len(e)
    BY DEF DidsAre
  <2>2. /\ Len(s) \in Nat /\ DOMAIN s = 1 .. Len(s) /\ Len(t) \in Nat /\ DOMAIN t = 1 .. Len(t)
        /\ Len(d) \in Nat /\ DOMAIN d = 1 .. Len(d) /\ Len(e) \in Nat /\ DOMAIN e = 1 .. Len(e)
    BY <1>1
  <2>3. DOMAIN (s \o t) = 1 .. Len(s) + Len(t)
    BY <1>1
  <2>4. DOMAIN (d \o e) = 1 .. Len(d) + Len(e)
    BY <1>1
  <2> QED BY <2>1, <2>2, <2>3, <2>4
<1>3. ASSUME NEW i \in DOMAIN (s \o t)
      PROVE  (s \o t)[i].did = (d \o e)[i]
  <2>1. CASE i <= Len(s)
    <3>1. i \in DOMAIN s /\ (s \o t)[i] = s[i] /\ (d \o e)[i] = d[i]
      BY <1>1, <1>2, <2>1
    <3> QED BY <3>1 DEF DidsAre
  <2>2. CASE i > Len(s)
    <3>1. /\ i - Len(s) \in DOMAIN t /\ (s \o t)[i] = t[i - Len(s)]
          /\ (d \o e)[i] = e[i - Len(s)]
      BY <1>1, <1>2, <2>2
    <3> QED BY <3>1 DEF DidsAre
  <2> QED BY <1>2, <2>1, <2>2
<1>4. IsSequence(s \o t) /\ IsSequence(d \o e) /\ Len(s \o t) = Len(d \o e)
  BY Concatenated DEF DidsAre
<1> QED BY <1>3, <1>4 DEF DidsAre

NoneTwice(s) == \A i, j \in DOMAIN s : s[i] = s[j] => i = j

LEMMA NoneTwiceConcatenated ==
  ASSUME NEW s, NEW t, IsSequence(s), IsSequence(t), NoneTwice(s), NoneTwice(t),
         \A i \in DOMAIN s : \A j \in DOMAIN t : s[i] # t[j]
  PROVE  NoneTwice(s \o t)
<1>1. PICK S, T : s \in Seq(S) /\ t \in Seq(T)
  BY DEF IsSequence
<1>2. /\ Len(s) \in Nat /\ Len(t) \in Nat
      /\ DOMAIN s = 1 .. Len(s) /\ DOMAIN t = 1 .. Len(t)
      /\ DOMAIN (s \o t) = 1 .. Len(s) + Len(t)
  BY <1>1
<1>3. ASSUME NEW i \in DOMAIN (s \o t)
      PROVE  \/ i \in DOMAIN s /\ i <= Len(s) /\ (s \o t)[i] = s[i]
             \/ i - Len(s) \in DOMAIN t /\ i > Len(s) /\ (s \o t)[i] = t[i - Len(s)]
  BY <1>1, <1>2
<1>4. ASSUME NEW i \in DOMAIN (s \o t), NEW j \in DOMAIN (s \o t), (s \o t)[i] = (s \o t)[j]
      PROVE  i = j
  <2>1. i \in Int /\ j \in Int
    BY <1>2
  <2>2. CASE i \in DOMAIN s /\ i <= Len(s) /\ (s \o t)[i] = s[i]
    BY <1>3, <1>4, <2>2 DEF NoneTwice
  <2>3. CASE i - Len(s) \in DOMAIN t /\ i > Len(s) /\ (s \o t)[i] = t[i - Len(s)]
    <3>1. j - Len(s) \in DOMAIN t /\ (s \o t)[j] = t[j - Len(s)]
      BY <1>3, <1>4, <2>3
    <3>2. i - Len(s) = j - Len(s)
      BY <1>4, <2>3, <3>1 DEF NoneTwice
    <3> QED BY <1>2, <2>1, <3>2
  <2> QED BY <1>3, <2>2, <2>3
<1> QED BY <1>4 DEF NoneTwice

LEMMA DomainsMade ==
  ASSUME NEW rs, NEW deltas
  PROVE  /\ DOMAIN CreatesMade(rs, deltas) = DOMAIN CreatesOf(rs)
         /\ DOMAIN RecoversMade(rs, deltas) = DOMAIN RecoversOf(rs)
         /\ DOMAIN DeactivatesMade(rs) = DOMAIN DeactivatesOf(rs)
         /\ DOMAIN UpdatesMade(rs, deltas) = DOMAIN UpdatesOf(rs)
BY DEF CreatesMade, RecoversMade, DeactivatesMade, UpdatesMade

LEMMA DidsOfReferences ==
  ASSUME NEW rs \in Seq(Requests), NEW s \in Seq(Requests), NEW refs,
         refs = References(s) \/ refs = CreateReferences(s)
  PROVE  /\ IsSequence(DidsOf(refs)) /\ Len(DidsOf(refs)) = Len(s)
         /\ DOMAIN DidsOf(refs) = DOMAIN s
         /\ \A k \in DOMAIN s : DidsOf(refs)[k] = s[k].did
<1> DEFINE D == DidsOf(refs)
           n == Len(s)
           T == {s[k].did : k \in DOMAIN s}
<1>1. n \in Nat /\ DOMAIN s = 1 .. n
  OBVIOUS
<1>2. DOMAIN D = DOMAIN s /\ D = [k \in DOMAIN D |-> D[k]] /\ \A k \in DOMAIN s : D[k] = s[k].did
  BY DEF DidsOf, References, CreateReferences
<1> HIDE DEF D, n
<1>3. D \in [1 .. n -> T]
  BY <1>1, <1>2
<1> HIDE DEF T
<1>4. D \in Seq(T) /\ Len(D) = n
  BY <1>1, <1>3
<1> QED BY <1>2, <1>4 DEF IsSequence, D, n

\* What is stored is about the DIDs of the core index file, then those of the updates.
LEMMA StoredDids ==
  ASSUME NEW rs, NEW edit, NEW file, IsFileOf(file, rs, edit), NEW deltas
  PROVE  /\ DidsAre(CoreMade(rs, deltas), DidsOfCore(file))
         /\ DidsAre(UpdatesMade(rs, deltas), DidsOf(References(UpdatesOf(rs))))
<1>1. /\ CreatesOf(rs) \in Seq(Requests) /\ RecoversOf(rs) \in Seq(Requests)
      /\ DeactivatesOf(rs) \in Seq(Requests) /\ UpdatesOf(rs) \in Seq(Requests)
      /\ rs \in Seq(Requests)
  BY OfTypeIsSeq DEF IsFileOf
<1>2. /\ file.create = CreateReferences(CreatesOf(rs))
      /\ file.recover = References(RecoversOf(rs))
      /\ file.deactivate = References(DeactivatesOf(rs))
  BY EditedFileIs DEF IsFileOf
<1> DEFINE c == DidsOf(file.create)
           r == DidsOf(file.recover)
           d == DidsOf(file.deactivate)
<1>3. DidsAre(CreatesMade(rs, deltas), c)
  <2>1. \A k \in DOMAIN CreatesMade(rs, deltas) :
          k \in DOMAIN CreatesOf(rs) /\ CreatesMade(rs, deltas)[k].did = CreatesOf(rs)[k].did
    BY DomainsMade, MadeCreate
  <2> HIDE DEF c
  <2> QED BY <1>1, <1>2, <2>1, MadeAreSequences, DidsOfReferences DEF DidsAre, c
<1>4. DidsAre(RecoversMade(rs, deltas), r)
  <2>1. \A k \in DOMAIN RecoversMade(rs, deltas) :
          k \in DOMAIN RecoversOf(rs) /\ RecoversMade(rs, deltas)[k].did = RecoversOf(rs)[k].did
    <3>1. DOMAIN RecoversMade(rs, deltas) = DOMAIN RecoversOf(rs)
      BY DomainsMade
    <3>2. ASSUME NEW k \in DOMAIN RecoversOf(rs)
          PROVE  IsMadeOf(RecoversMade(rs, deltas)[k], "recover", RecoversOf(rs)[k])
      BY MadeRecover
    <3> QED BY <3>1, <3>2 DEF IsMadeOf
  <2> HIDE DEF r
  <2> QED BY <1>1, <1>2, <2>1, MadeAreSequences, DidsOfReferences DEF DidsAre, r
<1>5. DidsAre(DeactivatesMade(rs), d)
  <2>1. \A k \in DOMAIN DeactivatesMade(rs) :
          k \in DOMAIN DeactivatesOf(rs) /\ DeactivatesMade(rs)[k].did = DeactivatesOf(rs)[k].did
    BY DomainsMade, MadeDeactivate DEF IsMadeOf
  <2> HIDE DEF d
  <2> QED BY <1>1, <1>2, <2>1, MadeAreSequences, DidsOfReferences DEF DidsAre, d
<1>6. DidsAre(UpdatesMade(rs, deltas), DidsOf(References(UpdatesOf(rs))))
  <2>1. \A k \in DOMAIN UpdatesMade(rs, deltas) :
          k \in DOMAIN UpdatesOf(rs) /\ UpdatesMade(rs, deltas)[k].did = UpdatesOf(rs)[k].did
    <3>1. DOMAIN UpdatesMade(rs, deltas) = DOMAIN UpdatesOf(rs)
      BY DomainsMade
    <3>2. ASSUME NEW k \in DOMAIN UpdatesOf(rs)
          PROVE  IsMadeOf(UpdatesMade(rs, deltas)[k], "update", UpdatesOf(rs)[k])
      BY MadeUpdate
    <3> QED BY <3>1, <3>2 DEF IsMadeOf
  <2> QED BY <1>1, <2>1, MadeAreSequences, DidsOfReferences DEF DidsAre
<1>7. DidsOfCore(file) = c \o (r \o d)
  <2>1. PICK S, T, U : c \in Seq(S) /\ r \in Seq(T) /\ d \in Seq(U)
    BY <1>3, <1>4, <1>5 DEF DidsAre, IsSequence
  <2>2. DidsOfCore(file) = (c \o r) \o d
    BY DEF DidsOfCore
  <2> HIDE DEF c, r, d
  <2>3. /\ c \in Seq(S \cup T \cup U) /\ r \in Seq(S \cup T \cup U) /\ d \in Seq(S \cup T \cup U)
    BY <2>1
  <2>4. (c \o r) \o d = c \o (r \o d)
    BY <2>3, ConcatAssociative
  <2> QED BY <2>2, <2>4
<1> HIDE DEF c, r, d
<1>8. DidsAre(CoreMade(rs, deltas), c \o (r \o d))
  <2>1. DidsAre(RecoversMade(rs, deltas) \o DeactivatesMade(rs), r \o d)
    BY <1>4, <1>5, DidsConcatenated
  <2> QED BY <1>3, <2>1, DidsConcatenated DEF CoreMade
<1> QED BY <1>6, <1>7, <1>8

LEMMA StoredOnce ==
  ASSUME NEW rs, NEW edit, NEW file, IsFileOf(file, rs, edit), CoreFilesAreValid(file)
  PROVE  \A i, j \in DOMAIN StoredOf(rs, UsedIndex(file)) :
           StoredOf(rs, UsedIndex(file))[i].did = StoredOf(rs, UsedIndex(file))[j].did
             => i = j
<1> DEFINE used == UsedIndex(file)
           c == DidsOfCore(file)
           u == DidsOf(References(UpdatesOf(rs)))
<1>1. NoneTwice(c)
  BY DEF CoreFilesAreValid, CoreIndexParses, CoreReferencesAreValid,
         IsInjective, NoneTwice
<1>2. ASSUME NEW s, NEW d, DidsAre(s, d), NoneTwice(d)
      PROVE  \A i, j \in DOMAIN s : s[i].did = s[j].did => i = j
  <2>1. PICK S, D : s \in Seq(S) /\ d \in Seq(D) /\ Len(s) = Len(d)
    BY <1>2 DEF DidsAre, IsSequence
  <2>2. DOMAIN s = DOMAIN d
    BY <2>1
  <2> QED BY <1>2, <2>2 DEF DidsAre, NoneTwice
<1>3. CASE used = {}
  <2>1. StoredOf(rs, used) = CoreMade(rs, << >>)
    BY <1>3 DEF StoredOf
  <2>2. DidsAre(CoreMade(rs, << >>), c)
    BY StoredDids
  <2> HIDE DEF c, used
  <2> QED BY <1>1, <1>2, <2>1, <2>2 DEF used
<1>4. CASE used # {}
  <2>1. StoredOf(rs, used) = CoreMade(rs, DeltasRead(rs)) \o UpdatesMade(rs, DeltasRead(rs))
    BY <1>4 DEF StoredOf
  <2>2. DidsAre(CoreMade(rs, DeltasRead(rs)), c) /\ DidsAre(UpdatesMade(rs, DeltasRead(rs)), u)
    BY StoredDids
  <2>3. PICK index \in used : ProvisionalIndexParses(file, index)
                                /\ index.update = References(UpdatesOf(rs))
    BY <1>4, UsedIndexIs
  <2>4. NoneTwice(u) /\ \A i \in DOMAIN c : \A j \in DOMAIN u : c[i] # u[j]
    BY <2>3 DEF ProvisionalIndexParses, IsInjective, NoneTwice, Range
  <2> HIDE DEF c, u, used
  <2>5. NoneTwice(c \o u)
    BY <1>1, <2>2, <2>4, NoneTwiceConcatenated DEF DidsAre
  <2>6. DidsAre(StoredOf(rs, used), c \o u)
    BY <2>1, <2>2, DidsConcatenated
  <2> QED BY <1>2, <2>5, <2>6 DEF used
<1> QED BY <1>3, <1>4

-----------------------------------------------------------------------------
(* A batch of accepted requests                                            *)

\* What the queue holds: requests that were accepted, about different DIDs.
OwnBatch(rs) ==
  /\ rs \in Seq(Requests)
  /\ \A i \in DOMAIN rs : /\ Parses(rs[i])
                          /\ rs[i].type # "deactivate" => DeltaIsValidAndSmall(rs[i].delta)
  /\ \A i, j \in DOMAIN rs : rs[i].did = rs[j].did => i = j

OnlyMultihashes(rs) == \A i \in DOMAIN rs : rs[i].suffix = "multihash"

\* A request as its controller made it.
IsGood(r, t) ==
  /\ r = Request(t, r.did) /\ r.type = t
  /\ t # "create" => IsMultihash(r.reveal)

LEMMA GoodHas ==
  ASSUME NEW r, NEW t, IsGood(r, t)
  PROVE  /\ r.suffix = "multihash" /\ r.suffixData = "good" /\ r.reveal = r.did
         /\ r.proof.key = r.did /\ r.proof.did = r.did /\ r.proof.is = "good"
         /\ r.delta.of = r.did /\ r.delta.is = "good"
         /\ r.delta = [of |-> r.did, is |-> "good"]
<1>1. r = Request(t, r.did)
  BY DEF IsGood
<1> DEFINE did == r.did
<1>2. r = Request(t, did)
  BY <1>1
<1> HIDE DEF did
<1>3. /\ r.suffix = "multihash" /\ r.suffixData = "good" /\ r.reveal = did
      /\ r.proof = [key |-> did, did |-> did, is |-> "good"]
      /\ r.delta = [of |-> did, is |-> "good"]
  BY <1>2 DEF Request
<1> QED BY <1>3 DEF did

LEMMA GoodOfType ==
  ASSUME NEW rs, OwnBatch(rs), OnlyMultihashes(rs), NEW t \in RequestTypes,
         NEW k \in DOMAIN RequestsOfType(t, rs)
  PROVE  IsGood(RequestsOfType(t, rs)[k], t)
<1>1. rs \in Seq(Requests)
  BY DEF OwnBatch
<1>2. PICK place : ArePlaces(place, RequestsOfType(t, rs), rs, t)
  BY <1>1, OfOneTypeIs
<1> DEFINE r == RequestsOfType(t, rs)[k]
           i == place[k]
<1>3. i \in DOMAIN rs /\ r = rs[i] /\ r.type = t
  BY <1>2 DEF ArePlaces
<1> HIDE DEF r, i
<1>4. /\ r \in Requests /\ Parses(r) /\ r.suffix = "multihash"
      /\ r.type # "deactivate" => DeltaIsValidAndSmall(r.delta)
  BY <1>1, <1>3 DEF OwnBatch, OnlyMultihashes
<1>5. r = Request(r.type, r.did)
  BY <1>4, AcceptedIsGood
<1>6. t # "create" => IsMultihash(r.reveal)
  BY <1>3, <1>4 DEF Parses, ParsesAsUpdate, ParsesAsRecover,
     ParsesAsDeactivate, ParsesWithKey, RequestTypes
<1> QED BY <1>3, <1>5, <1>6 DEF IsGood, r

\* Requests of one type, or of two, are about different DIDs.
LEMMA DidsOfType ==
  ASSUME NEW rs, OwnBatch(rs), NEW t, NEW u,
         NEW k \in DOMAIN RequestsOfType(t, rs), NEW l \in DOMAIN RequestsOfType(u, rs),
         RequestsOfType(t, rs)[k].did = RequestsOfType(u, rs)[l].did
  PROVE  t = u /\ k = l
<1>1. PICK place : ArePlaces(place, RequestsOfType(t, rs), rs, t)
  BY OfOneTypeIs DEF OwnBatch
<1>2. PICK where : ArePlaces(where, RequestsOfType(u, rs), rs, u)
  BY OfOneTypeIs DEF OwnBatch
<1>3. place[k] = where[l]
  BY <1>1, <1>2 DEF ArePlaces, OwnBatch
<1>4. t = u
  BY <1>1, <1>2, <1>3 DEF ArePlaces
<1>5. RequestsOfType(t, rs)[l] = rs[where[l]] /\ l \in DOMAIN RequestsOfType(t, rs)
  BY <1>2, <1>4 DEF ArePlaces
<1>6. rs[place[l]].did = rs[place[k]].did
  BY <1>1, <1>2, <1>3, <1>5 DEF ArePlaces
<1>7. place[l] = place[k]
  BY <1>1, <1>5, <1>6 DEF ArePlaces, OwnBatch
<1> QED BY <1>1, <1>4, <1>5, <1>7 DEF ArePlaces

\* The batch of accepted requests, whose DIDs are multihashes.
LEMMA OwnRequests ==
  ASSUME NEW rs, OwnBatch(rs), OnlyMultihashes(rs)
  PROVE  /\ CreatesOf(rs) \in Seq(Requests) /\ RecoversOf(rs) \in Seq(Requests)
         /\ DeactivatesOf(rs) \in Seq(Requests) /\ UpdatesOf(rs) \in Seq(Requests)
         /\ \A k \in DOMAIN CreatesOf(rs) : IsGood(CreatesOf(rs)[k], "create")
         /\ \A k \in DOMAIN RecoversOf(rs) : IsGood(RecoversOf(rs)[k], "recover")
         /\ \A k \in DOMAIN DeactivatesOf(rs) : IsGood(DeactivatesOf(rs)[k], "deactivate")
         /\ \A k \in DOMAIN UpdatesOf(rs) : IsGood(UpdatesOf(rs)[k], "update")
BY OfTypeIsSeq, GoodOfType
   DEF OwnBatch, CreatesOf, RecoversOf, DeactivatesOf, UpdatesOf, RequestTypes

LEMMA GoodReferences ==
  ASSUME NEW s \in Seq(Requests), NEW t, t # "create", \A k \in DOMAIN s : IsGood(s[k], t)
  PROVE  \A k \in DOMAIN References(s) : ReferenceIsValid(References(s)[k])
<1> SUFFICES ASSUME NEW k \in DOMAIN References(s)
             PROVE  ReferenceIsValid(References(s)[k])
  OBVIOUS
<1>1. /\ k \in DOMAIN s /\ References(s)[k].suffix = s[k].suffix
      /\ References(s)[k].reveal = s[k].reveal
  BY DEF References
<1>2. s[k].suffix = "multihash" /\ IsMultihash(s[k].reveal)
  BY <1>1, GoodHas DEF IsGood
<1> QED BY <1>1, <1>2 DEF ReferenceIsValid, IsMultihash

LEMMA GoodProofs ==
  ASSUME NEW s, NEW t, \A k \in DOMAIN s : IsGood(s[k], t), NEW k \in DOMAIN Proofs(s)
  PROVE  /\ ProofIsValid(Proofs(s)[k])
         /\ Proofs(s)[k].did = s[k].did
<1>1. k \in DOMAIN s /\ Proofs(s)[k] = s[k].proof
  BY DEF Proofs
<1>2. s[k].proof.is = "good" /\ s[k].proof.did = s[k].did
  BY <1>1, GoodHas
<1> QED
  BY <1>1, <1>2 DEF ProofIsValid, IsJws, IsEs256kKey

LEMMA OwnDidsDiffer ==
  ASSUME NEW rs, OwnBatch(rs), NEW file, file = CoreIndexFile(rs)
  PROVE  LET u == DidsOf(References(UpdatesOf(rs))) IN
         /\ NoneTwice(DidsOfCore(file)) /\ NoneTwice(u)
         /\ \A i \in DOMAIN DidsOfCore(file) : \A j \in DOMAIN u : DidsOfCore(file)[i] # u[j]
<1>1. rs \in Seq(Requests)
  BY DEF OwnBatch
<1>2. /\ CreatesOf(rs) \in Seq(Requests) /\ RecoversOf(rs) \in Seq(Requests)
      /\ DeactivatesOf(rs) \in Seq(Requests) /\ UpdatesOf(rs) \in Seq(Requests)
  BY <1>1, OfTypeIsSeq
<1> DEFINE c == DidsOf(CreateReferences(CreatesOf(rs)))
           r == DidsOf(References(RecoversOf(rs)))
           d == DidsOf(References(DeactivatesOf(rs)))
           u == DidsOf(References(UpdatesOf(rs)))
<1>3. DidsOfCore(file) = (c \o r) \o d
  BY DEF DidsOfCore, CoreIndexFile, CreatesOf, RecoversOf, DeactivatesOf
<1>4. /\ IsSequence(c) /\ DOMAIN c = DOMAIN CreatesOf(rs)
      /\ \A k \in DOMAIN c : c[k] = CreatesOf(rs)[k].did
  BY <1>1, <1>2, DidsOfReferences
<1>5. /\ IsSequence(r) /\ DOMAIN r = DOMAIN RecoversOf(rs)
      /\ \A k \in DOMAIN r : r[k] = RecoversOf(rs)[k].did
  BY <1>1, <1>2, DidsOfReferences
<1>6. /\ IsSequence(d) /\ DOMAIN d = DOMAIN DeactivatesOf(rs)
      /\ \A k \in DOMAIN d : d[k] = DeactivatesOf(rs)[k].did
  BY <1>1, <1>2, DidsOfReferences
<1>7. /\ IsSequence(u) /\ DOMAIN u = DOMAIN UpdatesOf(rs)
      /\ \A k \in DOMAIN u : u[k] = UpdatesOf(rs)[k].did
  BY <1>1, <1>2, DidsOfReferences
<1> HIDE DEF c, r, d, u
<1>8. NoneTwice(c) /\ NoneTwice(r) /\ NoneTwice(d) /\ NoneTwice(u)
  BY <1>4, <1>5, <1>6, <1>7, DidsOfType
     DEF NoneTwice, CreatesOf, RecoversOf, DeactivatesOf, UpdatesOf
<1>9. /\ \A i \in DOMAIN c : \A j \in DOMAIN r : c[i] # r[j]
      /\ \A i \in DOMAIN c : \A j \in DOMAIN d : c[i] # d[j]
      /\ \A i \in DOMAIN c : \A j \in DOMAIN u : c[i] # u[j]
      /\ \A i \in DOMAIN r : \A j \in DOMAIN d : r[i] # d[j]
      /\ \A i \in DOMAIN r : \A j \in DOMAIN u : r[i] # u[j]
      /\ \A i \in DOMAIN d : \A j \in DOMAIN u : d[i] # u[j]
  BY <1>4, <1>5, <1>6, <1>7, DidsOfType DEF CreatesOf, RecoversOf, DeactivatesOf, UpdatesOf
<1>10. NoneTwice(c \o r) /\ IsSequence(c \o r)
  BY <1>4, <1>5, <1>8, <1>9, NoneTwiceConcatenated, Concatenated
<1>11. ASSUME NEW s, NEW t, NEW v, IsSequence(s), IsSequence(t),
              \A i \in DOMAIN s : \A j \in DOMAIN v : s[i] # v[j],
              \A i \in DOMAIN t : \A j \in DOMAIN v : t[i] # v[j]
       PROVE  \A i \in DOMAIN (s \o t) : \A j \in DOMAIN v : (s \o t)[i] # v[j]
  <2>1. \A x : IsIn(x, s \o t) => IsIn(x, s) \/ IsIn(x, t)
    BY <1>11, Concatenated
  <2>2. \A i \in DOMAIN (s \o t) : IsIn((s \o t)[i], s) \/ IsIn((s \o t)[i], t)
    BY <2>1 DEF IsIn
  <2> QED BY <1>11, <2>2 DEF IsIn
<1> DEFINE v == c \o r
<1>12. \A i \in DOMAIN v : \A j \in DOMAIN d : v[i] # d[j]
  BY <1>4, <1>5, <1>9, <1>11
<1>13. \A i \in DOMAIN v : \A j \in DOMAIN u : v[i] # u[j]
  BY <1>4, <1>5, <1>9, <1>11
<1>14. NoneTwice(v) /\ IsSequence(v)
  BY <1>10
<1> HIDE DEF v
<1>15. NoneTwice(v \o d)
  BY <1>6, <1>8, <1>12, <1>14, NoneTwiceConcatenated
<1>16. \A i \in DOMAIN (v \o d) : \A j \in DOMAIN u : (v \o d)[i] # u[j]
  BY <1>6, <1>9, <1>11, <1>13, <1>14
<1> QED BY <1>3, <1>8, <1>15, <1>16 DEF v, u

LEMMA OwnCoreIsValid ==
  ASSUME NEW rs, OwnBatch(rs), OnlyMultihashes(rs), NEW file, file = CoreIndexFile(rs)
  PROVE  CoreFilesAreValid(file)
<1>1. /\ CreatesOf(rs) \in Seq(Requests) /\ RecoversOf(rs) \in Seq(Requests)
      /\ DeactivatesOf(rs) \in Seq(Requests) /\ UpdatesOf(rs) \in Seq(Requests)
      /\ \A k \in DOMAIN CreatesOf(rs) : IsGood(CreatesOf(rs)[k], "create")
      /\ \A k \in DOMAIN RecoversOf(rs) : IsGood(RecoversOf(rs)[k], "recover")
      /\ \A k \in DOMAIN DeactivatesOf(rs) : IsGood(DeactivatesOf(rs)[k], "deactivate")
  BY OwnRequests
<1>2. /\ file.create = CreateReferences(CreatesOf(rs))
      /\ file.recover = References(RecoversOf(rs))
      /\ file.deactivate = References(DeactivatesOf(rs))
      /\ file.proof = CoreProofFile(RecoversOf(rs), DeactivatesOf(rs))
      /\ file.provisional = ProvisionalIndexFile(
             ChunkFile(CreatesOf(rs), RecoversOf(rs), UpdatesOf(rs)),
             ProvisionalProofFile(UpdatesOf(rs)), UpdatesOf(rs))
      /\ file.unknown = FALSE
  BY DEF CoreIndexFile, CreatesOf, RecoversOf, DeactivatesOf, UpdatesOf
<1>3. \A i \in DOMAIN file.create : SuffixDataIsValid(ReadCreates(file)[i].suffixData)
  <2> SUFFICES ASSUME NEW i \in DOMAIN file.create
               PROVE  ReadCreates(file)[i].suffixData = "good"
    BY DEF SuffixDataIsValid
  <2>1. i \in DOMAIN CreatesOf(rs) /\ file.create[i].suffixData = CreatesOf(rs)[i].suffixData
    BY <1>2 DEF CreateReferences
  <2>2. CreatesOf(rs)[i].suffixData = "good"
    BY <1>1, <2>1, GoodHas
  <2>3. file.create[i] = [did |-> file.create[i].did, suffixData |-> file.create[i].suffixData]
    BY <1>2, <2>1 DEF CreateReferences
  <2>4. ReadCreates(file)[i] = [file.create[i] EXCEPT !.suffixData = Unlisted(@)]
    BY DEF ReadCreates
  <2> QED BY <2>1, <2>2, <2>3, <2>4 DEF Unlisted
<1>4. /\ \A i \in DOMAIN file.recover : ReferenceIsValid(file.recover[i])
      /\ \A i \in DOMAIN file.deactivate : ReferenceIsValid(file.deactivate[i])
  BY <1>1, <1>2, GoodReferences
<1>5. IsInjective(DidsOfCore(file))
  BY OwnDidsDiffer DEF NoneTwice, IsInjective
<1>6. CoreReferencesAreValid(file)
  BY <1>2, <1>3, <1>4, <1>5 DEF CoreReferencesAreValid
<1>7. file.provisional = {} => file.create \o file.recover = << >>
  <2> SUFFICES ASSUME file.provisional = {}
               PROVE  file.create \o file.recover = << >>
    OBVIOUS
  <2>1. ChunkFile(CreatesOf(rs), RecoversOf(rs), UpdatesOf(rs)) = {}
    BY <1>2 DEF ProvisionalIndexFile
  <2>2. CreatesOf(rs) \o RecoversOf(rs) \o UpdatesOf(rs) = << >>
    BY <2>1 DEF ChunkFile
  <2>3. CreatesOf(rs) = << >> /\ RecoversOf(rs) = << >>
    BY <1>1, <2>2
  <2>4. file.create = << >>
    BY <1>2, <2>3 DEF CreateReferences
  <2>5. file.recover = << >>
    BY <1>2, <2>3 DEF References
  <2> QED BY <2>4, <2>5
<1>8. file.proof = {} <=> file.recover \o file.deactivate = << >>
  <2>1. file.recover \o file.deactivate = << >> <=> RecoversOf(rs) \o DeactivatesOf(rs) = << >>
    BY <1>1, <1>2, NoReferences
  <2>2. file.proof = {} <=> RecoversOf(rs) \o DeactivatesOf(rs) = << >>
    BY <1>2 DEF CoreProofFile
  <2> QED BY <2>1, <2>2
<1>9. ASSUME NEW proofs \in file.proof
      PROVE  CoreProofParses(file, proofs)
  <2> DEFINE p == [recover |-> Proofs(RecoversOf(rs)),
                   deactivate |-> Proofs(DeactivatesOf(rs))]
  <2>1. proofs = p /\ RecoversOf(rs) \o DeactivatesOf(rs) # << >>
    BY <1>2 DEF CoreProofFile
  <2>2. /\ proofs.recover = Proofs(RecoversOf(rs))
        /\ proofs.deactivate = Proofs(DeactivatesOf(rs))
    BY <2>1
  <2>3. \A i \in DOMAIN proofs.recover : ProofIsValid(proofs.recover[i])
    BY <1>1, <2>2, GoodProofs
  <2>4. \A i \in DOMAIN proofs.deactivate :
          i \in DOMAIN file.deactivate
            /\ DeactivateProofIsValid(proofs.deactivate[i], file.deactivate[i].did)
    <3> SUFFICES ASSUME NEW i \in DOMAIN proofs.deactivate
                 PROVE  i \in DOMAIN file.deactivate
                    /\ DeactivateProofIsValid(proofs.deactivate[i], file.deactivate[i].did)
      OBVIOUS
    <3>1. i \in DOMAIN DeactivatesOf(rs)
      BY <2>2 DEF Proofs
    <3>2. i \in DOMAIN file.deactivate /\ file.deactivate[i].did = DeactivatesOf(rs)[i].did
      BY <1>2, <3>1 DEF References
    <3>3. /\ ProofIsValid(proofs.deactivate[i])
          /\ proofs.deactivate[i].did = DeactivatesOf(rs)[i].did
      BY <1>1, <2>2, GoodProofs
    <3> QED BY <3>2, <3>3 DEF DeactivateProofIsValid
  <2>5. /\ Len(proofs.recover) = Len(RecoversOf(rs))
        /\ Len(proofs.deactivate) = Len(DeactivatesOf(rs))
        /\ Len(file.recover) = Len(RecoversOf(rs))
        /\ Len(file.deactivate) = Len(DeactivatesOf(rs))
    BY <1>1, <1>2, <2>2, AsManyAsRequests
  <2>6. Len(RecoversOf(rs)) + Len(DeactivatesOf(rs)) > 0
    BY <1>1, <2>1
  <2> HIDE DEF p
  <2> QED BY <2>3, <2>4, <2>5, <2>6 DEF CoreProofParses
<1> QED
  BY <1>6, <1>7, <1>8, <1>9 DEF CoreFilesAreValid, CoreIndexParses

LEMMA GoodDeltas ==
  ASSUME NEW rs, OwnBatch(rs), OnlyMultihashes(rs)
  PROVE  LET all == CreatesOf(rs) \o RecoversOf(rs) \o UpdatesOf(rs) IN
         /\ IsSequence(all)
         /\ Len(all) = Len(CreatesOf(rs)) + Len(RecoversOf(rs)) + Len(UpdatesOf(rs))
         /\ \A i \in DOMAIN all : all[i].delta = [of |-> all[i].did, is |-> "good"]
<1>1. /\ CreatesOf(rs) \in Seq(Requests) /\ RecoversOf(rs) \in Seq(Requests)
      /\ UpdatesOf(rs) \in Seq(Requests)
      /\ \A k \in DOMAIN CreatesOf(rs) : IsGood(CreatesOf(rs)[k], "create")
      /\ \A k \in DOMAIN RecoversOf(rs) : IsGood(RecoversOf(rs)[k], "recover")
      /\ \A k \in DOMAIN UpdatesOf(rs) : IsGood(UpdatesOf(rs)[k], "update")
  BY OwnRequests
<1> DEFINE C == CreatesOf(rs)
           R == RecoversOf(rs)
           U == UpdatesOf(rs)
<1>2. IsSequence(C) /\ IsSequence(R) /\ IsSequence(U)
  BY <1>1 DEF IsSequence
<1>3. ASSUME NEW x, IsIn(x, C) \/ IsIn(x, R) \/ IsIn(x, U)
      PROVE  x.delta = [of |-> x.did, is |-> "good"]
  <2>1. IsGood(x, "create") \/ IsGood(x, "recover") \/ IsGood(x, "update")
    BY <1>1, <1>3 DEF IsIn
  <2> QED BY <2>1, GoodHas
<1> HIDE DEF C, R, U
<1> DEFINE v == C \o R
<1>4. /\ IsSequence(v) /\ Len(v) = Len(C) + Len(R)
      /\ \A x : IsIn(x, v) <=> IsIn(x, C) \/ IsIn(x, R)
  BY <1>2, Concatenated
<1> HIDE DEF v
<1>5. /\ IsSequence(v \o U) /\ Len(v \o U) = Len(v) + Len(U)
      /\ \A x : IsIn(x, v \o U) <=> IsIn(x, v) \/ IsIn(x, U)
  BY <1>2, <1>4, Concatenated
<1>6. \A i \in DOMAIN (v \o U) : (v \o U)[i].delta = [of |-> (v \o U)[i].did, is |-> "good"]
  <2> SUFFICES ASSUME NEW i \in DOMAIN (v \o U)
               PROVE  (v \o U)[i].delta = [of |-> (v \o U)[i].did, is |-> "good"]
    OBVIOUS
  <2>1. IsIn((v \o U)[i], v \o U)
    BY DEF IsIn
  <2> QED BY <1>3, <1>4, <1>5, <2>1
<1> QED BY <1>4, <1>5, <1>6 DEF v, C, R, U

LEMMA OwnProvisionalIsValid ==
  ASSUME NEW rs, OwnBatch(rs), OnlyMultihashes(rs), NEW file, file = CoreIndexFile(rs)
  PROVE  /\ ProvisionalFilesAreValid(file)
         /\ file.provisional = {} => CreatesOf(rs) \o RecoversOf(rs) \o UpdatesOf(rs) = << >>
<1>1. /\ CreatesOf(rs) \in Seq(Requests) /\ RecoversOf(rs) \in Seq(Requests)
      /\ UpdatesOf(rs) \in Seq(Requests)
      /\ \A k \in DOMAIN UpdatesOf(rs) : IsGood(UpdatesOf(rs)[k], "update")
  BY OwnRequests
<1> DEFINE all == CreatesOf(rs) \o RecoversOf(rs) \o UpdatesOf(rs)
<1>2. /\ file.create = CreateReferences(CreatesOf(rs))
      /\ file.recover = References(RecoversOf(rs))
      /\ file.provisional = ProvisionalIndexFile(
             ChunkFile(CreatesOf(rs), RecoversOf(rs), UpdatesOf(rs)),
             ProvisionalProofFile(UpdatesOf(rs)), UpdatesOf(rs))
  BY DEF CoreIndexFile, CreatesOf, RecoversOf, DeactivatesOf, UpdatesOf
<1>3. file.provisional = {} => all = << >>
  BY <1>2 DEF ProvisionalIndexFile, ChunkFile
<1>4. ASSUME NEW index \in file.provisional
      PROVE  /\ ProvisionalIndexParses(file, index)
             /\ \A proofs \in index.proof : ProvisionalProofParses(index, proofs)
             /\ ChunkParses(file, index)
  <2>1. /\ index.chunk = DeltasOf(all) /\ index.unknown = FALSE
        /\ index.update = References(UpdatesOf(rs))
        /\ index.proof = ProvisionalProofFile(UpdatesOf(rs))
    <3> DEFINE deltas == DeltasOf(all)
               proofs == ProvisionalProofFile(UpdatesOf(rs))
               update == References(UpdatesOf(rs))
               only == [chunk |-> deltas, proof |-> proofs, update |-> update, unknown |-> FALSE]
    <3>1. ChunkFile(CreatesOf(rs), RecoversOf(rs), UpdatesOf(rs)) \subseteq {deltas}
      BY DEF ChunkFile
    <3>2. file.provisional \subseteq {only}
      <4> HIDE DEF deltas, proofs
      <4> QED BY <1>2, <3>1 DEF ProvisionalIndexFile, proofs
    <3>3. index = only
      <4> HIDE DEF only
      <4> QED BY <3>2
    <3> HIDE DEF deltas, proofs, update
    <3> QED BY <3>3 DEF deltas, proofs, update
  <2>2. \A i \in DOMAIN index.update : ReferenceIsValid(index.update[i])
    BY <1>1, <2>1, GoodReferences
  <2>3. NoneTwice(DidsOf(index.update))
    BY <2>1, OwnDidsDiffer
  <2>4. \A i \in DOMAIN DidsOfCore(file) : \A j \in DOMAIN DidsOf(index.update) :
          DidsOfCore(file)[i] # DidsOf(index.update)[j]
    BY <2>1, OwnDidsDiffer
  <2>5. index.proof = {} <=> index.update = << >>
    BY <1>1, <2>1, NoReferences DEF ProvisionalProofFile
  <2>6. ProvisionalIndexParses(file, index)
    BY <2>1, <2>2, <2>3, <2>4, <2>5
       DEF ProvisionalIndexParses, IsInjective, Range, NoneTwice
  <2>7. ASSUME NEW proofs \in index.proof
        PROVE  ProvisionalProofParses(index, proofs)
    <3>1. proofs = Proofs(UpdatesOf(rs)) /\ UpdatesOf(rs) # << >>
      BY <2>1 DEF ProvisionalProofFile
    <3>2. \A i \in DOMAIN proofs : ProofIsValid(proofs[i])
      BY <1>1, <3>1, GoodProofs
    <3>3. /\ Len(proofs) = Len(UpdatesOf(rs)) /\ Len(index.update) = Len(UpdatesOf(rs))
      BY <1>1, <2>1, <3>1, AsManyAsRequests
    <3>4. Len(UpdatesOf(rs)) > 0
      BY <1>1, <3>1
    <3> QED BY <3>2, <3>3, <3>4 DEF ProvisionalProofParses
  <2>8. ChunkParses(file, index)
    <3>1. /\ IsSequence(all)
          /\ Len(all) = Len(CreatesOf(rs)) + Len(RecoversOf(rs)) + Len(UpdatesOf(rs))
          /\ \A i \in DOMAIN all : all[i].delta = [of |-> all[i].did, is |-> "good"]
      BY GoodDeltas
    <3>2. DOMAIN index.chunk = DOMAIN all /\ \A i \in DOMAIN all : index.chunk[i] = all[i].delta
      BY <2>1 DEF DeltasOf
    <3>3. Len(index.chunk) = Len(all)
      <4> HIDE DEF all
      <4>1. PICK S : all \in Seq(S)
        BY <3>1 DEF IsSequence
      <4>2. DOMAIN index.chunk = 1 .. Len(all) /\ Len(all) \in Nat
        BY <3>2, <4>1
      <4> QED BY <4>2
    <3>4. ASSUME NEW i \in DOMAIN index.chunk
          PROVE  DeltaIsValidAndSmall(ReadDeltas(index.chunk)[i])
      <4> HIDE DEF all
      <4>1. index.chunk[i] = [of |-> all[i].did, is |-> "good"]
        BY <3>1, <3>2
      <4>2. ReadDeltas(index.chunk)[i] = [index.chunk[i] EXCEPT !.is = Unlisted(@)]
        BY DEF ReadDeltas
      <4>3. ReadDeltas(index.chunk)[i].is = "good"
        BY <4>1, <4>2 DEF Unlisted
      <4> QED BY <4>3 DEF DeltaIsValidAndSmall, DeltaIsValid
    <3>5. /\ Len(index.update) = Len(UpdatesOf(rs)) /\ Len(file.recover) = Len(RecoversOf(rs))
      BY <1>1, <1>2, <2>1, AsManyAsRequests
    <3>6. Len(file.create) = Len(CreatesOf(rs))
      BY <1>1, <1>2 DEF CreateReferences
    <3> HIDE DEF all
    <3> QED BY <3>1, <3>3, <3>4, <3>5, <3>6 DEF ChunkParses
  <2> QED BY <2>6, <2>7, <2>8
<1> QED BY <1>3, <1>4 DEF ProvisionalFilesAreValid

\* A delta read from the chunk file is that of the request at its place.
LEMMA OwnDeltaAt ==
  ASSUME NEW rs, OwnBatch(rs), OnlyMultihashes(rs), NEW i, NEW r, NEW did,
         i \in DOMAIN (CreatesOf(rs) \o RecoversOf(rs) \o UpdatesOf(rs)),
         (CreatesOf(rs) \o RecoversOf(rs) \o UpdatesOf(rs))[i] = r
  PROVE  DeltaAt(DeltasRead(rs), i, did) = [of |-> r.did, is |-> "good"]
<1> DEFINE all == CreatesOf(rs) \o RecoversOf(rs) \o UpdatesOf(rs)
<1>1. \A k \in DOMAIN all : all[k].delta = [of |-> all[k].did, is |-> "good"]
  BY GoodDeltas
<1>2. DeltasRead(rs) = ReadDeltas(DeltasOf(all)) /\ i \in DOMAIN all /\ all[i] = r
  BY DEF DeltasRead
<1> HIDE DEF all
<1>3. DeltasOf(all)[i] = [of |-> r.did, is |-> "good"] /\ i \in DOMAIN DeltasOf(all)
  BY <1>1, <1>2 DEF DeltasOf
<1>4. /\ i \in DOMAIN DeltasRead(rs)
      /\ DeltasRead(rs)[i] = [DeltasOf(all)[i] EXCEPT !.is = Unlisted(@)]
  BY <1>2, <1>3 DEF ReadDeltas
<1>5. DeltasRead(rs)[i] = [of |-> r.did, is |-> "good"]
  BY <1>3, <1>4 DEF Unlisted
<1> QED BY <1>4, <1>5 DEF DeltaAt

LEMMA MadeAgain ==
  ASSUME NEW r, NEW t, IsGood(r, t), NEW delta, delta = [of |-> r.did, is |-> "good"]
  PROVE  ComposedRequest(t, r, r.proof, delta) = r
<1> DEFINE did == r.did
           good == [of |-> did, is |-> "good"]
<1>1. r = Request(t, did)
  BY DEF IsGood
<1>2. ComposedRequest(t, r, r.proof, delta)
        = [Request(t, did) EXCEPT !.suffix = r.suffix, !.reveal = r.reveal,
                                         !.proof = r.proof, !.delta = good]
  BY DEF ComposedRequest
<1> HIDE DEF did
<1>3. /\ r.suffix = "multihash" /\ r.reveal = did
      /\ r.proof = [key |-> did, did |-> did, is |-> "good"]
  BY <1>1 DEF Request
<1> QED BY <1>1, <1>2, <1>3 DEF Request

LEMMA OwnMade ==
  ASSUME NEW rs, OwnBatch(rs), OnlyMultihashes(rs)
  PROVE  /\ CreatesMade(rs, DeltasRead(rs)) = CreatesOf(rs)
         /\ RecoversMade(rs, DeltasRead(rs)) = RecoversOf(rs)
         /\ DeactivatesMade(rs) = DeactivatesOf(rs)
         /\ UpdatesMade(rs, DeltasRead(rs)) = UpdatesOf(rs)
<1>1. /\ CreatesOf(rs) \in Seq(Requests) /\ RecoversOf(rs) \in Seq(Requests)
      /\ DeactivatesOf(rs) \in Seq(Requests) /\ UpdatesOf(rs) \in Seq(Requests)
      /\ \A k \in DOMAIN CreatesOf(rs) : IsGood(CreatesOf(rs)[k], "create")
      /\ \A k \in DOMAIN RecoversOf(rs) : IsGood(RecoversOf(rs)[k], "recover")
      /\ \A k \in DOMAIN DeactivatesOf(rs) : IsGood(DeactivatesOf(rs)[k], "deactivate")
      /\ \A k \in DOMAIN UpdatesOf(rs) : IsGood(UpdatesOf(rs)[k], "update")
  BY OwnRequests
<1>2. ASSUME NEW s \in Seq(Requests), NEW f, f = [k \in DOMAIN s |-> f[k]],
             \A k \in DOMAIN s : f[k] = s[k]
      PROVE  f = s
  BY <1>2
<1>3. ASSUME NEW k \in DOMAIN CreatesOf(rs)
      PROVE  CreatesMade(rs, DeltasRead(rs))[k] = CreatesOf(rs)[k]
  <2> DEFINE r == CreatesOf(rs)[k]
             did == r.did
             good == [of |-> did, is |-> "good"]
             delta == DeltaAt(DeltasRead(rs), k, did)
  <2>1. CreatesMade(rs, DeltasRead(rs))[k] =
          [Request("create", did) EXCEPT !.suffixData = Unlisted(r.suffixData),
                                                !.delta = delta]
    BY DEF CreatesMade
  <2>2. IsGood(r, "create")
    BY <1>1
  <2>3. /\ k \in DOMAIN (CreatesOf(rs) \o RecoversOf(rs) \o UpdatesOf(rs))
        /\ (CreatesOf(rs) \o RecoversOf(rs) \o UpdatesOf(rs))[k] = CreatesOf(rs)[k]
    BY <1>1
  <2>4. delta = good
    BY <2>3, OwnDeltaAt
  <2> HIDE DEF delta, r
  <2>5. r.suffixData = "good" /\ r = Request("create", did)
    BY <2>2, GoodHas DEF IsGood
  <2> HIDE DEF did
  <2>6. CreatesMade(rs, DeltasRead(rs))[k] = r
    BY <2>1, <2>4, <2>5 DEF Request, Unlisted
  <2> QED BY <2>6 DEF r
<1>4. ASSUME NEW k \in DOMAIN RecoversOf(rs)
      PROVE  RecoversMade(rs, DeltasRead(rs))[k] = RecoversOf(rs)[k]
  <2> DEFINE r == RecoversOf(rs)[k]
             at == Len(CreatesOf(rs)) + k
             delta == DeltaAt(DeltasRead(rs), at, r.did)
  <2>1. RecoversMade(rs, DeltasRead(rs))[k] = ComposedRequest("recover", r, r.proof, delta)
    BY DEF RecoversMade
  <2>2. IsGood(r, "recover")
    BY <1>1
  <2>3. /\ at \in DOMAIN (CreatesOf(rs) \o RecoversOf(rs) \o UpdatesOf(rs))
        /\ (CreatesOf(rs) \o RecoversOf(rs) \o UpdatesOf(rs))[at] = r
    BY <1>1
  <2> HIDE DEF at, r
  <2>4. delta = [of |-> r.did, is |-> "good"]
    BY <2>3, OwnDeltaAt
  <2> HIDE DEF delta
  <2>5. RecoversMade(rs, DeltasRead(rs))[k] = r
    BY <2>1, <2>2, <2>4, MadeAgain
  <2> QED BY <2>5 DEF r
<1>5. ASSUME NEW k \in DOMAIN DeactivatesOf(rs)
      PROVE  DeactivatesMade(rs)[k] = DeactivatesOf(rs)[k]
  <2> DEFINE r == DeactivatesOf(rs)[k]
             delta == Request("deactivate", r.did).delta
  <2>1. DeactivatesMade(rs)[k] = ComposedRequest("deactivate", r, r.proof, delta)
    BY DEF DeactivatesMade
  <2>2. IsGood(r, "deactivate")
    BY <1>1
  <2> HIDE DEF r
  <2>3. delta = [of |-> r.did, is |-> "good"]
    BY DEF Request
  <2> HIDE DEF delta
  <2>4. DeactivatesMade(rs)[k] = r
    BY <2>1, <2>2, <2>3, MadeAgain
  <2> QED BY <2>4 DEF r
<1>6. ASSUME NEW k \in DOMAIN UpdatesOf(rs)
      PROVE  UpdatesMade(rs, DeltasRead(rs))[k] = UpdatesOf(rs)[k]
  <2> DEFINE r == UpdatesOf(rs)[k]
             at == Len(CreatesOf(rs)) + Len(RecoversOf(rs)) + k
             delta == DeltaAt(DeltasRead(rs), at, r.did)
  <2>1. UpdatesMade(rs, DeltasRead(rs))[k] = ComposedRequest("update", r, r.proof, delta)
    BY DEF UpdatesMade
  <2>2. IsGood(r, "update")
    BY <1>1
  <2>3. /\ at \in DOMAIN (CreatesOf(rs) \o RecoversOf(rs) \o UpdatesOf(rs))
        /\ (CreatesOf(rs) \o RecoversOf(rs) \o UpdatesOf(rs))[at] = r
    BY <1>1
  <2> HIDE DEF at, r
  <2>4. delta = [of |-> r.did, is |-> "good"]
    BY <2>3, OwnDeltaAt
  <2> HIDE DEF delta
  <2>5. UpdatesMade(rs, DeltasRead(rs))[k] = r
    BY <2>1, <2>2, <2>4, MadeAgain
  <2> QED BY <2>5 DEF r
<1>7. CreatesMade(rs, DeltasRead(rs)) = CreatesOf(rs)
  <2> DEFINE f == CreatesMade(rs, DeltasRead(rs))
  <2>1. f = [k \in DOMAIN CreatesOf(rs) |-> f[k]]
    BY DEF CreatesMade
  <2>2. \A k \in DOMAIN CreatesOf(rs) : f[k] = CreatesOf(rs)[k]
    BY <1>3
  <2> HIDE DEF f
  <2> QED BY <1>1, <1>2, <2>1, <2>2 DEF f
<1>8. RecoversMade(rs, DeltasRead(rs)) = RecoversOf(rs)
  <2> DEFINE f == RecoversMade(rs, DeltasRead(rs))
  <2>1. f = [k \in DOMAIN RecoversOf(rs) |-> f[k]]
    BY DEF RecoversMade
  <2>2. \A k \in DOMAIN RecoversOf(rs) : f[k] = RecoversOf(rs)[k]
    BY <1>4
  <2> HIDE DEF f
  <2> QED BY <1>1, <1>2, <2>1, <2>2 DEF f
<1>9. DeactivatesMade(rs) = DeactivatesOf(rs)
  <2> DEFINE f == DeactivatesMade(rs)
  <2>1. f = [k \in DOMAIN DeactivatesOf(rs) |-> f[k]]
    BY DEF DeactivatesMade
  <2>2. \A k \in DOMAIN DeactivatesOf(rs) : f[k] = DeactivatesOf(rs)[k]
    BY <1>5
  <2> HIDE DEF f
  <2> QED BY <1>1, <1>2, <2>1, <2>2 DEF f
<1>10. UpdatesMade(rs, DeltasRead(rs)) = UpdatesOf(rs)
  <2> DEFINE f == UpdatesMade(rs, DeltasRead(rs))
  <2>1. f = [k \in DOMAIN UpdatesOf(rs) |-> f[k]]
    BY DEF UpdatesMade
  <2>2. \A k \in DOMAIN UpdatesOf(rs) : f[k] = UpdatesOf(rs)[k]
    BY <1>6
  <2> HIDE DEF f
  <2> QED BY <1>1, <1>2, <2>1, <2>2 DEF f
<1> QED BY <1>7, <1>8, <1>9, <1>10

LEMMA OwnComesBack ==
  ASSUME NEW rs, OwnBatch(rs), OnlyMultihashes(rs), NEW file, file = CoreIndexFile(rs)
  PROVE  LET s == StoredOf(rs, UsedIndex(file)) IN
         /\ \A x : IsIn(x, s) <=> IsIn(x, rs)
         /\ \A i \in DOMAIN s : Parses(s[i])
<1> DEFINE C == CreatesOf(rs)
           R == RecoversOf(rs)
           D == DeactivatesOf(rs)
           U == UpdatesOf(rs)
           s == StoredOf(rs, UsedIndex(file))
<1>1. rs \in Seq(Requests)
  BY DEF OwnBatch
<1>2. /\ C \in Seq(Requests) /\ R \in Seq(Requests)
      /\ D \in Seq(Requests) /\ U \in Seq(Requests)
  BY <1>1, OfTypeIsSeq
<1>3. IsSequence(C) /\ IsSequence(R) /\ IsSequence(D) /\ IsSequence(U)
  BY <1>2 DEF IsSequence
<1>4. UsedIndex(file) = file.provisional
  BY OwnProvisionalIsValid DEF UsedIndex
<1>5. ASSUME UsedIndex(file) = {}
      PROVE  \A x : IsIn(x, s) <=> IsIn(x, C) \/ IsIn(x, R) \/ IsIn(x, D) \/ IsIn(x, U)
  <2>1. C \o R \o U = << >>
    BY <1>4, <1>5, OwnProvisionalIsValid
  <2>2. C = << >> /\ R = << >> /\ U = << >>
    BY <1>2, <2>1
  <2>3. CreatesMade(rs, << >>) = << >>
    BY <2>2 DEF CreatesMade
  <2>4. RecoversMade(rs, << >>) = << >>
    BY <2>2 DEF RecoversMade
  <2>5. s = << >> \o (<< >> \o D)
    BY <1>5, <2>3, <2>4, OwnMade DEF StoredOf, CoreMade
  <2>6. s = D
    <3> HIDE DEF s, D
    <3> QED BY <1>2, <2>5
  <2>7. \A x : IsIn(x, s) <=> IsIn(x, C) \/ IsIn(x, R) \/ IsIn(x, D) \/ IsIn(x, U)
    <3> HIDE DEF s, C, R, D, U
    <3> QED BY <2>2, <2>6 DEF IsIn
  <2> QED BY <2>7
<1>6. ASSUME UsedIndex(file) # {}
      PROVE  \A x : IsIn(x, s) <=> IsIn(x, C) \/ IsIn(x, R) \/ IsIn(x, D) \/ IsIn(x, U)
  <2>1. s = (C \o (R \o D)) \o U
    BY <1>6, OwnMade DEF StoredOf, CoreMade
  <2> HIDE DEF s, C, R, D, U
  <2> DEFINE v == R \o D
  <2>2. IsSequence(v) /\ \A x : IsIn(x, v) <=> IsIn(x, R) \/ IsIn(x, D)
    BY <1>3, Concatenated
  <2> HIDE DEF v
  <2> DEFINE w == C \o v
  <2>3. IsSequence(w) /\ \A x : IsIn(x, w) <=> IsIn(x, C) \/ IsIn(x, v)
    BY <1>3, <2>2, Concatenated
  <2> HIDE DEF w
  <2>4. \A x : IsIn(x, w \o U) <=> IsIn(x, w) \/ IsIn(x, U)
    BY <1>3, <2>3, Concatenated
  <2>5. s = w \o U
    BY <2>1 DEF v, w
  <2> QED BY <2>2, <2>3, <2>4, <2>5
<1>7. \A x : IsIn(x, s) <=> IsIn(x, C) \/ IsIn(x, R) \/ IsIn(x, D) \/ IsIn(x, U)
  BY <1>5, <1>6
<1>8. ASSUME NEW t, NEW k \in DOMAIN RequestsOfType(t, rs)
      PROVE  IsIn(RequestsOfType(t, rs)[k], rs)
  <2>1. PICK place : ArePlaces(place, RequestsOfType(t, rs), rs, t)
    BY <1>1, OfOneTypeIs
  <2> QED BY <2>1 DEF ArePlaces, IsIn
<1>9. ASSUME NEW x, IsIn(x, C) \/ IsIn(x, R) \/ IsIn(x, D) \/ IsIn(x, U)
      PROVE  IsIn(x, rs)
  BY <1>8, <1>9 DEF IsIn, CreatesOf, RecoversOf, DeactivatesOf, UpdatesOf
<1>10. ASSUME NEW i \in DOMAIN rs
       PROVE  IsIn(rs[i], C) \/ IsIn(rs[i], R) \/ IsIn(rs[i], D) \/ IsIn(rs[i], U)
  <2>1. rs[i] \in Requests
    BY <1>1
  <2>2. rs[i].type \in {"create", "recover", "deactivate", "update"}
    BY <2>1, RequestFacts DEF RequestTypes
  <2>3. ASSUME NEW t, rs[i].type = t
        PROVE  IsIn(rs[i], RequestsOfType(t, rs))
    <3>1. \E k \in DOMAIN RequestsOfType(t, rs) : RequestsOfType(t, rs)[k] = rs[i]
      BY <1>1, <2>3, OfOneTypeIs
    <3> QED BY <3>1 DEF IsIn
  <2> QED BY <2>2, <2>3 DEF CreatesOf, RecoversOf, DeactivatesOf, UpdatesOf
<1>11. \A x : IsIn(x, s) <=> IsIn(x, rs)
  <2> HIDE DEF s, C, R, D, U
  <2>1. \A x : IsIn(x, rs) => IsIn(x, C) \/ IsIn(x, R) \/ IsIn(x, D) \/ IsIn(x, U)
    BY <1>10 DEF IsIn
  <2> QED BY <1>7, <1>9, <2>1
<1>12. \A i \in DOMAIN s : Parses(s[i])
  <2> HIDE DEF s
  <2>1. \A i \in DOMAIN s : IsIn(s[i], rs)
    BY <1>11 DEF IsIn
  <2> QED BY <2>1 DEF IsIn, OwnBatch
<1> QED BY <1>11, <1>12

-----------------------------------------------------------------------------
(* Theorems                                                                *)

\* The files that were anchored are those of the requests, edited by another writer only;
\* what is stored was composed from them, and a node's own requests were accepted.
FormatInv ==
  /\ OwnBatch(queue)
  /\ requests \in Seq(Requests)
  /\ \A file \in anchored :
       /\ \E edit \in Edits : IsFileOf(file, requests, edit)
       /\ anchored = {file}
       /\ ~foreign => OwnBatch(requests) /\ file = CoreIndexFile(requests)
  /\ anchored = {} => result = "none"
  /\ result = "discarded" => \A file \in anchored : ~CoreFilesAreValid(file)
  /\ result = "threw" =>
       \A file \in anchored : /\ CoreFilesAreValid(file)
                              /\ ComposingThrows(file, UsedIndex(file))
  /\ result = "stored" =>
       \A file \in anchored : /\ CoreFilesAreValid(file)
                              /\ stored = StoredOf(requests, UsedIndex(file))
  /\ result # "stored" => stored = << >>
  /\ result \in {"none", "discarded", "threw", "stored"}

LEMMA FormatInit ==
  ASSUME FilesInit
  PROVE  FormatInv
<1>1. << >> \in Seq(Requests) /\ DOMAIN << >> = {}
  OBVIOUS
<1> QED BY <1>1 DEF FilesInit, FormatInv, OwnBatch

LEMMA EnqueueKeeps ==
  ASSUME FormatInv, NEW r \in Requests, Enqueue(r)
  PROVE  FormatInv'
<1>1. /\ queue' = Append(queue, r) /\ Accepts(r)
      /\ UNCHANGED <<requests, foreign, anchored, result, stored>>
  BY DEF Enqueue
<1>2. queue \in Seq(Requests)
  BY DEF FormatInv, OwnBatch
<1>3. /\ queue' \in Seq(Requests) /\ Len(queue) \in Nat
      /\ DOMAIN queue' = 1 .. Len(queue) + 1 /\ DOMAIN queue = 1 .. Len(queue)
      /\ queue'[Len(queue) + 1] = r
      /\ \A i \in DOMAIN queue : queue'[i] = queue[i]
  BY <1>1, <1>2
<1>4. ASSUME NEW i \in DOMAIN queue'
      PROVE  i \in DOMAIN queue \/ i = Len(queue) + 1
  BY <1>3
<1>5. ASSUME NEW i \in DOMAIN queue'
      PROVE  /\ Parses(queue'[i])
             /\ queue'[i].type # "deactivate" => DeltaIsValidAndSmall(queue'[i].delta)
  BY <1>1, <1>3, <1>4 DEF Accepts, FormatInv, OwnBatch
<1>6. ASSUME NEW i \in DOMAIN queue', NEW j \in DOMAIN queue', queue'[i].did = queue'[j].did
      PROVE  i = j
  BY <1>1, <1>3, <1>4, <1>6 DEF Accepts, FormatInv, OwnBatch
<1>7. OwnBatch(queue)'
  BY <1>3, <1>5, <1>6 DEF OwnBatch
<1> QED BY <1>1, <1>7 DEF FormatInv

LEMMA WriteBatchKeeps ==
  ASSUME FormatInv, WriteBatch
  PROVE  FormatInv'
<1>1. /\ anchored = {} /\ requests' = queue /\ queue' = << >>
      /\ anchored' = {CoreIndexFile(queue)}
      /\ UNCHANGED <<foreign, result, stored>>
  BY DEF WriteBatch
<1>2. OwnBatch(queue) /\ queue \in Seq(Requests)
  BY DEF FormatInv, OwnBatch
<1>3. OwnBatch(<< >>)
  BY DEF OwnBatch
<1>4. IsFileOf(CoreIndexFile(queue), queue, "none") /\ "none" \in Edits
  BY <1>2 DEF IsFileOf, Edited, Edits
<1>5. result = "none" /\ stored = << >>
  BY <1>1 DEF FormatInv
<1> QED BY <1>1, <1>2, <1>3, <1>4, <1>5 DEF FormatInv

LEMMA ForeignBatchKeeps ==
  ASSUME FormatInv, ForeignBatch
  PROVE  FormatInv'
<1>1. /\ anchored = {} /\ foreign' = TRUE /\ UNCHANGED <<queue, result, stored>>
      /\ \E n \in 1 .. MaxForeign : requests' \in [1 .. n -> Requests]
  BY DEF ForeignBatch
<1>2. PICK edit \in Edits :
        anchored' = {Edited(CoreIndexFile(requests'), edit)}
  BY DEF ForeignBatch
<1>3. requests' \in Seq(Requests)
  BY <1>1
<1>4. IsFileOf(Edited(CoreIndexFile(requests'), edit), requests', edit)
  BY <1>3 DEF IsFileOf
<1>5. result = "none" /\ stored = << >> /\ OwnBatch(queue)'
  BY <1>1 DEF FormatInv
<1> QED BY <1>1, <1>2, <1>3, <1>4, <1>5 DEF FormatInv

LEMMA DiscardBatchKeeps ==
  ASSUME FormatInv, DiscardBatch
  PROVE  FormatInv'
<1>1. /\ result = "none" /\ result' = "discarded"
      /\ UNCHANGED <<queue, requests, foreign, anchored, stored>>
      /\ \E file \in anchored : ~CoreFilesAreValid(file)
  BY DEF DiscardBatch
<1> QED BY <1>1 DEF FormatInv

LEMMA ReadBatchKeeps ==
  ASSUME FormatInv, ReadBatch
  PROVE  FormatInv'
<1>1. result = "none" /\ UNCHANGED <<queue, requests, foreign, anchored>>
  BY DEF ReadBatch
<1>2. PICK file \in anchored :
        /\ CoreFilesAreValid(file)
        /\ IF ComposingThrows(file, UsedIndex(file))
           THEN result' = "threw" /\ UNCHANGED stored
           ELSE result' = "stored" /\ stored' = ComposedAll(file, UsedIndex(file))
  BY DEF ReadBatch
<1>3. PICK edit \in Edits : IsFileOf(file, requests, edit)
  BY <1>2 DEF FormatInv
<1>4. ComposedAll(file, UsedIndex(file)) = StoredOf(requests, UsedIndex(file))
  BY <1>2, <1>3, ComposedIs
<1>5. stored = << >> /\ anchored = {file}
  BY <1>1, <1>2 DEF FormatInv
<1>6. CASE ComposingThrows(file, UsedIndex(file))
  BY <1>1, <1>2, <1>5, <1>6 DEF FormatInv
<1>7. CASE ~ComposingThrows(file, UsedIndex(file))
  <2>1. result' = "stored" /\ stored' = StoredOf(requests, UsedIndex(file))
    BY <1>2, <1>4, <1>7
  <2> QED BY <1>1, <1>2, <1>5, <2>1 DEF FormatInv
<1> QED BY <1>6, <1>7

LEMMA FormatInvariant == FilesSpec => []FormatInv
<1>1. FilesInit => FormatInv
  BY FormatInit
<1>2. FormatInv /\ [FilesNext]_filesVars => FormatInv'
  <2> SUFFICES ASSUME FormatInv, [FilesNext]_filesVars
               PROVE  FormatInv'
    OBVIOUS
  <2>1. ASSUME NEW r \in Requests, Enqueue(r)
        PROVE  FormatInv'
    BY <2>1, EnqueueKeeps
  <2>2. CASE WriteBatch
    BY <2>2, WriteBatchKeeps
  <2>3. CASE ForeignBatch
    BY <2>3, ForeignBatchKeeps
  <2>4. CASE DiscardBatch
    BY <2>4, DiscardBatchKeeps
  <2>5. CASE ReadBatch
    BY <2>5, ReadBatchKeeps
  <2>6. CASE UNCHANGED filesVars
    BY <2>6 DEF filesVars, FormatInv, OwnBatch
  <2> QED BY <2>1, <2>2, <2>3, <2>4, <2>5, <2>6 DEF FilesNext
<1> QED BY <1>1, <1>2, PTL DEF FilesSpec

\* Whatever another writer puts into the files of a batch, the operations read from it are
\* about different DIDs, for any number of DIDs and any length of the batch.
THEOREM OneOperationOfADid == FilesSpec => []OneOperationPerDid
<1>1. ASSUME FormatInv
      PROVE  OneOperationPerDid
  <2>1. CASE result = "stored"
    <3>1. PICK file \in anchored : TRUE
      BY <1>1, <2>1 DEF FormatInv
    <3>2. PICK edit \in Edits : IsFileOf(file, requests, edit)
      BY <1>1 DEF FormatInv
    <3>3. CoreFilesAreValid(file) /\ stored = StoredOf(requests, UsedIndex(file))
      BY <1>1, <2>1, <3>1 DEF FormatInv
    <3> QED BY <3>2, <3>3, StoredOnce DEF OneOperationPerDid
  <2>2. CASE result # "stored"
    BY <1>1, <2>2 DEF FormatInv, OneOperationPerDid
  <2> QED BY <2>1, <2>2
<1> QED BY <1>1, FormatInvariant, PTL

\* The requests composed from valid files lack no proof file: composing them throws only for
\* deactivates that share the batch with creates or recovers.
THEOREM ComposingFailsOnlyWhenMixed == FilesSpec => []FailsOnlyWhenMixed
<1>1. ASSUME FormatInv
      PROVE  FailsOnlyWhenMixed
  <2> SUFFICES ASSUME result = "threw"
               PROVE  MixesDeactivates
    BY DEF FailsOnlyWhenMixed
  <2>1. PICK file \in anchored : TRUE
    BY <1>1 DEF FormatInv
  <2>2. PICK edit \in Edits : IsFileOf(file, requests, edit)
    BY <1>1 DEF FormatInv
  <2>3. /\ CoreFilesAreValid(file)
        /\ ComposingThrows(file, UsedIndex(file))
    BY <1>1, <2>1 DEF FormatInv
  <2>4. MixedRequests(requests)
    BY <2>2, <2>3, ThrowsOnlyWhenMixed
  <2> QED BY <2>4 DEF MixedRequests, MixesDeactivates
<1> QED BY <1>1, FormatInvariant, PTL

\* No stored operation that is not a create makes the parser of the resolver fail, unless
\* its revealValue is not that of its signed key.
THEOREM ResolverParsesAll == FilesSpec => []ResolverParsesStored
<1>1. ASSUME FormatInv
      PROVE  ResolverParsesStored
  <2> SUFFICES ASSUME NEW i \in DOMAIN stored, stored[i].type # "create",
                      stored[i].reveal # "otherKey"
               PROVE  Parses(stored[i])
    BY DEF ResolverParsesStored
  <2>1. result = "stored"
    BY <1>1 DEF FormatInv
  <2>2. PICK file \in anchored : TRUE
    BY <1>1, <2>1 DEF FormatInv
  <2>3. PICK edit \in Edits : IsFileOf(file, requests, edit)
    BY <1>1 DEF FormatInv
  <2>4. CoreFilesAreValid(file) /\ stored = StoredOf(requests, UsedIndex(file))
    BY <1>1, <2>1, <2>2 DEF FormatInv
  <2> QED BY <2>3, <2>4, StoredParses
<1> QED BY <1>1, FormatInvariant, PTL

\* A batch of accepted requests comes back from its files as it was: the same requests, all
\* of them in a form the resolver parses.
THEOREM AcceptedRequestsComeBack == FilesSpec => []AcceptedComesBack
<1>1. ASSUME FormatInv
      PROVE  AcceptedComesBack
  <2> SUFFICES ASSUME result # "none", ~foreign, IsOfMultihashDids, ~MixesDeactivates
               PROVE  /\ Range(stored) = Range(requests)
                      /\ \A i \in DOMAIN stored : Parses(stored[i])
    BY DEF AcceptedComesBack
  <2>1. PICK file \in anchored : TRUE
    BY <1>1 DEF FormatInv
  <2>2. PICK edit \in Edits : IsFileOf(file, requests, edit)
    BY <1>1 DEF FormatInv
  <2>3. OwnBatch(requests) /\ file = CoreIndexFile(requests)
    BY <1>1 DEF FormatInv
  <2>4. OnlyMultihashes(requests)
    BY DEF OnlyMultihashes, IsOfMultihashDids
  <2>5. CoreFilesAreValid(file)
    BY <2>3, <2>4, OwnCoreIsValid
  <2>6. ~ComposingThrows(file, UsedIndex(file))
    BY <2>2, <2>5, ThrowsOnlyWhenMixed DEF MixedRequests, MixesDeactivates
  <2>7. result = "stored" /\ stored = StoredOf(requests, UsedIndex(file))
    BY <1>1, <2>1, <2>5, <2>6 DEF FormatInv
  <2>8. /\ \A x : IsIn(x, stored) <=> IsIn(x, requests)
        /\ \A i \in DOMAIN stored : Parses(stored[i])
    BY <2>3, <2>4, <2>7, OwnComesBack
  <2>9. Range(stored) = Range(requests)
    BY <2>8 DEF Range, IsIn
  <2> QED BY <2>8, <2>9
<1> QED BY <1>1, FormatInvariant, PTL
=============================================================================
