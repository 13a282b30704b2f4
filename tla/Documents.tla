------------------------------ MODULE Documents ------------------------------
(***************************************************************************)
(* What a DID resolves to: core/src/DocumentComposer.ts validates patches, *)
(* applies them to the document of the DID's state and makes the document  *)
(* for the client from it; OperationProcessor.ts says to what they are     *)
(* applied; RequestHandler.ts and Did.ts answer a create request and the   *)
(* resolution of the short and of the long form of the DID.                *)
(*                                                                         *)
(* Which operations of the DID are applied, and in which order, is the     *)
(* subject of Resolution: here each one reveals the right key, and a       *)
(* commitment of the state is there or is not. A key and a service have an *)
(* id and a value; BadId and BadValue stand for all that the validation of *)
(* types, lengths and URIs refuses.                                        *)
(***************************************************************************)
EXTENDS Integers, Sequences, SequencesExt, FiniteSets, Functions, Ranks

CONSTANTS
  BadId, BadValue,   \* an id and a value that validation refuses
  Purposes,          \* PublicKeyPurpose
  Deltas,            \* the patches of an operation's delta: sequences of patches
  MaxPatches         \* bound: patches applied since the create or the last recovery

ASSUME DocumentsAssumption == IsFiniteSet(Deltas) /\ MaxPatches \in Nat

Entries == {"publicKeys", "services"}

Unknown == [document |-> << >>, recoverable |-> FALSE, updatable |-> FALSE]

VARIABLES
  create,   \* the create operation the DID is made of: its delta, and whether it is the signed one
  answer,   \* the document a node answered the create request with, NotFound before
  known,    \* the resolver finds a create operation of the DID
  state,    \* the DidState it then returns: document, and which commitments are there
  log       \* the patches applied since the create or the last recovery

documentsVars == <<create, answer, known, state, log>>

-----------------------------------------------------------------------------
(* Validation of patches                                                   *)

IsArray(value) == value \in Seq(Range(value))

IdsOf(entries) == {entries[i].id : i \in DOMAIN entries}

IdsDiffer(entries) == \A i, j \in DOMAIN entries : entries[i].id = entries[j].id => i = j

IsWellFormed(entry) == entry.id # BadId /\ entry.value # BadValue

ValidPurposes(key) == IsInjective(key.purposes) /\ Range(key.purposes) \subseteq Purposes

ValidPublicKeys(keys) ==
  /\ IsArray(keys)
  /\ \A i \in DOMAIN keys : IsWellFormed(keys[i]) /\ ValidPurposes(keys[i])
  /\ IdsDiffer(keys)

ValidServicesOfAnyId(services) ==
  IsArray(services) /\ \A i \in DOMAIN services : IsWellFormed(services[i])
ValidServices(services) ==
  /\ IsArray(services)
  /\ \A i \in DOMAIN services : IsWellFormed(services[i])
  /\ IdsDiffer(services)

ValidDocument(document) ==
  /\ DOMAIN document \subseteq Entries
  /\ "publicKeys" \in DOMAIN document => ValidPublicKeys(document.publicKeys)
  /\ "services" \in DOMAIN document => ValidServices(document.services)

ValidPatch(patch) ==
  \/ patch.action = "replace" /\ ValidDocument(patch.document)
  \/ patch.action = "add-public-keys" /\ ValidPublicKeys(patch.publicKeys)
  \/ patch.action = "add-services" /\ ValidServices(patch.services)
  \/ patch.action \in {"remove-public-keys", "remove-services"} /\ BadId \notin patch.ids

ValidDelta(delta) == IsArray(delta) /\ \A i \in DOMAIN delta : ValidPatch(delta[i])

-----------------------------------------------------------------------------
(* Application of patches                                                  *)

EntriesOf(document, name) == IF name \in DOMAIN document THEN document[name] ELSE << >>

With(document, name, entries) ==
  [n \in DOMAIN document \cup {name} |-> IF n = name THEN entries ELSE document[n]]

\* What the last of the entries with an id sets, and what the first one does.
FirstWith(entries, id) ==
  entries[CHOOSE n \in DOMAIN entries :
            entries[n].id = id /\ \A k \in 1 .. n - 1 : entries[k].id # id]
LastWith(entries, id) ==
  entries[CHOOSE n \in DOMAIN entries :
            entries[n].id = id /\ \A k \in n + 1 .. Len(entries) : entries[k].id # id]

\* The values of a Map of the entries by id: an id keeps the place it first had.
MapValues(entries) ==
  LET first == Picked(entries, {i \in DOMAIN entries :
                                  \A k \in 1 .. i - 1 : entries[k].id # entries[i].id})
  IN [i \in DOMAIN first |-> LastWith(entries, first[i].id)]

AddPublicKeys(document, new) ==
  With(document, "publicKeys", MapValues(EntriesOf(document, "publicKeys") \o new))

\* The indices are those before the patch, so a service of the patch never replaces another
\* one of it.
ReplacedOrPushed(old, new) ==
  [i \in DOMAIN old |-> IF old[i].id \in IdsOf(new) THEN LastWith(new, old[i].id) ELSE old[i]]
    \o Picked(new, {i \in DOMAIN new : new[i].id \notin IdsOf(old)})

AddServices(document, new) ==
  With(document, "services", ReplacedOrPushed(EntriesOf(document, "services"), new))

RemoveEntries(document, name, ids) ==
  LET old == EntriesOf(document, name)
  IN IF name \in DOMAIN document
     THEN With(document, name, Picked(old, {i \in DOMAIN old : old[i].id \notin ids}))
     ELSE document

ApplyPatch(document, patch) ==
  CASE patch.action = "replace"            -> patch.document
    [] patch.action = "add-public-keys"    -> AddPublicKeys(document, patch.publicKeys)
    [] patch.action = "remove-public-keys" -> RemoveEntries(document, "publicKeys", patch.ids)
    [] patch.action = "add-services"       -> AddServices(document, patch.services)
    [] patch.action = "remove-services"    -> RemoveEntries(document, "services", patch.ids)

ApplyPatches(document, delta) ==
  LET after[n \in 0 .. Len(delta)] ==
        IF n = 0 THEN document ELSE ApplyPatch(after[n - 1], delta[n])
  IN after[Len(delta)]

-----------------------------------------------------------------------------
(* The states of a DID                                                     *)

\* The delta came with the operation, is valid and is the one whose hash was signed.
IsUsable(delta, matches, arrives) == arrives /\ ValidDelta(delta) /\ matches

\* Create and recover start from an empty document, and have a next update commitment only
\* with a usable delta.
FromEmptyUnchecked(delta, usable) ==
  [document |-> ApplyPatches(<< >>, delta), recoverable |-> TRUE, updatable |-> usable]
FromEmpty(delta, usable) ==
  [document |-> IF usable THEN ApplyPatches(<< >>, delta) ELSE << >>,
   recoverable |-> TRUE, updatable |-> usable]

UpdatedState(s, delta) == [s EXCEPT !.document = ApplyPatches(s.document, delta)]

DeactivatedState(s) == [s EXCEPT !.recoverable = FALSE, !.updatable = FALSE]

\* Only of a create whose delta is there and valid: without one it is a property short and
\* is not applied.
CreatedState(op) == FromEmpty(op.delta, op.matches)

-----------------------------------------------------------------------------
(* The document for the client                                             *)

NotFound == [id |-> "none"]

\* What the code leaves out of the document is an empty entry here.
Deactivated(published) ==
  [id |-> "short", verificationMethod |-> << >>, service |-> << >>,
   relationships |-> [p \in Purposes |-> << >>],
   recoverable |-> FALSE, updatable |-> FALSE, published |-> published, canonicalId |-> TRUE]

\* The ids of the keys that have the purpose.
References(keys, purpose) ==
  LET with == Picked(keys, {i \in DOMAIN keys : purpose \in Range(keys[i].purposes)})
  IN [i \in DOMAIN with |-> with[i].id]

External(s, form, published) ==
  LET keys == EntriesOf(s.document, "publicKeys") IN
  IF ~s.recoverable THEN Deactivated(published)
  ELSE [id |-> form,
        verificationMethod |-> [i \in DOMAIN keys |-> [id |-> keys[i].id, value |-> keys[i].value]],
        relationships |-> [p \in Purposes |-> References(keys, p)],
        service |-> EntriesOf(s.document, "services"),
        recoverable |-> TRUE, updatable |-> s.updatable,
        published |-> published, canonicalId |-> form = "short" \/ published]

ResolveShort == IF known THEN External(state, "short", TRUE) ELSE NotFound

\* Did.create refuses a long form with an invalid delta; what is on the ledger comes first.
LongFormParses == ValidDelta(create.delta)

ResolveLongFromItself ==
  IF LongFormParses THEN External(CreatedState(create), "long", FALSE) ELSE NotFound
ResolveLong ==
  CASE ~LongFormParses -> NotFound
    [] LongFormParses /\ known -> External(state, "long", TRUE)
    [] LongFormParses /\ ~known -> External(CreatedState(create), "long", FALSE)

-----------------------------------------------------------------------------
\* A long form exists as soon as its controller made the create operation.
DocumentsInit ==
  /\ create \in [delta : Deltas, matches : BOOLEAN]
  /\ answer = NotFound
  /\ known = FALSE /\ state = Unknown
  /\ log = << >>

\* A node refuses an invalid delta, and does not look whether it is the signed one.
CreateRequest ==
  /\ answer = NotFound
  /\ ValidDelta(create.delta)
  /\ answer' = External(CreatedState(create), "short", FALSE)
  /\ UNCHANGED <<create, known, state, log>>

\* The operation is anchored, by that node or another, and its chunk file arrives.
AnchorCreate ==
  /\ ~known
  /\ ValidDelta(create.delta)
  /\ known' = TRUE
  /\ state' = CreatedState(create)
  /\ log' = IF create.matches THEN create.delta ELSE << >>
  /\ UNCHANGED <<create, answer>>

\* An update without a usable delta changes nothing.
Update(delta, matches, arrives) ==
  /\ known /\ state.updatable
  /\ IsUsable(delta, matches, arrives)
  /\ Len(log) + Len(delta) <= MaxPatches
  /\ state' = UpdatedState(state, delta)
  /\ log' = log \o delta
  /\ UNCHANGED <<create, answer, known>>

Recover(delta, matches, arrives) ==
  /\ known /\ state.recoverable
  /\ state' = FromEmpty(delta, IsUsable(delta, matches, arrives))
  /\ log' = IF IsUsable(delta, matches, arrives) THEN delta ELSE << >>
  /\ UNCHANGED <<create, answer, known>>

Deactivate ==
  /\ known /\ state.recoverable
  /\ state' = DeactivatedState(state)
  /\ UNCHANGED <<create, answer, known, log>>

DocumentsNext ==
  \/ CreateRequest \/ AnchorCreate \/ Deactivate
  \/ \E delta \in Deltas, matches, arrives \in BOOLEAN :
       Update(delta, matches, arrives) \/ Recover(delta, matches, arrives)

DocumentsSpec == DocumentsInit /\ [][DocumentsNext]_documentsVars

-----------------------------------------------------------------------------
(* Properties                                                              *)

Shown == {ResolveShort, ResolveLong, answer} \ {NotFound}

\* In every document a node answers with, no two keys and no two services have the same id,
\* and no key is referred to twice for one purpose, whatever patches were accepted: also a
\* patch that adds what is there, or a replacement followed by additions
\* (DocumentComposer.ts:287-293, 405-412, 505-518 and 536-558).
UnambiguousIds ==
  \A document \in Shown :
    LET keys == document.verificationMethod
        services == document.service
    IN /\ \A i, j \in DOMAIN keys : keys[i].id = keys[j].id => i = j
       /\ \A i, j \in DOMAIN services : services[i].id = services[j].id => i = j
       /\ \A p \in Purposes : IsInjective(document.relationships[p])

\* The document of a DID that is not deactivated has exactly those keys and services that a
\* patch since the create or the last recovery set and no later one replaced, removed or set
\* again (DocumentComposer.ts:471-569, OperationProcessor.ts:231-236).
Named(patch, name) ==
  CASE patch.action = "replace" /\ name \in DOMAIN patch.document -> Range(patch.document[name])
    [] patch.action = "add-public-keys" /\ name = "publicKeys" -> Range(patch.publicKeys)
    [] patch.action = "add-services" /\ name = "services" -> Range(patch.services)
    [] OTHER -> {}

Overrides(patch, name, id) ==
  \/ patch.action = "replace"
  \/ \E entry \in Named(patch, name) : entry.id = id
  \/ patch.action = "remove-public-keys" /\ name = "publicKeys" /\ id \in patch.ids
  \/ patch.action = "remove-services" /\ name = "services" /\ id \in patch.ids

Lasting(patches, name) ==
  UNION {{entry \in Named(patches[i], name) :
            \A k \in i + 1 .. Len(patches) : ~Overrides(patches[k], name, entry.id)} :
           i \in DOMAIN patches}

ShowsThePatches ==
  known /\ state.recoverable =>
    LET keys == Lasting(log, "publicKeys") IN
    /\ Range(ResolveShort.verificationMethod)
         = {[id |-> key.id, value |-> key.value] : key \in keys}
    /\ Range(ResolveShort.service) = Lasting(log, "services")
    /\ \A p \in Purposes :
         Range(ResolveShort.relationships[p])
           = {key.id : key \in {k \in keys : p \in Range(k.purposes)}}

SameContent(a, b) ==
  /\ a.verificationMethod = b.verificationMethod /\ a.relationships = b.relationships
  /\ a.service = b.service
  /\ a.recoverable = b.recoverable /\ a.updatable = b.updatable

\* The long form of a DID shows what its short form shows once the DID is anchored, and
\* before that what the node answered the create request with; that answer is also what the
\* short form shows as long as only the create has been applied (RequestHandler.ts:142-168
\* and 249-288).
FormsAgree ==
  /\ known /\ ResolveLong # NotFound => SameContent(ResolveShort, ResolveLong)
  /\ ~known /\ answer # NotFound => SameContent(answer, ResolveLong)
  /\ known /\ answer # NotFound /\ create.matches /\ state.updatable /\ log = create.delta
       => SameContent(answer, ResolveShort)

\* A DID that can no longer be updated shows nothing: no key or service was taken from a
\* delta whose update commitment was not (OperationProcessor.ts:130-177, 279-324, 354-361).
ShownCanBeUpdated ==
  \A document \in Shown :
    ~document.updatable => document.verificationMethod = << >> /\ document.service = << >>
=============================================================================
