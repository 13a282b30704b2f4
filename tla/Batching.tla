------------------------------ MODULE Batching ------------------------------
(***************************************************************************)
(* The write side of a node: RequestHandler checks an operation request    *)
(* and puts it in the operation queue (MongoDbOperationQueue), and the     *)
(* batch writer, started again and again by BatchScheduler, takes the      *)
(* first operations of the queue, writes their files to the content        *)
(* addressable store, anchors them on the ledger and removes them.         *)
(*                                                                         *)
(* A step is one call of a database, the store or the ledger.  Requests    *)
(* are handled concurrently with each other and with the batch writer.     *)
(* The contents of an operation are not modelled, only its DID and type.   *)
(***************************************************************************)
EXTENDS Integers, Sequences, SequencesExt, FiniteSets

CONSTANTS
  Requests,            \* the operation requests clients send
  DidOf,               \* the DID each request is about
  Types,               \* the operation types that are considered
  Allowances,          \* what getNumberOfOperationsAllowed may return
  OrderedInserts,      \* TRUE: inserts reach the database in the order of their _id
  SwallowsWriteErrors, \* TRUE: the ledger's write never rejects (EthereumLedger.write)
  MaxFaults            \* bound: failed calls and crashes together

AllTypes == {"create", "update", "recover", "deactivate"}
Files == {"coreProof", "provisionalProof", "chunk", "provisionalIndex", "coreIndex"}

ASSUME ConstantsAssumption ==
  /\ IsFiniteSet(Requests) /\ DOMAIN DidOf = Requests
  /\ Types \subseteq AllTypes
  /\ Allowances \subseteq Nat \ {0}
  /\ OrderedInserts \in BOOLEAN /\ SwallowsWriteErrors \in BOOLEAN
  /\ MaxFaults \in Nat

VARIABLES
  typeOf,   \* the type of the operation in each request
  status,   \* where RequestHandler is with it, and then what it answered
  order,    \* requests in the order of the _id their document was given
  queue,    \* documents of the queued-operations collection
  pc,       \* the call BatchWriter.write is at
  batch,    \* queuedOperations
  last,     \* lastOperation of dequeue, as a set of at most one
  cas,      \* files in the content addressable store, each with its batch
  chain,    \* the batches on the ledger
  faults    \* faults so far

handler == <<typeOf, status, order>>
writer  == <<pc, batch, last>>
vars    == <<handler, queue, writer, cas, chain, faults>>

-----------------------------------------------------------------------------
(* Helpers                                                                 *)

SameDid(r, s) == DidOf[r] = DidOf[s]

Precedes(r, s) == \E i, j \in DOMAIN order : i < j /\ order[i] = r /\ order[j] = s

\* The first k documents of the queue, sorted by _id.
FirstOneMore(k) == {r \in queue : Cardinality({s \in queue : Precedes(s, r)}) <= k}
First(k) == {r \in queue : Cardinality({s \in queue : Precedes(s, r)}) < k}

TypesIn(B) == {typeOf[r] : r \in B}

\* The files of a batch: proofs only where an operation needs one, a chunk file unless it
\* is all deactivations, a provisional index file only if there is a chunk file.
FilesOf(B) ==
  {"coreIndex"}
    \cup (IF TypesIn(B) \cap {"recover", "deactivate"} # {} THEN {"coreProof"} ELSE {})
    \cup (IF "update" \in TypesIn(B) THEN {"provisionalProof"} ELSE {})
    \cup (IF TypesIn(B) # {"deactivate"} THEN {"chunk", "provisionalIndex"} ELSE {})

WriteOrder == <<"coreProof", "provisionalProof", "chunk", "provisionalIndex", "coreIndex">>

\* Files of the batch that are still to be written, and the one that is next.
FilesLeft == {f \in FilesOf(batch) : [ops |-> batch, file |-> f] \notin cas}
IsNextFile(f) ==
  /\ f \in FilesLeft
  /\ \E i \in DOMAIN WriteOrder :
       WriteOrder[i] = f /\ \A j \in 1 .. i - 1 : WriteOrder[j] \notin FilesLeft

MayAnchorEarly == Cardinality(FilesLeft) <= 1
MayAnchor == FilesLeft = {}

\* The unique index on didUniqueSuffix rejects a second document for a DID.
AcceptedByAnyIndex(r) == TRUE
AcceptedByIndex(r) == \A s \in queue : ~SameDid(r, s)

\* dequeue deletes every document whose _id is not after the last of the first ones.
KeptWithLast == {r \in queue : \A l \in last : r = l \/ Precedes(l, r)}
KeptNothing == {}
KeptByDequeue == {r \in queue : \A l \in last : Precedes(l, r)}

\* BatchScheduler starts another round, also after one that failed.
NextRound == "idle"
StopsAfterFailure == "stopped"
NextRoundAfterFailure == "idle"

Anchored == UNION {chain[i] : i \in DOMAIN chain}

-----------------------------------------------------------------------------

Init ==
  /\ typeOf \in [Requests -> Types]
  /\ status = [r \in Requests |-> "new"]
  /\ order = << >> /\ queue = {}
  /\ pc = "idle" /\ batch = {} /\ last = {}
  /\ cas = {} /\ chain = << >> /\ faults = 0

-----------------------------------------------------------------------------
(* RequestHandler.handleOperationRequest                                   *)

SetStatus(r, s) == status' = [status EXCEPT ![r] = s]

\* The request is parsed, and rejected if the queue contains its DID.
Check(r) ==
  /\ status[r] = "new"
  /\ SetStatus(r, IF \E s \in queue : SameDid(r, s) THEN "rejected" ELSE "checked")
  /\ UNCHANGED <<typeOf, order, queue, writer, cas, chain, faults>>

\* The driver gives the document its _id when insertOne is called.
Enqueue(r) ==
  /\ status[r] = "checked"
  /\ SetStatus(r, "inserting")
  /\ order' = Append(order, r)
  /\ UNCHANGED <<typeOf, queue, writer, cas, chain, faults>>

MayInsert(r) ==
  /\ status[r] = "inserting"
  /\ OrderedInserts => \A s \in Requests : status[s] = "inserting" => ~Precedes(s, r)

\* The database executes the insert, and the client is answered.
Insert(r) ==
  /\ MayInsert(r)
  /\ IF AcceptedByIndex(r)
     THEN SetStatus(r, "accepted") /\ queue' = queue \cup {r}
     ELSE SetStatus(r, "rejected") /\ UNCHANGED queue
  /\ UNCHANGED <<typeOf, order, writer, cas, chain, faults>>

\* A call of the database rejects: the client gets an error, although the document may be
\* in the queue.
RequestFails(r) ==
  /\ faults < MaxFaults
  /\ faults' = faults + 1
  /\ status[r] \in {"new", "inserting"}
  /\ SetStatus(r, "failed")
  /\ \/ UNCHANGED queue
     \/ MayInsert(r) /\ AcceptedByIndex(r) /\ queue' = queue \cup {r}
  /\ UNCHANGED <<typeOf, order, writer, cas, chain>>

-----------------------------------------------------------------------------
(* BatchWriter.write                                                       *)

\* The lock decides how many operations may be peeked; without any the round ends.
Peek ==
  /\ pc = "idle"
  /\ \E allowed \in Allowances : batch' = First(allowed)
  /\ pc' = IF batch' = {} THEN NextRound ELSE "files"
  /\ UNCHANGED <<handler, queue, last, cas, chain, faults>>

WriteFile ==
  /\ pc = "files"
  /\ ~MayAnchor
  /\ \E f \in Files : IsNextFile(f) /\ cas' = cas \cup {[ops |-> batch, file |-> f]}
  /\ UNCHANGED <<handler, queue, writer, chain, faults>>

WriteToLedger ==
  /\ pc = "files"
  /\ MayAnchor
  /\ chain' = Append(chain, batch)
  /\ pc' = "dequeue"
  /\ UNCHANGED <<handler, queue, batch, last, cas, faults>>

\* The write fails before or after the transaction reached the ledger.
LedgerWriteFails ==
  /\ pc = "files"
  /\ MayAnchor
  /\ faults < MaxFaults
  /\ faults' = faults + 1
  /\ chain' \in {chain, Append(chain, batch)}
  /\ IF SwallowsWriteErrors
     THEN pc' = "dequeue" /\ UNCHANGED batch
     ELSE pc' = NextRoundAfterFailure /\ batch' = {}
  /\ UNCHANGED <<handler, queue, last, cas>>

\* dequeue: find the first documents again, then delete up to the last of them.
FindLast ==
  /\ pc = "dequeue"
  /\ LET found == First(Cardinality(batch))
     IN  last' = {r \in found : \A s \in found : r = s \/ Precedes(s, r)}
  /\ pc' = "delete"
  /\ UNCHANGED <<handler, queue, batch, cas, chain, faults>>

Delete ==
  /\ pc = "delete"
  /\ queue' = KeptByDequeue
  /\ pc' = NextRound /\ batch' = {} /\ last' = {}
  /\ UNCHANGED <<handler, cas, chain, faults>>

\* Any other call rejects: BatchScheduler catches it and schedules the next round.
RoundFails ==
  /\ pc \in {"files", "dequeue", "delete"}
  /\ faults < MaxFaults
  /\ faults' = faults + 1
  /\ pc' = NextRoundAfterFailure /\ batch' = {} /\ last' = {}
  /\ UNCHANGED <<handler, queue, cas, chain>>

-----------------------------------------------------------------------------

\* The process stops: requests being handled get no answer, the round is lost.  Inserts that
\* were sent may still be executed.
Crash ==
  /\ faults < MaxFaults
  /\ faults' = faults + 1
  /\ \E L \in SUBSET {r \in Requests : status[r] = "inserting" /\ AcceptedByIndex(r)} :
       /\ \A r, s \in L : SameDid(r, s) => r = s
       /\ OrderedInserts => \A r \in L, s \in Requests :
                              status[s] = "inserting" /\ Precedes(s, r) => s \in L
       /\ queue' = queue \cup L
  /\ status' = [r \in Requests |->
                  IF status[r] \in {"checked", "inserting"} THEN "failed"
                  ELSE status[r]]
  /\ pc' = "idle" /\ batch' = {} /\ last' = {}
  /\ UNCHANGED <<typeOf, order, cas, chain>>

HandlerStep(r) == Check(r) \/ Enqueue(r) \/ Insert(r)

WriterStep == Peek \/ WriteFile \/ WriteToLedger \/ FindLast \/ Delete

Next ==
  \/ \E r \in Requests : HandlerStep(r) \/ RequestFails(r)
  \/ WriterStep \/ LedgerWriteFails \/ RoundFails \/ Crash

Spec == Init /\ [][Next]_vars

\* The scheduler keeps starting rounds, and every call returns or rejects.
FairSpec ==
  /\ Spec
  /\ WF_vars(WriterStep)
  /\ \A r \in Requests : WF_vars(Enqueue(r) \/ Insert(r))

-----------------------------------------------------------------------------
(* Properties                                                              *)

TypeOK ==
  /\ typeOf \in [Requests -> Types]
  /\ status \in [Requests -> {"new", "checked", "inserting", "accepted",
                              "rejected", "failed"}]
  /\ order \in Seq(Requests) /\ IsInjective(order)
  /\ queue \subseteq ToSet(order)
  /\ pc \in {"idle", "files", "dequeue", "delete"}
  /\ batch \subseteq Requests
  /\ last \subseteq Requests /\ Cardinality(last) <= 1
  /\ cas \subseteq [ops : SUBSET Requests, file : Files]
  /\ chain \in Seq(SUBSET Requests)
  /\ faults \in 0 .. MaxFaults

\* Every batch on the ledger is one the protocol accepts: it is not empty, not larger than
\* the lock allows, has at most one operation of a DID (an index file with two is rejected
\* as a whole), and all the files it is read from are in the content addressable store.
BatchesAreValid ==
  \A i \in DOMAIN chain :
    /\ chain[i] # {} /\ \E k \in Allowances : Cardinality(chain[i]) <= k
    /\ \A r, s \in chain[i] : SameDid(r, s) => r = s
    /\ \A f \in FilesOf(chain[i]) : [ops |-> chain[i], file |-> f] \in cas

\* Operations of one DID are anchored in the order they were queued, also when a batch is
\* anchored again: an operation never follows a later one of its DID.
AnchoredInOrder ==
  \A i, j \in DOMAIN chain : i < j =>
    \A r \in chain[i], s \in chain[j] : SameDid(r, s) => r = s \/ Precedes(r, s)

\* Without a fault no operation is anchored twice.
AnchoredOnce ==
  faults = 0 =>
    \A i, j \in DOMAIN chain : i # j => chain[i] \cap chain[j] = {}

\* An operation that is in the queue is eventually on the ledger, whatever fails.
EventuallyAnchored ==
  \A r \in Requests : r \in queue ~> r \in Anchored

\* The queue and the ledger together implement the promise to the clients.
Service == INSTANCE AnchoringService
             WITH Operations <- Requests, waiting <- queue, anchored <- Anchored
ServiceSpec == Service!Spec

\* BatchWriter.ts: "Remove written operations from queue after batch writing has completed
\* successfully", so what leaves the queue is on the ledger.
RemovedAreWritten == [][queue \ queue' \subseteq Anchored]_vars
=============================================================================
