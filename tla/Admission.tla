------------------------------ MODULE Admission ------------------------------
(***************************************************************************)
(* Which anchored transactions a node takes, and whether it takes those of *)
(* its own batch writer: core/src/ThroughputLimiter.ts and                 *)
(* TransactionSelector.ts choose from what the Observer reads of a         *)
(* transaction time, TransactionProcessor.ts then asks FeeManager.ts and   *)
(* ValueTimeLockVerifier.ts whether the batch was paid for, and            *)
(* BatchWriter.ts computes beforehand how many operations it may write and *)
(* what it has to pay.                                                     *)
(*                                                                         *)
(* Fees are integers in units of 1/FeeDivisor, so the multiplier           *)
(* normalizedFeeToPerOperationFeeMultiplier is FeeMultiplier/FeeDivisor.   *)
(* The files of a batch are modelled in Processing, the loop around the    *)
(* selector in Observer: here a processing ends well or with the process.  *)
(***************************************************************************)
EXTENDS Integers, Sequences, SequencesExt, FiniteSets, FiniteSetsExt

CONSTANTS
  Writers, Self,     \* the writers of transactions, this node's batch writer among them
  Anchorable,        \* what the other writers may anchor: [writer, fee, ops, lock]
  LastTime,          \* bound: the last transaction time
  MaxTransactions,   \* bound: transactions that are ever anchored
  NormalizedFee,     \* the ledger's normalized fee at each time
  Locks,             \* the value time locks that exist on the ledger
  Versions,          \* startingBlockchainTime -> valueTimeLockAmountMultiplier
  FeeMultiplier, FeeDivisor,
  MaxTransactionsPerTime,  \* maxNumberOfTransactionsPerTransactionTime
  MaxOperationsPerTime,    \* maxNumberOfOperationsPerTransactionTime
  MaxOperationsPerBatch,
  FreeOperations,          \* maxNumberOfOperationsForNoValueTimeLock
  MaxConcurrentDownloads,  \* Observer.maxConcurrentDownloads
  PageSize,          \* transactions one read of the ledger returns at most
  RereadsCursor,     \* a read returns the transaction of the cursor again (EthereumLedger)
  MaxQueued,         \* bound: operations waiting in the queue
  MaxListed,         \* bound: length of transactionsUnderProcessing
  MaxFaults          \* bound: restarts of the node

Times == 1 .. LastTime
NoLock == [owner |-> "nobody", amount |-> 0, from |-> 0, until |-> 0, fee |-> 0]

\* `ops` is the number in front of the anchor string's delimiter, 0 when there is no such
\* number; `lock` is what the core index file's writerLockId refers to.
Contents == [writer : Writers, fee : Nat, ops : Nat, lock : Locks \cup {NoLock}]

ASSUME ConstantsAssumption ==
  /\ Self \in Writers
  /\ Anchorable \subseteq Contents /\ \A tx \in Anchorable : tx.writer # Self
  /\ LastTime \in Nat \ {0} /\ MaxTransactions \in Nat
  /\ NormalizedFee \in [Times -> Nat]
  /\ \A l \in Locks : /\ l.owner \in Writers /\ l.amount \in Nat /\ l.fee \in Nat
                      /\ l.from \in Times /\ l.until \in Nat
  /\ DOMAIN Versions \subseteq Nat /\ \A s \in DOMAIN Versions : Versions[s] \in Nat
  /\ \E s \in DOMAIN Versions : s <= 1
  /\ FeeMultiplier \in Nat /\ FeeDivisor \in Nat \ {0}
  /\ MaxTransactionsPerTime \in Nat /\ MaxOperationsPerTime \in Nat
  /\ MaxOperationsPerBatch \in Nat \ {0} /\ FreeOperations \in Nat \ {0}
  /\ MaxConcurrentDownloads \in Nat /\ PageSize \in Nat \ {0}
  /\ RereadsCursor \in BOOLEAN /\ MaxQueued \in Nat
  /\ MaxListed \in Nat /\ MaxFaults \in Nat

NoDraft == [ops |-> 0, fee |-> 0, lock |-> NoLock, since |-> 0]

VARIABLES
  time,      \* the transaction time the ledger is at; earlier ones are complete
  ledger,    \* the transactions anchored, in the order of their numbers
  stored,    \* numbers of the transactions in MongoDbTransactionStore
  pc,        \* where the Observer's loop is: "read", "wait" or "store"
  listed,    \* transactionsUnderProcessing: [number, done]
  accepted,  \* numbers of the transactions whose payment was found sufficient
  draft,     \* what BatchWriter.write is about to anchor
  crowded,   \* history: times of which a read was made while a transaction of theirs was
             \* listed and not recorded
  faults     \* restarts so far

node == <<stored, pc, listed, accepted, crowded>>
vars == <<time, ledger, node, draft, faults>>

-----------------------------------------------------------------------------
(* Fees, value time locks and versions                                     *)

Larger(a, b) == IF a >= b THEN a ELSE b

\* The version of the highest starting time that is not after the given one.
MultiplierAt(t) ==
  Versions[CHOOSE s \in DOMAIN Versions :
             s <= t /\ \A r \in DOMAIN Versions : r <= t => r <= s]

MinimumFeePerOperation(fee, n) == fee * FeeMultiplier * n
MinimumFee(fee, n) == Larger(fee * FeeMultiplier * n, fee * FeeDivisor)

PaysFee(paid, n, fee) ==
  /\ n > 0
  /\ paid >= fee * FeeDivisor
  /\ paid >= fee * FeeMultiplier * n

\* n is at most the larger of the free number and amount / (fee * multipliers), rounded
\* down; a fee of zero makes that quotient infinite.
LockAllows(lock, n) ==
  \/ n <= FreeOperations
  \/ /\ lock # NoLock
     /\ n * (lock.fee * FeeMultiplier * MultiplierAt(lock.from)) <= lock.amount * FeeDivisor

InForce(lock, t) == lock.from <= t /\ t < lock.until

PaysLock(tx) ==
  \/ tx.ops <= FreeOperations
  \/ /\ tx.lock # NoLock
     /\ tx.lock.owner = tx.writer
     /\ InForce(tx.lock, tx.time)
     /\ LockAllows(tx.lock, tx.ops)

\* AnchoredDataSerializer.deserialize does not throw.
Readable(tx) == tx.ops \in 1 .. MaxOperationsPerBatch

Accepted(tx) ==
  Readable(tx) /\ PaysFee(tx.fee, tx.ops, NormalizedFee[tx.time]) /\ PaysLock(tx)

\* getNumberOfOperationsAllowed.
MayBatch(lock, n) == n \in 1 .. MaxOperationsPerBatch /\ LockAllows(lock, n)

-----------------------------------------------------------------------------
(* The selection                                                           *)

OperationsIn(S) == MapThenSumSet(LAMBDA n : ledger[n].ops, S)

NumbersAt(t, S) == {n \in S : ledger[n].time = t}

ReadableIn(S) == {n \in S : Readable(ledger[n])}

\* The comparator of the priority queue: the higher fee, then the earlier transaction.
BeforeByNumber(m, n) == m < n
Before(m, n) ==
  \/ ledger[m].fee > ledger[n].fee
  \/ ledger[m].fee = ledger[n].fee /\ m < n

\* enqueueFirstTransactionFromEachWriter.
FirstOfEachWriter(S) ==
  {n \in S : \A m \in S : ledger[m].writer = ledger[n].writer => n <= m}

\* The one of S that the queue hands out last.
Lowest(S) == CHOOSE n \in S : \A m \in S \ {n} : Before(m, n)

\* What is already stored of a transaction time takes part of its limits.
RoomUnused(t) == MaxTransactionsPerTime
RoomForTransactions(t) == MaxTransactionsPerTime - Cardinality(NumbersAt(t, stored))
RoomForOperations(t) == MaxOperationsPerTime - OperationsIn(ReadableIn(NumbersAt(t, stored)))

\* The loop of getHighestFeeTransactionsFromCurrentTransactionTime, for the queue `queue`:
\* what it has taken and how many operations it has seen when it is through with S.  The
\* lowest of S comes after the others, and changes nothing once the loop has ended.
MayTakeBelow(seen, room) == seen < room
MayTake(seen, room) == seen <= room
HighestFee(t, queue) ==
  LET through[S \in SUBSET queue] ==
        IF S = {} THEN [taken |-> {}, seen |-> 0]
        ELSE LET n    == Lowest(S)
                 prev == through[S \ {n}]
                 now  == prev.seen + ledger[n].ops
             IN IF \/ Cardinality(prev.taken) >= RoomForTransactions(t)
                   \/ prev.seen >= RoomForOperations(t)
                   \/ ~Readable(ledger[n])
                THEN prev
                ELSE [taken |-> IF MayTake(now, RoomForOperations(t))
                                THEN prev.taken \cup {n} ELSE prev.taken,
                      seen  |-> now]
  IN through[queue].taken

\* Each transaction time of what was read has its own selection.
Qualified(page) ==
  {n \in page : LET t == ledger[n].time
                IN n \in HighestFee(t, FirstOfEachWriter(NumbersAt(t, page)))}

-----------------------------------------------------------------------------
(* The start: an empty ledger and an empty store                           *)

Init ==
  /\ time = 1
  /\ ledger = << >>
  /\ stored = {} /\ pc = "read" /\ listed = << >> /\ accepted = {}
  /\ draft = NoDraft
  /\ crowded = {} /\ faults = 0

-----------------------------------------------------------------------------
(* The ledger                                                              *)

\* Bounds: the number of transactions, and that none is of the last time.
MayAnchor == Len(ledger) < MaxTransactions /\ time < LastTime

Anchor(writer, tx, since) ==
  ledger' = Append(ledger, [writer |-> writer, fee |-> tx.fee, ops |-> tx.ops, lock |-> tx.lock,
                            since |-> since, time |-> time])

NextTime ==
  /\ time < LastTime
  /\ time' = time + 1
  /\ UNCHANGED <<ledger, node, draft, faults>>

\* Another writer's transaction.
AnchorOther ==
  /\ MayAnchor
  /\ \E tx \in Anchorable : Anchor(tx.writer, tx, time)
  /\ UNCHANGED <<time, node, draft, faults>>

-----------------------------------------------------------------------------
(* BatchWriter.write                                                       *)

\* The time, the fee and the lock are read, and at most as many operations are taken from
\* the queue as the lock allows.
Prepare ==
  /\ draft = NoDraft /\ MayAnchor
  /\ \E lock \in {l \in Locks : l.owner = Self /\ InForce(l, time)} \cup {NoLock} :
     \E n \in 1 .. MaxQueued :
       /\ MayBatch(lock, n)
       /\ draft' = [ops |-> n, fee |-> MinimumFee(NormalizedFee[time], n),
                    lock |-> lock, since |-> time]
  /\ UNCHANGED <<time, ledger, node, faults>>

\* The files are written and the anchor string follows, at a time that may be later.
Write ==
  /\ draft # NoDraft
  /\ MayAnchor
  /\ Anchor(Self, draft, draft.since)
  /\ draft' = NoDraft
  /\ UNCHANGED <<time, node, faults>>

-----------------------------------------------------------------------------
(* The Observer                                                            *)

Processing == {i \in DOMAIN listed : ~listed[i].done}

\* Transactions under processing that TransactionSelector does not find in the store.
Unrecorded == {listed[i].number : i \in DOMAIN listed} \ stored

Cursor == IF stored = {} THEN 0 ELSE Max(stored)

\* The transactions of completed times after the last one stored.
Page ==
  {n \in DOMAIN ledger :
     /\ n \in (IF RereadsCursor THEN Cursor ELSE Cursor + 1) .. Cursor + PageSize
     /\ ledger[n].time < time}

\* Bound: a page is only read onto a list that has room for it; else it is as if the ledger
\* had nothing to answer.
MayRead == Len(listed) + PageSize <= MaxListed

\* The qualified ones are listed in the order of their numbers.
Read ==
  /\ pc = "read" /\ MayRead
  /\ \E chosen \in {Qualified(Page)} :
     \E new \in [1 .. Cardinality(chosen) -> chosen] :
       /\ \A i, j \in DOMAIN new : i < j => new[i] < new[j]
       /\ listed' = listed \o [i \in DOMAIN new |-> [number |-> new[i], done |-> FALSE]]
  /\ crowded' = crowded \cup {ledger[n].time : n \in Unrecorded}
  /\ pc' = "wait"
  /\ UNCHANGED <<time, ledger, stored, accepted, draft, faults>>

ReadNothing ==
  /\ pc = "read" /\ ~MayRead
  /\ pc' = "wait"
  /\ UNCHANGED <<time, ledger, stored, listed, accepted, crowded, draft, faults>>

\* waitUntilCountOfTransactionsUnderProcessingIsLessOrEqualTo.
Wait ==
  /\ pc = "wait"
  /\ Cardinality(Processing) <= MaxConcurrentDownloads
  /\ pc' = "store"
  /\ UNCHANGED <<time, ledger, stored, listed, accepted, crowded, draft, faults>>

\* The first of the list is recorded and trimmed as long as it is processed.
Store ==
  /\ pc = "store"
  /\ IF listed # << >> /\ Head(listed).done
     THEN /\ stored' = stored \cup {Head(listed).number}
          /\ listed' = Tail(listed)
          /\ UNCHANGED pc
     ELSE pc' = "read" /\ UNCHANGED <<stored, listed>>
  /\ UNCHANGED <<time, ledger, accepted, crowded, draft, faults>>

\* processTransaction ends; what was not paid for is finished as well.
Finish(i) ==
  /\ ~listed[i].done
  /\ listed' = [listed EXCEPT ![i].done = TRUE]
  /\ accepted' = IF Accepted(ledger[listed[i].number])
                 THEN accepted \cup {listed[i].number} ELSE accepted
  /\ UNCHANGED <<time, ledger, stored, pc, crowded, draft, faults>>

Restart ==
  /\ faults < MaxFaults
  /\ faults' = faults + 1
  /\ pc' = "read" /\ listed' = << >> /\ draft' = NoDraft
  /\ UNCHANGED <<time, ledger, stored, accepted, crowded>>

Next ==
  \/ NextTime \/ AnchorOther
  \/ Prepare \/ Write
  \/ Read \/ ReadNothing \/ Wait \/ Store \/ Restart
  \/ \E i \in DOMAIN listed : Finish(i)

Spec == Init /\ [][Next]_vars

\* The loop is never left for good, and every processing ends.
FairSpec ==
  Spec /\ WF_vars(Read \/ ReadNothing \/ Wait \/ Store)
       /\ WF_vars(\E i \in DOMAIN listed : Finish(i))

-----------------------------------------------------------------------------
(* Properties                                                              *)

TypeOK ==
  /\ time \in Times
  /\ ledger \in Seq([writer : Writers, fee : Nat, ops : Nat, lock : Locks \cup {NoLock},
                     since : Times, time : Times])
  /\ stored \subseteq DOMAIN ledger
  /\ listed \in Seq([number : DOMAIN ledger, done : BOOLEAN])
  /\ draft \in [ops : Nat, fee : Nat, lock : Locks \cup {NoLock}, since : Nat]

\* Of no transaction time more transactions or operations are recorded than the protocol
\* parameters allow, however often its transactions are read again, in whatever parts, and
\* with a restart in between (TransactionSelector.ts:66-76: what is recorded already takes
\* its part of the limits) -- unless some of them were under processing during a read: those
\* are not recorded and take no part, and the limits may be exceeded.
LimitsAreKept ==
  \A t \in Times \ crowded :
    LET at == {n \in stored : ledger[n].time = t} IN
    /\ Cardinality(at) <= MaxTransactionsPerTime
    /\ MapThenSumSet(LAMBDA n : ledger[n].ops, at) <= MaxOperationsPerTime

\* What one read adds to the list is, of each transaction time, exactly the transactions of
\* the writers' first ones for which there is room after everything that paid more, or paid
\* the same and came earlier (TransactionSelector.ts:41-93).
AddsWhatPaidMost ==
  pc = "read" /\ pc' = "wait" /\ MayRead =>
    \A t \in Times :
      LET page  == {n \in Page : ledger[n].time = t}
          queue == {n \in page : /\ ledger[n].ops \in 1 .. MaxOperationsPerBatch
                                 /\ \A m \in page : m < n => ledger[m].writer # ledger[n].writer}
          upTo(n) == {m \in queue : \/ ledger[m].fee > ledger[n].fee
                                    \/ ledger[m].fee = ledger[n].fee /\ m <= n}
          old   == {n \in stored : ledger[n].time = t}
          ops(S) == MapThenSumSet(LAMBDA n : ledger[n].ops, S)
          new   == {listed'[i].number : i \in Len(listed) + 1 .. Len(listed')}
      IN {n \in new : ledger[n].time = t} =
           {n \in queue :
              /\ Cardinality(old) + Cardinality(upTo(n)) <= MaxTransactionsPerTime
              /\ ops(old) + ops(upTo(n)) <= MaxOperationsPerTime}

TakesWhatPaidMost == [][AddsWhatPaidMost]_vars

\* A batch of this node's own writer that is recorded was also accepted, unless the ledger's
\* fee rose or the value time lock ran out between the reading of them and the anchoring
\* (BatchWriter.ts:41-47 against TransactionProcessor.ts:55-59 and 240-254).
OwnBatchesAreAccepted ==
  \A n \in stored :
    LET tx == ledger[n] IN
    /\ tx.writer = Self
    /\ NormalizedFee[tx.time] <= NormalizedFee[tx.since]
    /\ tx.ops <= FreeOperations \/ tx.time < tx.lock.until
    => n \in accepted

\* A node records of a transaction time at most one transaction of each writer
\* (TransactionSelector.ts:125: "only 1 transaction is allowed per writer").
OncePerWriter ==
  \A m, n \in stored :
    ledger[m].time = ledger[n].time /\ ledger[m].writer = ledger[n].writer => m = n

\* Again and again everything is recorded that fits: the transactions of a completed time that
\* together respect the limits, each from another writer (Observer.ts:386-452).
FitsTheLimits(t) ==
  LET at == {n \in DOMAIN ledger : ledger[n].time = t} IN
  /\ t < time
  /\ \A m, n \in at : ledger[m].writer = ledger[n].writer => m = n
  /\ \A n \in at : ledger[n].ops \in 1 .. MaxOperationsPerBatch
  /\ Cardinality(at) <= MaxTransactionsPerTime
  /\ MapThenSumSet(LAMBDA n : ledger[n].ops, at) <= MaxOperationsPerTime

WhatFitsIsRecorded ==
  []<>(\A n \in DOMAIN ledger : FitsTheLimits(ledger[n].time) => n \in stored)
=============================================================================
