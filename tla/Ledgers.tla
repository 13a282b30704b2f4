------------------------------- MODULE Ledgers -------------------------------
(***************************************************************************)
(* The ledger adapters EthereumLedger, ZksyncLedger and QLDBLedger: what   *)
(* their `read` answers, made of the calls each one sends to its ledger,   *)
(* between which the ledger grows, is reorganised or rejects a call, and   *)
(* what a node that polls them as core/src/Observer.ts does records.       *)
(*                                                                         *)
(* A transaction is its number, the time the adapter gives it and the hash *)
(* of its block; its anchor string is carried along unchanged.  A block    *)
(* hash is the block's height and fork.  Height 0 holds no transaction: it *)
(* precedes the contract and, in QLDB, the table.  Fees are always 0 and   *)
(* there are no locks, so neither appears.                                 *)
(***************************************************************************)
EXTENDS Integers, Sequences, FiniteSets, Ranks

CONSTANTS
  Adapters,          \* the adapters considered
  DefaultBatchSize,  \* PaginationConfig.defaultBatchSize of ZksyncLedger, in blocks
  Genesis,           \* the timestamp of height 0
  LastBlock,         \* bound: number of blocks
  MaxPerBlock,       \* bound: transactions of one block
  MaxFork,           \* bound: the ledger is reorganised at most MaxFork - 1 times
  MaxDisturbances    \* bound: rejected calls, crashes and reads by other callers together

ASSUME LedgersAssumption ==
  /\ Adapters \subseteq {"ethereum", "zksync", "qldb"}
  /\ DefaultBatchSize \in Nat /\ Genesis \in Nat
  /\ LastBlock \in Nat /\ MaxPerBlock \in Nat \ {0} /\ MaxFork \in Nat \ {0}
  /\ MaxDisturbances \in Nat

VARIABLES
  adapter,  \* the adapter the node was started with
  blocks,   \* the ledger: of each block its fork, the number its first transaction has or
            \* would have, and how many transactions it holds
  fork,     \* the fork the ledger is on
  stored,   \* the transactions the node has recorded
  pc,       \* the call the adapter waits for, or "idle", or "answered"
  call,     \* the arguments of the read, and whether the observer called it
  height,   \* the height the read has found, or has come down to
  answer,   \* what the read has answered and is not recorded yet
  retried,  \* retryCount of QLDBLedger.executeWithRetry
  torn,     \* history: the ledger was reorganised during a read
  disturbances

ledger == <<adapter, blocks, fork>>
reading == <<pc, call, height, answer, retried>>
ledgersVars == <<ledger, stored, reading, torn, disturbances>>

-----------------------------------------------------------------------------
(* The transactions on the ledger, as the adapter gives them               *)

NoNumber == -1
NoHash == <<0, 0>>
NoCall == [number |-> NoNumber, hash |-> NoHash, observer |-> FALSE]

HashOf(h) == <<h, blocks[h].fork>>

\* ZksyncLedger replaces the block number by the timestamp of the block.
TimeOf(h) == IF adapter = "zksync" THEN Genesis + h ELSE h

\* The i-th transaction of a block, as toSidetreeTransaction and eventLogToSidetreeTransaction
\* take it from a document or an event.
Transaction(h, i) ==
  [number |-> blocks[h].first + i - 1, time |-> TimeOf(h), hash |-> HashOf(h)]

\* The events of a block in the order of the log.
Events(h) == [i \in 1 .. blocks[h].count |-> Transaction(h, i)]

\* _getTransactions: heights without a block have no events.
GetTransactions(from, to) ==
  Joined([h \in DOMAIN blocks |-> IF h \in from .. to THEN Events(h) ELSE << >>])

Ledger == UNION {{Transaction(h, i) : i \in 1 .. blocks[h].count} : h \in DOMAIN blocks}

Elements(s) == {s[k] : k \in DOMAIN s}
Numbers(S) == {t.number : t \in S}

\* What it would be without `sort`: another order of the result list.
Unsorted(S) ==
  LET numbers == Ascending(Numbers(S))
  IN [k \in DOMAIN numbers |-> CHOOSE t \in S : t.number = numbers[Len(numbers) + 1 - k]]

\* The transactions by `sort` on transactionNumber: the result list of QLDB comes in no order.
Sorted(S) ==
  LET numbers == Ascending(Numbers(S))
  IN [k \in DOMAIN numbers |-> CHOOSE t \in S : t.number = numbers[k]]

\* The observer's cursor is the last transaction of its store.
Cursor ==
  IF stored = {} THEN NoCall
  ELSE LET last == CHOOSE t \in stored : \A u \in stored : u.number <= t.number
       IN [number |-> last.number, hash |-> last.hash, observer |-> TRUE]

\* `if (sinceTransactionNumber)` of QLDBLedger, `!== undefined` of the two others.
HasNumberUnlessZero == call.number \notin {NoNumber, 0}
HasNumber == call.number # NoNumber
HasHash == call.hash # NoHash

-----------------------------------------------------------------------------
(* The start and the ledger                                                *)

LedgersInit ==
  /\ adapter \in Adapters
  /\ blocks = << >> /\ fork = 1 /\ stored = {}
  /\ pc = "idle" /\ call = NoCall /\ height = 0 /\ answer = << >> /\ retried = FALSE
  /\ torn = FALSE /\ disturbances = 0

\* A document of QLDB is inserted in a transaction, and so in a block, of its own.
Counts == IF adapter = "qldb" THEN 0 .. 1 ELSE 0 .. MaxPerBlock

\* QLDBLedger numbers a transaction by the sequence number of its block, the contract
\* counts its transactions.
NextNumber ==
  IF adapter = "qldb" THEN Len(blocks) + 1
  ELSE IF blocks = << >> THEN 0
  ELSE blocks[Len(blocks)].first + blocks[Len(blocks)].count

NewBlock ==
  /\ Len(blocks) < LastBlock
  /\ \E n \in Counts : blocks' = Append(blocks, [fork |-> fork, first |-> NextNumber, count |-> n])
  /\ UNCHANGED <<adapter, fork, stored, reading, torn, disturbances>>

\* The transactions of the blocks from h to before g, by their place.
Within(counts, h, g) == UNION {{<<b, i>> : i \in 1 .. counts[b]} : b \in h .. g - 1}

\* The blocks from some height on are replaced by as many of another fork. QLDB has none.
Reorganise ==
  /\ adapter # "qldb" /\ fork < MaxFork
  /\ fork' = fork + 1
  /\ \E h \in DOMAIN blocks : \E counts \in [h .. Len(blocks) -> Counts] :
       blocks' = [g \in DOMAIN blocks |->
                    IF g < h THEN blocks[g]
                    ELSE [fork |-> fork', first |-> blocks[h].first + Cardinality(Within(counts, h, g)),
                          count |-> counts[g]]]
  /\ torn' = (torn \/ pc # "idle")
  /\ UNCHANGED <<adapter, stored, reading, disturbances>>

-----------------------------------------------------------------------------
(* read                                                                    *)

Begin(c) ==
  /\ pc = "idle" /\ pc' = "called"
  /\ call' = c
  /\ UNCHANGED <<ledger, stored, height, answer, retried, torn>>

Disturb == disturbances < MaxDisturbances /\ disturbances' = disturbances + 1

\* The observer polls with the number and the hash of its cursor, or with neither.
Poll == Begin([Cursor EXCEPT !.observer = TRUE]) /\ UNCHANGED disturbances

\* Another caller may leave out the number or the hash.
Ask ==
  /\ Disturb
  /\ \E t \in Ledger, c \in {"number", "hash"} :
       Begin(IF c = "number" THEN [NoCall EXCEPT !.number = t.number]
                             ELSE [NoCall EXCEPT !.hash = t.hash])

Answer(s) ==
  /\ pc' = "answered" /\ answer' = s
  /\ UNCHANGED <<ledger, stored, call, height, retried, torn, disturbances>>

Found(h) ==
  /\ pc' = "found" /\ height' = h
  /\ UNCHANGED <<ledger, stored, call, answer, retried, torn, disturbances>>

\* getBlock by a hash: the block, unless it is not on the ledger (any more).
FindBlock ==
  IF \E h \in DOMAIN blocks : HashOf(h) = call.hash
  THEN \E h \in DOMAIN blocks : HashOf(h) = call.hash /\ Found(h)
  ELSE Answer(<< >>)

\* EthereumLedger: with a number, the block of that transaction is looked up whatever the
\* hash; without anything, everything is read at once.
EthereumFind ==
  /\ adapter = "ethereum" /\ pc = "called"
  /\ IF HasNumber
     THEN LET hits == {t \in Ledger : t.number = call.number}
          IN IF Cardinality(hits) = 1 THEN \E t \in hits : Found(t.time) ELSE Answer(<< >>)
     ELSE IF HasHash THEN FindBlock ELSE Answer(GetTransactions(0, Len(blocks)))

\* What is read from the block of the cursor's transaction on includes that transaction.
SinceNextBlock(h) == GetTransactions(h + 1, Len(blocks))
SinceBlock(h) == GetTransactions(h, Len(blocks))

EthereumRead ==
  /\ adapter = "ethereum" /\ pc = "found"
  /\ Answer(IF HasNumber THEN SinceBlock(height) ELSE GetTransactions(height, height))

\* ZksyncLedger: the block of a given hash, otherwise the latest block.
ZksyncFind ==
  /\ adapter = "zksync" /\ pc = "called"
  /\ IF HasHash THEN FindBlock ELSE Found(Len(blocks))

\* The batch of blocks that ends at a height.
BatchStart == IF height > DefaultBatchSize THEN height - DefaultBatchSize ELSE 0
Batch == GetTransactions(BatchStart, height)

\* getTransactionsAfterTransactionNumber goes down batch by batch, and stops at the first
\* one with a later transaction in it.
ZksyncRead ==
  /\ adapter = "zksync" /\ pc = "found"
  /\ IF HasHash
     THEN LET block == GetTransactions(height, height)
          IN Answer(IF HasNumber
                    THEN Picked(block, {k \in DOMAIN block : block[k].number = call.number})
                    ELSE block)
     ELSE IF ~HasNumber THEN Answer(Batch)
     ELSE LET later == {t \in Elements(Batch) : t.number > call.number}
              next  == BatchStart - 1
          IN IF later = {} /\ height > 0 /\ next > 0 THEN Found(next) ELSE Answer(Sorted(later))

\* QLDBLedger: one query. `if (sinceTransactionNumber)` takes 0 for no number, but no
\* transaction has number 0.
QldbRead ==
  /\ adapter = "qldb" /\ pc = "called"
  /\ Answer(Sorted(IF HasNumberUnlessZero THEN {t \in Ledger : t.number >= call.number}
                   ELSE IF HasHash THEN {t \in Ledger : t.hash = call.hash}
                   ELSE Ledger))

End == pc' = "idle" /\ call' = NoCall /\ height' = 0 /\ answer' = << >> /\ retried' = FALSE

\* Each transaction of the answer is recorded in turn; a number that is already taken is
\* left as it is.
Record ==
  /\ pc = "answered"
  /\ IF answer = << >> \/ ~call.observer
     THEN End /\ UNCHANGED stored
     ELSE /\ answer' = Tail(answer) /\ UNCHANGED <<pc, call, height, retried>>
          /\ stored' = IF Head(answer).number \in Numbers(stored)
                       THEN stored ELSE stored \cup {Head(answer)}
  /\ UNCHANGED <<ledger, torn, disturbances>>

\* A call to the ledger is rejected: read rejects too, except that QLDBLedger tries a
\* closed transaction once more. A crash while an answer is being recorded has the same
\* effect as a rejection: the next poll begins with the last recorded transaction.
ReadRejects ==
  /\ pc # "idle" /\ Disturb
  /\ \/ adapter = "qldb" /\ pc = "called" /\ ~retried
        /\ retried' = TRUE /\ UNCHANGED <<pc, call, height, answer>>
     \/ End
  /\ UNCHANGED <<ledger, stored, torn>>

ReadStep == EthereumFind \/ EthereumRead \/ ZksyncFind \/ ZksyncRead \/ QldbRead \/ Record

LedgersNext == NewBlock \/ Reorganise \/ Poll \/ Ask \/ ReadStep \/ ReadRejects

\* The observer polls again and again, and a call to the ledger answers or rejects.
LedgersSpec ==
  LedgersInit /\ [][LedgersNext]_ledgersVars
    /\ WF_ledgersVars(Poll) /\ WF_ledgersVars(ReadStep)

-----------------------------------------------------------------------------
(* Properties                                                              *)

OnLedger(n) ==
  \E h \in DOMAIN blocks : blocks[h].first <= n /\ n < blocks[h].first + blocks[h].count

\* No transaction between recorded ones is missing, and with Ethereum and QLDB none before
\* them, however a poll was cut short, unless a reorganisation fell between two calls of one
\* read. (ZksyncLedger.read without a cursor only covers the last blocks.)
NothingPassedOver ==
  ~torn =>
    \A t \in Ledger, later \in stored :
      /\ t.number < later.number
      /\ adapter = "zksync" => \E earlier \in stored : earlier.number < t.number
      => t.number \in Numbers(stored)

\* IBlockchain.ts:23-26, for reads that are not about a given block: an answer is in the
\* order of numbers and times, and after its first transaction leaves out none of the blocks
\* that existed when the read looked for the last one.
AnswersAreUnbroken ==
  [][pc' = "answered" /\ pc # "answered" /\ (HasHash => HasNumber /\ adapter # "zksync") =>
       /\ \A i, j \in DOMAIN answer' :
            i < j => /\ answer'[i].number < answer'[j].number
                     /\ answer'[i].time <= answer'[j].time
       /\ answer' # << >> =>
            \A t \in Ledger :
              /\ t.number > answer'[1].number
              /\ adapter = "zksync" => t.time <= TimeOf(height)
              => t \in Elements(answer')]_ledgersVars

\* With Ethereum and QLDB every transaction on the ledger is recorded under its number in
\* the end, unless a reorganisation takes it off again or fell into a read. (With zkSync the
\* poll answers the cursor's own transaction for ever.)
EventuallyRecorded ==
  \A n \in (0 .. LastBlock * MaxPerBlock - 1) \cup (1 .. LastBlock) :
    OnLedger(n) /\ adapter # "zksync" ~> n \in Numbers(stored) \/ ~OnLedger(n) \/ torn
=============================================================================
