------------------------------ MODULE Observer ------------------------------
(***************************************************************************)
(* The live loop of the Sidetree node: core/src/Observer.ts polls the      *)
(* ledger adapter for anchored transactions, lets each one be downloaded   *)
(* and processed without waiting for it, records consecutively finished    *)
(* transactions in the transaction store, and reverts the stores when the  *)
(* ledger reports that its cursor is no longer valid.                      *)
(*                                                                         *)
(* A step is what the loop does between two awaits, so everything that     *)
(* another party can do in between (a download ends, the ledger grows or   *)
(* is reorganised, the adapter re-indexes, the node crashes) interleaves   *)
(* with it.  The contents of a batch, the fee and the writer of a          *)
(* transaction are not modelled: what the selector keeps of a page and how *)
(* the processing of a transaction ends are choices of the environment.    *)
(***************************************************************************)
EXTENDS Integers, Sequences, FiniteSets

CONSTANTS
  FirstNumber,   \* number of the first transaction of the ledger (0 for the contract)
  LastNumber,    \* bound: number of the last transaction that is ever anchored
  MaxFork,       \* bound: the ledger is reorganised at most MaxFork - 1 times
  HandedOver,    \* bound: transactions stored by the start-up phase before the loop runs
  MaxConcurrentDownloads,  \* Observer.maxConcurrentDownloads
  PageSize,      \* transactions one read of the ledger returns at most
  ReadStyle,     \* what a read with a cursor answers: the transactions "after" it
                 \* (IBlockchain), "from" it (EthereumLedger), "only" it (ZksyncLedger)
  FindsValid,    \* FALSE: getFirstValidTransaction always answers undefined
  Results,       \* the ways processTransaction ends that are considered
  MaxListed,     \* bound: length of transactionsUnderProcessing
  MaxSkipped,    \* bound: transactions the selector leaves out
  MaxFaults      \* bound: crashes, rejected calls and adapter restarts together

AllResults == {"all", "core", "coreRetry", "discard", "failed"}

ASSUME ConstantsAssumption ==
  /\ FirstNumber \in Nat /\ LastNumber \in Nat /\ FirstNumber <= LastNumber
  /\ MaxFork \in Nat \ {0}
  /\ HandedOver \in Nat
  /\ MaxConcurrentDownloads \in Nat
  /\ PageSize \in Nat \ {0}
  /\ ReadStyle \in {"after", "from", "only"}
  /\ FindsValid \in BOOLEAN
  /\ Results \subseteq AllResults
  /\ MaxListed \in Nat /\ MaxSkipped \in Nat /\ MaxFaults \in Nat

Numbers == FirstNumber .. LastNumber
Forks   == 1 .. MaxFork

\* A transaction is known by its number and by the fork it was anchored on: after a
\* reorganisation the ledger hands out the same numbers for other transactions.
Transactions == [number : Numbers, fork : Forks]

\* `undefined` where the code expects a transaction; its number is below every number.
NoTx == [number |-> FirstNumber - 1, fork |-> 0]

\* TransactionUnderProcessingModel: `done` is the status Processed.
Entries == [tx : Transactions, done : BOOLEAN]

VARIABLES
  \* the ledger and its adapter
  chain,        \* fork of the transaction with a given number (0: not anchored)
  tip,          \* number of the last transaction anchored
  fork,         \* the fork the ledger is on
  behind,       \* the adapter is re-indexing: its time is behind any known transaction
  \* the database
  stored,       \* MongoDbTransactionStore
  ops,          \* what MongoDbOperationStore holds of each transaction's batch
  unresolvable, \* MongoDbUnresolvableTransactionStore
  \* the memory of the node
  pc,           \* the await the loop is at
  cursor,       \* Observer.cursorTransaction
  more,         \* moreTransactions
  listed,       \* transactionsUnderProcessing
  toStore,      \* i of storeThenTrimConsecutiveTransactionsProcessed
  retrying,     \* unresolvableTransactionStatus: retries that have not ended
  best,         \* bestKnownValidRecentTransaction
  \* history and bounds
  verdict,      \* how the last processing of a transaction ended
  skipped,      \* numbers the selector left out, or the start-up phase did not store
  faults        \* faults so far

ledger == <<chain, tip, fork, behind>>
store  == <<stored, ops, unresolvable>>
memory == <<pc, cursor, more, listed, toStore, retrying, best>>
notes  == <<verdict, skipped, faults>>
vars   == <<ledger, store, memory, notes>>

-----------------------------------------------------------------------------
(* Helpers                                                                 *)

At(n) == [number |-> n, fork |-> chain[n]]

OnChain(t) == t.number \in FirstNumber .. tip /\ chain[t.number] = t.fork

NumbersOf(S) == {t.number : t \in S}

IsLastIn(t, S) == t \in S /\ \A u \in S : u.number <= t.number

\* getLastTransaction: the stored transaction with the highest number, if any.
IsLastStored(t) == IF stored = {} THEN t = NoTx ELSE IsLastIn(t, stored)

\* getExponentiallySpacedTransactions: the last one, then 1, 3, 7, ... before it, so the
\* ones whose place counted from the end is a power of two.
ExponentiallySpaced ==
  {t \in stored : \E k \in 0 .. Cardinality(stored) :
                     Cardinality({u \in stored : u.number >= t.number}) = 2^k}

Processing == {i \in DOMAIN listed : ~listed[i].done}

\* The entry the storing loop looks at is recorded only when it is Processed; the first
\* one that is not ends the loop.
MayStoreUnprocessed(i) == i <= Len(listed)
MayStore(i) == i <= Len(listed) /\ listed[i].done

\* splice(0, i) and the index of the next call.
TrimmedOneTooMany == SubSeq(listed, toStore + 2, Len(listed))
Trimmed == SubSeq(listed, toStore + 1, Len(listed))
IndexKept == toStore
IndexAfterTrim == 0

\* addTransaction: a second transaction with the same number is silently dropped.
AddTransaction(t) ==
  IF t.number \in NumbersOf(stored) THEN stored ELSE stored \cup {t}

\* Numbers that `delete(n)` and `removeTransactionsLaterThan(n)` keep.  `delete` tests
\* `if (transactionNumber)`, so the number 0 deletes everything.
KeptByDelete(t) ==
  IF t.number # 0 THEN {n \in Numbers : n <= t.number} ELSE {}
KeptByRemove(t) == {n \in Numbers : n <= t.number}

WhatIsInserted(t, r) ==
  CASE r = "all"                    -> [ops EXCEPT ![t] = "all"]
    [] r \in {"core", "coreRetry"}  -> [ops EXCEPT ![t] = "core"]
    [] r \in {"discard", "failed"}  -> ops

Succeeds(r) == r \in {"all", "core", "discard"}

\* The entry becomes Processed whether or not the processing succeeded.
DoneIfSucceeded(r) == Succeeds(r)
DoneAfter(r) == TRUE

\* The page of a read: the numbers the adapter offers, as many as PageSize and the bound on
\* the list allow.
PageStart == IF cursor = NoTx THEN FirstNumber
             ELSE IF ReadStyle = "after" THEN cursor.number + 1 ELSE cursor.number
LastOffered == IF ReadStyle = "only" /\ cursor.number \in FirstNumber .. tip
               THEN cursor.number ELSE tip
Room == MaxListed - Len(listed)
PageEnd ==
  LET size == IF Room < PageSize THEN Room ELSE PageSize
  IN  IF behind THEN PageStart - 1
      ELSE IF LastOffered < PageStart + size - 1 THEN LastOffered
      ELSE PageStart + size - 1

\* What getQualifiedTransactions may keep of the page lo..hi, in ascending order.
Selections(lo, hi) ==
  {s \in UNION {[1 .. k -> lo .. hi] : k \in 0 .. PageSize} :
      \A i, j \in DOMAIN s : i < j => s[i] < s[j]}

NewEntries(s) == [i \in DOMAIN s |-> [tx |-> At(s[i]), done |-> FALSE]]

-----------------------------------------------------------------------------
(* The start: what the historical synchronisation of the same process left *)
(* behind.  It stores every transaction it read except those the database  *)
(* refused, which it recorded as unresolvable.                             *)

Init ==
  /\ tip \in FirstNumber - 1 .. LastNumber
  /\ fork = 1
  /\ chain = [n \in Numbers |-> IF n <= tip THEN 1 ELSE 0]
  /\ behind = FALSE
  /\ \E last \in FirstNumber - 1 .. tip :
       /\ last - FirstNumber + 1 <= HandedOver
       /\ \E refused \in SUBSET (FirstNumber .. last) :
            /\ Cardinality(refused) <= MaxSkipped
            /\ stored = {[number |-> n, fork |-> 1] : n \in (FirstNumber .. last) \ refused}
            /\ unresolvable = {[number |-> n, fork |-> 1] : n \in refused}
            /\ skipped = refused
       /\ ops = [t \in Transactions |->
                   IF t.fork = 1 /\ t.number <= last THEN "all" ELSE "none"]
       /\ verdict = [t \in Transactions |->
                       IF t.fork = 1 /\ t.number <= last THEN "all" ELSE "never"]
  /\ pc = "idle" /\ cursor = NoTx /\ more = FALSE /\ listed = << >>
  /\ toStore = 0 /\ retrying = {} /\ best = NoTx
  /\ faults = 0

-----------------------------------------------------------------------------
(* The ledger and its adapter                                              *)

Anchor ==
  /\ tip < LastNumber
  /\ tip' = tip + 1
  /\ chain' = [chain EXCEPT ![tip + 1] = fork]
  /\ UNCHANGED <<fork, behind, store, memory, notes>>

\* The transactions after `kept` are replaced by those of a new fork, up to `newTip`.
Reorganize ==
  /\ fork < MaxFork
  /\ \E kept \in FirstNumber - 1 .. tip - 1, newTip \in FirstNumber - 1 .. LastNumber :
       /\ kept <= newTip
       /\ chain' = [n \in Numbers |-> IF n <= kept THEN chain[n]
                                      ELSE IF n <= newTip THEN fork + 1 ELSE 0]
       /\ tip' = newTip
  /\ fork' = fork + 1
  /\ UNCHANGED <<behind, store, memory, notes>>

AdapterRestarts ==
  /\ ~behind /\ faults < MaxFaults
  /\ behind' = TRUE
  /\ faults' = faults + 1
  /\ UNCHANGED <<chain, tip, fork, store, memory, verdict, skipped>>

AdapterCatchesUp ==
  /\ behind
  /\ behind' = FALSE
  /\ UNCHANGED <<chain, tip, fork, store, memory, notes>>

-----------------------------------------------------------------------------
(* processTransaction: runs beside the loop, for an entry of the list or    *)
(* for a retry.  Whatever happens, the entry ends as Processed.             *)

Process(t, r) ==
  /\ ops' = WhatIsInserted(t, r)
  /\ verdict' = [verdict EXCEPT ![t] = r]
  /\ IF Succeeds(r)
     THEN unresolvable' \in {unresolvable, unresolvable \ {t}} \* not awaited, may fail
     ELSE UNCHANGED unresolvable

FinishListed(t) ==
  \E i \in Processing, r \in Results :
    /\ listed[i].tx = t
    /\ Process(t, r)
    /\ listed' = [listed EXCEPT ![i].done = DoneAfter(r)]
    /\ UNCHANGED <<ledger, stored, pc, cursor, more, toStore, retrying, best,
                   skipped, faults>>

FinishRetry(t) ==
  \E r \in Results :
    /\ t \in retrying
    /\ Process(t, r)
    /\ retrying' = retrying \ {t}
    /\ UNCHANGED <<ledger, stored, pc, cursor, more, listed, toStore, best,
                   skipped, faults>>

-----------------------------------------------------------------------------
(* processTransactions                                                     *)

Poll ==
  /\ pc = "idle"
  /\ pc' = "preTrim"
  /\ more' = FALSE
  /\ UNCHANGED <<ledger, store, cursor, listed, toStore, retrying, best, notes>>

\* storeThenTrimConsecutiveTransactionsProcessed, called at three places.
Trimming == pc \in {"preTrim", "reorgTrim", "postTrim"}

StoreNext ==
  /\ Trimming
  /\ MayStore(toStore + 1)
  /\ stored' = AddTransaction(listed[toStore + 1].tx)
  /\ toStore' = toStore + 1
  /\ UNCHANGED <<ledger, ops, unresolvable, pc, cursor, more, listed, retrying, best, notes>>

AfterTrim ==
  CASE pc = "preTrim"   -> "getLast"
    [] pc = "reorgTrim" -> "findValid"
    [] pc = "postTrim"  -> IF more THEN "getLast" ELSE "getDue"

TrimListed ==
  /\ Trimming
  /\ ~MayStore(toStore + 1)
  /\ listed' = Trimmed
  /\ toStore' = IndexAfterTrim
  /\ pc' = AfterTrim
  /\ UNCHANGED <<ledger, store, cursor, more, retrying, best, notes>>

\* The cursor is set from the transaction store on every iteration.
GetLast ==
  /\ pc = "getLast"
  /\ \E t \in stored \cup {NoTx} : IsLastStored(t) /\ cursor' = t
  /\ pc' = "read"
  /\ UNCHANGED <<ledger, store, more, listed, toStore, retrying, best, notes>>

CursorIsInvalid == cursor # NoTx /\ (behind \/ ~OnChain(cursor))

ReadPage ==
  /\ pc = "read"
  /\ ~CursorIsInvalid
  /\ \E s \in Selections(PageStart, PageEnd) :
       /\ listed' = listed \o NewEntries(s)
       /\ skipped' = skipped \cup {n \in PageStart .. PageEnd : \A i \in DOMAIN s : s[i] # n}
       /\ Cardinality(skipped') <= MaxSkipped
  /\ cursor' = IF PageStart <= PageEnd THEN At(PageEnd) ELSE cursor
  /\ more' = (PageStart <= PageEnd /\ PageEnd < tip /\ ReadStyle = "after")
  /\ pc' = "wait"
  /\ UNCHANGED <<ledger, store, toStore, retrying, best, verdict, faults>>

ReadInvalid ==
  /\ pc = "read"
  /\ CursorIsInvalid
  /\ more' = FALSE
  /\ pc' = "checkTime"
  /\ UNCHANGED <<ledger, store, cursor, listed, toStore, retrying, best, notes>>

\* A reorganisation is certain only if the adapter's time is not behind the cursor's.
CheckTime ==
  /\ pc = "checkTime"
  /\ more' = ~behind
  /\ pc' = IF behind THEN "wait" ELSE "reorgWait"
  /\ UNCHANGED <<ledger, store, cursor, listed, toStore, retrying, best, notes>>

MayEndReorgWaitAtLimit == Cardinality(Processing) <= MaxConcurrentDownloads
MayEndReorgWait == Processing = {}

ReorgWait ==
  /\ pc = "reorgWait"
  /\ MayEndReorgWait
  /\ pc' = "reorgTrim"
  /\ UNCHANGED <<ledger, store, cursor, more, listed, toStore, retrying, best, notes>>

MayEndWaitOneEarly == Cardinality(Processing) <= MaxConcurrentDownloads + 1
MayEndWait == Cardinality(Processing) <= MaxConcurrentDownloads

Wait ==
  /\ pc = "wait"
  /\ MayEndWait
  /\ pc' = "postTrim"
  /\ UNCHANGED <<ledger, store, cursor, more, listed, toStore, retrying, best, notes>>

GetDue ==
  /\ pc = "getDue"
  /\ retrying' \in SUBSET unresolvable
  /\ pc' = "retryWait"
  /\ UNCHANGED <<ledger, store, cursor, more, listed, toStore, best, notes>>

RetryWait ==
  /\ pc = "retryWait"
  /\ retrying = {}
  /\ pc' = "idle"
  /\ UNCHANGED <<ledger, store, cursor, more, listed, toStore, retrying, best, notes>>

-----------------------------------------------------------------------------
(* revertInvalidTransactions                                               *)

\* The first valid one of a list that starts at the last stored transaction.
FindValid ==
  LET valid == {t \in ExponentiallySpaced : FindsValid /\ OnChain(t)}
  IN  /\ pc = "findValid"
      /\ IF valid = {} THEN best' = NoTx
                       ELSE \E t \in valid : IsLastIn(t, valid) /\ best' = t
      /\ pc' = "deleteOps"
      /\ UNCHANGED <<ledger, store, cursor, more, listed, toStore, retrying, notes>>

DeleteOps ==
  /\ pc = "deleteOps"
  /\ ops' = [t \in Transactions |-> IF t.number \in KeptByDelete(best) THEN ops[t] ELSE "none"]
  /\ verdict' = [t \in Transactions |->
                   IF t.number \in KeptByRemove(best) THEN verdict[t] ELSE "never"]
  /\ pc' = "deleteUnresolvable"
  /\ UNCHANGED <<ledger, stored, unresolvable, cursor, more, listed, toStore, retrying,
                 best, skipped, faults>>

DeleteUnresolvable ==
  /\ pc = "deleteUnresolvable"
  /\ unresolvable' = {t \in unresolvable : t.number \in KeptByRemove(best)}
  /\ pc' = "deleteTxs"
  /\ UNCHANGED <<ledger, stored, ops, cursor, more, listed, toStore, retrying, best, notes>>

DeleteTxs ==
  /\ pc = "deleteTxs"
  /\ stored' = {t \in stored : t.number \in KeptByRemove(best)}
  /\ cursor' = NoTx
  /\ best' = NoTx
  /\ pc' = "getLast"
  /\ UNCHANGED <<ledger, ops, unresolvable, more, listed, toStore, retrying, notes>>

-----------------------------------------------------------------------------
(* Faults                                                                  *)

\* Any awaited call of a store or of the adapter may reject: the loop gives up until the
\* next poll, and keeps the list of transactions under processing.
CallRejected ==
  /\ pc \notin {"idle", "wait", "reorgWait", "retryWait"}
  /\ faults < MaxFaults
  /\ faults' = faults + 1
  /\ pc' = "idle"
  /\ toStore' = 0
  /\ best' = NoTx
  /\ UNCHANGED <<ledger, store, cursor, more, listed, retrying, verdict, skipped>>

\* The memory is lost; the database is not.
Crash ==
  /\ faults < MaxFaults
  /\ faults' = faults + 1
  /\ pc' = "idle" /\ cursor' = NoTx /\ more' = FALSE /\ listed' = << >>
  /\ toStore' = 0 /\ retrying' = {} /\ best' = NoTx
  /\ UNCHANGED <<ledger, store, verdict, skipped>>

-----------------------------------------------------------------------------

LoopStep ==
  \/ Poll \/ StoreNext \/ TrimListed \/ GetLast \/ ReadPage \/ ReadInvalid \/ CheckTime
  \/ ReorgWait \/ Wait \/ GetDue \/ RetryWait
  \/ FindValid \/ DeleteOps \/ DeleteUnresolvable \/ DeleteTxs

Next ==
  \/ LoopStep
  \/ \E t \in Transactions : FinishListed(t) \/ FinishRetry(t)
  \/ Anchor \/ Reorganize \/ AdapterRestarts \/ AdapterCatchesUp
  \/ CallRejected \/ Crash

Spec == Init /\ [][Next]_vars

\* The event loop runs whatever it can run; every download ends (DownloadManager resolves
\* each one); the adapter finishes indexing.
Fairness ==
  /\ WF_vars(LoopStep)
  /\ \A t \in Transactions : WF_vars(FinishListed(t)) /\ WF_vars(FinishRetry(t))
  /\ WF_vars(AdapterCatchesUp)

FairSpec == Spec /\ Fairness

-----------------------------------------------------------------------------
(* Properties                                                              *)

Places == {"idle", "preTrim", "getLast", "read", "checkTime", "wait", "postTrim", "getDue",
           "retryWait", "reorgWait", "reorgTrim", "findValid", "deleteOps",
           "deleteUnresolvable", "deleteTxs"}

\* Every variable has its type, and the index of the storing loop never leaves the list.
TypeOK ==
  /\ chain \in [Numbers -> 0 .. MaxFork]
  /\ tip \in FirstNumber - 1 .. LastNumber
  /\ fork \in Forks
  /\ behind \in BOOLEAN
  /\ stored \subseteq Transactions
  /\ ops \in [Transactions -> {"none", "core", "all"}]
  /\ unresolvable \subseteq Transactions
  /\ pc \in Places
  /\ cursor \in Transactions \cup {NoTx}
  /\ more \in BOOLEAN
  /\ listed \in Seq(Entries)
  /\ toStore \in 0 .. Len(listed)
  /\ retrying \subseteq Transactions
  /\ best \in Transactions \cup {NoTx}
  /\ verdict \in [Transactions -> AllResults \cup {"never"}]
  /\ skipped \subseteq Numbers
  /\ faults \in Nat

\* storeThenTrimConsecutiveTransactionsProcessed: the cursor only ever passes a transaction
\* that is recorded.  Below a stored number every number is stored, or was left out by the
\* selector or by the start-up phase: downloads that end out of order, rejected calls,
\* crashes and reverts leave no gap that would never be read again.
StoredWithoutGaps ==
  \A t \in stored, n \in Numbers :
    n < t.number => n \in NumbersOf(stored) \cup skipped

\* A transaction is stored only after its processing ended, and if that succeeded with all
\* files then its operations are in the operation store -- except while a revert is under
\* way or, when it was interrupted, while the last stored transaction is off the chain, so
\* that the next read starts the revert again (the order of revertInvalidTransactions).
StoredAreProcessed ==
  \/ pc \in {"deleteUnresolvable", "deleteTxs"}
  \/ \E t \in stored : IsLastIn(t, stored) /\ ~OnChain(t)
  \/ \A t \in stored : /\ verdict[t] # "never"
                       /\ verdict[t] = "all" => ops[t] = "all"

\* When the revert removes the transactions, no operation later than the one it goes back
\* to is left, and no download is under way that could store one.
RevertIsComplete ==
  pc = "deleteTxs" =>
    /\ listed = << >> /\ retrying = {}
    /\ \A t \in Transactions : ops[t] # "none" => t.number <= best.number
    /\ \A t \in unresolvable : t.number <= best.number

\* The loop fetches only while at most maxConcurrentDownloads are under processing.
DownloadsBounded ==
  pc \in {"getLast", "read"} => Cardinality(Processing) <= MaxConcurrentDownloads

\* Every transaction that is on the ledger is eventually stored, or left out by the selector
\* or the start-up phase, or is reverted by a reorganisation.
EventuallyObserved ==
  \A n \in Numbers : n <= tip ~> n > tip \/ n \in NumbersOf(stored) \cup skipped

\* What the code says of the revert (Observer.ts, "revert invalid transaction and
\* operations"): every transaction it keeps is on the chain.
RevertKeepsOnlyValid ==
  [][pc = "findValid" /\ pc' = "deleteOps" =>
       \A t \in stored : t.number <= best'.number => OnChain(t)]_vars

\* IOperationStore.delete: "Deletes all operations with transaction number greater than the
\* provided parameter", so the operations of the transaction it goes back to stay.
DeleteKeepsEarlier ==
  [][pc = "deleteOps" /\ pc' = "deleteUnresolvable" =>
       \A t \in Transactions : t.number <= best.number => ops'[t] = ops[t]]_vars
=============================================================================
