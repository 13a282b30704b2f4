------------------------------- MODULE Startup -------------------------------
(***************************************************************************)
(* The life of a node process up to the live loop: did-method/src/Core.ts  *)
(* opens the stores one by one, upgrades the database, starts the observer *)
(* beside itself and reads the clock; the observer (core/src/Observer.ts)  *)
(* synchronises the past of the ledger range by range and then goes live.  *)
(*                                                                         *)
(* Three threads of one process run between each other's awaits: main      *)
(* (Core.initialize and shutdown), the observer and the clock.  A call of  *)
(* the database or of the ledger is a step; it may reject, and the process *)
(* may end at any moment and be started again on what the database holds.  *)
(* What the live loop does afterwards is the module Observer.              *)
(***************************************************************************)
EXTENDS Integers, Sequences, FiniteSets

CONSTANTS
  Numbers,      \* transactions of the ledger, in the order they were anchored
  BlockOf,      \* the block of each, ascending
  FirstHeight,  \* bound: the latest block when the first process starts
  LastBlock,    \* bound: the last block the ledger reaches
  BatchSize,    \* historicalSync.batchSize
  MaxRetries,   \* historicalSync.maxRetries
  KnowsBlocks,  \* the adapter has getBlockNumberByHash (only ZksyncLedger does)
  MaxStarts,    \* bound: how often a process is started
  MaxFaults     \* bound: crashes and rejected calls together

ASSUME StartupAssumption ==
  /\ Numbers \subseteq Nat \ {0} /\ IsFiniteSet(Numbers)
  /\ LastBlock \in Nat /\ FirstHeight \in 0 .. LastBlock
  /\ BlockOf \in [Numbers -> 1 .. LastBlock]
  /\ \A t, u \in Numbers : t <= u => BlockOf[t] <= BlockOf[u]
  /\ BatchSize \in Nat \ {0}
  /\ MaxRetries \in Nat
  /\ KnowsBlocks \in BOOLEAN
  /\ MaxStarts \in Nat /\ MaxFaults \in Nat

\* The collections; "service" needs no index.
Stores == {"service", "transactions", "unresolvable", "operations", "queue"}

\* databaseVersion of the service state; "current" is the expectedDbVersion of this code.
DbVersions == {"none", "older", "current", "newer"}

NoTime == 0 - 1   \* approximateTime is undefined

Opening  == {"service", "transactions", "unresolvable", "operations"}
Clearing == {"deleteOps", "clearTxs", "clearUnresolvable"}
Upgrading == {"version"} \cup Clearing \cup {"indexOps", "putVersion"}
Working == {"fetch", "insert", "store", "record"}
Stopping == {"stopDownloads", "stopStores"}
MainPlaces == Opening \cup Upgrading \cup {"queue", "observer", "clock", "up", "down", "refused"}
              \cup Stopping

VARIABLES
  height,     \* the latest block of the ledger
  \* the database
  collection, \* of each store: "absent", "bare" (no index) or "indexed"
  version,    \* databaseVersion
  savedTime,  \* approximateTime of the service state
  leftover,   \* stores that hold what a process of another version wrote
  stored,     \* MongoDbTransactionStore
  recorded,   \* MongoDbUnresolvableTransactionStore
  \* memory of the process
  main,       \* the await Core.initialize or Core.shutdown is at
  fresh,      \* main created the collection and has yet to create its index
  observing,  \* observingIntervalInSeconds > 0
  downloads,  \* the timer of DownloadManager runs
  open,       \* the stores are connected
  obs,        \* the await the observer is at
  continue,   \* continuePeriodicProcessing
  target,     \* syncState.targetBlock
  synced,     \* syncState.lastSyncedBlock
  todo,       \* transactions of the range that the loop has still to take
  attempt,    \* failed reads of the range
  clock,      \* the await BlockchainClock is at
  state,      \* the service state a reading of the clock works on
  time,       \* cachedApproximateTime
  \* history and bounds
  processed,  \* transactions processed since the stores were last cleared
  stopped,    \* shutdown was called in this process
  starts,     \* processes started so far
  faults

database == <<collection, version, savedTime, leftover, stored, recorded>>
mainVars == <<main, fresh, observing, downloads, open>>
obsVars  == <<obs, continue, target, synced, todo, attempt>>
clockVars == <<clock, state, time>>
notes    == <<processed, stopped, starts, faults>>
vars == <<height, database, mainVars, obsVars, clockVars, notes>>

-----------------------------------------------------------------------------
(* Helpers                                                                 *)

Least(a, b) == IF a <= b THEN a ELSE b

\* getLastTransaction
Last(S) == CHOOSE t \in S : \A u \in S : u <= t

\* The lowest number: the transactions of a range are sorted.
Next1(S) == CHOOSE t \in S : \A u \in S : t <= u

\* _getTransactions(from, to): both ends are included.
RangeFromAfter(from) == from + 1
RangeFrom(from) == from
InRange(from, to) == {t \in Numbers : BlockOf[t] \in RangeFrom(from) .. to}

RangeEndOneLess == Least(synced + BatchSize - 1, target)
RangeEnd == Least(synced + BatchSize, target)

\* Where the synchronisation starts over a store that is not empty.
ResumeAt(last) == BlockOf[last]

GapIsSmallOrAny(last) == BatchSize > 0
GapIsSmall(last) == target - BlockOf[last] <= BatchSize

\* The places of main in their order; upgradeDatabaseIfNeeded writes the version last.
OpenOrder == <<"service", "transactions", "unresolvable", "operations">>
UpgradeVersionFirst == <<"putVersion", "deleteOps", "clearTxs", "clearUnresolvable", "indexOps">>
UpgradeOrder == <<"deleteOps", "clearTxs", "clearUnresolvable", "indexOps", "putVersion">>
Sequel == <<"queue", "observer", "clock", "up">>
InitializeOrder == OpenOrder \o <<"version">> \o UpgradeOrder \o Sequel

PlaceAfter(p) ==
  InitializeOrder[1 + CHOOSE i \in DOMAIN InitializeOrder : InitializeOrder[i] = p]

\* A node that does not observe leaves the database alone, and so does one that finds a
\* later version: it refuses to start.
AfterVersion ==
  IF ~observing \/ version = "current" THEN "queue"
  ELSE IF version = "newer" THEN "refused" ELSE UpgradeOrder[1]

\* The service state written by the clock is the one it read, with another time.
StateWithTimeOnly(t) == [version |-> "none", time |-> t]
StateWithTime(t) == [state EXCEPT !.time = t]

NoState == [version |-> "none", time |-> NoTime]

\* What a rejected call or a crash costs.
Fault == faults < MaxFaults /\ faults' = faults + 1

-----------------------------------------------------------------------------
(* The start: a database that does not exist yet, or one that a process of *)
(* this or of another version left behind; no process is running.          *)

Init ==
  /\ height = FirstHeight
  /\ version \in DbVersions \ {"current"}
  /\ \/ /\ version = "none"
        /\ collection = [s \in Stores |-> "absent"] /\ leftover = {}
     \/ /\ collection = [s \in Stores |-> "indexed"]
        /\ leftover = {"operations", "transactions", "unresolvable"}
  /\ savedTime = NoTime /\ stored = {} /\ recorded = {}
  /\ main = "down" /\ fresh = FALSE /\ observing = FALSE /\ downloads = FALSE /\ open = {}
  /\ obs = "off" /\ continue = FALSE /\ target = 0 /\ synced = 0 /\ todo = {} /\ attempt = 0
  /\ clock = "off" /\ state = NoState /\ time = NoTime
  /\ processed = {} /\ stopped = FALSE /\ starts = 0 /\ faults = 0

NextBlock ==
  /\ height < LastBlock
  /\ height' = height + 1
  /\ UNCHANGED <<database, mainVars, obsVars, clockVars, notes>>

\* The memory of a process that has ended.
Forget ==
  /\ main' = "down" /\ fresh' = FALSE /\ downloads' = FALSE /\ open' = {}
  /\ obs' = "off" /\ continue' = FALSE /\ target' = 0 /\ synced' = 0 /\ todo' = {}
  /\ attempt' = 0
  /\ clock' = "off" /\ state' = NoState /\ time' = NoTime
  /\ UNCHANGED <<observing, stopped, starts, processed>>

\* The process ends. A call of `initialize` that rejects before the observer was started
\* comes to the same: its caller has no node.
Crash ==
  /\ main # "down"
  /\ Fault
  /\ Forget
  /\ UNCHANGED <<height, database>>

-----------------------------------------------------------------------------
(* Core.initialize                                                         *)

Start ==
  /\ main = "down" /\ starts < MaxStarts
  /\ main' = "service" /\ starts' = starts + 1
  /\ observing' \in BOOLEAN
  /\ stopped' = FALSE
  /\ UNCHANGED <<height, database, fresh, downloads, open, obsVars, clockVars, processed, faults>>

\* initialize() of a store: connect, and create the collection if it is not there.
OpenStore ==
  /\ main \in Stores /\ ~fresh
  /\ open' = open \cup {main}
  /\ IF collection[main] = "absent"
     THEN /\ collection' = [collection EXCEPT ![main] = "bare"]
          /\ fresh' = TRUE
          /\ UNCHANGED main
     ELSE /\ main' = PlaceAfter(main)
          /\ UNCHANGED <<collection, fresh>>
  /\ UNCHANGED <<height, version, savedTime, leftover, stored, recorded, observing, downloads,
                 obsVars, clockVars, notes>>

\* ... and then, in another call, its index; only for a collection just created.
CreateIndex ==
  /\ fresh
  /\ collection' = [collection EXCEPT ![main] = "indexed"]
  /\ fresh' = FALSE
  /\ main' = PlaceAfter(main)
  /\ UNCHANGED <<height, version, savedTime, leftover, stored, recorded, observing, downloads,
                 open, obsVars, clockVars, notes>>

CheckVersion ==
  /\ main = "version"
  /\ main' = AfterVersion
  /\ UNCHANGED <<height, database, fresh, observing, downloads, open, obsVars, clockVars, notes>>

DeleteOps ==
  /\ main = "deleteOps"
  /\ leftover' = leftover \ {"operations"} /\ processed' = {}
  /\ main' = PlaceAfter(main)
  /\ UNCHANGED <<height, collection, version, savedTime, stored, recorded, fresh, observing,
                 downloads, open, obsVars, clockVars, stopped, starts, faults>>

ClearTxs ==
  /\ main = "clearTxs"
  /\ leftover' = leftover \ {"transactions"} /\ stored' = {}
  /\ main' = PlaceAfter(main)
  /\ UNCHANGED <<height, collection, version, savedTime, recorded, fresh, observing,
                 downloads, open, obsVars, clockVars, notes>>

ClearUnresolvable ==
  /\ main = "clearUnresolvable"
  /\ leftover' = leftover \ {"unresolvable"} /\ recorded' = {}
  /\ main' = PlaceAfter(main)
  /\ UNCHANGED <<height, collection, version, savedTime, stored, fresh, observing,
                 downloads, open, obsVars, clockVars, notes>>

IndexOps ==
  /\ main = "indexOps"
  /\ collection' = [collection EXCEPT !["operations"] = "indexed"]
  /\ main' = PlaceAfter(main)
  /\ UNCHANGED <<height, version, savedTime, leftover, stored, recorded, fresh, observing,
                 downloads, open, obsVars, clockVars, notes>>

\* put({ databaseVersion }) replaces the document, its time included.
PutVersion ==
  /\ main = "putVersion"
  /\ version' = "current" /\ savedTime' = NoTime
  /\ main' = PlaceAfter(main)
  /\ UNCHANGED <<height, collection, leftover, stored, recorded, fresh, observing, downloads,
                 open, obsVars, clockVars, notes>>

\* startPeriodicProcessing: the observer runs from the next turn of the event loop on.
StartObserver ==
  /\ main = "observer"
  /\ IF observing THEN obs' = "latestTime" /\ continue' = TRUE ELSE UNCHANGED <<obs, continue>>
  /\ main' = "clock" /\ clock' = "get"
  /\ UNCHANGED <<height, database, fresh, observing, downloads, open, target, synced, todo,
                 attempt, state, time, notes>>

\* The first reading of the clock is awaited; then the timers of the scheduler and of the
\* download manager start.
FinishInitialize ==
  /\ main = "clock" /\ clock \in {"armed", "off"}
  /\ main' = "up" /\ downloads' = TRUE
  /\ UNCHANGED <<height, database, fresh, observing, open, obsVars, clockVars, notes>>

-----------------------------------------------------------------------------
(* Core.shutdown                                                           *)

\* The observer is told to stop, and a timer of the clock that is armed is cleared.
Shutdown ==
  /\ main = "up"
  /\ main' = "stopDownloads" /\ continue' = FALSE /\ stopped' = TRUE
  /\ clock' = IF clock = "armed" THEN "off" ELSE clock
  /\ UNCHANGED <<height, database, fresh, observing, downloads, open, obs, target, synced, todo,
                 attempt, state, time, processed, starts, faults>>

StopDownloads ==
  /\ main = "stopDownloads"
  /\ main' = "stopStores" /\ downloads' = FALSE
  /\ UNCHANGED <<height, database, fresh, observing, open, obsVars, clockVars, notes>>

\* The stores are closed one after the other, the queue last; then the process ends.
StopOrder == <<"service", "transactions", "unresolvable", "operations", "queue">>

StopStore ==
  /\ main = "stopStores" /\ open # {}
  /\ \E i \in DOMAIN StopOrder :
       /\ StopOrder[i] \in open
       /\ \A j \in 1 .. i - 1 : StopOrder[j] \notin open
       /\ open' = open \ {StopOrder[i]}
  /\ UNCHANGED <<height, database, main, fresh, observing, downloads, obsVars, clockVars, notes>>

\* It also ends when `initialize` refuses the database, and since Node.js 15 when the
\* observer's callback rejects with nobody to catch it.
Exit ==
  /\ \/ main = "stopStores" /\ open = {}
     \/ main = "refused"
     \/ obs = "dead"
  /\ Forget
  /\ UNCHANGED <<height, database, faults>>

-----------------------------------------------------------------------------
(* The clock: a reading, then the timer for the next one, whatever failed. *)

\* Bound: readings that would change nothing are left out.
ReadingMatters == IF observing THEN time # height \/ savedTime # height ELSE time # savedTime

ClockTick ==
  /\ clock = "armed" /\ main = "up" /\ ReadingMatters
  /\ clock' = "get"
  /\ UNCHANGED <<height, database, mainVars, obsVars, state, time, notes>>

\* Only a node that observes asks the ledger, the others take the saved time.
ClockGet ==
  /\ clock = "get" /\ "service" \in open
  /\ IF observing
     THEN state' = [version |-> version, time |-> savedTime] /\ clock' = "ask" /\ UNCHANGED time
     ELSE time' = savedTime /\ clock' = "armed" /\ UNCHANGED state
  /\ UNCHANGED <<height, database, mainVars, obsVars, notes>>

ClockAsk ==
  /\ clock = "ask"
  /\ IF state.time # height
     THEN state' = StateWithTime(height) /\ clock' = "put" /\ UNCHANGED time
     ELSE time' = height /\ clock' = "armed" /\ state' = NoState
  /\ UNCHANGED <<height, database, mainVars, obsVars, notes>>

ClockPut ==
  /\ clock = "put" /\ "service" \in open
  /\ version' = state.version /\ savedTime' = state.time
  /\ time' = state.time /\ clock' = "armed" /\ state' = NoState
  /\ UNCHANGED <<height, collection, leftover, stored, recorded, mainVars, obsVars, notes>>

\* A rejected `get` leaves the cached time as it was; a rejected call after it lets the
\* time of the service state in memory become the cached one.
ClockAfterFailureOff == "off"
ClockAfterFailure == "armed"

ClockRejected ==
  /\ clock \in {"get", "ask", "put"}
  /\ IF clock \in {"get", "put"} /\ "service" \notin open THEN UNCHANGED faults ELSE Fault
  /\ time' = IF clock = "get" THEN time ELSE state.time
  /\ clock' = ClockAfterFailure /\ state' = NoState
  /\ UNCHANGED <<height, database, mainVars, obsVars, processed, stopped, starts>>

-----------------------------------------------------------------------------
(* The observer: initializeSyncState                                       *)

GetLatestTime ==
  /\ obs = "latestTime"
  /\ target' = height
  /\ obs' = "last"
  /\ UNCHANGED <<height, database, mainVars, continue, synced, todo, attempt, clockVars, notes>>

\* Over an empty store everything is synchronised, else the block of the last transaction
\* is asked for.
GetLast ==
  /\ obs = "last" /\ "transactions" \in open
  /\ IF stored = {} THEN obs' = "range" /\ synced' = 0
     ELSE obs' = "block" /\ UNCHANGED synced
  /\ UNCHANGED <<height, database, mainVars, continue, target, todo, attempt, clockVars, notes>>

GetBlock ==
  /\ obs = "block" /\ KnowsBlocks
  /\ LET last == Last(stored) IN
       IF GapIsSmall(last) THEN obs' = "live" /\ UNCHANGED synced
       ELSE obs' = "range" /\ synced' = ResumeAt(last)
  /\ UNCHANGED <<height, database, mainVars, continue, target, todo, attempt, clockVars, notes>>

\* The callback of setImmediate rejects; nothing starts the observer again.
ObserverDies ==
  /\ \/ obs \in {"latestTime", "last", "block"} /\ Fault
     \/ obs = "last" /\ "transactions" \notin open /\ UNCHANGED faults
     \/ obs = "block" /\ ~KnowsBlocks /\ UNCHANGED faults
     \/ obs = "range" /\ synced < target /\ 0 < MaxRetries /\ MaxRetries <= attempt /\ Fault
  /\ obs' = "dead"
  /\ UNCHANGED <<height, database, mainVars, continue, target, synced, todo, attempt, clockVars,
                 processed, stopped, starts>>

-----------------------------------------------------------------------------
(* performHistoricalSync and processHistoricalBatch                        *)

\* The loop of the ranges ends at the target or after `stopPeriodicProcessing`, of which a
\* range that is being retried takes no notice; the live loop starts in both cases.
MoreRanges == synced < target /\ (continue \/ attempt > 0)

GoLive ==
  /\ obs = "range" /\ ~MoreRanges
  /\ obs' = "live"
  /\ UNCHANGED <<height, database, mainVars, continue, target, synced, todo, attempt, clockVars,
                 notes>>

ReadRange ==
  /\ obs = "range" /\ MoreRanges
  /\ todo' = InRange(synced, RangeEnd)
  /\ IF todo' = {} THEN synced' = RangeEnd /\ attempt' = 0 /\ UNCHANGED obs
     ELSE obs' = "fetch" /\ UNCHANGED <<synced, attempt>>
  /\ UNCHANGED <<height, database, mainVars, continue, target, clockVars, notes>>

MayRetry == attempt < MaxRetries

\* The first failure and up to MaxRetries more; with MaxRetries = 0 the range is simply the
\* next one of the outer loop again.
ReadRangeFails ==
  /\ obs = "range" /\ MoreRanges
  /\ MaxRetries = 0 \/ MayRetry
  /\ Fault
  /\ attempt' = IF MaxRetries = 0 THEN 0 ELSE attempt + 1
  /\ UNCHANGED <<height, database, mainVars, obs, continue, target, synced, todo, clockVars,
                 processed, stopped, starts>>

\* The batch of the next transaction is downloaded; this waits for DownloadManager's timer.
Fetch ==
  /\ obs = "fetch" /\ downloads
  /\ obs' = "insert"
  /\ UNCHANGED <<height, database, mainVars, continue, target, synced, todo, attempt, clockVars,
                 notes>>

\* Its operations are stored; processTransaction ends as Processed also when they are not.
\* A transaction that was processed leaves the unresolvable ones; nobody waits for that.
Insert ==
  /\ obs = "insert"
  /\ IF "operations" \in open
     THEN /\ processed' = processed \cup {Next1(todo)}
          /\ recorded' \in {recorded, recorded \ {Next1(todo)}}
     ELSE UNCHANGED <<processed, recorded>>
  /\ obs' = "store"
  /\ UNCHANGED <<height, collection, version, savedTime, leftover, stored, mainVars, continue,
                 target, synced, todo, attempt, clockVars, stopped, starts, faults>>

\* The next transaction of the range, or the end of it.
Advance ==
  /\ todo' = todo \ {Next1(todo)}
  /\ IF todo' = {} THEN obs' = "range" /\ synced' = RangeEnd /\ attempt' = 0
     ELSE obs' = "fetch" /\ UNCHANGED <<synced, attempt>>

Store ==
  /\ obs = "store" /\ "transactions" \in open
  /\ stored' = stored \cup {Next1(todo)}
  /\ Advance
  /\ UNCHANGED <<height, collection, version, savedTime, leftover, recorded, mainVars, continue,
                 target, clockVars, notes>>

StoreRejected ==
  /\ obs = "store"
  /\ IF "transactions" \notin open THEN UNCHANGED faults ELSE Fault
  /\ obs' = "record"
  /\ UNCHANGED <<height, database, mainVars, continue, target, synced, todo, attempt, clockVars,
                 processed, stopped, starts>>

Record ==
  /\ obs = "record" /\ "unresolvable" \in open
  /\ recorded' = recorded \cup {Next1(todo)}
  /\ Advance
  /\ UNCHANGED <<height, collection, version, savedTime, leftover, stored, mainVars, continue,
                 target, clockVars, notes>>

RecordRejected ==
  /\ obs = "record"
  /\ IF "unresolvable" \notin open THEN UNCHANGED faults ELSE Fault
  /\ Advance
  /\ UNCHANGED <<height, database, mainVars, continue, target, clockVars, processed, stopped, starts>>

-----------------------------------------------------------------------------

MainStep ==
  \/ OpenStore \/ CreateIndex \/ CheckVersion
  \/ DeleteOps \/ ClearTxs \/ ClearUnresolvable \/ IndexOps \/ PutVersion
  \/ StartObserver \/ FinishInitialize
  \/ StopDownloads \/ StopStore \/ Exit

ClockStep == ClockTick \/ ClockGet \/ ClockAsk \/ ClockPut \/ ClockRejected

SyncStep ==
  \/ GetLatestTime \/ GetLast \/ GetBlock \/ ObserverDies
  \/ GoLive \/ ReadRange \/ ReadRangeFails
  \/ Fetch \/ Insert \/ Store \/ StoreRejected \/ Record \/ RecordRejected

Next == NextBlock \/ Start \/ Shutdown \/ Crash \/ MainStep \/ ClockStep \/ SyncStep

\* Every await ends; a start, a shutdown, a crash and a new block need not happen.
Fairness == WF_vars(MainStep) /\ WF_vars(ClockStep) /\ WF_vars(SyncStep)

Spec == Init /\ [][Next]_vars /\ Fairness

-----------------------------------------------------------------------------
(* Properties                                                              *)

\* Every variable keeps its type, and a range is only worked on by an observer that runs.
TypeOK ==
  /\ height \in 0 .. LastBlock
  /\ collection \in [Stores -> {"absent", "bare", "indexed"}]
  /\ version \in DbVersions /\ savedTime \in {NoTime} \cup 0 .. LastBlock
  /\ leftover \subseteq Stores
  /\ stored \subseteq Numbers /\ recorded \subseteq Numbers /\ processed \subseteq Numbers
  /\ main \in MainPlaces /\ fresh \in BOOLEAN /\ (fresh => main \in Stores)
  /\ observing \in BOOLEAN /\ downloads \in BOOLEAN /\ open \subseteq Stores
  /\ obs \in {"off", "latestTime", "last", "block", "range", "live", "dead"} \cup Working
  /\ continue \in BOOLEAN /\ target \in 0 .. LastBlock /\ synced \in 0 .. LastBlock
  /\ todo \subseteq Numbers /\ (obs \in Working => todo # {}) /\ attempt \in 0 .. MaxRetries
  /\ clock \in {"off", "get", "ask", "put", "armed"}
  /\ state \in [version : DbVersions, time : {NoTime} \cup 0 .. LastBlock]
  /\ time \in {NoTime} \cup 0 .. LastBlock
  /\ stopped \in BOOLEAN /\ starts \in 0 .. MaxStarts /\ faults \in 0 .. MaxFaults

\* No transaction at or below a stored one was passed over: it was processed, before the
\* store began to hold it and while the operation store was open. This is what lets the live
\* loop and the next start take the last stored transaction as the place to go on from, over
\* overlapping ranges, refused inserts, a resumed synchronisation and a shutdown on the way.
StoredWithoutHole ==
  \A t \in Numbers : (\E u \in stored : t <= u) => t \in processed

\* The live loop starts over a store that leaves it at most BatchSize blocks to catch up with
\* below the target of the start, or none at all when the past was synchronised.
LiveIsSynced ==
  obs = "live" /\ ~stopped =>
    \A t \in Numbers :
      BlockOf[t] <= target => t \in processed
                           \/ (stored # {} /\ target <= BlockOf[Last(stored)] + BatchSize)

\* The observer runs only over a database upgraded to the end, whatever crash interrupted
\* the upgrade: nothing of another version is left and the operations have their index, even
\* when an earlier process created their collection without it.
ObservesUpgraded ==
  version = "current" \/ obs # "off" =>
    /\ version = "current" /\ leftover = {}
    /\ collection["operations"] = "indexed"

\* What a process of this version synchronised is never thrown away by a later start, and
\* the stores of a later version are not touched: the clock, which writes the whole service
\* state back, must not lose the version.
NothingThrownAway ==
  [][/\ processed \subseteq processed' /\ stored \subseteq stored'
     /\ version = "newer" => leftover' = leftover /\ version' = version]_vars

\* The synchronisation ends: the observer goes live, or died of a rejected call, or the
\* process ended. Retries, empty ranges and a shutdown in the middle do not hold it up.
EventuallyLive == obs = "latestTime" ~> obs \in {"live", "dead", "off"}

\* A node that observes and runs knows a time some day, also if the clock could not be read
\* when it started; until then requests have no protocol version.
TimeIsKnown == main = "up" /\ observing ~> time # NoTime \/ main # "up"
=============================================================================
