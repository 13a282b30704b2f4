---------------------------- MODULE StartupProofs ----------------------------
(***************************************************************************)
(* Proofs about Startup, for every ledger, range size, number of retries,  *)
(* starts and faults: the observer only runs over a database upgraded to   *)
(* the end, what was synchronised is not thrown away, and the transaction  *)
(* store never holds a transaction that is above one passed over.          *)
(***************************************************************************)
EXTENDS Startup, FiniteSetTheorems, SequenceTheorems, WellFoundedInduction, TLAPS

\* The block of a last transaction is only asked for where there is one.
BlockHasLast == obs = "block" => stored # {}

\* Where main is while an observer and a clock may run.
Launched == {"clock", "up"} \cup Stopping

UpgradePlaces == Clearing \cup {"indexOps", "putVersion"}

-----------------------------------------------------------------------------
(* Extremes of sets of transactions                                        *)

LEMMA SmallerSetsFirst == IsWellFoundedOn(StrictSubsetOrdering(Numbers), SUBSET Numbers)
<1>1. FiniteSubsetsOf(Numbers) = SUBSET Numbers
  BY StartupAssumption, FS_FiniteSubsetsOfFinite
<1> QED BY <1>1, FS_StrictSubsetOrderingWellFounded

LEMMA HasLast ==
  ASSUME NEW S \in SUBSET Numbers, S # {}
  PROVE  Last(S) \in S /\ \A u \in S : u <= Last(S)
<1> DEFINE without == {T \in SUBSET Numbers : T # {} /\ ~\E t \in T : \A u \in T : u <= t}
<1>1. without = {}
  <2> SUFFICES ASSUME without # {} PROVE FALSE
    OBVIOUS
  <2>1. PICK T \in without : \A U \in without : ~(<<U, T>> \in StrictSubsetOrdering(Numbers))
    <3>1. without \subseteq SUBSET Numbers
      OBVIOUS
    <3> HIDE DEF without
    <3> QED BY <3>1, SmallerSetsFirst, WFMin
  <2>2. PICK x \in T : TRUE
    OBVIOUS
  <2>3. /\ T \ {x} \in SUBSET Numbers /\ T \ {x} # T
        /\ <<T \ {x}, T>> \in StrictSubsetOrdering(Numbers)
    BY <2>2 DEF StrictSubsetOrdering
  <2>4. T \ {x} = {} \/ \E t \in T \ {x} : \A u \in T \ {x} : u <= t
    BY <2>1, <2>3
  <2>5. \A t, u \in T : t \in Nat /\ u \in Nat
    BY StartupAssumption
  <2>6. \E t \in T : \A u \in T : u <= t
    <3>1. CASE T \ {x} = {}
      BY <2>2, <2>5, <3>1
    <3>2. CASE \E t \in T \ {x} : \A u \in T \ {x} : u <= t
      <4>1. PICK t \in T \ {x} : \A u \in T \ {x} : u <= t
        BY <3>2
      <4>2. CASE x <= t
        BY <4>1, <4>2
      <4>3. CASE ~(x <= t)
        <5>1. \A u \in T : u <= x
          BY <2>2, <2>5, <4>1, <4>3
        <5> QED BY <5>1
      <4> QED BY <4>2, <4>3
    <3> QED BY <2>4, <3>1, <3>2
  <2> QED BY <2>6
<1>2. \E t \in S : \A u \in S : u <= t
  BY <1>1
<1> QED BY <1>2 DEF Last

LEMMA HasNext ==
  ASSUME NEW S \in SUBSET Numbers, S # {}
  PROVE  Next1(S) \in S /\ \A u \in S : Next1(S) <= u
<1> DEFINE without == {T \in SUBSET Numbers : T # {} /\ ~\E t \in T : \A u \in T : t <= u}
<1>1. without = {}
  <2> SUFFICES ASSUME without # {} PROVE FALSE
    OBVIOUS
  <2>1. PICK T \in without : \A U \in without : ~(<<U, T>> \in StrictSubsetOrdering(Numbers))
    <3>1. without \subseteq SUBSET Numbers
      OBVIOUS
    <3> HIDE DEF without
    <3> QED BY <3>1, SmallerSetsFirst, WFMin
  <2>2. PICK x \in T : TRUE
    OBVIOUS
  <2>3. /\ T \ {x} \in SUBSET Numbers /\ T \ {x} # T
        /\ <<T \ {x}, T>> \in StrictSubsetOrdering(Numbers)
    BY <2>2 DEF StrictSubsetOrdering
  <2>4. T \ {x} = {} \/ \E t \in T \ {x} : \A u \in T \ {x} : t <= u
    BY <2>1, <2>3
  <2>5. \A t, u \in T : t \in Nat /\ u \in Nat
    BY StartupAssumption
  <2>6. \E t \in T : \A u \in T : t <= u
    <3>1. CASE T \ {x} = {}
      BY <2>2, <2>5, <3>1
    <3>2. CASE \E t \in T \ {x} : \A u \in T \ {x} : t <= u
      <4>1. PICK t \in T \ {x} : \A u \in T \ {x} : t <= u
        BY <3>2
      <4>2. CASE t <= x
        BY <4>1, <4>2
      <4>3. CASE ~(t <= x)
        <5>1. \A u \in T : x <= u
          BY <2>2, <2>5, <4>1, <4>3
        <5> QED BY <5>1
      <4> QED BY <4>2, <4>3
    <3> QED BY <2>4, <3>1, <3>2
  <2> QED BY <2>6
<1>2. \E t \in S : \A u \in S : t <= u
  BY <1>1
<1> QED BY <1>2 DEF Next1

-----------------------------------------------------------------------------
(* The order of Core.initialize                                            *)

LEMMA PlacesAfter ==
  /\ PlaceAfter("service") = "transactions" /\ PlaceAfter("transactions") = "unresolvable"
  /\ PlaceAfter("unresolvable") = "operations" /\ PlaceAfter("operations") = "version"
  /\ PlaceAfter("deleteOps") = "clearTxs" /\ PlaceAfter("clearTxs") = "clearUnresolvable"
  /\ PlaceAfter("clearUnresolvable") = "indexOps" /\ PlaceAfter("indexOps") = "putVersion"
  /\ PlaceAfter("putVersion") = "queue" /\ PlaceAfter("queue") = "observer"
<1> DEFINE s == InitializeOrder
<1>1. /\ DOMAIN s = 1 .. 14
      /\ s[1] = "service" /\ s[2] = "transactions" /\ s[3] = "unresolvable"
      /\ s[4] = "operations" /\ s[5] = "version" /\ s[6] = "deleteOps" /\ s[7] = "clearTxs"
      /\ s[8] = "clearUnresolvable" /\ s[9] = "indexOps" /\ s[10] = "putVersion"
      /\ s[11] = "queue" /\ s[12] = "observer" /\ s[13] = "clock" /\ s[14] = "up"
  BY DEF InitializeOrder, OpenOrder, UpgradeOrder, Sequel
<1> HIDE DEF s
<1>2. \A p : PlaceAfter(p) = s[1 + CHOOSE i \in DOMAIN s : s[i] = p]
  BY DEF PlaceAfter, s
<1>3. ASSUME NEW k \in 1 .. 14, \A i \in 1 .. 14 : s[i] = s[k] => i = k
      PROVE  PlaceAfter(s[k]) = s[k + 1]
  <2>1. (CHOOSE i \in DOMAIN s : s[i] = s[k]) = k
    BY <1>1, <1>3
  <2> QED BY <1>2, <2>1
<1>4. \A k \in 1 .. 14 : \A i \in 1 .. 14 : s[i] = s[k] => i = k
  BY <1>1
<1>5. \A k \in 1 .. 14 : PlaceAfter(s[k]) = s[k + 1]
  BY <1>3, <1>4
<1> QED BY <1>1, <1>5
-----------------------------------------------------------------------------
(* The type invariant                                                      *)

LEMMA TypeInit == Init => TypeOK
<1> SUFFICES ASSUME Init PROVE TypeOK
  OBVIOUS
<1>1. NoTime \in {NoTime} \cup 0 .. LastBlock /\ 0 \in 0 .. LastBlock /\ 0 \in 0 .. MaxRetries
      /\ 0 \in 0 .. MaxStarts /\ 0 \in 0 .. MaxFaults
  BY StartupAssumption
<1>2. NoState \in [version : DbVersions, time : {NoTime} \cup 0 .. LastBlock]
  BY <1>1 DEF NoState, DbVersions
<1>3. collection \in [Stores -> {"absent", "bare", "indexed"}] /\ leftover \subseteq Stores
  BY DEF Init, Stores
<1>4. version \in DbVersions /\ main \in MainPlaces
  BY DEF Init, DbVersions, MainPlaces
<1>5. /\ height \in 0 .. LastBlock /\ savedTime \in {NoTime} \cup 0 .. LastBlock
      /\ stored \subseteq Numbers /\ recorded \subseteq Numbers /\ processed \subseteq Numbers
  BY <1>1, StartupAssumption DEF Init
<1>6. /\ fresh \in BOOLEAN /\ (fresh => main \in Stores) /\ observing \in BOOLEAN
      /\ downloads \in BOOLEAN /\ open \subseteq Stores
      /\ obs = "off" /\ continue \in BOOLEAN
  BY DEF Init
<1>7. /\ target \in 0 .. LastBlock /\ synced \in 0 .. LastBlock /\ todo \subseteq Numbers
      /\ attempt \in 0 .. MaxRetries /\ clock = "off"
      /\ state \in [version : DbVersions, time : {NoTime} \cup 0 .. LastBlock]
      /\ time \in {NoTime} \cup 0 .. LastBlock
      /\ stopped \in BOOLEAN /\ starts \in 0 .. MaxStarts /\ faults \in 0 .. MaxFaults
  BY <1>1, <1>2 DEF Init
<1> QED BY <1>3, <1>4, <1>5, <1>6, <1>7 DEF TypeOK, Working

\* The memory of an ended process.
LEMMA TypeForget == TypeOK /\ (Crash \/ Exit) => TypeOK'
<1> SUFFICES ASSUME TypeOK, Crash \/ Exit PROVE TypeOK'
  OBVIOUS
<1>1. Forget /\ UNCHANGED <<height, database>>
  BY DEF Crash, Exit
<1>2. faults' \in 0 .. MaxFaults
  BY StartupAssumption DEF Crash, Exit, Fault, TypeOK
<1>3. NoTime \in {NoTime} \cup 0 .. LastBlock /\ 0 \in 0 .. LastBlock /\ 0 \in 0 .. MaxRetries
  BY StartupAssumption
<1>4. NoState \in [version : DbVersions, time : {NoTime} \cup 0 .. LastBlock]
  BY <1>3 DEF NoState, DbVersions
<1>5. /\ height' \in 0 .. LastBlock
      /\ collection' \in [Stores -> {"absent", "bare", "indexed"}]
      /\ version' \in DbVersions /\ savedTime' \in {NoTime} \cup 0 .. LastBlock
      /\ leftover' \subseteq Stores
      /\ stored' \subseteq Numbers /\ recorded' \subseteq Numbers /\ processed' \subseteq Numbers
  BY <1>1 DEF TypeOK, database, Forget
<1>6. /\ main' \in MainPlaces /\ fresh' \in BOOLEAN /\ (fresh' => main' \in Stores)
      /\ observing' \in BOOLEAN /\ downloads' \in BOOLEAN /\ open' \subseteq Stores
      /\ stopped' \in BOOLEAN /\ starts' \in 0 .. MaxStarts
  BY <1>1 DEF TypeOK, Forget, MainPlaces
<1>7. /\ obs' = "off" /\ continue' \in BOOLEAN /\ target' = 0 /\ synced' = 0
      /\ todo' = {} /\ attempt' = 0 /\ clock' = "off" /\ state' = NoState /\ time' = NoTime
  BY <1>1 DEF Forget
<1> QED BY <1>2, <1>3, <1>4, <1>5, <1>6, <1>7 DEF TypeOK, Working

\* Steps of main that change nothing of the observer but where it is.
LEMMA TypeMain ==
  ASSUME TypeOK,
         UNCHANGED <<height, target, synced, todo, attempt, state, time>>,
         collection' \in [Stores -> {"absent", "bare", "indexed"}],
         version' \in DbVersions, savedTime' \in {NoTime} \cup 0 .. LastBlock,
         leftover' \subseteq Stores,
         stored' \subseteq Numbers, recorded' \subseteq Numbers, processed' \subseteq Numbers,
         main' \in MainPlaces, fresh' \in BOOLEAN, fresh' => main' \in Stores,
         observing' \in BOOLEAN, downloads' \in BOOLEAN, open' \subseteq Stores,
         obs' \in {obs, "latestTime"}, continue' \in BOOLEAN,
         clock' \in {clock, "off", "get"},
         stopped' \in BOOLEAN, starts' \in 0 .. MaxStarts, faults' \in 0 .. MaxFaults
  PROVE  TypeOK'
<1>1. /\ obs' \in {"off", "latestTime", "last", "block", "range", "live", "dead"} \cup Working
      /\ obs' \in Working => todo' # {}
  BY DEF TypeOK, Working
<1>2. clock' \in {"off", "get", "ask", "put", "armed"}
  BY DEF TypeOK
<1> QED BY <1>1, <1>2 DEF TypeOK

LEMMA NextPlaceIsPlace ==
  ASSUME main \in Stores \cup UpgradePlaces
  PROVE  PlaceAfter(main) \in MainPlaces
BY PlacesAfter DEF Stores, UpgradePlaces, MainPlaces, Opening, Upgrading, Clearing

LEMMA TypeInitialize ==
  TypeOK /\ (Start \/ OpenStore \/ CreateIndex \/ CheckVersion \/ StartObserver \/ FinishInitialize)
    => TypeOK'
<1> SUFFICES ASSUME TypeOK PROVE
      Start \/ OpenStore \/ CreateIndex \/ CheckVersion \/ StartObserver \/ FinishInitialize
        => TypeOK'
  OBVIOUS
<1> USE DEF database, obsVars, clockVars, notes
<1>1. CASE Start
  <2>1. starts' \in 0 .. MaxStarts
    BY <1>1, StartupAssumption DEF Start, TypeOK
  <2>2. main' \in MainPlaces /\ main' \in Stores
    BY <1>1 DEF Start, MainPlaces, Opening, Stores
  <2> QED BY <1>1, <2>1, <2>2, TypeMain DEF Start, TypeOK
<1>2. CASE OpenStore
  <2>1. main \in Stores /\ open' \subseteq Stores
    BY <1>2 DEF OpenStore, TypeOK
  <2>2. collection' \in [Stores -> {"absent", "bare", "indexed"}]
    BY <1>2 DEF OpenStore, TypeOK
  <2>3. main' \in MainPlaces /\ fresh' \in BOOLEAN /\ (fresh' => main' \in Stores)
    BY <1>2, <2>1, NextPlaceIsPlace DEF OpenStore, TypeOK
  <2> QED BY <1>2, <2>1, <2>2, <2>3, TypeMain DEF OpenStore, TypeOK
<1>3. CASE CreateIndex
  <2>1. main \in Stores /\ main' \in MainPlaces
    BY <1>3, NextPlaceIsPlace DEF CreateIndex, TypeOK
  <2>2. collection' \in [Stores -> {"absent", "bare", "indexed"}]
    BY <1>3 DEF CreateIndex, TypeOK
  <2> QED BY <1>3, <2>1, <2>2, TypeMain DEF CreateIndex, TypeOK
<1>4. CASE CheckVersion
  <2>1. main' \in MainPlaces
    BY <1>4 DEF CheckVersion, AfterVersion, UpgradeOrder, MainPlaces, Upgrading, Clearing
  <2>2. fresh' => main' \in Stores
    BY <1>4 DEF CheckVersion, TypeOK, Stores
  <2> QED BY <1>4, <2>1, <2>2, TypeMain DEF CheckVersion, TypeOK
<1>5. CASE StartObserver
  <2>1. main' \in MainPlaces /\ (fresh' => main' \in Stores)
    BY <1>5 DEF StartObserver, TypeOK, MainPlaces, Stores
  <2> QED BY <1>5, <2>1, TypeMain DEF StartObserver, TypeOK
<1>6. CASE FinishInitialize
  <2>1. main' \in MainPlaces /\ (fresh' => main' \in Stores)
    BY <1>6 DEF FinishInitialize, TypeOK, MainPlaces, Stores
  <2> QED BY <1>6, <2>1, TypeMain DEF FinishInitialize, TypeOK
<1> QED BY <1>1, <1>2, <1>3, <1>4, <1>5, <1>6

LEMMA TypeUpgrade ==
  TypeOK /\ (DeleteOps \/ ClearTxs \/ ClearUnresolvable \/ IndexOps \/ PutVersion) => TypeOK'
<1> SUFFICES ASSUME TypeOK,
                    DeleteOps \/ ClearTxs \/ ClearUnresolvable \/ IndexOps \/ PutVersion
             PROVE  TypeOK'
  OBVIOUS
<1> USE DEF obsVars, clockVars, notes
<1>1. main \in UpgradePlaces /\ main' = PlaceAfter(main)
  BY DEF DeleteOps, ClearTxs, ClearUnresolvable, IndexOps, PutVersion, UpgradePlaces,
         Clearing
<1>2. main' \in MainPlaces
  BY <1>1, NextPlaceIsPlace
<1>3. ~fresh
  BY <1>1 DEF TypeOK, UpgradePlaces, Clearing, Stores
<1>4. /\ collection' \in [Stores -> {"absent", "bare", "indexed"}]
      /\ version' \in DbVersions /\ savedTime' \in {NoTime} \cup 0 .. LastBlock
      /\ leftover' \subseteq Stores
      /\ stored' \subseteq Numbers /\ recorded' \subseteq Numbers /\ processed' \subseteq Numbers
  BY DEF DeleteOps, ClearTxs, ClearUnresolvable, IndexOps, PutVersion, TypeOK, DbVersions
<1>5. UNCHANGED <<height, fresh, observing, downloads, open, obsVars, clockVars, stopped, starts,
                  faults>>
  BY DEF DeleteOps, ClearTxs, ClearUnresolvable, IndexOps, PutVersion
<1>6. TypeOK
  OBVIOUS
<1> QED BY <1>2, <1>3, <1>4, <1>5, <1>6, TypeMain DEF TypeOK

LEMMA TypeShutdown == TypeOK /\ (Shutdown \/ StopDownloads \/ StopStore) => TypeOK'
<1> SUFFICES ASSUME TypeOK, Shutdown \/ StopDownloads \/ StopStore PROVE TypeOK'
  OBVIOUS
<1> USE DEF database, obsVars, clockVars, notes
<1>1. ~fresh
  BY DEF Shutdown, StopDownloads, StopStore, TypeOK, Stores
<1>2. main' \in MainPlaces
  BY DEF Shutdown, StopDownloads, StopStore, TypeOK, MainPlaces, Stopping
<1>3. open' \subseteq Stores
  BY DEF Shutdown, StopDownloads, StopStore, TypeOK
<1>4. /\ UNCHANGED <<height, database, fresh, observing, obs, target, synced, todo, attempt,
                     state, time, processed, starts, faults>>
      /\ continue' \in BOOLEAN /\ downloads' \in BOOLEAN /\ stopped' \in BOOLEAN
      /\ clock' \in {clock, "off"}
  BY DEF Shutdown, StopDownloads, StopStore, TypeOK
<1>5. TypeOK
  OBVIOUS
<1> QED BY <1>1, <1>2, <1>3, <1>4, <1>5, TypeMain DEF TypeOK

LEMMA TypeClock == TypeOK /\ ClockStep => TypeOK'
<1> SUFFICES ASSUME TypeOK, ClockStep PROVE TypeOK'
  OBVIOUS
<1>1. /\ clock' \in {"off", "get", "ask", "put", "armed"}
      /\ UNCHANGED <<height, collection, leftover, stored, recorded, mainVars, obsVars, processed,
                     stopped, starts>>
  BY DEF ClockStep, ClockTick, ClockGet, ClockAsk, ClockPut, ClockRejected, ClockAfterFailure,
         database, notes, TypeOK
<1>2. faults' \in 0 .. MaxFaults
  BY StartupAssumption DEF ClockStep, ClockTick, ClockGet, ClockAsk, ClockPut, ClockRejected,
         notes, TypeOK, Fault
<1>3. NoState \in [version : DbVersions, time : {NoTime} \cup 0 .. LastBlock]
  BY DEF NoState, DbVersions
<1>4. /\ state' \in [version : DbVersions, time : {NoTime} \cup 0 .. LastBlock]
      /\ time' \in {NoTime} \cup 0 .. LastBlock
      /\ version' \in DbVersions /\ savedTime' \in {NoTime} \cup 0 .. LastBlock
  BY <1>3 DEF ClockStep, ClockTick, ClockGet, ClockAsk, ClockPut, ClockRejected, StateWithTime,
         database, TypeOK
<1> QED BY <1>1, <1>2, <1>4 DEF TypeOK, mainVars, obsVars

\* Steps of the observer.
LEMMA TypeObserver ==
  ASSUME TypeOK,
         UNCHANGED <<height, collection, version, savedTime, leftover, mainVars, continue, clockVars,
                     stopped, starts>>,
         stored' \subseteq Numbers, recorded' \subseteq Numbers, processed' \subseteq Numbers,
         obs' \in {"last", "block", "range", "live", "dead"} \cup Working,
         obs' \in Working => todo' # {},
         target' \in 0 .. LastBlock, synced' \in 0 .. LastBlock,
         todo' \subseteq Numbers, attempt' \in 0 .. MaxRetries, faults' \in 0 .. MaxFaults
  PROVE  TypeOK'
BY DEF TypeOK, mainVars, clockVars

LEMMA RangeEndType ==
  ASSUME TypeOK
  PROVE  RangeEnd \in 0 .. LastBlock /\ InRange(synced, RangeEnd) \subseteq Numbers
BY StartupAssumption DEF TypeOK, RangeEnd, Least, InRange

LEMMA TypeSync == TypeOK /\ BlockHasLast /\ SyncStep => TypeOK'
<1> SUFFICES ASSUME TypeOK, BlockHasLast, SyncStep PROVE TypeOK'
  OBVIOUS
<1> USE DEF database, notes
<1>0. TypeOK /\ 0 \in 0 .. MaxRetries /\ 0 \in 0 .. LastBlock
  BY StartupAssumption
<1>1. Fault => faults' \in 0 .. MaxFaults
  BY StartupAssumption DEF Fault, TypeOK
<1>2. CASE GetLatestTime \/ GetLast \/ GoLive \/ Fetch
  BY <1>0, <1>2, TypeObserver DEF GetLatestTime, GetLast, GoLive, Fetch, TypeOK, Working
<1>3. CASE GetBlock
  <2>1. synced' \in 0 .. LastBlock
    <3>1. Last(stored) \in Numbers
      BY <1>3, HasLast DEF BlockHasLast, GetBlock, TypeOK
    <3>2. BlockOf[Last(stored)] \in 0 .. LastBlock /\ synced \in 0 .. LastBlock
      <4>1. BlockOf[Last(stored)] \in 1 .. LastBlock
        BY <3>1, StartupAssumption
      <4>2. LastBlock \in Nat /\ synced \in 0 .. LastBlock
        BY StartupAssumption DEF TypeOK
      <4> QED BY <4>1, <4>2
    <3>3. synced' = synced \/ synced' = ResumeAt(Last(stored))
      BY <1>3 DEF GetBlock
    <3>4. synced' = synced \/ synced' = BlockOf[Last(stored)]
      BY <3>3 DEF ResumeAt
    <3> QED BY <3>2, <3>4
  <2> QED BY <1>0, <1>3, <2>1, TypeObserver DEF GetBlock, TypeOK, Working
<1>4. CASE ObserverDies \/ StoreRejected
  <2>1. faults' \in 0 .. MaxFaults
    BY <1>1, <1>4 DEF ObserverDies, StoreRejected, TypeOK
  <2>2. obs' \in {"dead", "record"} /\ (obs' \in Working => obs \in Working)
    BY <1>4 DEF ObserverDies, StoreRejected, Working
  <2> QED BY <1>0, <1>4, <2>1, <2>2, TypeObserver
          DEF ObserverDies, StoreRejected, TypeOK, Working
<1>5. CASE ReadRange
  <2>1. todo' \subseteq Numbers /\ synced' \in 0 .. LastBlock /\ attempt' \in 0 .. MaxRetries
    BY <1>0, <1>5, RangeEndType DEF ReadRange, TypeOK
  <2>2. obs' \in {"range", "fetch"} /\ (obs' \in Working => todo' # {})
    BY <1>5 DEF ReadRange, Working
  <2> QED BY <1>0, <1>5, <2>1, <2>2, TypeObserver DEF ReadRange, TypeOK, Working
<1>6. CASE ReadRangeFails
  <2>1. attempt' \in 0 .. MaxRetries /\ faults' \in 0 .. MaxFaults
    BY <1>0, <1>1, <1>6, StartupAssumption DEF ReadRangeFails, MayRetry, TypeOK
  <2> QED BY <1>0, <1>6, <2>1, TypeObserver DEF ReadRangeFails, TypeOK, Working
<1>7. CASE Insert
  <2>1. todo # {} /\ todo \in SUBSET Numbers
    BY <1>7 DEF Insert, TypeOK, Working
  <2>2. Next1(todo) \in Numbers
    BY <2>1, HasNext
  <2>3. processed' \subseteq Numbers /\ recorded' \subseteq Numbers
    BY <1>7, <2>2 DEF Insert, TypeOK
  <2> QED BY <1>0, <1>7, <2>1, <2>3, TypeObserver DEF Insert, TypeOK, Working
<1>8. CASE Store \/ Record \/ RecordRejected
  <2>1. todo # {} /\ todo \in SUBSET Numbers
    BY <1>8 DEF Store, Record, RecordRejected, TypeOK, Working
  <2>2. Next1(todo) \in Numbers
    BY <2>1, HasNext
  <2>3. Advance /\ UNCHANGED <<target>>
    BY <1>8 DEF Store, Record, RecordRejected
  <2>4. /\ todo' \subseteq Numbers /\ obs' \in {"range", "fetch"}
        /\ obs' \in Working => todo' # {}
        /\ synced' \in 0 .. LastBlock /\ attempt' \in 0 .. MaxRetries
    BY <1>0, <2>1, <2>3, RangeEndType DEF Advance, Working, TypeOK
  <2>5. /\ stored' \subseteq Numbers /\ recorded' \subseteq Numbers /\ processed' \subseteq Numbers
        /\ faults' \in 0 .. MaxFaults
    BY <1>1, <1>8, <2>2 DEF Store, Record, RecordRejected, TypeOK
  <2>6. /\ UNCHANGED <<height, collection, version, savedTime, leftover, mainVars, continue,
                       clockVars, stopped, starts>>
        /\ target' \in 0 .. LastBlock
    BY <1>8 DEF Store, Record, RecordRejected, TypeOK
  <2> QED BY <1>0, <2>4, <2>5, <2>6, TypeObserver DEF Working
<1> QED BY <1>2, <1>3, <1>4, <1>5, <1>6, <1>7, <1>8 DEF SyncStep

LEMMA TypeNext == TypeOK /\ BlockHasLast /\ [Next]_vars => TypeOK'
<1> SUFFICES ASSUME TypeOK, BlockHasLast, [Next]_vars PROVE TypeOK'
  OBVIOUS
<1>1. CASE NextBlock
  <2>1. height' \in 0 .. LastBlock
    BY <1>1, StartupAssumption DEF NextBlock, TypeOK
  <2> QED BY <1>1, <2>1 DEF NextBlock, TypeOK, database, mainVars, obsVars, clockVars, notes
<1>2. CASE UNCHANGED vars
  BY <1>2 DEF vars, TypeOK, database, mainVars, obsVars, clockVars, notes
<1> QED BY <1>1, <1>2, TypeForget, TypeInitialize, TypeUpgrade, TypeShutdown, TypeClock, TypeSync
        DEF Next, MainStep

-----------------------------------------------------------------------------
(* The upgrade of the database                                             *)

\* What is known at each place of Core.initialize about the stores of an older version, and
\* that only a process that found or wrote this code's version observes.
UpgradeInv ==
  /\ main \notin Launched => obs = "off" /\ clock = "off"
  /\ version = "current" => leftover = {} /\ collection["operations"] = "indexed"
  /\ version # "current" => stored = {} /\ processed = {} /\ obs = "off"
  /\ main \in UpgradePlaces => observing /\ version \in {"none", "older"}
  /\ leftover \subseteq {"operations", "transactions", "unresolvable"}
  /\ main \in UpgradePlaces \ {"deleteOps"} => "operations" \notin leftover
  /\ main \in UpgradePlaces \ {"deleteOps", "clearTxs"} => "transactions" \notin leftover
  /\ main \in {"indexOps", "putVersion"} => "unresolvable" \notin leftover
  /\ main = "putVersion" => collection["operations"] = "indexed"
  /\ main \in {"queue", "observer"} \cup Launched /\ observing => version = "current"
  /\ clock \in {"ask", "put"} => state.version = version

LEMMA UpgradeInit == Init => UpgradeInv /\ BlockHasLast
BY DEF Init, UpgradeInv, BlockHasLast, UpgradePlaces, Clearing, Launched, Stopping

\* Steps that leave main, the version and the collections alone.
LEMMA UpgradeFrame ==
  ASSUME UpgradeInv, BlockHasLast,
         UNCHANGED <<main, collection, version, leftover, observing>>,
         obs' = "off" <=> obs = "off", obs' = "block" => stored' # {},
         version # "current" => stored' = stored /\ processed' = processed,
         clock' # "off" => clock # "off",
         clock' \in {"ask", "put"} => state'.version = version'
  PROVE  UpgradeInv' /\ BlockHasLast'
BY DEF UpgradeInv, BlockHasLast

LEMMA UpgradeForget ==
  ASSUME TypeOK, UpgradeInv, Crash \/ Exit
  PROVE  UpgradeInv' /\ BlockHasLast'
<1>1. /\ main' = "down" /\ obs' = "off" /\ clock' = "off"
      /\ UNCHANGED <<collection, version, leftover, stored, processed>>
  BY DEF Crash, Exit, Forget, database
<1> QED BY <1>1 DEF UpgradeInv, BlockHasLast, UpgradePlaces, Clearing, Launched, Stopping

LEMMA UpgradeInitialize ==
  ASSUME TypeOK, UpgradeInv, BlockHasLast,
         Start \/ OpenStore \/ CreateIndex \/ CheckVersion \/ StartObserver \/ FinishInitialize
  PROVE  UpgradeInv' /\ BlockHasLast'
<1> USE DEF database, obsVars, clockVars, notes
<1>1. CASE Start
  BY <1>1 DEF Start, UpgradeInv, BlockHasLast, UpgradePlaces, Clearing, Launched, Stopping
<1>2. CASE OpenStore \/ CreateIndex
  <2>1. main \in Stores
    BY <1>2 DEF OpenStore, CreateIndex, TypeOK
  <2>2. /\ main' \in {main, PlaceAfter(main)}
        /\ UNCHANGED <<version, leftover, observing, obs, clock, state, stored, processed>>
    BY <1>2 DEF OpenStore, CreateIndex
  <2>3. main' \in Stores \cup {"version", "observer"} /\ (main' = "observer" => main = "queue")
    BY <2>1, <2>2, PlacesAfter DEF Stores
  <2>4. main' = "queue" => main = "queue"
    BY <2>1, <2>2, PlacesAfter DEF Stores
  <2>5. collection["operations"] = "indexed" => collection'["operations"] = "indexed"
    BY <1>2 DEF OpenStore, CreateIndex, TypeOK, Stores
  <2>6. main \notin Launched /\ main' \notin Launched /\ main' \notin UpgradePlaces
    BY <2>1, <2>3 DEF Stores, Launched, Stopping, UpgradePlaces, Clearing
  <2> QED BY <2>2, <2>3, <2>4, <2>5, <2>6 DEF UpgradeInv, BlockHasLast, Stores
<1>3. CASE CheckVersion
  <2>1. /\ main' \in {"deleteOps", "queue", "refused"}
        /\ main' = "deleteOps" => observing /\ version \in {"none", "older"}
        /\ main' = "queue" => ~observing \/ version = "current"
    BY <1>3 DEF CheckVersion, AfterVersion, UpgradeOrder, TypeOK, DbVersions
  <2>2. /\ main = "version"
        /\ UNCHANGED <<collection, version, leftover, observing, obs, clock, state, stored, processed>>
    BY <1>3 DEF CheckVersion
  <2> QED BY <2>1, <2>2 DEF UpgradeInv, BlockHasLast, UpgradePlaces, Clearing, Launched, Stopping
<1>4. CASE StartObserver
  <2>1. /\ main = "observer" /\ main' = "clock" /\ clock' = "get"
        /\ UNCHANGED <<collection, version, leftover, observing, state, stored, processed>>
        /\ obs' = IF observing THEN "latestTime" ELSE obs
    BY <1>4 DEF StartObserver
  <2> QED BY <2>1 DEF UpgradeInv, BlockHasLast, UpgradePlaces, Clearing, Launched, Stopping
<1>5. CASE FinishInitialize
  <2>1. /\ main = "clock" /\ main' = "up"
        /\ UNCHANGED <<collection, version, leftover, observing, obs, clock, state, stored, processed>>
    BY <1>5 DEF FinishInitialize
  <2> QED BY <2>1 DEF UpgradeInv, BlockHasLast, UpgradePlaces, Clearing, Launched, Stopping
<1> QED BY <1>1, <1>2, <1>3, <1>4, <1>5

LEMMA UpgradeUpgrade ==
  ASSUME TypeOK, UpgradeInv, BlockHasLast,
         DeleteOps \/ ClearTxs \/ ClearUnresolvable \/ IndexOps \/ PutVersion
  PROVE  UpgradeInv' /\ BlockHasLast'
<1> USE DEF obsVars, clockVars, notes
<1>1. /\ main \in UpgradePlaces /\ main' = PlaceAfter(main)
      /\ UNCHANGED <<observing, obs, clock, state>>
  BY DEF DeleteOps, ClearTxs, ClearUnresolvable, IndexOps, PutVersion, UpgradePlaces, Clearing
<1>2. /\ obs = "off" /\ clock = "off" /\ observing /\ version \in {"none", "older"}
      /\ stored = {} /\ processed = {}
  BY <1>1 DEF UpgradeInv, UpgradePlaces, Clearing, Launched, Stopping
<1>3. stored' = {} /\ processed' = {}
  BY <1>2 DEF DeleteOps, ClearTxs, ClearUnresolvable, IndexOps, PutVersion
<1>4. CASE DeleteOps
  <2>1. /\ main = "deleteOps" /\ main' = "clearTxs" /\ leftover' = leftover \ {"operations"}
        /\ UNCHANGED <<collection, version>>
    BY <1>4, PlacesAfter DEF DeleteOps
  <2> QED BY <1>1, <1>2, <1>3, <2>1
          DEF UpgradeInv, BlockHasLast, UpgradePlaces, Clearing, Launched, Stopping
<1>5. CASE ClearTxs
  <2>1. /\ main = "clearTxs" /\ main' = "clearUnresolvable"
        /\ leftover' = leftover \ {"transactions"} /\ UNCHANGED <<collection, version>>
    BY <1>5, PlacesAfter DEF ClearTxs
  <2> QED BY <1>1, <1>2, <1>3, <2>1
          DEF UpgradeInv, BlockHasLast, UpgradePlaces, Clearing, Launched, Stopping
<1>6. CASE ClearUnresolvable
  <2>1. /\ main = "clearUnresolvable" /\ main' = "indexOps"
        /\ leftover' = leftover \ {"unresolvable"} /\ UNCHANGED <<collection, version>>
    BY <1>6, PlacesAfter DEF ClearUnresolvable
  <2> QED BY <1>1, <1>2, <1>3, <2>1
          DEF UpgradeInv, BlockHasLast, UpgradePlaces, Clearing, Launched, Stopping
<1>7. CASE IndexOps
  <2>1. /\ main = "indexOps" /\ main' = "putVersion" /\ UNCHANGED <<leftover, version>>
        /\ collection'["operations"] = "indexed"
    BY <1>7, PlacesAfter DEF IndexOps, TypeOK, Stores
  <2> QED BY <1>1, <1>2, <1>3, <2>1
          DEF UpgradeInv, BlockHasLast, UpgradePlaces, Clearing, Launched, Stopping
<1>8. CASE PutVersion
  <2>1. /\ main = "putVersion" /\ main' = "queue" /\ version' = "current"
        /\ UNCHANGED <<leftover, collection>>
    BY <1>8, PlacesAfter DEF PutVersion
  <2>2. leftover = {} /\ collection["operations"] = "indexed"
    BY <2>1 DEF UpgradeInv, UpgradePlaces, Clearing
  <2> QED BY <1>1, <1>2, <1>3, <2>1, <2>2
          DEF UpgradeInv, BlockHasLast, UpgradePlaces, Clearing, Launched, Stopping
<1> QED BY <1>4, <1>5, <1>6, <1>7, <1>8

LEMMA UpgradeShutdown ==
  ASSUME UpgradeInv, BlockHasLast, Shutdown \/ StopDownloads \/ StopStore
  PROVE  UpgradeInv' /\ BlockHasLast'
<1>1. /\ main \in Launched /\ main' \in Launched
      /\ UNCHANGED <<collection, version, leftover, observing, obs, state, stored, processed>>
      /\ clock' \in {clock, "off"}
  BY DEF Shutdown, StopDownloads, StopStore, Launched, Stopping, database, obsVars, clockVars, notes
<1> QED BY <1>1 DEF UpgradeInv, BlockHasLast, UpgradePlaces, Clearing, Launched, Stopping

LEMMA UpgradeClock ==
  ASSUME TypeOK, UpgradeInv, BlockHasLast, ClockStep
  PROVE  UpgradeInv' /\ BlockHasLast'
<1>1. UNCHANGED <<main, collection, leftover, observing, obs, stored, processed>>
  BY DEF ClockStep, ClockTick, ClockGet, ClockAsk, ClockPut, ClockRejected,
         database, mainVars, obsVars, notes
<1>2. version' = version
  BY DEF ClockStep, ClockTick, ClockGet, ClockAsk, ClockPut, ClockRejected, database, UpgradeInv
<1>3. clock # "off"
  BY DEF ClockStep, ClockTick, ClockGet, ClockAsk, ClockPut, ClockRejected
<1>4. clock' \in {"ask", "put"} => state'.version = version
  BY DEF ClockStep, ClockTick, ClockGet, ClockAsk, ClockPut, ClockRejected, ClockAfterFailure,
         StateWithTime, UpgradeInv, TypeOK
<1> QED BY <1>1, <1>2, <1>3, <1>4, UpgradeFrame DEF BlockHasLast

LEMMA UpgradeSync ==
  ASSUME TypeOK, UpgradeInv, BlockHasLast, SyncStep
  PROVE  UpgradeInv' /\ BlockHasLast'
<1> USE DEF database, mainVars, clockVars, notes
<1>1. UNCHANGED <<main, collection, version, leftover, observing, clock, state>>
  BY DEF SyncStep, GetLatestTime, GetLast, GetBlock, ObserverDies, GoLive, ReadRange,
         ReadRangeFails, Fetch, Insert, Store, StoreRejected, Record, RecordRejected
<1>2. obs # "off" /\ obs' # "off"
  BY DEF SyncStep, GetLatestTime, GetLast, GetBlock, ObserverDies, GoLive, ReadRange,
         ReadRangeFails, Fetch, Insert, Store, StoreRejected, Record, RecordRejected, Advance
<1>3. obs' = "block" => stored' # {}
  BY DEF SyncStep, GetLatestTime, GetLast, GetBlock, ObserverDies, GoLive, ReadRange,
         ReadRangeFails, Fetch, Insert, Store, StoreRejected, Record, RecordRejected, Advance
<1>4. version = "current"
  BY <1>2 DEF UpgradeInv
<1> QED BY <1>1, <1>2, <1>3, <1>4, UpgradeFrame DEF UpgradeInv

LEMMA UpgradeNext ==
  TypeOK /\ UpgradeInv /\ BlockHasLast /\ [Next]_vars => UpgradeInv' /\ BlockHasLast'
<1> SUFFICES ASSUME TypeOK, UpgradeInv, BlockHasLast, [Next]_vars
             PROVE  UpgradeInv' /\ BlockHasLast'
  OBVIOUS
<1>1. CASE NextBlock \/ UNCHANGED vars
  <2>1. UNCHANGED <<main, collection, version, leftover, observing, obs, clock, state, stored,
                    processed>>
    BY <1>1 DEF NextBlock, vars, database, mainVars, obsVars, clockVars, notes
  <2> QED BY <2>1, UpgradeFrame DEF UpgradeInv, BlockHasLast
<1> QED BY <1>1, UpgradeForget, UpgradeInitialize, UpgradeUpgrade, UpgradeShutdown, UpgradeClock,
           UpgradeSync DEF Next, MainStep

THEOREM UpgradeInvariance == Spec => [](TypeOK /\ UpgradeInv /\ BlockHasLast)
<1>1. Init => TypeOK /\ UpgradeInv /\ BlockHasLast
  BY TypeInit, UpgradeInit
<1>2. (TypeOK /\ UpgradeInv /\ BlockHasLast) /\ [Next]_vars
        => (TypeOK /\ UpgradeInv /\ BlockHasLast)'
  BY TypeNext, UpgradeNext
<1> QED BY <1>1, <1>2, PTL DEF Spec

\* Every variable keeps its type, and a range is only worked on while transactions of it are
\* left.
THEOREM TypeCorrect == Spec => []TypeOK
BY UpgradeInvariance, PTL

\* The observer runs only over a database that was upgraded to the end, after any number of
\* crashes in the middle of the upgrade (Core.ts:241-292).
THEOREM OnlyUpgradedIsObserved == Spec => []ObservesUpgraded
<1>1. UpgradeInv => ObservesUpgraded
  BY DEF UpgradeInv, ObservesUpgraded
<1> QED BY <1>1, UpgradeInvariance, PTL
-----------------------------------------------------------------------------
(* What was synchronised stays                                             *)

LEMMA NothingGoesAway ==
  ASSUME TypeOK, UpgradeInv, Next
  PROVE  /\ processed \subseteq processed' /\ stored \subseteq stored'
         /\ version = "newer" => leftover' = leftover /\ version' = version
<1> USE DEF database, mainVars, obsVars, clockVars, notes
<1>1. CASE DeleteOps \/ ClearTxs \/ ClearUnresolvable \/ IndexOps \/ PutVersion
  <2>1. main \in UpgradePlaces
    BY <1>1 DEF DeleteOps, ClearTxs, ClearUnresolvable, IndexOps, PutVersion, UpgradePlaces,
                Clearing
  <2>2. version \in {"none", "older"} /\ processed = {} /\ stored = {}
    BY <2>1 DEF UpgradeInv
  <2> QED BY <2>2
<1>2. CASE \/ NextBlock \/ Start \/ Shutdown \/ Crash \/ Exit
           \/ OpenStore \/ CreateIndex \/ CheckVersion \/ StartObserver \/ FinishInitialize
           \/ StopDownloads \/ StopStore
  BY <1>2 DEF NextBlock, Start, Shutdown, Crash, Exit, Forget, OpenStore, CreateIndex,
              CheckVersion, StartObserver, FinishInitialize, StopDownloads, StopStore
<1>3. CASE ClockStep
  <2>1. version' = version
    BY <1>3 DEF ClockStep, ClockTick, ClockGet, ClockAsk, ClockPut, ClockRejected, UpgradeInv
  <2> QED BY <1>3, <2>1 DEF ClockStep, ClockTick, ClockGet, ClockAsk, ClockPut, ClockRejected
<1>4. CASE SyncStep
  BY <1>4 DEF SyncStep, GetLatestTime, GetLast, GetBlock, ObserverDies, GoLive, ReadRange,
              ReadRangeFails, Fetch, Insert, Store, StoreRejected, Record, RecordRejected
<1> QED BY <1>1, <1>2, <1>3, <1>4 DEF Next, MainStep

\* No start after the first of this version clears what was synchronised, and a later
\* version's stores are not touched, whatever the clock writes back
\* (Core.ts:241-292, BlockchainClock.ts:75-101).
THEOREM NothingIsThrownAway == Spec => NothingThrownAway
<1>1. TypeOK /\ UpgradeInv /\ [Next]_vars
        => [/\ processed \subseteq processed' /\ stored \subseteq stored'
            /\ version = "newer" => leftover' = leftover /\ version' = version]_vars
  BY NothingGoesAway
<1> QED BY <1>1, UpgradeInvariance, PTL DEF Spec, NothingThrownAway

-----------------------------------------------------------------------------
(* The synchronisation                                                     *)

AfterOpening == {"version"} \cup UpgradePlaces
                  \cup {"queue", "observer", "clock", "up", "refused", "stopDownloads"}

\* The operation store is open as long as the transaction store is: it is opened before the
\* observer starts and closed after the other one.
OpenInv ==
  /\ main \in AfterOpening => {"transactions", "operations"} \subseteq open
  /\ main \in {"unresolvable", "operations"} => "transactions" \in open
  /\ fresh => main \in open
  /\ main = "stopStores" /\ "transactions" \in open => "operations" \in open

\* Unless the stores are closed, everything below the range, everything of it that was taken,
\* and the transaction that is about to be stored has been processed.
SyncInv ==
  /\ StoredWithoutHole
  /\ obs \in Working => todo \subseteq InRange(synced, RangeEnd)
  /\ obs \in {"range"} \cup Working /\ "transactions" \in open =>
       \A t \in Numbers : BlockOf[t] < synced => t \in processed
  /\ obs \in Working /\ "transactions" \in open =>
       \A t \in InRange(synced, RangeEnd) \ todo : t \in processed
  /\ obs \in {"store", "record"} /\ "transactions" \in open => Next1(todo) \in processed

LEMMA OpenNext ==
  TypeOK /\ UpgradeInv /\ OpenInv /\ [Next]_vars => OpenInv'
<1> SUFFICES ASSUME TypeOK, UpgradeInv, OpenInv, [Next]_vars PROVE OpenInv'
  OBVIOUS
<1> USE DEF database, mainVars, obsVars, clockVars, notes
<1>1. CASE Crash \/ Exit \/ Start
  <2>1. main' \in {"down", "service"} /\ ~fresh'
    BY <1>1 DEF Crash, Exit, Forget, Start, TypeOK, Stores
  <2> QED BY <2>1 DEF OpenInv, AfterOpening, UpgradePlaces, Clearing
<1>2. CASE OpenStore
  <2>1. main \in Stores /\ ~fresh /\ open' = open \cup {main}
    BY <1>2 DEF OpenStore
  <2>2. CASE main' = main
    BY <2>1, <2>2 DEF OpenInv, AfterOpening, UpgradePlaces, Clearing, Stores
  <2>3. CASE main' = PlaceAfter(main) /\ ~fresh'
    BY <2>1, <2>3, PlacesAfter DEF OpenInv, AfterOpening, UpgradePlaces, Clearing, Stores
  <2> QED BY <1>2, <2>1, <2>2, <2>3 DEF OpenStore
<1>3. CASE CreateIndex
  <2>1. main \in Stores /\ main \in open /\ open' = open /\ main' = PlaceAfter(main) /\ ~fresh'
    BY <1>3 DEF CreateIndex, TypeOK, OpenInv
  <2> QED BY <2>1, PlacesAfter DEF OpenInv, AfterOpening, UpgradePlaces, Clearing, Stores
<1>4. CASE DeleteOps \/ ClearTxs \/ ClearUnresolvable \/ IndexOps \/ PutVersion
  <2>1. main \in UpgradePlaces /\ open' = open /\ main' = PlaceAfter(main) /\ fresh' = fresh
    BY <1>4 DEF DeleteOps, ClearTxs, ClearUnresolvable, IndexOps, PutVersion, UpgradePlaces,
                Clearing
  <2>2. main' \in AfterOpening
    BY <2>1, PlacesAfter DEF AfterOpening, UpgradePlaces, Clearing
  <2>3. ~fresh
    BY <2>1 DEF TypeOK, Stores, UpgradePlaces, Clearing
  <2> QED BY <2>1, <2>2, <2>3 DEF OpenInv, AfterOpening, UpgradePlaces, Clearing
<1>5. CASE CheckVersion \/ StartObserver \/ FinishInitialize \/ Shutdown
  <2>1. /\ main \in AfterOpening /\ main' \in AfterOpening /\ open' = open /\ fresh' = fresh
        /\ main \notin Stores
    BY <1>5 DEF CheckVersion, AfterVersion, UpgradeOrder, StartObserver, FinishInitialize,
                Shutdown, AfterOpening, UpgradePlaces, Clearing, Stores
  <2>2. main' \notin {"unresolvable", "operations", "stopStores"} /\ ~fresh
    BY <2>1 DEF AfterOpening, UpgradePlaces, Clearing, TypeOK
  <2> QED BY <2>1, <2>2 DEF OpenInv
<1>6. CASE StopDownloads
  <2>1. main = "stopDownloads" /\ main' = "stopStores" /\ open' = open /\ fresh' = fresh
    BY <1>6 DEF StopDownloads
  <2>2. ~fresh
    BY <2>1 DEF TypeOK, Stores
  <2> QED BY <2>1, <2>2 DEF OpenInv, AfterOpening, UpgradePlaces, Clearing
<1>7. CASE StopStore
  <2>1. main = "stopStores" /\ main' = main /\ fresh' = fresh /\ ~fresh
    BY <1>7 DEF StopStore, TypeOK, Stores
  <2>2. "transactions" \in open' => "transactions" \in open /\ "operations" \in open'
    <3>1. PICK i \in DOMAIN StopOrder :
            /\ \A j \in 1 .. i - 1 : StopOrder[j] \notin open
            /\ open' = open \ {StopOrder[i]}
      BY <1>7 DEF StopStore
    <3>2. DOMAIN StopOrder = 1 .. 5 /\ StopOrder[2] = "transactions" /\ StopOrder[4] = "operations"
          /\ StopOrder[1] = "service" /\ StopOrder[3] = "unresolvable" /\ StopOrder[5] = "queue"
      BY DEF StopOrder
    <3>3. CASE i = 4
      <4>1. 2 \in 1 .. i - 1
        BY <3>3
      <4> QED BY <3>1, <3>2, <4>1
    <3>4. CASE i # 4
      <4>1. StopOrder[i] # "operations"
        BY <3>2, <3>4
      <4> QED BY <2>1, <3>1, <4>1 DEF OpenInv
    <3> QED BY <3>3, <3>4
  <2> QED BY <2>1, <2>2 DEF OpenInv, AfterOpening, UpgradePlaces, Clearing
<1>8. CASE NextBlock \/ ClockStep \/ SyncStep \/ UNCHANGED vars
  <2>1. UNCHANGED <<main, fresh, open>>
    BY <1>8 DEF NextBlock, vars, ClockStep, ClockTick, ClockGet, ClockAsk, ClockPut, ClockRejected,
                SyncStep, GetLatestTime, GetLast, GetBlock, ObserverDies, GoLive, ReadRange,
                ReadRangeFails, Fetch, Insert, Store, StoreRejected, Record, RecordRejected
  <2> QED BY <2>1 DEF OpenInv
<1> QED BY <1>1, <1>2, <1>3, <1>4, <1>5, <1>6, <1>7, <1>8 DEF Next, MainStep
LEMMA SyncInit == Init => OpenInv /\ SyncInv
BY DEF Init, OpenInv, SyncInv, StoredWithoutHole, Working, AfterOpening, UpgradePlaces, Clearing

\* Steps that leave the observer where it is.
LEMMA SyncFrame ==
  ASSUME SyncInv, UNCHANGED <<obs, synced, target, todo>>,
         stored' \subseteq stored, processed \subseteq processed',
         obs # "off" => open' \subseteq open
  PROVE  SyncInv'
<1>1. RangeEnd' = RangeEnd /\ InRange(synced, RangeEnd)' = InRange(synced, RangeEnd)
  BY DEF RangeEnd, InRange, Least
<1>2. StoredWithoutHole'
  BY DEF SyncInv, StoredWithoutHole
<1>3. Next1(todo)' = Next1(todo)
  BY DEF Next1
<1> QED BY <1>1, <1>2, <1>3 DEF SyncInv, Working

\* Steps after which no range is synchronised.
LEMMA SyncQuiet ==
  ASSUME SyncInv, obs' \notin {"range"} \cup Working,
         stored' = stored, processed' = processed
  PROVE  SyncInv'
BY DEF SyncInv, StoredWithoutHole, Working

LEMMA MainKeepsSync ==
  ASSUME TypeOK, UpgradeInv, SyncInv, Next,
         \/ NextBlock \/ ClockStep \/ Start \/ Shutdown \/ OpenStore \/ CreateIndex \/ CheckVersion
         \/ DeleteOps \/ ClearTxs \/ ClearUnresolvable \/ IndexOps \/ PutVersion
         \/ StartObserver \/ FinishInitialize \/ StopDownloads \/ StopStore
  PROVE  SyncInv'
<1> USE DEF database, mainVars, obsVars, clockVars, notes
<1>1. processed \subseteq processed'
  BY NothingGoesAway
<1>2. CASE StartObserver
  <2>1. obs = "off" /\ obs' \in {"off", "latestTime"} /\ stored' = stored /\ processed' = processed
    BY <1>2 DEF StartObserver, UpgradeInv, Launched, Stopping
  <2> QED BY <2>1, SyncQuiet DEF Working
<1>3. CASE \/ NextBlock \/ ClockStep \/ Shutdown \/ CheckVersion \/ FinishInitialize
           \/ StopDownloads \/ StopStore
  <2>1. UNCHANGED <<obs, synced, target, todo, stored>> /\ open' \subseteq open
    BY <1>3 DEF NextBlock, ClockStep, ClockTick, ClockGet, ClockAsk, ClockPut, ClockRejected,
                Shutdown, CheckVersion, FinishInitialize, StopDownloads, StopStore
  <2> QED BY <1>1, <2>1, SyncFrame
<1>4. CASE \/ Start \/ OpenStore \/ CreateIndex
           \/ DeleteOps \/ ClearTxs \/ ClearUnresolvable \/ IndexOps \/ PutVersion
  <2>1. main \notin Launched
    BY <1>4 DEF Start, OpenStore, CreateIndex, DeleteOps, ClearTxs, ClearUnresolvable, IndexOps,
                PutVersion, TypeOK, Stores, Launched, Stopping
  <2>2. obs = "off"
    BY <2>1 DEF UpgradeInv
  <2>3. UNCHANGED <<obs, synced, target, todo>> /\ stored' \subseteq stored
    BY <1>4 DEF Start, OpenStore, CreateIndex, DeleteOps, ClearTxs, ClearUnresolvable, IndexOps,
                PutVersion
  <2> QED BY <1>1, <2>2, <2>3, SyncFrame
<1> QED BY <1>2, <1>3, <1>4

LEMMA ForgetKeepsSync ==
  ASSUME SyncInv, Crash \/ Exit
  PROVE  SyncInv'
<1>1. obs' = "off" /\ stored' = stored /\ processed' = processed
  BY DEF Crash, Exit, Forget, database
<1> QED BY <1>1, SyncQuiet DEF Working

-----------------------------------------------------------------------------
(* Steps of the synchronisation                                            *)

LEMMA BlocksAscend ==
  /\ \A t \in Numbers : t \in Nat /\ BlockOf[t] \in Int
  /\ \A t, u \in Numbers : t <= u => BlockOf[t] <= BlockOf[u]
<1>1. \A t \in Numbers : t \in Nat
  BY StartupAssumption
<1>2. \A t \in Numbers : BlockOf[t] \in 1 .. LastBlock
  BY StartupAssumption
<1>3. \A b \in 1 .. LastBlock : b \in Int
  OBVIOUS
<1> QED BY <1>1, <1>2, <1>3, StartupAssumption

\* The next transaction to take is one of the range, and everything before it was taken.
LEMMA TakenBefore ==
  ASSUME TypeOK, SyncInv, obs \in Working, "transactions" \in open,
         NEW t \in Numbers, t <= Next1(todo), t # Next1(todo)
  PROVE  t \in processed
<1> DEFINE n == Next1(todo)
<1>1. n \in todo /\ \A u \in todo : n <= u
  BY HasNext DEF TypeOK
<1>2. n \in Numbers /\ n \in InRange(synced, RangeEnd) /\ t \notin todo
  <2>1. t \in Nat /\ n \in Nat
    BY <1>1, StartupAssumption DEF TypeOK
  <2>2. t \notin todo
    BY <1>1, <2>1
  <2> QED BY <1>1, <2>2 DEF SyncInv, TypeOK
<1>3. BlockOf[t] <= BlockOf[n] /\ BlockOf[t] \in Int /\ BlockOf[n] \in Int
  BY <1>2, BlocksAscend
<1>4. synced \in Int /\ RangeEnd \in Int
  BY RangeEndType DEF TypeOK
<1>5. BlockOf[n] <= RangeEnd
  BY <1>2, <1>3, <1>4 DEF InRange, RangeFrom
<1> HIDE DEF n
<1>6. CASE BlockOf[t] < synced
  BY <1>6 DEF SyncInv, Working
<1>7. CASE ~(BlockOf[t] < synced)
  <2>1. t \in InRange(synced, RangeEnd)
    BY <1>3, <1>4, <1>5, <1>7 DEF InRange, RangeFrom
  <2> QED BY <1>2, <2>1 DEF SyncInv
<1> QED BY <1>6, <1>7

\* When a transaction was taken the next one follows, or the next range.
LEMMA AdvanceKeepsSync ==
  ASSUME TypeOK, SyncInv, obs \in {"store", "record"}, Advance,
         StoredWithoutHole', UNCHANGED <<target, open, processed>>
  PROVE  SyncInv'
<1>1. todo \in SUBSET Numbers /\ todo # {} /\ obs \in Working
  BY DEF TypeOK, Working
<1>2. synced \in Int /\ RangeEnd \in Int
  BY RangeEndType DEF TypeOK
<1>3. "transactions" \in open => \A t \in InRange(synced, RangeEnd) \ todo' : t \in processed
  BY <1>1 DEF SyncInv, Advance
<1>4. CASE todo' = {}
  <2>1. obs' = "range" /\ synced' = RangeEnd
    BY <1>4 DEF Advance
  <2>2. ASSUME "transactions" \in open, NEW t \in Numbers, BlockOf[t] < RangeEnd
        PROVE  t \in processed
    <3>1. BlockOf[t] \in Int
      BY StartupAssumption
    <3>2. CASE BlockOf[t] < synced
      BY <1>1, <2>2, <3>2 DEF SyncInv
    <3>3. CASE ~(BlockOf[t] < synced)
      <4>1. t \in InRange(synced, RangeEnd)
        BY <1>2, <2>2, <3>1, <3>3 DEF InRange, RangeFrom
      <4> QED BY <1>3, <1>4, <2>2, <4>1
    <3> QED BY <3>2, <3>3
  <2> QED BY <2>1, <2>2 DEF SyncInv, Working
<1>5. CASE todo' # {}
  <2>1. obs' = "fetch" /\ synced' = synced /\ todo' \subseteq todo
    BY <1>5 DEF Advance
  <2>2. RangeEnd' = RangeEnd /\ InRange(synced, RangeEnd)' = InRange(synced, RangeEnd)
    BY <2>1 DEF RangeEnd, InRange, Least
  <2> QED BY <1>1, <1>3, <2>1, <2>2 DEF SyncInv, Working
<1> QED BY <1>4, <1>5

LEMMA StoreKeepsSync == TypeOK /\ SyncInv /\ Store => SyncInv'
<1> SUFFICES ASSUME TypeOK, SyncInv, Store PROVE SyncInv'
  OBVIOUS
<1> DEFINE n == Next1(todo)
<1>1. /\ obs = "store" /\ "transactions" \in open /\ stored' = stored \cup {n} /\ Advance
      /\ UNCHANGED <<target, open, processed>>
  BY DEF Store, mainVars, notes
<1>2. n \in Numbers /\ n \in processed /\ obs \in Working
  BY <1>1, HasNext DEF TypeOK, SyncInv, Working
<1>3. \A t \in Numbers : t <= n => t \in processed
  BY <1>1, <1>2, TakenBefore
<1> HIDE DEF n
<1>4. StoredWithoutHole'
  BY <1>1, <1>3 DEF SyncInv, StoredWithoutHole
<1> QED BY <1>1, <1>4, AdvanceKeepsSync

LEMMA RecordKeepsSync == TypeOK /\ SyncInv /\ (Record \/ RecordRejected) => SyncInv'
<1> SUFFICES ASSUME TypeOK, SyncInv, Record \/ RecordRejected PROVE SyncInv'
  OBVIOUS
<1>1. /\ obs = "record" /\ stored' = stored /\ Advance
      /\ UNCHANGED <<target, open, processed>>
  BY DEF Record, RecordRejected, database, mainVars, notes
<1>2. StoredWithoutHole'
  BY <1>1 DEF SyncInv, StoredWithoutHole
<1> QED BY <1>1, <1>2, AdvanceKeepsSync

LEMMA InsertKeepsSync == TypeOK /\ UpgradeInv /\ OpenInv /\ SyncInv /\ Insert => SyncInv'
<1> SUFFICES ASSUME TypeOK, UpgradeInv, OpenInv, SyncInv, Insert PROVE SyncInv'
  OBVIOUS
<1>1. /\ obs = "insert" /\ obs' = "store"
      /\ UNCHANGED <<main, open, stored, synced, target, todo>>
  BY DEF Insert, mainVars
<1>2. main \in Launched
  BY <1>1 DEF UpgradeInv
<1>3. "transactions" \in open => "operations" \in open
  BY <1>2 DEF OpenInv, Launched, Stopping, AfterOpening
<1>4. /\ processed \subseteq processed'
      /\ "operations" \in open => Next1(todo) \in processed'
  BY DEF Insert
<1>5. /\ RangeEnd' = RangeEnd /\ InRange(synced, RangeEnd)' = InRange(synced, RangeEnd)
      /\ Next1(todo)' = Next1(todo)
  BY <1>1 DEF RangeEnd, InRange, Least, Next1
<1>6. StoredWithoutHole'
  BY <1>1, <1>4 DEF SyncInv, StoredWithoutHole
<1> QED BY <1>1, <1>3, <1>4, <1>5, <1>6 DEF SyncInv, Working

\* A new range, also of no transaction; it starts where the last one ended.
LEMMA ReadRangeKeepsSync == TypeOK /\ SyncInv /\ ReadRange => SyncInv'
<1> SUFFICES ASSUME TypeOK, SyncInv, ReadRange PROVE SyncInv'
  OBVIOUS
<1>1. /\ obs = "range" /\ todo' = InRange(synced, RangeEnd)
      /\ UNCHANGED <<open, stored, target, processed>>
  BY DEF ReadRange, database, mainVars, notes
<1>2. StoredWithoutHole'
  BY <1>1 DEF SyncInv, StoredWithoutHole
<1>3. CASE todo' = {}
  <2>1. obs' = "range" /\ synced' = RangeEnd
    BY <1>1, <1>3 DEF ReadRange
  <2>2. ASSUME "transactions" \in open, NEW t \in Numbers, BlockOf[t] < RangeEnd
        PROVE  t \in processed
    <3>1. BlockOf[t] \in Int /\ synced \in Int /\ RangeEnd \in Int
      BY StartupAssumption, RangeEndType DEF TypeOK
    <3>2. BlockOf[t] < synced
      BY <1>1, <1>3, <2>2, <3>1 DEF InRange, RangeFrom
    <3> QED BY <1>1, <2>2, <3>2 DEF SyncInv
  <2> QED BY <1>1, <1>2, <2>1, <2>2 DEF SyncInv, Working
<1>4. CASE todo' # {}
  <2>1. obs' = "fetch" /\ synced' = synced
    BY <1>1, <1>4 DEF ReadRange
  <2>2. RangeEnd' = RangeEnd /\ InRange(synced, RangeEnd)' = InRange(synced, RangeEnd)
    BY <1>1, <2>1 DEF RangeEnd, InRange, Least
  <2> QED BY <1>1, <1>2, <2>1, <2>2 DEF SyncInv, Working
<1> QED BY <1>3, <1>4

\* The first range: over an empty store from the beginning, else from the block of the last
\* transaction stored, which has all earlier blocks below it.
LEMMA FirstRangeKeepsSync ==
  TypeOK /\ BlockHasLast /\ SyncInv /\ (GetLast \/ GetBlock) => SyncInv'
<1> SUFFICES ASSUME TypeOK, BlockHasLast, SyncInv, GetLast \/ GetBlock PROVE SyncInv'
  OBVIOUS
<1>1. UNCHANGED <<stored, processed>>
  BY DEF GetLast, GetBlock, database, notes
<1>2. StoredWithoutHole'
  BY <1>1 DEF SyncInv, StoredWithoutHole
<1>3. CASE obs' \notin {"range"}
  <2>1. obs' \notin Working
    BY <1>3 DEF GetLast, GetBlock, Working
  <2> QED BY <1>1, <1>3, <2>1, SyncQuiet
<1>4. CASE obs' = "range" /\ synced' = 0
  <2>1. \A t \in Numbers : ~(BlockOf[t] < 0)
    BY StartupAssumption
  <2> QED BY <1>2, <1>4, <2>1 DEF SyncInv, Working
<1>5. CASE stored # {} /\ obs' = "range" /\ synced' = BlockOf[Last(stored)]
  <2>1. Last(stored) \in stored /\ Last(stored) \in Numbers
    BY <1>5, HasLast DEF TypeOK
  <2>2. ASSUME NEW t \in Numbers, BlockOf[t] < BlockOf[Last(stored)] PROVE t \in processed
    <3>1. t \in Nat /\ Last(stored) \in Nat /\ BlockOf[t] \in Int /\ BlockOf[Last(stored)] \in Int
      BY <2>1, BlocksAscend
    <3>2. ~(Last(stored) <= t)
      BY <2>1, <2>2, <3>1, BlocksAscend
    <3>3. t <= Last(stored)
      BY <3>1, <3>2
    <3> QED BY <2>1, <3>3 DEF SyncInv, StoredWithoutHole
  <2> QED BY <1>1, <1>2, <1>5, <2>2 DEF SyncInv, Working
<1>6. CASE GetLast
  BY <1>3, <1>4, <1>6 DEF GetLast
<1>7. CASE GetBlock
  BY <1>3, <1>5, <1>7 DEF GetBlock, BlockHasLast, ResumeAt
<1> QED BY <1>6, <1>7

LEMMA OtherSyncSteps ==
  TypeOK /\ SyncInv
    /\ (GetLatestTime \/ ObserverDies \/ GoLive \/ ReadRangeFails \/ Fetch \/ StoreRejected)
    => SyncInv'
<1> SUFFICES ASSUME TypeOK, SyncInv,
                    GetLatestTime \/ ObserverDies \/ GoLive \/ ReadRangeFails \/ Fetch \/ StoreRejected
             PROVE  SyncInv'
  OBVIOUS
<1> USE DEF database, mainVars, clockVars, notes
<1>1. CASE GetLatestTime \/ ObserverDies \/ GoLive
  <2>1. obs' \in {"last", "dead", "live"} /\ UNCHANGED <<stored, processed>>
    BY <1>1 DEF GetLatestTime, ObserverDies, GoLive
  <2> QED BY <2>1, SyncQuiet DEF Working
<1>2. CASE ReadRangeFails
  BY <1>2, SyncFrame DEF ReadRangeFails
<1>3. CASE Fetch \/ StoreRejected
  <2>1. /\ obs \in {"fetch", "store"} /\ obs' \in {"insert", "record"}
        /\ obs' = "record" => obs = "store"
        /\ UNCHANGED <<stored, processed, open, synced, target, todo>>
    BY <1>3 DEF Fetch, StoreRejected
  <2>2. /\ RangeEnd' = RangeEnd /\ InRange(synced, RangeEnd)' = InRange(synced, RangeEnd)
        /\ Next1(todo)' = Next1(todo)
    BY <2>1 DEF RangeEnd, InRange, Least, Next1
  <2>3. StoredWithoutHole'
    BY <2>1 DEF SyncInv, StoredWithoutHole
  <2> QED BY <2>1, <2>2, <2>3 DEF SyncInv, Working
<1> QED BY <1>1, <1>2, <1>3

LEMMA SyncNext ==
  TypeOK /\ UpgradeInv /\ BlockHasLast /\ OpenInv /\ SyncInv /\ [Next]_vars => SyncInv'
<1> SUFFICES ASSUME TypeOK, UpgradeInv, BlockHasLast, OpenInv, SyncInv, [Next]_vars
             PROVE  SyncInv'
  OBVIOUS
<1>1. CASE UNCHANGED vars
  BY <1>1, SyncFrame DEF vars, database, mainVars, obsVars, notes
<1>2. CASE SyncStep
  BY <1>2, StoreKeepsSync, RecordKeepsSync, InsertKeepsSync, ReadRangeKeepsSync,
     FirstRangeKeepsSync, OtherSyncSteps DEF SyncStep
<1> QED BY <1>1, <1>2, MainKeepsSync, ForgetKeepsSync DEF Next, MainStep

\* The transaction store never holds a transaction above one that was passed over: not over
\* ranges that overlap or are read again, a resumed synchronisation, refused inserts, crashes
\* or a shutdown that closes one store after the other (Observer.ts:134-314, Core.ts:163-178).
THEOREM NothingIsPassedOver == Spec => []StoredWithoutHole
<1> DEFINE AllInv == TypeOK /\ UpgradeInv /\ BlockHasLast /\ OpenInv /\ SyncInv
<1>1. Init => AllInv
  BY TypeInit, UpgradeInit, SyncInit
<1>2. AllInv /\ [Next]_vars => AllInv'
  BY TypeNext, UpgradeNext, OpenNext, SyncNext
<1>3. AllInv => StoredWithoutHole
  BY DEF SyncInv
<1> HIDE DEF AllInv
<1> QED BY <1>1, <1>2, <1>3, PTL DEF Spec

-----------------------------------------------------------------------------
(* Going live                                                              *)

\* Until shutdown is called the stores stay open and the observer is not told to stop.
RunsUntilStopped ==
  /\ main \in Stopping => stopped
  /\ obs # "off" /\ ~stopped => continue

\* The block a range begins with was completed, but for the first range, which begins with
\* the block of the last transaction stored; that one ends above it.
RangeIsNeeded ==
  obs \in {"range"} \cup Working /\ "transactions" \in open =>
    synced < target \/ \A t \in Numbers : BlockOf[t] <= synced => t \in processed

LiveInv == RunsUntilStopped /\ RangeIsNeeded /\ LiveIsSynced

LEMMA LiveInit == Init => LiveInv
BY DEF Init, LiveInv, RunsUntilStopped, RangeIsNeeded, LiveIsSynced, Working, Stopping

LEMMA RunsUntilStoppedNext ==
  TypeOK /\ UpgradeInv /\ RunsUntilStopped /\ [Next]_vars => RunsUntilStopped'
<1> SUFFICES ASSUME TypeOK, UpgradeInv, RunsUntilStopped, [Next]_vars PROVE RunsUntilStopped'
  OBVIOUS
<1> USE DEF database, mainVars, obsVars, clockVars, notes
<1>1. CASE Crash \/ Exit
  BY <1>1 DEF Crash, Exit, Forget, RunsUntilStopped, Stopping
<1>2. CASE Start
  <2>1. obs = "off"
    BY <1>2 DEF Start, UpgradeInv, Launched, Stopping
  <2> QED BY <1>2, <2>1 DEF Start, RunsUntilStopped, Stopping
<1>3. CASE Shutdown
  BY <1>3 DEF Shutdown, RunsUntilStopped, Stopping
<1>4. CASE StartObserver
  <2>1. obs = "off"
    BY <1>4 DEF StartObserver, UpgradeInv, Launched, Stopping
  <2> QED BY <1>4, <2>1 DEF StartObserver, RunsUntilStopped, Stopping
<1>5. CASE StopDownloads
  BY <1>5 DEF StopDownloads, RunsUntilStopped, Stopping
<1>6. CASE \/ OpenStore \/ CreateIndex \/ CheckVersion \/ DeleteOps \/ ClearTxs
           \/ ClearUnresolvable \/ IndexOps \/ PutVersion \/ FinishInitialize
  <2>1. main' = main \/ main' \notin Stopping
    <3>1. CASE OpenStore \/ CreateIndex \/ DeleteOps \/ ClearTxs \/ ClearUnresolvable
               \/ IndexOps \/ PutVersion
      BY <3>1, PlacesAfter DEF OpenStore, CreateIndex, DeleteOps, ClearTxs, ClearUnresolvable,
         IndexOps, PutVersion, Stopping, Stores, TypeOK
    <3>2. CASE CheckVersion \/ FinishInitialize
      BY <3>2 DEF CheckVersion, AfterVersion, UpgradeOrder, FinishInitialize, Stopping
    <3> QED BY <1>6, <3>1, <3>2
  <2>2. UNCHANGED <<obs, continue, stopped>>
    BY <1>6 DEF OpenStore, CreateIndex, CheckVersion, DeleteOps, ClearTxs, ClearUnresolvable,
                IndexOps, PutVersion, FinishInitialize
  <2> QED BY <2>1, <2>2 DEF RunsUntilStopped
<1>7. CASE NextBlock \/ StopStore \/ ClockStep \/ SyncStep \/ UNCHANGED vars
  <2>1. UNCHANGED <<main, continue, stopped>> /\ (obs = "off" => obs' = "off")
    BY <1>7 DEF NextBlock, StopStore, vars, ClockStep, ClockTick, ClockGet, ClockAsk, ClockPut,
                ClockRejected, SyncStep, GetLatestTime, GetLast, GetBlock, ObserverDies, GoLive,
                ReadRange, ReadRangeFails, Fetch, Insert, Store, StoreRejected, Record,
                RecordRejected, Advance
  <2> QED BY <2>1 DEF RunsUntilStopped
<1> QED BY <1>1, <1>2, <1>3, <1>4, <1>5, <1>6, <1>7 DEF Next, MainStep

\* What the steps outside the synchronisation leave alone while an observer runs.
LEMMA ObserverAlone ==
  ASSUME TypeOK, UpgradeInv, [Next]_vars, ~SyncStep, obs' # "off"
  PROVE  \/ obs' = "latestTime"
         \/ /\ UNCHANGED <<obs, synced, target, stored>> /\ processed \subseteq processed'
            /\ open' \subseteq open /\ (stopped => stopped')
<1> USE DEF database, mainVars, obsVars, clockVars, notes
<1>1. processed \subseteq processed'
  BY NothingGoesAway DEF vars
<1>2. CASE StartObserver
  BY <1>2 DEF StartObserver, UpgradeInv, Launched, Stopping
<1>3. CASE \/ NextBlock \/ ClockStep \/ Shutdown \/ CheckVersion \/ FinishInitialize
           \/ StopDownloads \/ StopStore \/ UNCHANGED vars
  BY <1>1, <1>3 DEF NextBlock, ClockStep, ClockTick, ClockGet, ClockAsk, ClockPut, ClockRejected,
              Shutdown, CheckVersion, FinishInitialize, StopDownloads, StopStore, vars
<1>4. ~(\/ Start \/ OpenStore \/ CreateIndex \/ DeleteOps \/ ClearTxs \/ ClearUnresolvable
        \/ IndexOps \/ PutVersion \/ Crash \/ Exit)
  <2>1. ASSUME \/ Start \/ OpenStore \/ CreateIndex \/ DeleteOps \/ ClearTxs
               \/ ClearUnresolvable \/ IndexOps \/ PutVersion
        PROVE  FALSE
    <3>1. main \notin Launched /\ obs' = obs
      BY <2>1 DEF Start, OpenStore, CreateIndex, DeleteOps, ClearTxs, ClearUnresolvable, IndexOps,
                  PutVersion, TypeOK, Stores, Launched, Stopping
    <3> QED BY <3>1 DEF UpgradeInv
  <2>2. ~Crash /\ ~Exit
    BY DEF Crash, Exit, Forget
  <2> QED BY <2>1, <2>2
<1> QED BY <1>2, <1>3, <1>4 DEF Next, MainStep

\* A range that ended leaves its last block complete.
LEMMA RangeCompletes ==
  ASSUME TypeOK, SyncInv, obs \in {"range"} \cup Working, "transactions" \in open,
         NEW rest \in SUBSET Numbers, rest = {},
         \A t \in InRange(synced, RangeEnd) \ rest : t \in processed
  PROVE  \A t \in Numbers : BlockOf[t] <= RangeEnd => t \in processed
<1> SUFFICES ASSUME NEW t \in Numbers, BlockOf[t] <= RangeEnd PROVE t \in processed
  OBVIOUS
<1>1. BlockOf[t] \in Int /\ synced \in Int /\ RangeEnd \in Int
  BY StartupAssumption, RangeEndType DEF TypeOK
<1>2. CASE BlockOf[t] < synced
  BY <1>2 DEF SyncInv
<1>3. CASE ~(BlockOf[t] < synced)
  <2>1. t \in InRange(synced, RangeEnd)
    BY <1>1, <1>3 DEF InRange, RangeFrom
  <2> QED BY <2>1
<1> QED BY <1>2, <1>3

LEMMA RangeIsNeededNext ==
  TypeOK /\ UpgradeInv /\ BlockHasLast /\ SyncInv /\ RangeIsNeeded /\ [Next]_vars => RangeIsNeeded'
<1> SUFFICES ASSUME TypeOK, UpgradeInv, BlockHasLast, SyncInv, RangeIsNeeded, [Next]_vars,
                    obs' \in {"range"} \cup Working, "transactions" \in open'
             PROVE  synced' < target' \/ \A t \in Numbers : BlockOf[t] <= synced' => t \in processed'
  BY DEF RangeIsNeeded
<1> USE DEF database, mainVars, obsVars, clockVars, notes
<1>1. CASE ~SyncStep
  <2>1. obs' \notin {"off", "latestTime"}
    BY DEF Working
  <2> QED BY <1>1, <2>1, ObserverAlone DEF RangeIsNeeded
<1>2. CASE GetLatestTime \/ ObserverDies \/ GoLive
  BY <1>2 DEF GetLatestTime, ObserverDies, GoLive, Working
<1>3. CASE GetLast
  <2>1. synced' = 0
    BY <1>3 DEF GetLast, Working
  <2>2. \A t \in Numbers : ~(BlockOf[t] <= 0)
    BY StartupAssumption
  <2> QED BY <2>1, <2>2
<1>4. CASE GetBlock
  <2>1. /\ synced' = BlockOf[Last(stored)] /\ target' = target /\ stored # {}
        /\ ~(target - BlockOf[Last(stored)] <= BatchSize)
    BY <1>4 DEF GetBlock, GapIsSmall, ResumeAt, BlockHasLast, Working
  <2>2. BlockOf[Last(stored)] \in Int /\ target \in Int /\ BatchSize \in Int /\ 0 < BatchSize
    BY <2>1, HasLast, BlocksAscend, StartupAssumption DEF TypeOK
  <2> QED BY <2>1, <2>2
<1>5. CASE ReadRange
  <2>1. /\ obs = "range" /\ todo' = InRange(synced, RangeEnd)
        /\ UNCHANGED <<open, target, processed>>
    BY <1>5 DEF ReadRange
  <2>2. CASE todo' # {}
    BY <1>5, <2>1, <2>2 DEF ReadRange, RangeIsNeeded
  <2>3. CASE todo' = {}
    <3>1. synced' = RangeEnd
      BY <1>5, <2>3 DEF ReadRange
    <3> QED BY <2>1, <2>3, <3>1, RangeCompletes
  <2> QED BY <2>2, <2>3
<1>6. CASE ReadRangeFails \/ Fetch \/ Insert \/ StoreRejected
  BY <1>6 DEF ReadRangeFails, Fetch, Insert, StoreRejected, RangeIsNeeded, Working
<1>7. CASE Store \/ Record \/ RecordRejected
  <2>1. /\ obs \in {"store", "record"} /\ Advance /\ UNCHANGED <<open, target, processed>>
    BY <1>7 DEF Store, Record, RecordRejected
  <2>2. CASE todo' # {}
    BY <2>1, <2>2 DEF Advance, RangeIsNeeded, Working
  <2>3. CASE todo' = {}
    <3>1. synced' = RangeEnd
      BY <2>1, <2>3 DEF Advance
    <3>2. todo' \in SUBSET Numbers /\ \A t \in InRange(synced, RangeEnd) \ todo' : t \in processed
      BY <2>1 DEF SyncInv, Advance, Working, TypeOK
    <3>3. obs \in {"range"} \cup Working
      BY <2>1 DEF Working
    <3> QED BY <2>1, <2>3, <3>1, <3>2, <3>3, RangeCompletes
  <2> QED BY <2>2, <2>3
<1> QED BY <1>1, <1>2, <1>3, <1>4, <1>5, <1>6, <1>7 DEF SyncStep

LEMMA LiveIsSyncedNext ==
  TypeOK /\ UpgradeInv /\ BlockHasLast /\ OpenInv /\ LiveInv /\ [Next]_vars => LiveIsSynced'
<1> SUFFICES ASSUME TypeOK, UpgradeInv, BlockHasLast, OpenInv, LiveInv, [Next]_vars,
                    obs' = "live", ~stopped'
             PROVE  \A t \in Numbers :
                      BlockOf[t] <= target' =>
                        \/ t \in processed'
                        \/ stored' # {} /\ target' <= BlockOf[Last(stored')] + BatchSize
  BY DEF LiveIsSynced, Last
<1> USE DEF database, mainVars, obsVars, clockVars, notes
<1>1. CASE ~SyncStep
  <2>1. /\ UNCHANGED <<obs, synced, target, stored>> /\ processed \subseteq processed'
        /\ stopped => stopped'
    BY <1>1, ObserverAlone
  <2> QED BY <2>1 DEF LiveInv, LiveIsSynced
<1>2. CASE GetBlock
  <2>1. /\ target - BlockOf[Last(stored)] <= BatchSize /\ stored # {}
        /\ UNCHANGED <<target, stored, processed>>
    BY <1>2 DEF GetBlock, GapIsSmall, BlockHasLast
  <2>2. BlockOf[Last(stored)] \in Int /\ target \in Int /\ BatchSize \in Int
    <3>1. Last(stored) \in Numbers
      BY <2>1, HasLast DEF TypeOK
    <3>2. target \in Int /\ BatchSize \in Int
      BY StartupAssumption DEF TypeOK
    <3> QED BY <3>1, <3>2, BlocksAscend
  <2>3. target <= BlockOf[Last(stored)] + BatchSize
    BY <2>1, <2>2
  <2> QED BY <2>1, <2>3
<1>3. CASE GoLive
  <2>1. /\ obs = "range" /\ ~MoreRanges /\ UNCHANGED <<target, processed, stopped, main>>
    BY <1>3 DEF GoLive
  <2>2. continue /\ main \in {"clock", "up"}
    <3>1. main \in Launched
      BY <2>1 DEF UpgradeInv
    <3> QED BY <2>1, <3>1 DEF LiveInv, RunsUntilStopped, Launched
  <2>3. "transactions" \in open
    BY <2>2 DEF OpenInv, AfterOpening
  <2>4. ~(synced < target)
    BY <2>1, <2>2 DEF MoreRanges
  <2>5. \A t \in Numbers : BlockOf[t] <= synced => t \in processed
    BY <2>1, <2>3, <2>4 DEF LiveInv, RangeIsNeeded
  <2>6. target <= synced /\ target \in Int /\ synced \in Int
    BY <2>4 DEF TypeOK
  <2> SUFFICES ASSUME NEW t \in Numbers, BlockOf[t] <= target PROVE t \in processed
    BY <2>1
  <2>7. BlockOf[t] \in Int
    BY BlocksAscend
  <2> QED BY <2>5, <2>6, <2>7
<1>4. ~(\/ GetLatestTime \/ GetLast \/ ObserverDies \/ ReadRange \/ ReadRangeFails \/ Fetch
        \/ Insert \/ Store \/ StoreRejected \/ Record \/ RecordRejected)
  BY DEF GetLatestTime, GetLast, ObserverDies, ReadRange, ReadRangeFails, Fetch, Insert, Store,
         StoreRejected, Record, RecordRejected, Advance
<1> QED BY <1>1, <1>2, <1>3, <1>4 DEF SyncStep

\* Unless shutdown was called, the live loop starts over a store with which the past is
\* synchronised up to the latest block of the start, or that is at most BatchSize blocks behind
\* it (Observer.ts:134-230), whatever ranges were empty, read again or resumed.
THEOREM AlwaysSyncedBeforeLive == Spec => []LiveIsSynced
<1> DEFINE AllInv == TypeOK /\ UpgradeInv /\ BlockHasLast /\ OpenInv /\ SyncInv /\ LiveInv
<1>1. Init => AllInv
  BY TypeInit, UpgradeInit, SyncInit, LiveInit
<1>2. AllInv /\ [Next]_vars => AllInv'
  BY TypeNext, UpgradeNext, OpenNext, SyncNext, RunsUntilStoppedNext, RangeIsNeededNext,
     LiveIsSyncedNext DEF LiveInv
<1>3. AllInv => LiveIsSynced
  BY DEF LiveInv
<1> HIDE DEF AllInv
<1> QED BY <1>1, <1>2, <1>3, PTL DEF Spec
=============================================================================
