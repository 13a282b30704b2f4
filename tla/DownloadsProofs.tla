--------------------------- MODULE DownloadsProofs ---------------------------
(***************************************************************************)
(* Proofs about Downloads, for every set of downloads and files and every  *)
(* number of lanes: the lanes are never exceeded, and a download returns   *)
(* the result of its own read.  And about Ledgers, for every adapter,      *)
(* ledger and number of reorganisations: what a node reads is in order and *)
(* what it records has no gap.                                             *)
(***************************************************************************)
EXTENDS Downloads, Ledgers, RanksProofs, FiniteSetTheorems, SequenceTheorems, TLAPS

InLane == {"readCache", "readIpfs", "writeCache"}
Ended  == {"completed", "resolved", "returned"}

\* pendingDownloads holds downloads that were not started, each of them once.
PendingAreDistinct ==
  /\ \A i \in DOMAIN pending : at[pending[i]] = "pending"
  /\ \A i, j \in DOMAIN pending : pending[i] = pending[j] => i = j

\* activeDownloads holds the downloads in a lane and those the timer has not seen come back.
ActiveAreStarted == active = {d \in Downloads : at[d] \in InLane \cup {"completed"}}

\* completedDownloads holds the results of the downloads that were resolved and have not
\* returned, nothing else: no result is lost and none is kept for ever.
CompletedAreResolved ==
  completed = {[handle |-> d, result |-> result[d]] :
                 d \in {e \in Downloads : at[e] = "resolved"}}

OwnResult(d) ==
  /\ result[d] \in FetchResults
  /\ result[d].content = ContentOf[d]
  /\ result[d].code = "success" => ContentOf[d] \in published

ResultsAreOwn ==
  /\ cache \subseteq published
  /\ \A d \in Downloads : at[d] = "writeCache" => ContentOf[d] \in published
  /\ \A d \in Downloads : at[d] \in Ended => OwnResult(d)
  /\ \A d \in Downloads : at[d] = "returned" => returned[d] = result[d]

Inv ==
  /\ TypeOK
  /\ PendingAreDistinct
  /\ ActiveAreStarted
  /\ Cardinality(active) <= MaxConcurrentDownloads
  /\ CompletedAreResolved
  /\ ResultsAreOwn

-----------------------------------------------------------------------------
(* The lanes                                                               *)

\* What the timer starts are the first downloads of the list, as many as there are lanes.
LEMMA StartedFitsTheLanes ==
  ASSUME Inv
  PROVE  /\ IsFiniteSet(Started) /\ Started \subseteq Downloads
         /\ Cardinality(Started) \in Nat /\ Cardinality(Started) <= Len(pending)
         /\ Started = {pending[i] : i \in 1 .. Cardinality(Started)}
         /\ Cardinality((active \ Completed) \cup Started) <= MaxConcurrentDownloads
<1> DEFINE k == AvailableLanes
           free == IF k <= Len(pending) THEN k ELSE Len(pending)
           f == [i \in 1 .. free |-> pending[i]]
<1>1. /\ IsFiniteSet(active) /\ IsFiniteSet(active \ Completed)
      /\ Cardinality(active \ Completed) \in Nat
      /\ Cardinality(active \ Completed) <= Cardinality(active)
      /\ Cardinality(active) \in Nat
  <2>1. IsFiniteSet(active)
    BY FS_Subset, ConstantsAssumption DEF Inv, TypeOK
  <2>2. active \ Completed \in SUBSET active
    OBVIOUS
  <2> QED BY <2>1, <2>2, FS_Subset, FS_CardinalityType
<1>2. k \in Nat /\ Cardinality(active \ Completed) + k = MaxConcurrentDownloads
  BY <1>1, ConstantsAssumption DEF Inv, AvailableLanes
<1>3. pending \in Seq(Downloads) /\ Len(pending) \in Nat /\ DOMAIN pending = 1 .. Len(pending)
  BY DEF Inv, TypeOK
<1>4. free \in Nat /\ free <= k /\ free <= Len(pending)
  BY <1>2, <1>3
<1>5. Started = {pending[i] : i \in 1 .. free}
  <2>1. {j \in DOMAIN pending : j <= AvailableLanes} = 1 .. free
    BY <1>2, <1>3
  <2> QED BY <2>1 DEF Started
<1>6. Started \subseteq Downloads
  BY <1>3, <1>4, <1>5
<1>7. \A i \in 1 .. free : i \in DOMAIN pending
  BY <1>3, <1>4
<1> HIDE DEF free, k
<1>8. f \in Surjection(1 .. free, Started)
  BY <1>5 DEF Surjection
<1>9. f \in Injection(1 .. free, Started)
  <2>1. f \in [1 .. free -> Started]
    BY <1>5
  <2>2. \A i, j \in 1 .. free : f[i] = f[j] => i = j
    BY <1>7 DEF Inv, PendingAreDistinct
  <2> HIDE DEF f
  <2> QED BY <2>1, <2>2 DEF Injection, IsInjective
<1>10. IsFiniteSet(1 .. free) /\ Cardinality(1 .. free) = free
  BY <1>4, FS_Interval
<1> HIDE DEF f
<1>11. IsFiniteSet(Started) /\ Cardinality(Started) = free
  BY <1>8, <1>9, <1>10, FS_Surjection
<1>12. Cardinality((active \ Completed) \cup Started) <= MaxConcurrentDownloads
  <2>1. Cardinality((active \ Completed) \cup Started)
           = Cardinality(active \ Completed) + free - Cardinality((active \ Completed) \cap Started)
    BY <1>1, <1>11, FS_Union
  <2>2. IsFiniteSet((active \ Completed) \cap Started)
    BY <1>11, FS_Intersection
  <2>3. Cardinality((active \ Completed) \cap Started) \in Nat
    BY <2>2, FS_CardinalityType
  <2> QED BY <1>1, <1>2, <1>4, <2>1, <2>3, ConstantsAssumption
<1> QED BY <1>4, <1>5, <1>6, <1>11, <1>12

-----------------------------------------------------------------------------
(* The steps                                                               *)

LEMMA InitInv == Init => Inv
<1> SUFFICES ASSUME Init PROVE Inv
  OBVIOUS
<1>1. TypeOK
  BY DEF Init, TypeOK, NoResult
<1>2. Cardinality(active) <= MaxConcurrentDownloads
  BY FS_EmptySet, ConstantsAssumption DEF Init
<1>3. ActiveAreStarted /\ CompletedAreResolved
  BY DEF Init, ActiveAreStarted, CompletedAreResolved, InLane
<1>4. PendingAreDistinct
  BY DEF Init, PendingAreDistinct
<1>5. ResultsAreOwn
  BY DEF Init, ResultsAreOwn, Ended
<1> QED BY <1>1, <1>2, <1>3, <1>4, <1>5 DEF Inv

\* A step of a download within its lane, to the place p.
LEMMA LaneStepInv ==
  ASSUME Inv, NEW d \in Downloads, at[d] \in InLane,
         NEW p \in {"readIpfs", "writeCache", "completed"},
         at' = [at EXCEPT ![d] = p],
         p = "writeCache" => ContentOf[d] \in published,
         result' \in [Downloads -> FetchResults \cup {NoResult}],
         \A e \in Downloads : e # d => result'[e] = result[e],
         p = "completed" => OwnResult(d)',
         cache' \subseteq published,
         UNCHANGED <<published, indexed, manager, returned>>
  PROVE  Inv'
<1>1. /\ at \in [Downloads -> {"none", "pending", "readCache", "readIpfs", "writeCache",
                              "completed", "resolved", "returned"}]
      /\ pending \in Seq(Downloads)
  BY DEF Inv, TypeOK
<1>2. /\ at'[d] = p
      /\ \A e \in Downloads : e # d => at'[e] = at[e]
  BY <1>1
<1>3. UNCHANGED <<pending, active, completed, timer, published, indexed, returned>>
  BY DEF manager
<1>4. TypeOK'
  BY <1>1, <1>3 DEF Inv, TypeOK
<1>5. PendingAreDistinct'
  <2>1. \A i \in DOMAIN pending : pending[i] \in Downloads /\ pending[i] # d
    BY <1>1 DEF Inv, PendingAreDistinct, InLane
  <2> QED BY <1>2, <1>3, <2>1 DEF Inv, PendingAreDistinct
<1>6. ActiveAreStarted'
  BY <1>2, <1>3 DEF Inv, ActiveAreStarted, InLane
<1>7. CompletedAreResolved'
  <2>1. {e \in Downloads : at'[e] = "resolved"} = {e \in Downloads : at[e] = "resolved"}
    BY <1>2 DEF InLane
  <2>2. \A e \in Downloads : at[e] = "resolved" => result'[e] = result[e]
    BY DEF InLane
  <2> QED BY <1>3, <2>1, <2>2 DEF Inv, CompletedAreResolved
<1>8. ResultsAreOwn'
  <2>1. \A e \in Downloads : at'[e] = "writeCache" => ContentOf[e] \in published
    BY <1>2 DEF Inv, ResultsAreOwn
  <2>2. \A e \in Downloads : at'[e] \in Ended => OwnResult(e)'
    <3>1. \A e \in Downloads : e # d /\ OwnResult(e) => OwnResult(e)'
      BY <1>3 DEF OwnResult
    <3> QED BY <1>2, <3>1 DEF Inv, ResultsAreOwn, Ended
  <2>3. \A e \in Downloads : at'[e] = "returned" => returned'[e] = result'[e]
    BY <1>2, <1>3 DEF Inv, ResultsAreOwn
  <2> QED BY <1>3, <2>1, <2>2, <2>3 DEF ResultsAreOwn
<1> QED BY <1>3, <1>4, <1>5, <1>6, <1>7, <1>8 DEF Inv

\* A read that ends, well or not.
LEMMA FinishInv ==
  ASSUME Inv, NEW d \in Downloads, at[d] \in InLane, NEW code \in Codes,
         code = "success" => ContentOf[d] \in published,
         Finish(d, code, ContentOf[d]), cache' \subseteq published,
         UNCHANGED <<published, indexed, manager, returned>>
  PROVE  Inv'
<1>1. /\ result \in [Downloads -> FetchResults \cup {NoResult}]
      /\ result' = [result EXCEPT ![d] = [code |-> code, content |-> ContentOf[d]]]
      /\ at' = [at EXCEPT ![d] = "completed"]
  BY DEF Inv, TypeOK, Finish
<1>2. [code |-> code, content |-> ContentOf[d]] \in FetchResults
  BY ConstantsAssumption DEF FetchResults
<1>3. OwnResult(d)'
  BY <1>1, <1>2 DEF OwnResult
<1>4. /\ result' \in [Downloads -> FetchResults \cup {NoResult}]
      /\ \A e \in Downloads : e # d => result'[e] = result[e]
  BY <1>1, <1>2
<1> QED BY <1>1, <1>3, <1>4, LaneStepInv

LEMMA ReadsInv ==
  ASSUME Inv, NEW d \in Downloads, ReadCache(d) \/ ReadIpfs(d) \/ WriteCache(d) \/ Reject(d)
  PROVE  Inv'
<1>1. result \in [Downloads -> FetchResults \cup {NoResult}] /\ cache \subseteq published
  BY DEF Inv, TypeOK, ResultsAreOwn
<1>2. CASE ReadCache(d)
  <2>1. at[d] \in InLane /\ UNCHANGED <<published, cache, indexed, manager, returned>>
    BY <1>2 DEF ReadCache, InLane, cas
  <2>2. CASE \E c \in Cached(d) : Finish(d, "success", c)
    <3>1. ContentOf[d] \in published /\ Finish(d, "success", ContentOf[d])
      BY <1>1, <2>2 DEF Cached
    <3> QED BY <1>1, <2>1, <3>1, FinishInv DEF Codes
  <2>3. CASE at' = [at EXCEPT ![d] = "readIpfs"] /\ UNCHANGED result
    BY <1>1, <2>1, <2>3, LaneStepInv
  <2> QED BY <1>2, <2>2, <2>3 DEF ReadCache
<1>3. CASE ReadIpfs(d)
  <2>1. at[d] \in InLane /\ UNCHANGED <<published, cache, indexed, manager, returned>>
    BY <1>3 DEF ReadIpfs, InLane, cas
  <2>2. CASE Finish(d, "notFound", ContentOf[d])
    BY <1>1, <2>1, <2>2, FinishInv DEF Codes
  <2>3. CASE /\ ContentOf[d] \in published
             /\ at' = [at EXCEPT ![d] = "writeCache"] /\ UNCHANGED result
    BY <1>1, <2>1, <2>3, LaneStepInv
  <2> QED BY <1>3, <2>2, <2>3 DEF ReadIpfs
<1>4. CASE WriteCache(d)
  <2>1. at[d] \in InLane /\ UNCHANGED <<published, indexed, manager, returned>>
    BY <1>4 DEF WriteCache, InLane
  <2>2. ContentOf[d] \in published /\ Finish(d, "success", ContentOf[d])
    BY <1>4 DEF WriteCache, Inv, ResultsAreOwn
  <2>3. cache' \subseteq published
    BY <1>1, <1>4, <2>2 DEF WriteCache, CacheWith
  <2> QED BY <2>1, <2>2, <2>3, FinishInv DEF Codes
<1>5. CASE Reject(d)
  <2>1. at[d] \in InLane /\ UNCHANGED <<published, cache, indexed, manager, returned>>
    BY <1>5 DEF Reject, InLane, cas
  <2>2. Finish(d, "casNotReachable", ContentOf[d])
    BY <1>5 DEF Reject, Finish, AtAfterRejection
  <2> QED BY <1>1, <2>1, <2>2, FinishInv DEF Codes
<1> QED BY <1>2, <1>3, <1>4, <1>5

LEMMA ReturnInv ==
  ASSUME Inv, NEW d \in Downloads, Return(d)
  PROVE  Inv'
<1> DEFINE entry(e) == [handle |-> e, result |-> result[e]]
<1>1. /\ at[d] = "resolved" /\ UNCHANGED <<cas, pending, active, timer, result>>
      /\ at' = [at EXCEPT ![d] = "returned"]
  BY DEF Return
<1>2. /\ at \in [Downloads -> {"none", "pending", "readCache", "readIpfs", "writeCache",
                              "completed", "resolved", "returned"}]
      /\ returned \in [Downloads -> FetchResults \cup {NoResult}]
      /\ result \in [Downloads -> FetchResults \cup {NoResult}]
      /\ pending \in Seq(Downloads)
  BY DEF Inv, TypeOK
<1>3. /\ at'[d] = "returned"
      /\ \A e \in Downloads : e # d => at'[e] = at[e]
  BY <1>1, <1>2
<1>4. completed = {entry(e) : e \in {x \in Downloads : at[x] = "resolved"}}
  BY DEF Inv, CompletedAreResolved
<1>5. {e \in completed : e.handle = Handle(d)} = {entry(d)}
  BY <1>1, <1>4 DEF Handle
<1>6. completed' = completed \ {entry(d)}
  BY <1>5 DEF Return
<1>7. returned' = [returned EXCEPT ![d] = result[d]]
  <2> DEFINE mine == {e \in completed : e.handle = Handle(d)}
  <2>1. returned' = [returned EXCEPT ![d] = IF mine = {} THEN NoResult
                                            ELSE (CHOOSE e \in mine : TRUE).result]
    BY DEF Return
  <2>2. mine = {entry(d)}
    BY <1>5
  <2> HIDE DEF mine
  <2>3. mine # {} /\ (CHOOSE e \in mine : TRUE) = entry(d)
    BY <2>2
  <2>4. entry(d).result = result[d]
    OBVIOUS
  <2> HIDE DEF entry
  <2>5. (IF mine = {} THEN NoResult ELSE (CHOOSE e \in mine : TRUE).result) = result[d]
    BY <2>3, <2>4
  <2> QED BY <2>1, <2>5, Zenon
<1>8. CompletedAreResolved'
  <2>1. {x \in Downloads : at'[x] = "resolved"} = {x \in Downloads : at[x] = "resolved"} \ {d}
    BY <1>3
  <2>2. completed' = {entry(e) : e \in {x \in Downloads : at'[x] = "resolved"}}
    BY <1>4, <1>6, <2>1
  <2> QED BY <1>1, <2>2 DEF CompletedAreResolved
<1>9. TypeOK'
  <2>1. at' \in [Downloads -> {"none", "pending", "readCache", "readIpfs", "writeCache",
                               "completed", "resolved", "returned"}]
    BY <1>1, <1>2
  <2>2. returned' \in [Downloads -> FetchResults \cup {NoResult}]
    BY <1>2, <1>7
  <2> QED BY <1>1, <1>6, <2>1, <2>2 DEF Inv, TypeOK, cas
<1>10. PendingAreDistinct'
  <2>1. \A i \in DOMAIN pending : pending[i] \in Downloads /\ pending[i] # d
    BY <1>1, <1>2 DEF Inv, PendingAreDistinct
  <2> QED BY <1>1, <1>3, <2>1 DEF Inv, PendingAreDistinct
<1>11. ActiveAreStarted'
  BY <1>1, <1>3 DEF Inv, ActiveAreStarted, InLane
<1>12. ResultsAreOwn'
  <2>1. \A e \in Downloads : at'[e] \in Ended => at[e] \in Ended
    BY <1>1, <1>3 DEF Ended
  <2>2. \A e \in Downloads : OwnResult(e) => OwnResult(e)'
    BY <1>1 DEF OwnResult, cas
  <2>3. \A e \in Downloads : at'[e] = "returned" => returned'[e] = result[e]
    BY <1>2, <1>3, <1>7 DEF Inv, ResultsAreOwn
  <2>4. \A e \in Downloads : at'[e] = "writeCache" => at[e] = "writeCache"
    BY <1>3
  <2> QED BY <1>1, <2>1, <2>2, <2>3, <2>4 DEF Inv, ResultsAreOwn, cas
<1> QED BY <1>1, <1>8, <1>9, <1>10, <1>11, <1>12 DEF Inv

LEMMA DownloadInv ==
  ASSUME Inv, NEW d \in Downloads, Download(d)
  PROVE  Inv'
<1>1. /\ at[d] = "none" /\ at' = [at EXCEPT ![d] = "pending"] /\ pending' = Append(pending, d)
      /\ UNCHANGED <<published, cache, indexed, active, completed, timer, result, returned>>
  BY DEF Download, cas
<1>2. /\ at \in [Downloads -> {"none", "pending", "readCache", "readIpfs", "writeCache",
                              "completed", "resolved", "returned"}]
      /\ pending \in Seq(Downloads)
  BY DEF Inv, TypeOK
<1>3. /\ at'[d] = "pending"
      /\ \A e \in Downloads : e # d => at'[e] = at[e]
  BY <1>1, <1>2
<1>4. TypeOK'
  BY <1>1, <1>2 DEF Inv, TypeOK
<1>5. PendingAreDistinct'
  <2>1. \A i \in DOMAIN pending : pending[i] \in Downloads /\ pending[i] # d
    BY <1>1, <1>2 DEF Inv, PendingAreDistinct
  <2>2. /\ DOMAIN pending' = DOMAIN pending \cup {Len(pending) + 1}
        /\ Len(pending) + 1 \notin DOMAIN pending
        /\ pending'[Len(pending) + 1] = d
        /\ \A i \in DOMAIN pending : pending'[i] = pending[i]
    BY <1>1, <1>2
  <2> QED BY <1>3, <2>1, <2>2 DEF Inv, PendingAreDistinct
<1>6. ActiveAreStarted'
  BY <1>1, <1>3 DEF Inv, ActiveAreStarted, InLane
<1>7. CompletedAreResolved'
  <2>1. {e \in Downloads : at'[e] = "resolved"} = {e \in Downloads : at[e] = "resolved"}
    BY <1>1, <1>3
  <2> QED BY <1>1, <2>1 DEF Inv, CompletedAreResolved
<1>8. ResultsAreOwn'
  <2>1. \A e \in Downloads : OwnResult(e) => OwnResult(e)'
    BY <1>1 DEF OwnResult
  <2> QED BY <1>1, <1>3, <2>1 DEF Inv, ResultsAreOwn, Ended
<1> QED BY <1>1, <1>4, <1>5, <1>6, <1>7, <1>8 DEF Inv

LEMMA StartInv ==
  ASSUME Inv, Start
  PROVE  Inv'
<1> DEFINE n == Cardinality(Started)
           entry(e) == [handle |-> e, result |-> result[e]]
<1>1. /\ Started \subseteq Downloads /\ n \in Nat /\ n <= Len(pending)
      /\ Started = {pending[i] : i \in 1 .. n}
      /\ Cardinality((active \ Completed) \cup Started) <= MaxConcurrentDownloads
  BY StartedFitsTheLanes
<1>2. /\ at \in [Downloads -> {"none", "pending", "readCache", "readIpfs", "writeCache",
                              "completed", "resolved", "returned"}]
      /\ pending \in Seq(Downloads)
      /\ active = {d \in Downloads : at[d] \in InLane \cup {"completed"}}
      /\ completed = {entry(e) : e \in {x \in Downloads : at[x] = "resolved"}}
  BY DEF Inv, TypeOK, ActiveAreStarted, CompletedAreResolved
<1>3. Completed = {d \in Downloads : at[d] = "completed"}
  BY <1>2 DEF Completed
<1>4. \A d \in Started : d \in Downloads /\ at[d] = "pending"
  BY <1>1, <1>2 DEF Inv, PendingAreDistinct
<1>5. /\ completed' = CompletedWith(Completed)
      /\ active' = (active \ Completed) \cup Started
      /\ pending' = SubSeq(pending, n + 1, Len(pending))
      /\ at' = [d \in Downloads |-> CASE d \in Completed -> "resolved"
                                      [] d \in Started   -> "readCache"
                                      [] OTHER           -> at[d]]
      /\ UNCHANGED <<published, cache, indexed, timer, result, returned>>
  BY DEF Start, cas
<1> HIDE DEF n
<1>6. \A d \in Downloads :
        /\ d \in Completed => at'[d] = "resolved"
        /\ d \in Started => at'[d] = "readCache"
        /\ d \notin Completed /\ d \notin Started => at'[d] = at[d]
  BY <1>3, <1>4, <1>5
<1>7. at' \in [Downloads -> {"none", "pending", "readCache", "readIpfs", "writeCache",
                             "completed", "resolved", "returned"}]
  BY <1>2, <1>5
<1>8. completed' = {entry(e) : e \in {x \in Downloads : at'[x] = "resolved"}}
  <2>1. {e \in completed : \A d \in Completed : e.handle # Handle(d)} = completed
    BY <1>2, <1>3 DEF Handle
  <2>2. completed' = completed \cup {entry(d) : d \in Completed}
    BY <1>5, <2>1 DEF CompletedWith, Handle
  <2>3. {x \in Downloads : at'[x] = "resolved"}
          = {x \in Downloads : at[x] = "resolved"} \cup Completed
    BY <1>3, <1>4, <1>6
  <2> QED BY <1>2, <2>2, <2>3
<1>9. CompletedAreResolved'
  BY <1>5, <1>8 DEF CompletedAreResolved
<1>10. ActiveAreStarted'
  BY <1>2, <1>3, <1>4, <1>5, <1>6 DEF ActiveAreStarted, InLane
<1>11. /\ pending' \in Seq(Downloads) /\ DOMAIN pending' = 1 .. (Len(pending) - n)
       /\ \A i \in DOMAIN pending' : n + i \in DOMAIN pending /\ pending'[i] = pending[n + i]
  BY <1>1, <1>2, <1>5
<1>12. PendingAreDistinct'
  <2>1. \A i \in DOMAIN pending' : pending'[i] \notin Started
    <3> SUFFICES ASSUME NEW i \in DOMAIN pending', NEW j \in 1 .. n, pending'[i] = pending[j]
                 PROVE  FALSE
      BY <1>1
    <3>1. j \in DOMAIN pending /\ n + i \in DOMAIN pending /\ j # n + i
      BY <1>1, <1>2, <1>11
    <3> QED BY <1>11, <3>1 DEF Inv, PendingAreDistinct
  <2>2. \A i \in DOMAIN pending' : at[pending'[i]] = "pending" /\ pending'[i] \in Downloads
    BY <1>2, <1>11 DEF Inv, PendingAreDistinct
  <2>3. \A i \in DOMAIN pending' : at'[pending'[i]] = "pending"
    BY <1>3, <1>6, <2>1, <2>2
  <2>4. \A i, j \in DOMAIN pending' : pending'[i] = pending'[j] => i = j
    <3> SUFFICES ASSUME NEW i \in DOMAIN pending', NEW j \in DOMAIN pending',
                        pending'[i] = pending'[j]
                 PROVE  i = j
      OBVIOUS
    <3>1. n + i = n + j
      BY <1>11 DEF Inv, PendingAreDistinct
    <3>2. n \in Int /\ i \in Int /\ j \in Int
      BY <1>1, <1>2, <1>11
    <3> QED BY <3>1, <3>2
  <2> QED BY <2>3, <2>4 DEF PendingAreDistinct
<1>13. completed' \subseteq [handle : Downloads, result : FetchResults]
  <2>1. \A e \in Downloads : at'[e] = "resolved" => at[e] \in Ended
    BY <1>3, <1>4, <1>6 DEF Ended
  <2>2. \A e \in Downloads : at[e] \in Ended => result[e] \in FetchResults
    BY DEF Inv, ResultsAreOwn, OwnResult
  <2> QED BY <1>8, <2>1, <2>2
<1>14. active' \subseteq Downloads
  BY <1>1, <1>2, <1>5
<1>15. TypeOK'
  BY <1>5, <1>7, <1>11, <1>13, <1>14 DEF Inv, TypeOK
<1>16. ResultsAreOwn'
  <2>1. \A e \in Downloads : OwnResult(e) => OwnResult(e)'
    BY <1>5 DEF OwnResult
  <2>2. \A e \in Downloads : at'[e] \in Ended => at[e] \in Ended
    BY <1>3, <1>4, <1>6 DEF Ended
  <2>3. \A e \in Downloads : /\ at'[e] = "returned" => at[e] = "returned"
                             /\ at'[e] = "writeCache" => at[e] = "writeCache"
    BY <1>6
  <2> QED BY <1>5, <2>1, <2>2, <2>3 DEF Inv, ResultsAreOwn
<1>17. Cardinality(active') <= MaxConcurrentDownloads
  BY <1>1, <1>5
<1> QED BY <1>9, <1>10, <1>12, <1>15, <1>16, <1>17 DEF Inv

LEMMA NextInv == Inv /\ [Next]_vars => Inv'
<1> SUFFICES ASSUME Inv, [Next]_vars PROVE Inv'
  OBVIOUS
<1>1. ASSUME NEW c \in Contents, Publish(c) PROVE Inv'
  <2>1. published' = published \cup {c} /\ UNCHANGED <<cache, indexed, manager, calls>>
    BY <1>1 DEF Publish
  <2>2. \A d \in Downloads : OwnResult(d) => OwnResult(d)'
    BY <2>1 DEF OwnResult, calls
  <2>3. ResultsAreOwn'
    BY <2>1, <2>2 DEF Inv, ResultsAreOwn, calls
  <2> QED BY <2>1, <2>3 DEF Inv, TypeOK, PendingAreDistinct, ActiveAreStarted,
                            CompletedAreResolved, manager, calls
<1>2. ASSUME NEW d \in Downloads, Download(d) PROVE Inv'
  BY <1>2, DownloadInv
<1>3. ASSUME NEW d \in Downloads, Lane(d) PROVE Inv'
  BY <1>3, ReadsInv, ReturnInv DEF Lane
<1>4. CASE Start
  BY <1>4, StartInv
<1>5. CASE Stop \/ UNCHANGED vars
  <2>1. UNCHANGED <<published, cache, indexed, pending, active, completed, at, result, returned>>
        /\ timer' \in BOOLEAN
    BY <1>5 DEF Stop, vars, cas, manager, calls, Inv, TypeOK
  <2> QED BY <2>1 DEF Inv, TypeOK, PendingAreDistinct, ActiveAreStarted, CompletedAreResolved,
                      ResultsAreOwn, OwnResult
<1> QED BY <1>1, <1>2, <1>3, <1>4, <1>5 DEF Next

THEOREM Invariance == Spec => []Inv
BY InitInv, NextInv, PTL DEF Spec

\* At most maxConcurrentDownloads files are read at a time, however many are asked for, in
\* whatever order reads end and the timer runs (DownloadManager.ts:70-124).
THEOREM LanesAlwaysBounded == Spec => []LanesBounded
<1>1. Inv => LanesBounded
  BY DEF Inv, LanesBounded, ActiveAreStarted, InLane
<1> QED BY <1>1, Invariance, PTL

\* Whatever ends before a download's continuation runs, it takes its own result out of
\* completedDownloads, and a file only if that was once published
\* (DownloadManager.ts:74-86 and 139-165).
THEOREM OwnResultAlwaysReturned == Spec => []ReturnsOwnResult
<1>1. Inv => ReturnsOwnResult
  BY DEF Inv, ReturnsOwnResult, ResultsAreOwn, OwnResult, Ended
<1> QED BY <1>1, Invariance, PTL

-----------------------------------------------------------------------------
(* The invariant                                                           *)

AnyTransaction == [number : Nat, time : Nat, hash : (Nat \ {0}) \X Nat]
AnyBlock == [fork : Nat, first : Nat, count : Nat]
AnyCall == [number : Nat \cup {NoNumber}, hash : Nat \X Nat, observer : BOOLEAN]

LedgersTypeOK ==
  /\ adapter \in {"ethereum", "zksync", "qldb"}
  /\ blocks \in Seq(AnyBlock) /\ fork \in Nat
  /\ stored \subseteq AnyTransaction /\ \E N \in Nat : Numbers(stored) \subseteq 0 .. N
  /\ pc \in {"idle", "called", "found", "answered"}
  /\ call \in AnyCall
  /\ height \in Nat
  /\ answer \in Seq(AnyTransaction) /\ (pc # "answered" => answer = << >>)

\* The contract counts the transactions from 0 on; a block of QLDB has at most one and gives
\* it its own number.
Numbering ==
  \A h \in DOMAIN blocks :
    IF adapter = "qldb" THEN blocks[h].first = h /\ blocks[h].count <= 1
    ELSE blocks[h].first = IF h = 1 THEN 0 ELSE blocks[h - 1].first + blocks[h - 1].count

QldbNumbers ==
  adapter = "qldb" =>
    /\ Numbers(stored) \subseteq 1 .. Len(blocks)
    /\ \A k \in DOMAIN answer : answer[k].number \in 1 .. Len(blocks)
    /\ call.number # 0

\* The numbers that transactions may have. With the contract's, those a reorganisation took
\* off the ledger are among them.
Expected == IF adapter = "qldb" THEN Numbers(Ledger) ELSE Nat

\* No number between others is missing, and with Ethereum and QLDB none before them.
Closed(K) ==
  \A n \in K, m \in Expected :
    m < n /\ (adapter = "zksync" => \E k \in K : k < m) => m \in K

\* What is recorded when the first i transactions of the answer are.
RecordedTo(s, i) == Numbers(stored) \cup {s[j].number : j \in 1 .. i}

RecordedIsClosed ==
  ~torn =>
    /\ Closed(Numbers(stored))
    /\ call.observer => \A i \in 0 .. Len(answer) : Closed(RecordedTo(answer, i))

\* While a read of the observer is under way, its cursor is recorded.
CallIsCursor ==
  pc \in {"called", "found"} /\ call.observer =>
    IF HasNumber THEN HasHash /\ call.number \in Numbers(stored)
    ELSE ~HasHash /\ stored = {}

\* The block that EthereumLedger found begins with the given transaction or before.
HeightIsFound ==
  pc = "found" /\ adapter = "ethereum" =>
    IF HasNumber
    THEN ~torn => height \in DOMAIN blocks /\ blocks[height].first <= call.number
    ELSE HasHash

LedgersInv ==
  /\ LedgersTypeOK /\ Numbering /\ QldbNumbers
  /\ RecordedIsClosed /\ CallIsCursor /\ HeightIsFound

-----------------------------------------------------------------------------
(* The transactions on the ledger                                          *)

LEMMA BlockType ==
  ASSUME blocks \in Seq(AnyBlock), NEW h \in DOMAIN blocks
  PROVE  blocks[h].fork \in Nat /\ blocks[h].first \in Nat /\ blocks[h].count \in Nat
<1>1. blocks[h] \in AnyBlock
  OBVIOUS
<1> QED BY <1>1 DEF AnyBlock

\* The numbers of the contract's transactions grow from block to block.
LEMMA NumbersGrow ==
  ASSUME blocks \in Seq(AnyBlock), adapter # "qldb", Numbering,
         NEW g \in DOMAIN blocks, NEW h \in DOMAIN blocks, g < h
  PROVE  blocks[g].first + blocks[g].count <= blocks[h].first
<1> DEFINE N == Len(blocks)
           G == {n \in 0 .. N : g < n => blocks[g].first + blocks[g].count <= blocks[n].first}
<1>1. N \in Nat /\ DOMAIN blocks = 1 .. N
  OBVIOUS
<1>2. \A n \in 1 .. N : blocks[n].first \in Nat /\ blocks[n].count \in Nat
  BY <1>1, BlockType
<1>3. 0 \in G
  BY <1>1
<1>4. ASSUME NEW n \in 1 .. N, n - 1 \in G PROVE n \in G
  <2>1. n \in 0 .. N /\ n \in DOMAIN blocks
    BY <1>1
  <2>2. ASSUME g < n PROVE blocks[g].first + blocks[g].count <= blocks[n].first
    <3>1. n # 1 /\ n - 1 \in 1 .. N
      BY <1>1, <2>2
    <3>2. blocks[n].first = blocks[n - 1].first + blocks[n - 1].count
      BY <2>1, <3>1 DEF Numbering
    <3>3. CASE g = n - 1
      BY <3>2, <3>3, <1>2, <1>1
    <3>4. CASE g < n - 1
      <4>1. blocks[g].first + blocks[g].count <= blocks[n - 1].first
        BY <1>4, <3>4
      <4>2. blocks[n].first = blocks[n - 1].first + blocks[n - 1].count
            /\ blocks[n - 1].first \in Nat /\ blocks[n - 1].count \in Nat
        BY <3>1, <3>2, <1>2
      <4>3. blocks[g].first \in Nat /\ blocks[g].count \in Nat
        BY <1>1, <1>2
      <4> QED BY <4>1, <4>2, <4>3
    <3> QED BY <1>1, <2>2, <3>3, <3>4
  <2> QED BY <2>1, <2>2
<1>5. 0 .. N \subseteq G
  <2> HIDE DEF G, N
  <2> QED BY <1>1, <1>3, <1>4, StepByStep
<1>6. h \in 0 .. N
  BY <1>1
<1> QED BY <1>5, <1>6

\* Every number before the end of a block belongs to a transaction of it or of an earlier one.
LEMMA NoneIsMissing ==
  ASSUME blocks \in Seq(AnyBlock), adapter # "qldb", Numbering,
         NEW h \in DOMAIN blocks, NEW m \in Nat, m < blocks[h].first + blocks[h].count
  PROVE  \E g \in 1 .. h : blocks[g].first <= m /\ m < blocks[g].first + blocks[g].count
<1> DEFINE N == Len(blocks)
           Holds(g) == blocks[g].first <= m /\ m < blocks[g].first + blocks[g].count
           G == {n \in 0 .. N : n # 0 /\ m < blocks[n].first + blocks[n].count
                                  => \E g \in 1 .. n : Holds(g)}
<1>1. N \in Nat /\ DOMAIN blocks = 1 .. N
  OBVIOUS
<1>2. \A n \in 1 .. N : blocks[n].first \in Nat /\ blocks[n].count \in Nat
  BY <1>1, BlockType
<1>3. 0 \in G
  BY <1>1
<1>4. ASSUME NEW n \in 1 .. N, n - 1 \in G PROVE n \in G
  <2>1. n \in 0 .. N /\ n \in DOMAIN blocks /\ n \in 1 .. n
    BY <1>1
  <2>2. ASSUME m < blocks[n].first + blocks[n].count PROVE \E g \in 1 .. n : Holds(g)
    <3>1. CASE blocks[n].first <= m
      BY <2>1, <2>2, <3>1
    <3>2. CASE m < blocks[n].first
      <4>1. n # 1
        <5>1. n = 1 => blocks[n].first = 0
          BY <2>1 DEF Numbering
        <5> QED BY <3>2, <5>1
      <4>2. n - 1 # 0 /\ m < blocks[n - 1].first + blocks[n - 1].count
        BY <1>1, <2>1, <3>2, <4>1 DEF Numbering
      <4>3. PICK g \in 1 .. n - 1 : Holds(g)
        BY <1>4, <4>2
      <4>4. g \in 1 .. n
        BY <1>1
      <4> QED BY <4>3, <4>4
    <3> QED BY <1>2, <3>1, <3>2
  <2> QED BY <2>1, <2>2
<1>5. 0 .. N \subseteq G
  <2> HIDE DEF G, N
  <2> QED BY <1>1, <1>3, <1>4, StepByStep
<1>6. h \in 0 .. N /\ h # 0
  BY <1>1
<1> QED BY <1>5, <1>6

\* Holds of a place on the ledger.
On(h, i) == h \in DOMAIN blocks /\ i \in 1 .. blocks[h].count

LEMMA TransactionType ==
  ASSUME LedgersAssumption, LedgersTypeOK, NEW h, NEW i, On(h, i)
  PROVE  /\ Transaction(h, i) \in AnyTransaction
         /\ Transaction(h, i).number = blocks[h].first + i - 1
         /\ Transaction(h, i).time = TimeOf(h)
         /\ Transaction(h, i).hash = <<h, blocks[h].fork>>
<1>1. h \in Nat \ {0} /\ i \in Nat \ {0} /\ blocks[h] \in AnyBlock
  BY DEF On, LedgersTypeOK
<1>2. TimeOf(h) \in Nat
  BY <1>1 DEF TimeOf, LedgersAssumption
<1>3. /\ blocks[h].first + i - 1 \in Nat
      /\ blocks[h].fork \in Nat
  BY <1>1 DEF AnyBlock
<1> QED BY <1>1, <1>2, <1>3 DEF Transaction, HashOf, AnyTransaction

\* A transaction on the ledger has a place.
LEMMA LedgerIs ==
  ASSUME LedgersTypeOK, NEW t
  PROVE  t \in Ledger <=> \E h, i \in Nat : On(h, i) /\ t = Transaction(h, i)
<1>1. \A h \in DOMAIN blocks : \A i \in 1 .. blocks[h].count : h \in Nat /\ i \in Nat
  BY BlockType DEF LedgersTypeOK
<1>2. t \in Ledger <=> \E h \in DOMAIN blocks : \E i \in 1 .. blocks[h].count :
                          t = Transaction(h, i)
  BY DEF Ledger
<1> QED BY <1>1, <1>2 DEF On

\* Places in the order of the log, of the numbers and of the times are the same.
LEMMA PlacesAreOrdered ==
  ASSUME LedgersAssumption, LedgersTypeOK, Numbering,
         NEW g, NEW i, NEW h, NEW j, On(g, i), On(h, j)
  PROVE  LET s == Transaction(g, i)
             t == Transaction(h, j)
         IN /\ (g < h \/ (g = h /\ i < j)) => s.number < t.number
            /\ g <= h => s.time <= t.time
            /\ s.time <= t.time => g <= h
            /\ s.number < t.number => g <= h
            /\ s.number = t.number => s = t
<1> DEFINE s == Transaction(g, i)
           t == Transaction(h, j)
<1>1. /\ g \in Nat \ {0} /\ h \in Nat \ {0} /\ i \in Nat \ {0} /\ j \in Nat \ {0}
      /\ g \in DOMAIN blocks /\ h \in DOMAIN blocks
      /\ i <= blocks[g].count /\ j <= blocks[h].count
      /\ blocks \in Seq(AnyBlock)
  BY DEF On, LedgersTypeOK
<1>2. /\ blocks[g].first \in Nat /\ blocks[g].count \in Nat
      /\ blocks[h].first \in Nat /\ blocks[h].count \in Nat
  BY <1>1, BlockType
<1>3. /\ s.number = blocks[g].first + i - 1 /\ t.number = blocks[h].first + j - 1
      /\ s.time = TimeOf(g) /\ t.time = TimeOf(h)
  BY TransactionType
<1>4. s.time <= t.time <=> g <= h
  BY <1>1, <1>3 DEF TimeOf, LedgersAssumption
<1>5. ASSUME g < h PROVE s.number < t.number
  <2>1. CASE adapter = "qldb"
    <3>1. blocks[g].first = g /\ blocks[h].first = h /\ i = 1 /\ j = 1
      BY <1>1, <1>2, <2>1 DEF Numbering
    <3> QED BY <1>1, <1>3, <1>5, <3>1
  <2>2. CASE adapter # "qldb"
    <3>1. blocks[g].first + blocks[g].count <= blocks[h].first
      BY <1>1, <1>5, <2>2, NumbersGrow
    <3> HIDE DEF s, t
    <3> QED BY <1>1, <1>2, <1>3, <3>1
  <2> QED BY <2>1, <2>2
<1>6. ASSUME h < g PROVE t.number < s.number
  <2>1. CASE adapter = "qldb"
    <3>1. blocks[g].first = g /\ blocks[h].first = h /\ i = 1 /\ j = 1
      BY <1>1, <1>2, <2>1 DEF Numbering
    <3> QED BY <1>1, <1>3, <1>6, <3>1
  <2>2. CASE adapter # "qldb"
    <3>1. blocks[h].first + blocks[h].count <= blocks[g].first
      BY <1>1, <1>6, <2>2, NumbersGrow
    <3> HIDE DEF s, t
    <3> QED BY <1>1, <1>2, <1>3, <3>1
  <2> QED BY <2>1, <2>2
<1>7. g = h => (i < j <=> s.number < t.number) /\ (i = j <=> s.number = t.number)
  <2> HIDE DEF s, t
  <2> QED BY <1>1, <1>2, <1>3
<1>8. s.number \in Int /\ t.number \in Int
  <2> HIDE DEF s, t
  <2> QED BY <1>1, <1>2, <1>3
<1>9. s.number = t.number => s = t
  <2>1. s.number = t.number => g = h
    <3> HIDE DEF s, t
    <3> QED BY <1>1, <1>5, <1>6, <1>8
  <2> QED BY <1>7, <2>1
<1> HIDE DEF s, t
<1>10. /\ (g < h \/ (g = h /\ i < j)) => s.number < t.number
       /\ s.number < t.number => g <= h
  BY <1>1, <1>5, <1>6, <1>7, <1>8
<1> QED BY <1>4, <1>9, <1>10 DEF s, t

\* What an event log between two heights holds.
LEMMA GetTransactionsIs ==
  ASSUME LedgersAssumption, LedgersTypeOK, Numbering, NEW from \in Nat, NEW to \in Nat
  PROVE  LET s == GetTransactions(from, to)
         IN /\ s \in Seq(AnyTransaction)
            /\ \A k \in DOMAIN s :
                 \E h \in from .. to : \E i \in Nat : On(h, i) /\ s[k] = Transaction(h, i)
            /\ \A h \in from .. to : \A i \in Nat :
                 On(h, i) => \E k \in DOMAIN s : s[k] = Transaction(h, i)
            /\ \A j, k \in DOMAIN s :
                 j < k => s[j].number < s[k].number /\ s[j].time <= s[k].time
<1> DEFINE parts == [h \in DOMAIN blocks |-> IF h \in from .. to THEN Events(h) ELSE << >>]
           s == GetTransactions(from, to)
<1>1. DOMAIN blocks = 1 .. Len(blocks) /\ Len(blocks) \in Nat
  BY DEF LedgersTypeOK
<1>2. ASSUME NEW h \in DOMAIN blocks
      PROVE  /\ parts[h] \in Seq(AnyTransaction)
             /\ \A i \in DOMAIN parts[h] : h \in from .. to /\ i \in Nat /\ On(h, i)
                                           /\ parts[h][i] = Transaction(h, i)
             /\ h \in from .. to => DOMAIN parts[h] = 1 .. blocks[h].count
  <2>1. blocks[h].count \in Nat
    BY BlockType DEF LedgersTypeOK
  <2>2. CASE h \in from .. to
    <3>1. parts[h] = Events(h)
      BY <2>2
    <3>2. \A i \in 1 .. blocks[h].count : On(h, i) /\ Transaction(h, i) \in AnyTransaction
      BY TransactionType DEF On
    <3>3. Events(h) \in [1 .. blocks[h].count -> AnyTransaction]
      BY <3>2 DEF Events
    <3>4. Events(h) \in Seq(AnyTransaction)
      BY <2>1, <3>3
    <3>5. \A i \in 1 .. blocks[h].count : Events(h)[i] = Transaction(h, i)
      BY DEF Events
    <3> HIDE DEF parts
    <3> QED BY <2>1, <2>2, <3>1, <3>2, <3>3, <3>4, <3>5
  <2>3. CASE h \notin from .. to
    BY <2>3
  <2> QED BY <2>2, <2>3
<1>3. parts \in Seq(Seq(AnyTransaction)) /\ Len(parts) = Len(blocks) /\ DOMAIN parts = DOMAIN blocks
  <2>1. parts \in [1 .. Len(blocks) -> Seq(AnyTransaction)]
    <3>1. DOMAIN parts = 1 .. Len(blocks) /\ parts = [h \in DOMAIN parts |-> parts[h]]
      BY <1>1
    <3> HIDE DEF parts
    <3> QED BY <1>1, <1>2, <3>1
  <2> HIDE DEF parts
  <2> QED BY <1>1, <2>1
<1>4. s = Joined(parts)
  BY DEF GetTransactions
<1> HIDE DEF parts
<1>5. s \in Seq(AnyTransaction) /\ Joins(s, parts, Len(parts))
  BY <1>3, <1>4, JoinedIs
<1>6. 1 .. Len(parts) = DOMAIN blocks
  BY <1>1, <1>3
<1> HIDE DEF s
<1>7. ASSUME NEW k \in DOMAIN s
      PROVE  \E h \in from .. to : \E i \in Nat : On(h, i) /\ s[k] = Transaction(h, i)
  <2>1. PICK h \in DOMAIN blocks : \E i \in DOMAIN parts[h] : s[k] = parts[h][i]
    BY <1>5, <1>6 DEF Joins
  <2> QED BY <1>2, <2>1
<1>8. ASSUME NEW h \in from .. to, NEW i \in Nat, On(h, i)
      PROVE  \E k \in DOMAIN s : s[k] = Transaction(h, i)
  <2>1. h \in DOMAIN blocks /\ i \in DOMAIN parts[h] /\ parts[h][i] = Transaction(h, i)
    BY <1>2, <1>8 DEF On
  <2> QED BY <1>5, <1>6, <2>1 DEF Joins
<1>9. ASSUME NEW j \in DOMAIN s, NEW k \in DOMAIN s, j < k
      PROVE  s[j].number < s[k].number /\ s[j].time <= s[k].time
  <2>1. PICK b \in DOMAIN blocks, c \in DOMAIN blocks :
               \E i \in DOMAIN parts[b], l \in DOMAIN parts[c] :
                 /\ s[j] = parts[b][i] /\ s[k] = parts[c][l]
                 /\ (b < c \/ (b = c /\ i < l))
    BY <1>5, <1>6, <1>9 DEF Joins
  <2>2. PICK i \in DOMAIN parts[b], l \in DOMAIN parts[c] :
               /\ s[j] = parts[b][i] /\ s[k] = parts[c][l]
               /\ (b < c \/ (b = c /\ i < l))
    BY <2>1
  <2>3. /\ s[j] = Transaction(b, i) /\ On(b, i)
        /\ s[k] = Transaction(c, l) /\ On(c, l)
    BY <1>2, <2>2
  <2>4. b <= c
    BY <1>1, <2>2
  <2> QED BY <2>2, <2>3, <2>4, PlacesAreOrdered
<1> QED BY <1>5, <1>7, <1>8, <1>9 DEF s

-----------------------------------------------------------------------------
(* Sorted answers                                                          *)

\* There are finitely many transactions on the ledger.
LEMMA LedgerIsFinite ==
  ASSUME LedgersAssumption, LedgersTypeOK, Numbering
  PROVE  Ledger \subseteq AnyTransaction /\ IsFiniteSet(Numbers(Ledger))
<1>1. Ledger \subseteq AnyTransaction
  BY TransactionType, LedgerIs DEF On
<1>2. CASE blocks = << >>
  <2>1. Ledger = {} /\ Numbers(Ledger) = {}
    BY <1>2 DEF Ledger, Numbers
  <2> QED BY <1>1, <2>1, FS_EmptySet
<1>3. CASE blocks # << >>
  <2> DEFINE N == Len(blocks)
             M == blocks[N].first + blocks[N].count
  <2>1. /\ N \in DOMAIN blocks /\ DOMAIN blocks = 1 .. N /\ N \in Nat
        /\ blocks \in Seq(AnyBlock)
    BY <1>3 DEF LedgersTypeOK
  <2>2. blocks[N].first \in Nat /\ blocks[N].count \in Nat /\ M \in Nat
        /\ M = blocks[N].first + blocks[N].count
    BY <2>1, BlockType
  <2>3. ASSUME NEW t \in Ledger PROVE t.number \in 0 .. M + N
    <3>1. PICK h \in Nat, i \in Nat : On(h, i) /\ t = Transaction(h, i)
      BY LedgerIs
    <3>2. i \in 1 .. blocks[h].count /\ h \in DOMAIN blocks
      BY <3>1 DEF On
    <3>5. blocks[h].first \in Nat /\ blocks[h].count \in Nat
          /\ t.number = blocks[h].first + i - 1 /\ h \in 1 .. N
      BY <2>1, <3>1, <3>2, BlockType, TransactionType
    <3>3. CASE adapter = "qldb"
      <4>1. blocks[h].first = h /\ i = 1
        BY <3>2, <3>3, <3>5 DEF Numbering
      <4> HIDE DEF N, M
      <4> QED BY <2>1, <2>2, <3>5, <4>1
    <3>4. CASE adapter # "qldb"
      <4>1. h # N => blocks[h].first + blocks[h].count <= blocks[N].first
        <5>1. ASSUME h # N PROVE h < N
          <6> HIDE DEF N
          <6> QED BY <2>1, <3>5, <5>1
        <5> QED BY <2>1, <3>2, <3>4, <5>1, NumbersGrow
      <4>2. blocks[h].first + blocks[h].count <= M
        <5>1. CASE h = N
          BY <2>2, <5>1
        <5>2. CASE h # N
          BY <2>2, <3>5, <4>1, <5>2
        <5> QED BY <5>1, <5>2
      <4>3. i \in Int /\ 1 <= i /\ i <= blocks[h].count
        BY <3>2, <3>5
      <4> HIDE DEF N, M
      <4> QED BY <2>1, <2>2, <3>5, <4>2, <4>3
    <3> QED BY <3>3, <3>4
  <2>4. Numbers(Ledger) \subseteq 0 .. M + N
    BY <2>3 DEF Numbers
  <2>5. IsFiniteSet(0 .. M + N)
    <3>1. M + N \in Int
      BY <2>1, <2>2
    <3> HIDE DEF M, N
    <3> QED BY <3>1, FS_Interval
  <2> QED BY <1>1, <2>4, <2>5, FS_Subset
<1> QED BY <1>2, <1>3

\* Sorted has every transaction, in the order of the numbers.
LEMMA SortedIs ==
  ASSUME LedgersAssumption, LedgersTypeOK, Numbering, NEW S, S \subseteq Ledger
  PROVE  LET s == Sorted(S)
         IN /\ s \in Seq(AnyTransaction)
            /\ \A k \in DOMAIN s : s[k] \in S
            /\ \A t \in S : \E k \in DOMAIN s : s[k] = t
            /\ \A j, k \in DOMAIN s :
                 j < k => s[j].number < s[k].number /\ s[j].time <= s[k].time
<1> DEFINE numbers == Ascending(Numbers(S))
           s == Sorted(S)
<1>1. S \subseteq AnyTransaction /\ IsFiniteSet(Numbers(S))
      /\ \A n \in Numbers(S) : n \in Int
  <2>1. Ledger \subseteq AnyTransaction /\ IsFiniteSet(Numbers(Ledger))
    BY LedgerIsFinite
  <2>2. Numbers(S) \subseteq Numbers(Ledger)
    BY DEF Numbers
  <2>3. \A t \in S : t.number \in Int
    BY <2>1 DEF AnyTransaction
  <2> QED BY <2>1, <2>2, <2>3, FS_Subset DEF Numbers
<1>2. /\ numbers \in Seq(Numbers(S))
      /\ \A n \in Numbers(S) : \E k \in DOMAIN numbers : numbers[k] = n
      /\ \A j, k \in DOMAIN numbers : j < k => numbers[j] < numbers[k]
  BY <1>1, AscendingIs
<1>3. s = [k \in DOMAIN numbers |-> CHOOSE t \in S : t.number = numbers[k]]
  BY DEF Sorted
<1> HIDE DEF numbers, s
<1>4. ASSUME NEW k \in DOMAIN numbers PROVE s[k] \in S /\ s[k].number = numbers[k]
  <2>1. \E t \in S : t.number = numbers[k]
    <3>1. numbers[k] \in Numbers(S)
      BY <1>2
    <3> QED BY <3>1 DEF Numbers
  <2>2. s[k] = CHOOSE t \in S : t.number = numbers[k]
    BY <1>3
  <2> QED BY <2>1, <2>2
<1>5. DOMAIN s = DOMAIN numbers
  BY <1>3
<1>6. s \in Seq(AnyTransaction)
  <2>1. DOMAIN numbers = 1 .. Len(numbers) /\ Len(numbers) \in Nat
    BY <1>2
  <2>2. s = [k \in 1 .. Len(numbers) |-> s[k]]
    BY <1>3, <1>5, <2>1
  <2>3. s \in [1 .. Len(numbers) -> AnyTransaction]
    BY <1>1, <1>4, <2>1, <2>2
  <2> QED BY <2>1, <2>3
<1>7. ASSUME NEW t \in Ledger, NEW u \in Ledger
      PROVE  /\ t.number = u.number => t = u
             /\ t.number < u.number => t.time <= u.time
  <2>1. PICK g \in Nat, i \in Nat : On(g, i) /\ t = Transaction(g, i)
    BY LedgerIs
  <2>2. PICK h \in Nat, j \in Nat : On(h, j) /\ u = Transaction(h, j)
    BY LedgerIs
  <2> QED BY <2>1, <2>2, PlacesAreOrdered
<1>8. ASSUME NEW t \in S PROVE \E k \in DOMAIN s : s[k] = t
  <2>1. PICK k \in DOMAIN numbers : numbers[k] = t.number
    BY <1>2 DEF Numbers
  <2> QED BY <1>4, <1>5, <1>7, <2>1
<1>9. ASSUME NEW j \in DOMAIN s, NEW k \in DOMAIN s, j < k
      PROVE  s[j].number < s[k].number /\ s[j].time <= s[k].time
  <2>1. s[j].number < s[k].number /\ s[j] \in Ledger /\ s[k] \in Ledger
    BY <1>2, <1>4, <1>5, <1>9
  <2> QED BY <1>7, <2>1
<1> QED BY <1>4, <1>5, <1>6, <1>8, <1>9 DEF s

-----------------------------------------------------------------------------
(* Recording an answer leaves nothing out                                  *)

\* A sorted answer that has every number between those recorded and those it has. What
\* zkSync answers is all that is recorded, or is recorded already.
LEMMA AnswerCloses ==
  ASSUME NEW s \in Seq(AnyTransaction), NEW K, K \subseteq Nat, Closed(K), Expected \subseteq Nat,
         \A j, k \in DOMAIN s : j < k => s[j].number < s[k].number,
         \A k \in DOMAIN s : \A m \in Expected :
           /\ m < s[k].number
           /\ adapter = "zksync" => \/ \E n \in K : n < m
                                    \/ \E j \in DOMAIN s : s[j].number < m
           => m \in K \/ \E j \in DOMAIN s : s[j].number = m,
         adapter = "zksync" => K = {} \/ \A k \in DOMAIN s : s[k].number \in K,
         NEW i \in 0 .. Len(s)
  PROVE  Closed(K \cup {s[j].number : j \in 1 .. i})
<1> DEFINE R == K \cup {s[j].number : j \in 1 .. i}
<1>1. /\ DOMAIN s = 1 .. Len(s) /\ Len(s) \in Nat
      /\ \A j \in 1 .. i : j \in DOMAIN s
  OBVIOUS
<1>2. \A j \in DOMAIN s : s[j].number \in Nat
  <2>1. \A j \in DOMAIN s : s[j] \in AnyTransaction
    OBVIOUS
  <2> QED BY <2>1 DEF AnyTransaction
<1>3. ASSUME NEW n \in R, NEW m \in Expected, m < n,
             adapter = "zksync" => \E k \in R : k < m
      PROVE  m \in R
  <2>1. CASE \E k \in 1 .. i : n = s[k].number
    <3>1. PICK k \in 1 .. i : n = s[k].number
      BY <2>1
    <3>2. k \in DOMAIN s /\ m < s[k].number
      BY <1>1, <1>3, <3>1
    <3>3. adapter = "zksync" => \/ \E l \in K : l < m
                                \/ \E j \in DOMAIN s : s[j].number < m
      BY <1>1, <1>3
    <3>4. CASE m \in K
      BY <3>4
    <3>5. CASE \E j \in DOMAIN s : s[j].number = m
      <4>1. PICK j \in DOMAIN s : s[j].number = m
        BY <3>5
      <4>2. ~(k < j) /\ j # k
        BY <1>2, <3>2, <4>1
      <4>3. j \in 1 .. i
        BY <1>1, <3>1, <4>2
      <4> QED BY <4>1, <4>3
    <3> QED BY <3>2, <3>3, <3>4, <3>5
  <2>2. CASE n \in K
    <3>1. CASE adapter = "zksync" => \E k \in K : k < m
      BY <1>3, <2>2, <3>1 DEF Closed
    <3>2. CASE adapter = "zksync" /\ ~ \E k \in K : k < m
      <4>1. \A k \in DOMAIN s : s[k].number \in K
        BY <2>2, <3>2
      <4>2. \A k \in 1 .. i : s[k].number \in K
        BY <1>1, <4>1
      <4> QED BY <1>3, <3>2, <4>2
    <3> QED BY <3>1, <3>2
  <2> QED BY <1>3, <2>1, <2>2
<1> QED BY <1>3 DEF Closed

-----------------------------------------------------------------------------
(* The steps of a read                                                     *)

LEMMA ExpectedAreNumbers ==
  ASSUME LedgersAssumption, LedgersTypeOK, Numbering
  PROVE  Expected \subseteq Nat
BY LedgerIsFinite DEF Expected, Numbers, AnyTransaction

LEMMA SameLedger ==
  ASSUME UNCHANGED ledger
  PROVE  /\ Expected' = Expected /\ (Numbering <=> Numbering')
         /\ adapter' = adapter /\ blocks' = blocks /\ fork' = fork
BY DEF ledger, Expected, Ledger, Numbers, Numbering, Transaction, TimeOf, HashOf

LEMMA LedgersInitInv == LedgersAssumption /\ LedgersInit => LedgersInv
<1> SUFFICES ASSUME LedgersAssumption, LedgersInit PROVE LedgersInv
  OBVIOUS
<1> USE DEF LedgersInit
<1>1. LedgersTypeOK
  <2>1. Numbers(stored) = {}
    BY DEF Numbers
  <2>2. call \in AnyCall
    BY DEF NoCall, AnyCall, NoHash
  <2>3. \E N \in Nat : Numbers(stored) \subseteq 0 .. N
    BY <2>1
  <2> QED BY <2>2, <2>3 DEF LedgersTypeOK, LedgersAssumption
<1>2. Numbering
  BY DEF Numbering
<1>3. QldbNumbers
  BY DEF QldbNumbers, Numbers, NoCall, NoNumber
<1>4. RecordedIsClosed
  BY DEF RecordedIsClosed, NoCall, Closed, Numbers
<1> QED BY <1>1, <1>2, <1>3, <1>4 DEF LedgersInv, CallIsCursor, HeightIsFound

\* What a found height needs.
MayFind(h) ==
  adapter = "ethereum" =>
    IF HasNumber THEN h \in DOMAIN blocks /\ blocks[h].first <= call.number ELSE HasHash

LEMMA FoundInv ==
  ASSUME LedgersAssumption, LedgersInv, pc \in {"called", "found"}, NEW h \in Nat,
         MayFind(h), Found(h)
  PROVE  LedgersInv'
<1> USE DEF Found, LedgersInv
<1>1. /\ Expected' = Expected /\ (Numbering <=> Numbering')
      /\ adapter' = adapter /\ blocks' = blocks /\ fork' = fork
  BY SameLedger
<1>2. LedgersTypeOK'
  BY <1>1 DEF LedgersTypeOK, Numbers
<1>3. QldbNumbers'
  BY <1>1 DEF QldbNumbers, Numbers
<1>4. RecordedIsClosed'
  BY <1>1 DEF RecordedIsClosed, Closed, RecordedTo, Numbers
<1>5. CallIsCursor'
  BY DEF CallIsCursor, HasNumber, HasHash, Numbers
<1>6. HeightIsFound'
  BY <1>1 DEF HeightIsFound, MayFind, HasNumber, HasHash
<1> QED BY <1>1, <1>2, <1>3, <1>4, <1>5, <1>6

\* What an answer needs.
MayAnswer(s) ==
  /\ s \in Seq(AnyTransaction)
  /\ adapter = "qldb" => \A k \in DOMAIN s : s[k].number \in 1 .. Len(blocks)
  /\ ~torn /\ call.observer => \A i \in 0 .. Len(s) : Closed(RecordedTo(s, i))

LEMMA AnswerInv ==
  ASSUME LedgersAssumption, LedgersInv, NEW s, MayAnswer(s), Answer(s)
  PROVE  LedgersInv'
<1> USE DEF Answer, LedgersInv
<1>1. /\ Expected' = Expected /\ (Numbering <=> Numbering')
      /\ adapter' = adapter /\ blocks' = blocks /\ fork' = fork
  BY SameLedger
<1>2. LedgersTypeOK'
  BY <1>1 DEF LedgersTypeOK, Numbers, MayAnswer
<1>3. QldbNumbers'
  BY <1>1 DEF QldbNumbers, Numbers, MayAnswer
<1>4. RecordedIsClosed'
  BY <1>1 DEF RecordedIsClosed, Closed, RecordedTo, Numbers, MayAnswer
<1>5. CallIsCursor'
  BY DEF CallIsCursor
<1>6. HeightIsFound'
  BY DEF HeightIsFound
<1> QED BY <1>1, <1>2, <1>3, <1>4, <1>5, <1>6

\* An answer of nothing.
LEMMA MayAnswerNothing ==
  ASSUME LedgersInv
  PROVE  MayAnswer(<< >>)
<1>1. \A i \in 0 .. Len(<< >>) : RecordedTo(<< >>, i) = Numbers(stored)
  BY DEF RecordedTo
<1> QED BY <1>1 DEF MayAnswer, LedgersInv, RecordedIsClosed

\* An answer to the observer that reaches back to its cursor, or to the beginning.
LEMMA MayAnswerSorted ==
  ASSUME LedgersAssumption, LedgersInv, NEW s \in Seq(AnyTransaction),
         adapter = "qldb" => \A k \in DOMAIN s : s[k].number \in 1 .. Len(blocks),
         \A j, k \in DOMAIN s : j < k => s[j].number < s[k].number,
         ~torn /\ call.observer =>
           /\ \A k \in DOMAIN s : \A m \in Expected :
                /\ m < s[k].number
                /\ adapter = "zksync" => \/ \E n \in Numbers(stored) : n < m
                                         \/ \E j \in DOMAIN s : s[j].number < m
                => m \in Numbers(stored) \/ \E j \in DOMAIN s : s[j].number = m
           /\ adapter = "zksync" => \/ Numbers(stored) = {}
                                    \/ \A k \in DOMAIN s : s[k].number \in Numbers(stored)
  PROVE  MayAnswer(s)
<1>1. Numbers(stored) \subseteq Nat
  BY DEF LedgersInv, LedgersTypeOK, Numbers, AnyTransaction
<1>2. Expected \subseteq Nat
  BY ExpectedAreNumbers DEF LedgersInv
<1>3. ASSUME ~torn, call.observer, NEW i \in 0 .. Len(s)
      PROVE  Closed(RecordedTo(s, i))
  <2>1. Closed(Numbers(stored))
    BY <1>3 DEF LedgersInv, RecordedIsClosed
  <2> DEFINE K == Numbers(stored)
  <2>2. Closed(K \cup {s[j].number : j \in 1 .. i})
    <3> HIDE DEF K
    <3> SUFFICES Closed(K \cup {s[j].number : j \in 1 .. i})
      OBVIOUS
    <3> QED BY <1>1, <1>2, <1>3, <2>1, AnswerCloses DEF K
  <2> QED BY <2>2 DEF RecordedTo
<1> QED BY <1>3 DEF MayAnswer

LEMMA FindBlockInv ==
  ASSUME LedgersAssumption, LedgersInv, pc = "called", FindBlock,
         adapter = "ethereum" => ~HasNumber /\ HasHash
  PROVE  LedgersInv'
<1>1. CASE \E h \in DOMAIN blocks : HashOf(h) = call.hash /\ Found(h)
  <2>1. PICK h \in DOMAIN blocks : Found(h)
    BY <1>1
  <2>2. h \in Nat /\ MayFind(h)
    BY DEF LedgersInv, LedgersTypeOK, MayFind
  <2> QED BY <2>1, <2>2, FoundInv
<1>2. CASE Answer(<< >>)
  <2>1. MayAnswer(<< >>)
    BY MayAnswerNothing
  <2> QED BY <1>2, <2>1, AnswerInv
<1> QED BY <1>1, <1>2 DEF FindBlock

\* A number before one of the answer is in the answer too, or in a block before its heights.
LEMMA InAnswerOrBefore ==
  ASSUME LedgersAssumption, LedgersInv, adapter # "qldb", NEW from \in Nat, NEW to \in Nat,
         NEW k \in DOMAIN GetTransactions(from, to), NEW m \in Nat,
         m < GetTransactions(from, to)[k].number
  PROVE  \/ \E j \in DOMAIN GetTransactions(from, to) : GetTransactions(from, to)[j].number = m
         \/ \E g \in DOMAIN blocks : g < from /\ m < blocks[g].first + blocks[g].count
<1> DEFINE s == GetTransactions(from, to)
<1> USE DEF LedgersInv
<1>1. /\ \A l \in DOMAIN s :
           \E h \in from .. to : \E i \in Nat : On(h, i) /\ s[l] = Transaction(h, i)
      /\ \A h \in from .. to : \A i \in Nat :
           On(h, i) => \E j \in DOMAIN s : s[j] = Transaction(h, i)
  <2>1. LedgersTypeOK /\ Numbering
    OBVIOUS
  <2> HIDE DEF LedgersInv
  <2>2. \A l \in DOMAIN s : \E h \in from .. to : \E i \in Nat : On(h, i) /\ s[l] = Transaction(h, i)
    BY <2>1, GetTransactionsIs
  <2>3. \A h \in from .. to : \A i \in Nat : On(h, i) => \E j \in DOMAIN s : s[j] = Transaction(h, i)
    BY <2>1, GetTransactionsIs
  <2> QED BY <2>2, <2>3
<1>2. m < s[k].number /\ k \in DOMAIN s
  OBVIOUS
<1> HIDE DEF s
<1>3. PICK h \in from .. to : \E i \in Nat : On(h, i) /\ s[k] = Transaction(h, i)
  BY <1>1, <1>2
<1>4. PICK i \in Nat : On(h, i) /\ s[k] = Transaction(h, i)
  BY <1>3
<1>5. /\ h \in DOMAIN blocks /\ i \in 1 .. blocks[h].count /\ blocks \in Seq(AnyBlock)
      /\ s[k].number = blocks[h].first + i - 1
  BY <1>4, TransactionType DEF On, LedgersTypeOK
<1>6. blocks[h].first \in Nat /\ blocks[h].count \in Nat
  BY <1>5, BlockType
<1>7. m < blocks[h].first + blocks[h].count
  BY <1>2, <1>5, <1>6
<1>8. PICK g \in 1 .. h : blocks[g].first <= m /\ m < blocks[g].first + blocks[g].count
  BY <1>5, <1>7, NoneIsMissing
<1>9. g \in DOMAIN blocks
  BY <1>5
<1>10. blocks[g].first \in Nat /\ blocks[g].count \in Nat
  BY <1>5, <1>9, BlockType
<1>11. CASE from <= g
  <2> DEFINE l == m - blocks[g].first + 1
  <2>1. l \in Nat /\ l \in 1 .. blocks[g].count
    BY <1>8, <1>10
  <2>2. On(g, l) /\ g \in from .. to
    BY <1>9, <1>11, <2>1 DEF On
  <2>3. Transaction(g, l).number = blocks[g].first + l - 1
    <3> HIDE DEF l
    <3> QED BY <2>2, TransactionType
  <2>4. blocks[g].first + l - 1 = m
    BY <1>10
  <2> HIDE DEF l
  <2>5. PICK j \in DOMAIN s : s[j] = Transaction(g, l)
    BY <1>1, <2>1, <2>2
  <2>6. s[j].number = m
    BY <2>3, <2>4, <2>5
  <2> QED BY <2>6 DEF s
<1>12. CASE g < from
  BY <1>8, <1>9, <1>12
<1> QED BY <1>9, <1>11, <1>12

LEMMA EthereumFindInv ==
  ASSUME LedgersAssumption, LedgersInv, EthereumFind
  PROVE  LedgersInv'
<1> USE DEF LedgersInv
<1>1. adapter = "ethereum" /\ pc = "called"
  BY DEF EthereumFind
<1>2. CASE HasNumber
  <2>1. CASE \E t \in Ledger : t.number = call.number /\ Found(t.time)
    <3>1. PICK t \in Ledger : t.number = call.number /\ Found(t.time)
      BY <2>1
    <3>2. PICK h \in Nat, i \in Nat : On(h, i) /\ t = Transaction(h, i)
      BY LedgerIs
    <3>3. /\ h \in DOMAIN blocks /\ i \in 1 .. blocks[h].count /\ t.time = h
          /\ t.number = blocks[h].first + i - 1
      BY <1>1, <3>2, TransactionType DEF On, TimeOf
    <3>4. blocks[h].first \in Nat /\ blocks[h].count \in Nat
      BY <3>3, BlockType DEF LedgersTypeOK
    <3>5. blocks[h].first <= call.number
      BY <3>1, <3>3, <3>4
    <3>6. MayFind(h) /\ Found(h)
      BY <1>2, <3>1, <3>3, <3>5 DEF MayFind
    <3> QED BY <1>1, <3>2, <3>6, FoundInv
  <2>2. CASE Answer(<< >>)
    <3>1. MayAnswer(<< >>)
      BY MayAnswerNothing
    <3> QED BY <2>2, <3>1, AnswerInv
  <2> QED BY <1>2, <2>1, <2>2 DEF EthereumFind
<1>3. CASE ~HasNumber /\ HasHash
  BY <1>1, <1>3, FindBlockInv DEF EthereumFind
<1>4. CASE ~HasNumber /\ ~HasHash
  <2> DEFINE s == GetTransactions(0, Len(blocks))
  <2>1. Answer(s) /\ Len(blocks) \in Nat
    BY <1>4 DEF EthereumFind, LedgersTypeOK
  <2>2. /\ s \in Seq(AnyTransaction)
        /\ \A j, k \in DOMAIN s : j < k => s[j].number < s[k].number
    BY <2>1, GetTransactionsIs
  <2>3. ASSUME NEW k \in DOMAIN s, NEW m \in Nat, m < s[k].number
        PROVE  \E j \in DOMAIN s : s[j].number = m
    <3>1. \A g \in DOMAIN blocks : ~(g < 0)
      BY DEF LedgersTypeOK
    <3> QED BY <1>1, <2>1, <2>3, <3>1, InAnswerOrBefore
  <2>4. Expected = Nat
    BY <1>1 DEF Expected
  <2> HIDE DEF s
  <2>5. MayAnswer(s)
    BY <1>1, <2>2, <2>3, <2>4, MayAnswerSorted
  <2> QED BY <2>1, <2>5, AnswerInv
<1> QED BY <1>2, <1>3, <1>4

LEMMA EthereumReadInv ==
  ASSUME LedgersAssumption, LedgersInv, EthereumRead
  PROVE  LedgersInv'
<1> USE DEF LedgersInv
<1>1. adapter = "ethereum" /\ pc = "found" /\ height \in Nat /\ Len(blocks) \in Nat
      /\ Expected = Nat
  BY DEF EthereumRead, LedgersTypeOK, Expected
<1>2. CASE HasNumber
  <2> DEFINE s == GetTransactions(height, Len(blocks))
  <2>1. Answer(s)
    BY <1>2 DEF EthereumRead, SinceBlock
  <2>2. /\ s \in Seq(AnyTransaction)
        /\ \A j, k \in DOMAIN s : j < k => s[j].number < s[k].number
    BY <1>1, GetTransactionsIs
  <2>3. ASSUME ~torn, call.observer, NEW k \in DOMAIN s, NEW m \in Nat, m < s[k].number
        PROVE  m \in Numbers(stored) \/ \E j \in DOMAIN s : s[j].number = m
    <3>1. CASE \E g \in DOMAIN blocks : g < height /\ m < blocks[g].first + blocks[g].count
      <4>1. PICK g \in DOMAIN blocks : g < height /\ m < blocks[g].first + blocks[g].count
        BY <3>1
      <4>2. height \in DOMAIN blocks /\ blocks[height].first <= call.number
        BY <1>1, <1>2, <2>3 DEF HeightIsFound
      <4>3. blocks[g].first + blocks[g].count <= blocks[height].first
        BY <1>1, <4>1, <4>2, NumbersGrow DEF LedgersTypeOK
      <4>4. /\ blocks[g].first \in Nat /\ blocks[g].count \in Nat
            /\ blocks[height].first \in Nat
        BY <4>1, <4>2, BlockType DEF LedgersTypeOK
      <4>5. call.number \in Numbers(stored) /\ call.number \in Int
        BY <1>1, <1>2, <2>3 DEF CallIsCursor, LedgersTypeOK, Numbers, AnyTransaction
      <4>6. m < call.number
        BY <4>1, <4>2, <4>3, <4>4, <4>5
      <4>7. Closed(Numbers(stored))
        BY <2>3 DEF RecordedIsClosed
      <4> QED BY <1>1, <4>5, <4>6, <4>7 DEF Closed
    <3> QED BY <1>1, <2>3, <3>1, InAnswerOrBefore
  <2> HIDE DEF s
  <2>4. MayAnswer(s)
    BY <1>1, <2>2, <2>3, MayAnswerSorted
  <2> QED BY <2>1, <2>4, AnswerInv
<1>3. CASE ~HasNumber
  <2> DEFINE s == GetTransactions(height, height)
  <2>1. Answer(s)
    BY <1>3 DEF EthereumRead
  <2>2. s \in Seq(AnyTransaction)
    BY <1>1, GetTransactionsIs
  <2>3. ~call.observer
    BY <1>1, <1>3 DEF CallIsCursor, HeightIsFound
  <2> HIDE DEF s
  <2>4. MayAnswer(s)
    BY <1>1, <2>2, <2>3 DEF MayAnswer
  <2> QED BY <2>1, <2>4, AnswerInv
<1> QED BY <1>2, <1>3

LEMMA ZksyncFindInv ==
  ASSUME LedgersAssumption, LedgersInv, ZksyncFind
  PROVE  LedgersInv'
<1>1. adapter = "zksync" /\ pc = "called"
  BY DEF ZksyncFind
<1>2. CASE FindBlock
  BY <1>1, <1>2, FindBlockInv
<1>3. CASE Found(Len(blocks))
  <2>1. Len(blocks) \in Nat
    BY DEF LedgersInv, LedgersTypeOK
  <2> QED BY <1>1, <1>3, <2>1, FoundInv DEF MayFind
<1> QED BY <1>2, <1>3 DEF ZksyncFind

\* An answer that no observer asked for.
LEMMA MayAnswerOthers ==
  ASSUME LedgersInv, adapter # "qldb", ~call.observer, NEW s \in Seq(AnyTransaction)
  PROVE  MayAnswer(s)
BY DEF MayAnswer

LEMMA BatchIs ==
  ASSUME LedgersAssumption, LedgersInv
  PROVE  BatchStart \in Nat /\ height \in Nat
BY DEF LedgersInv, LedgersTypeOK, LedgersAssumption, BatchStart

LEMMA ZksyncReadInv ==
  ASSUME LedgersAssumption, LedgersInv, ZksyncRead
  PROVE  LedgersInv'
<1> USE DEF LedgersInv
<1>1. adapter = "zksync" /\ pc = "found" /\ height \in Nat /\ BatchStart \in Nat /\ Expected = Nat
  BY BatchIs DEF ZksyncRead, Expected
<1> DEFINE block == GetTransactions(height, height)
           places == {k \in DOMAIN block : block[k].number = call.number}
<1>2. block \in Seq(AnyTransaction)
  BY <1>1, GetTransactionsIs
<1>3. CASE HasHash /\ HasNumber
  <2> DEFINE s == Picked(block, places)
  <2>1. Answer(s)
    BY <1>3 DEF ZksyncRead
  <2> HIDE DEF block
  <2>2. places \subseteq DOMAIN block
    OBVIOUS
  <2> HIDE DEF places
  <2>3. s \in Seq(AnyTransaction) /\ \E place : TakenFrom(place, s, block, places)
    BY <1>2, <2>2, PickedIs
  <2>4. \A k \in DOMAIN s : s[k].number = call.number
    BY <2>3 DEF TakenFrom, places
  <2> HIDE DEF s
  <2>5. ASSUME ~torn, call.observer, NEW i \in 0 .. Len(s)
        PROVE  Closed(RecordedTo(s, i))
    <3>1. call.number \in Numbers(stored)
      BY <1>1, <1>3, <2>5 DEF CallIsCursor
    <3>2. \A j \in 1 .. i : j \in DOMAIN s
      BY <2>3
    <3>3. RecordedTo(s, i) = Numbers(stored)
      BY <2>4, <3>1, <3>2 DEF RecordedTo
    <3> QED BY <2>5, <3>3 DEF RecordedIsClosed
  <2>6. MayAnswer(s)
    BY <1>1, <2>3, <2>5 DEF MayAnswer
  <2> QED BY <2>1, <2>6, AnswerInv
<1>4. CASE HasHash /\ ~HasNumber
  <2>1. Answer(block)
    BY <1>4 DEF ZksyncRead
  <2>2. ~call.observer
    BY <1>1, <1>4 DEF CallIsCursor
  <2> HIDE DEF block
  <2> QED BY <1>1, <1>2, <2>1, <2>2, MayAnswerOthers, AnswerInv
<1>5. CASE ~HasHash /\ ~HasNumber
  <2> DEFINE s == GetTransactions(BatchStart, height)
  <2>1. Answer(s)
    BY <1>5 DEF ZksyncRead, Batch
  <2>2. /\ s \in Seq(AnyTransaction)
        /\ \A j, k \in DOMAIN s : j < k => s[j].number < s[k].number
        /\ \A k \in DOMAIN s :
             \E h \in BatchStart .. height : \E i \in Nat : On(h, i) /\ s[k] = Transaction(h, i)
    BY <1>1, GetTransactionsIs
  <2>3. ASSUME NEW k \in DOMAIN s, NEW m \in Nat, m < s[k].number,
               NEW j \in DOMAIN s, s[j].number < m
        PROVE  \E l \in DOMAIN s : s[l].number = m
    <3>1. CASE \E g \in DOMAIN blocks : g < BatchStart /\ m < blocks[g].first + blocks[g].count
      <4>1. PICK g \in DOMAIN blocks : g < BatchStart /\ m < blocks[g].first + blocks[g].count
        BY <3>1
      <4>2. PICK h \in BatchStart .. height :
                   \E i \in Nat : On(h, i) /\ s[j] = Transaction(h, i)
        BY <2>2
      <4>3. PICK i \in Nat : On(h, i) /\ s[j] = Transaction(h, i)
        BY <4>2
      <4> HIDE DEF s
      <4>4. /\ h \in DOMAIN blocks /\ i \in 1 .. blocks[h].count
            /\ s[j].number = blocks[h].first + i - 1 /\ g < h /\ blocks \in Seq(AnyBlock)
        BY <1>1, <4>1, <4>3, TransactionType DEF On, LedgersTypeOK
      <4>5. blocks[g].first + blocks[g].count <= blocks[h].first
        BY <1>1, <4>1, <4>4, NumbersGrow
      <4>6. /\ blocks[g].first \in Nat /\ blocks[g].count \in Nat
            /\ blocks[h].first \in Nat /\ blocks[h].count \in Nat
        BY <4>1, <4>4, BlockType
      <4> QED BY <2>3, <4>1, <4>4, <4>5, <4>6
    <3> QED BY <1>1, <2>3, <3>1, InAnswerOrBefore
  <2>4. call.observer => Numbers(stored) = {}
    BY <1>1, <1>5 DEF CallIsCursor, Numbers
  <2> HIDE DEF s
  <2>5. MayAnswer(s)
    BY <1>1, <2>2, <2>3, <2>4, MayAnswerSorted
  <2> QED BY <2>1, <2>5, AnswerInv
<1>6. CASE ~HasHash /\ HasNumber
  <2> DEFINE later == {t \in Elements(Batch) : t.number > call.number}
  <2>1. ~call.observer
    BY <1>1, <1>6 DEF CallIsCursor
  <2>2. CASE BatchStart - 1 > 0 /\ Found(BatchStart - 1)
    <3>1. BatchStart - 1 \in Nat
      BY <1>1, <2>2
    <3>2. MayFind(BatchStart - 1)
      BY <1>1 DEF MayFind
    <3> QED BY <1>1, <2>2, <3>1, <3>2, FoundInv
  <2>3. CASE Answer(Sorted(later))
    <3>1. later \subseteq Ledger
      <4>1. \A k \in DOMAIN Batch :
              \E h \in BatchStart .. height : \E i \in Nat : On(h, i) /\ Batch[k] = Transaction(h, i)
        BY <1>1, GetTransactionsIs DEF Batch
      <4>2. \A h \in BatchStart .. height : h \in Nat
        BY <1>1
      <4>3. \A k \in DOMAIN Batch : Batch[k] \in Ledger
        BY <4>1, <4>2, LedgerIs
      <4> QED BY <4>3 DEF Elements
    <3> HIDE DEF later
    <3>2. Sorted(later) \in Seq(AnyTransaction)
      BY <3>1, SortedIs
    <3> QED BY <1>1, <2>1, <2>3, <3>2, MayAnswerOthers, AnswerInv
  <2> QED BY <1>6, <2>2, <2>3 DEF ZksyncRead
<1> QED BY <1>3, <1>4, <1>5, <1>6

LEMMA QldbReadInv ==
  ASSUME LedgersAssumption, LedgersInv, QldbRead
  PROVE  LedgersInv'
<1> USE DEF LedgersInv
<1> DEFINE S == IF HasNumberUnlessZero THEN {t \in Ledger : t.number >= call.number}
                ELSE IF HasHash THEN {t \in Ledger : t.hash = call.hash}
                ELSE Ledger
           s == Sorted(S)
<1>1. adapter = "qldb" /\ pc = "called" /\ Answer(s)
  BY DEF QldbRead
<1>2. S \subseteq Ledger
  OBVIOUS
<1>3. /\ HasNumber => S = {t \in Ledger : t.number >= call.number}
      /\ ~HasNumber /\ ~HasHash => S = Ledger
  BY <1>1 DEF QldbNumbers, HasNumber, HasNumberUnlessZero
<1> HIDE DEF S
<1>4. /\ s \in Seq(AnyTransaction)
      /\ \A k \in DOMAIN s : s[k] \in S
      /\ \A t \in S : \E k \in DOMAIN s : s[k] = t
      /\ \A j, k \in DOMAIN s : j < k => s[j].number < s[k].number
  BY <1>2, SortedIs
<1> HIDE DEF s
<1>5. ASSUME NEW t \in Ledger PROVE t.number \in 1 .. Len(blocks)
  <2>1. PICK h \in Nat, i \in Nat : On(h, i) /\ t = Transaction(h, i)
    BY LedgerIs
  <2>2. /\ h \in DOMAIN blocks /\ i \in 1 .. blocks[h].count
        /\ t.number = blocks[h].first + i - 1 /\ blocks \in Seq(AnyBlock)
    BY <2>1, TransactionType DEF On, LedgersTypeOK
  <2>3. blocks[h].first = h /\ blocks[h].count <= 1 /\ blocks[h].count \in Nat
    BY <1>1, <2>2, BlockType DEF Numbering
  <2> QED BY <2>2, <2>3
<1>6. ASSUME ~torn, call.observer, NEW k \in DOMAIN s, NEW m \in Expected, m < s[k].number
      PROVE  m \in Numbers(stored) \/ \E j \in DOMAIN s : s[j].number = m
  <2>1. PICK u \in Ledger : u.number = m
    BY <1>1 DEF Expected, Numbers
  <2>2. CASE HasNumber
    <3>1. call.number \in Numbers(stored) /\ Closed(Numbers(stored))
      BY <1>1, <1>6, <2>2 DEF CallIsCursor, RecordedIsClosed
    <3>2. call.number \in Int /\ m \in Int
      BY <1>5, <2>1, <3>1 DEF LedgersTypeOK, Numbers, AnyTransaction
    <3>3. CASE m < call.number
      BY <1>1, <3>1, <3>3 DEF Closed
    <3>4. CASE m >= call.number
      BY <1>3, <1>4, <2>1, <2>2, <3>4
    <3> QED BY <3>2, <3>3, <3>4
  <2>3. CASE ~HasNumber
    <3>1. ~HasHash
      BY <1>1, <1>6, <2>3 DEF CallIsCursor
    <3> QED BY <1>3, <1>4, <2>1, <2>3, <3>1
  <2> QED BY <2>2, <2>3
<1>7. \A k \in DOMAIN s : s[k].number \in 1 .. Len(blocks)
  BY <1>2, <1>4, <1>5
<1>8. MayAnswer(s)
  BY <1>1, <1>4, <1>6, <1>7, MayAnswerSorted
<1> QED BY <1>1, <1>8, AnswerInv

LEMMA NoCallType == NoCall \in AnyCall
BY DEF NoCall, AnyCall, NoNumber, NoHash

LEMMA RecordInv ==
  ASSUME LedgersAssumption, LedgersInv, Record
  PROVE  LedgersInv'
<1> USE DEF LedgersInv
<1>1. /\ Expected' = Expected /\ (Numbering <=> Numbering')
      /\ adapter' = adapter /\ blocks' = blocks /\ fork' = fork /\ torn' = torn
      /\ pc = "answered"
  BY SameLedger DEF Record
<1>2. CASE End /\ UNCHANGED stored
  <2> USE <1>2 DEF End
  <2>1. LedgersTypeOK'
    BY <1>1, NoCallType DEF LedgersTypeOK, Numbers
  <2>2. QldbNumbers'
    BY <1>1 DEF QldbNumbers, Numbers, NoCall, NoNumber
  <2>3. RecordedIsClosed'
    BY <1>1 DEF RecordedIsClosed, Closed, Numbers, NoCall
  <2> QED BY <1>1, <2>1, <2>2, <2>3 DEF CallIsCursor, HeightIsFound
<1>3. CASE ~(answer = << >> \/ ~call.observer)
  <2> DEFINE t == Head(answer)
  <2>1. /\ answer # << >> /\ call.observer /\ answer' = Tail(answer) /\ UNCHANGED <<pc, call, height>>
        /\ stored' = IF t.number \in Numbers(stored) THEN stored ELSE stored \cup {t}
    BY <1>3 DEF Record
  <2>2. /\ answer \in Seq(AnyTransaction) /\ Len(answer) \in Nat /\ t = answer[1]
        /\ 1 \in DOMAIN answer /\ t \in AnyTransaction
        /\ answer' \in Seq(AnyTransaction) /\ Len(answer') = Len(answer) - 1
        /\ DOMAIN answer' = 1 .. Len(answer) - 1
        /\ \A k \in 1 .. Len(answer) - 1 : answer'[k] = answer[k + 1]
        /\ DOMAIN answer = 1 .. Len(answer)
    BY <2>1 DEF LedgersTypeOK
  <2>3. t.number \in Nat
    BY <2>2 DEF AnyTransaction
  <2> HIDE DEF t
  <2>4. Numbers(stored') = Numbers(stored) \cup {t.number}
    <3>1. ASSUME NEW n PROVE n \in Numbers(stored') <=> n \in Numbers(stored) \cup {t.number}
      BY <2>1 DEF Numbers
    <3> QED BY <3>1
  <2>5. LedgersTypeOK'
    <3>1. PICK N \in Nat : Numbers(stored) \subseteq 0 .. N
      BY DEF LedgersTypeOK
    <3>2. Numbers(stored') \subseteq 0 .. N + t.number
      BY <2>3, <2>4, <3>1
    <3>3. N + t.number \in Nat
      BY <2>3
    <3>4. \E M \in Nat : Numbers(stored') \subseteq 0 .. M
      BY <3>2, <3>3
    <3>5. stored' \subseteq AnyTransaction
      BY <2>1, <2>2 DEF LedgersTypeOK
    <3>6. Numbers(stored)' = Numbers(stored')
      BY DEF Numbers
    <3> QED BY <1>1, <2>1, <2>2, <3>4, <3>5, <3>6 DEF LedgersTypeOK
  <2>6. Numbers(stored)' = Numbers(stored) \cup {t.number}
    BY <2>4 DEF Numbers
  <2>7. QldbNumbers'
    <3>1. ASSUME adapter = "qldb"
          PROVE  /\ Numbers(stored)' \subseteq 1 .. Len(blocks)
                 /\ \A k \in DOMAIN answer' : answer'[k].number \in 1 .. Len(blocks)
                 /\ call.number # 0
      <4>1. \A k \in DOMAIN answer' : k + 1 \in DOMAIN answer /\ answer'[k] = answer[k + 1]
        BY <2>2
      <4> QED BY <2>2, <2>6, <3>1, <4>1 DEF QldbNumbers
    <3> QED BY <1>1, <2>1, <3>1 DEF QldbNumbers
  <2>8. RecordedIsClosed'
    <3>1. ASSUME ~torn, NEW i \in 0 .. Len(answer')
          PROVE  Closed(RecordedTo(answer, i)')
      <4>1. i + 1 \in 0 .. Len(answer) /\ i \in Nat
        BY <2>2
      <4>2. Closed(RecordedTo(answer, i + 1))
        BY <2>1, <3>1, <4>1 DEF RecordedIsClosed
      <4>3. ASSUME NEW n
            PROVE  n \in RecordedTo(answer, i)' <=> n \in RecordedTo(answer, i + 1)
        <5>1. n \in RecordedTo(answer, i)' <=>
                n \in Numbers(stored) \/ n = t.number \/ \E j \in 1 .. i : n = answer'[j].number
          BY <2>6 DEF RecordedTo
        <5>2. n \in RecordedTo(answer, i + 1) <=>
                n \in Numbers(stored) \/ \E j \in 1 .. i + 1 : n = answer[j].number
          BY DEF RecordedTo
        <5>3. \A j \in 1 .. i : answer'[j] = answer[j + 1] /\ j + 1 \in 1 .. i + 1
          BY <2>2, <4>1
        <5>4. \A j \in 1 .. i + 1 : j = 1 \/ (j - 1 \in 1 .. i /\ answer'[j - 1] = answer[j])
          BY <2>2, <4>1
        <5>5. 1 \in 1 .. i + 1
          BY <4>1
        <5> QED BY <2>2, <5>1, <5>2, <5>3, <5>4, <5>5
      <4>4. RecordedTo(answer, i)' = RecordedTo(answer, i + 1)
        BY <4>3
      <4> QED BY <4>2, <4>4
    <3>2. ASSUME ~torn PROVE Closed(Numbers(stored)')
      <4>1. 0 \in 0 .. Len(answer')
        BY <2>1, <2>2
      <4>2. RecordedTo(answer, 0)' = Numbers(stored)'
        BY DEF RecordedTo
      <4> QED BY <3>1, <3>2, <4>1, <4>2
    <3>3. ASSUME NEW K, Closed(K) PROVE (\A n \in K, m \in Expected' :
              m < n /\ (adapter' = "zksync" => \E k \in K : k < m) => m \in K)
      BY <1>1, <3>3 DEF Closed
    <3> QED BY <1>1, <3>1, <3>2, <3>3 DEF RecordedIsClosed, Closed
  <2> QED BY <1>1, <2>1, <2>5, <2>7, <2>8 DEF CallIsCursor, HeightIsFound
<1> QED BY <1>2, <1>3 DEF Record

LEMMA ReadRejectsInv ==
  ASSUME LedgersAssumption, LedgersInv, ReadRejects
  PROVE  LedgersInv'
<1> USE DEF LedgersInv
<1>1. /\ Expected' = Expected /\ (Numbering <=> Numbering')
      /\ adapter' = adapter /\ blocks' = blocks /\ fork' = fork /\ torn' = torn
      /\ stored' = stored
  BY SameLedger DEF ReadRejects
<1>2. CASE End
  <2> USE <1>2 DEF End
  <2>1. LedgersTypeOK'
    BY <1>1, NoCallType DEF LedgersTypeOK, Numbers
  <2>2. QldbNumbers'
    BY <1>1 DEF QldbNumbers, Numbers, NoCall, NoNumber
  <2>3. RecordedIsClosed'
    BY <1>1 DEF RecordedIsClosed, Closed, Numbers, NoCall
  <2> QED BY <1>1, <2>1, <2>2, <2>3 DEF CallIsCursor, HeightIsFound
<1>3. CASE UNCHANGED <<pc, call, height, answer>>
  <2>1. LedgersTypeOK' /\ QldbNumbers'
    BY <1>1, <1>3 DEF LedgersTypeOK, QldbNumbers, Numbers
  <2>2. RecordedIsClosed'
    BY <1>1, <1>3 DEF RecordedIsClosed, Closed, RecordedTo, Numbers
  <2>3. CallIsCursor' /\ HeightIsFound'
    BY <1>1, <1>3 DEF CallIsCursor, HeightIsFound, HasNumber, HasHash, Numbers
  <2> QED BY <1>1, <2>1, <2>2, <2>3
<1> QED BY <1>2, <1>3 DEF ReadRejects

\* The arguments of a read.
MayCall(c) ==
  /\ c \in AnyCall
  /\ adapter = "qldb" => c.number # 0
  /\ c.observer =>
       IF c.number # NoNumber THEN c.hash # NoHash /\ c.number \in Numbers(stored)
       ELSE c.hash = NoHash /\ stored = {}

LEMMA BeginInv ==
  ASSUME LedgersAssumption, LedgersInv, NEW c, MayCall(c), Begin(c)
  PROVE  LedgersInv'
<1> USE DEF LedgersInv, Begin
<1>1. /\ Expected' = Expected /\ (Numbering <=> Numbering')
      /\ adapter' = adapter /\ blocks' = blocks /\ fork' = fork
      /\ answer = << >> /\ answer' = << >>
  BY SameLedger DEF LedgersTypeOK
<1>2. LedgersTypeOK'
  BY <1>1 DEF LedgersTypeOK, Numbers, MayCall
<1>3. QldbNumbers'
  BY <1>1 DEF QldbNumbers, Numbers, MayCall
<1>4. RecordedIsClosed'
  <2>1. ASSUME NEW i \in 0 .. Len(answer')
        PROVE  RecordedTo(answer, i)' = Numbers(stored)
    <3>1. 1 .. i = {}
      BY <1>1
    <3> QED BY <3>1 DEF RecordedTo, Numbers
  <2>2. Numbers(stored)' = Numbers(stored)
    BY DEF Numbers
  <2>3. ASSUME NEW K, Closed(K) PROVE (\A n \in K, m \in Expected' :
            m < n /\ (adapter' = "zksync" => \E k \in K : k < m) => m \in K)
    BY <1>1, <2>3 DEF Closed
  <2>4. ~torn => Closed(Numbers(stored))
    BY DEF RecordedIsClosed
  <2> HIDE DEF LedgersInv
  <2> QED BY <2>1, <2>2, <2>3, <2>4 DEF RecordedIsClosed, Closed
<1>5. CallIsCursor'
  BY DEF CallIsCursor, HasNumber, HasHash, Numbers, MayCall
<1>6. HeightIsFound'
  BY DEF HeightIsFound
<1> QED BY <1>1, <1>2, <1>3, <1>4, <1>5, <1>6

LEMMA PollInv ==
  ASSUME LedgersAssumption, LedgersInv, Poll
  PROVE  LedgersInv'
<1> DEFINE c == [Cursor EXCEPT !.observer = TRUE]
<1>1. Begin(c)
  BY DEF Poll
<1>2. CASE stored = {}
  <2>1. c = [NoCall EXCEPT !.observer = TRUE]
    BY <1>2 DEF Cursor
  <2>2. c \in AnyCall /\ c.number = NoCall.number /\ c.hash = NoCall.hash
    BY <2>1, NoCallType DEF AnyCall
  <2>3. c.number = NoNumber /\ c.hash = NoHash
    BY <2>2 DEF NoCall
  <2>4. MayCall(c)
    <3> HIDE DEF c
    <3> QED BY <1>2, <2>2, <2>3 DEF MayCall, NoNumber
  <2> HIDE DEF c
  <2> QED BY <1>1, <2>4, BeginInv
<1>3. CASE stored # {}
  <2> DEFINE last == CHOOSE t \in stored : \A u \in stored : u.number <= t.number
  <2>1. stored \subseteq AnyTransaction
    BY DEF LedgersInv, LedgersTypeOK
  <2>2. \E t \in stored : \A u \in stored : u.number <= t.number
    <3>1. PICK N \in Nat : Numbers(stored) \subseteq 0 .. N
      BY DEF LedgersInv, LedgersTypeOK
    <3>2. Numbers(stored) # {}
      BY <1>3 DEF Numbers
    <3>3. PICK n \in Numbers(stored) : \A m \in Numbers(stored) : m <= n
      BY <3>1, <3>2, GreatestNumber
    <3> QED BY <3>3 DEF Numbers
  <2>3. last \in stored
    BY <2>2
  <2> DEFINE d == [number |-> last.number, hash |-> last.hash, observer |-> TRUE]
  <2>4. c = [d EXCEPT !.observer = TRUE]
    BY <1>3 DEF Cursor
  <2> HIDE DEF c, last
  <2>5. last \in AnyTransaction /\ last.number \in Numbers(stored)
    BY <2>1, <2>3 DEF Numbers
  <2>6. /\ last.number \in Nat /\ last.hash \in (Nat \ {0}) \X Nat
        /\ last.hash \in Nat \X Nat /\ last.hash # NoHash
    BY <2>5 DEF AnyTransaction, NoHash
  <2>7. adapter = "qldb" => last.number # 0
    BY <2>5 DEF LedgersInv, QldbNumbers
  <2>8. d \in AnyCall /\ d.number = last.number /\ d.hash = last.hash
    BY <2>6 DEF AnyCall
  <2> HIDE DEF d
  <2>9. c \in AnyCall /\ c.number = last.number /\ c.hash = last.hash
    BY <2>4, <2>8 DEF AnyCall
  <2>10. MayCall(c)
    BY <2>5, <2>6, <2>7, <2>9 DEF MayCall, NoNumber
  <2> QED BY <1>1, <2>10, BeginInv
<1> QED BY <1>2, <1>3

LEMMA AskInv ==
  ASSUME LedgersAssumption, LedgersInv, Ask
  PROVE  LedgersInv'
<1>1. PICK t \in Ledger, d \in {"number", "hash"} :
             Begin(IF d = "number" THEN [NoCall EXCEPT !.number = t.number]
                                   ELSE [NoCall EXCEPT !.hash = t.hash])
  BY DEF Ask
<1>2. t \in AnyTransaction
  BY LedgerIsFinite DEF LedgersInv
<1>3. t.number \in Nat /\ t.hash \in Nat \X Nat
  BY <1>2 DEF AnyTransaction
<1>4. adapter = "qldb" => t.number # 0
  <2>1. PICK h \in Nat, i \in Nat : On(h, i) /\ t = Transaction(h, i)
    BY LedgerIs DEF LedgersInv
  <2>2. /\ h \in DOMAIN blocks /\ i \in 1 .. blocks[h].count
        /\ t.number = blocks[h].first + i - 1 /\ h # 0
    BY <2>1, TransactionType DEF On, LedgersInv, LedgersTypeOK
  <2>3. adapter = "qldb" => blocks[h].first = h
    BY <2>2 DEF LedgersInv, Numbering
  <2> QED BY <2>1, <2>2, <2>3
<1>5. CASE Begin([NoCall EXCEPT !.number = t.number])
  <2> DEFINE c == [NoCall EXCEPT !.number = t.number]
  <2>1. c \in AnyCall /\ c.number = t.number /\ c.observer = NoCall.observer
    BY <1>3, NoCallType DEF AnyCall
  <2>2. Begin(c) /\ NoCall.observer = FALSE
    BY <1>5 DEF NoCall
  <2> HIDE DEF c
  <2>3. MayCall(c)
    BY <1>4, <2>1, <2>2 DEF MayCall
  <2> QED BY <2>2, <2>3, BeginInv
<1>6. CASE Begin([NoCall EXCEPT !.hash = t.hash])
  <2> DEFINE c == [NoCall EXCEPT !.hash = t.hash]
  <2>1. c \in AnyCall /\ c.number = NoCall.number /\ c.observer = NoCall.observer
    BY <1>3, NoCallType DEF AnyCall
  <2>2. Begin(c) /\ NoCall.observer = FALSE /\ NoCall.number = -1
    BY <1>6 DEF NoCall, NoNumber
  <2> HIDE DEF c
  <2>3. MayCall(c)
    BY <2>1, <2>2 DEF MayCall
  <2> QED BY <2>2, <2>3, BeginInv
<1> QED BY <1>1, <1>5, <1>6

-----------------------------------------------------------------------------
(* The steps of the ledger                                                 *)

LEMMA NextNumberType ==
  ASSUME blocks \in Seq(AnyBlock)
  PROVE  NextNumber \in Nat
<1>1. CASE blocks # << >>
  <2>1. Len(blocks) \in DOMAIN blocks
    BY <1>1
  <2> QED BY <2>1, BlockType DEF NextNumber
<1>2. CASE blocks = << >>
  BY <1>2 DEF NextNumber
<1> QED BY <1>1, <1>2

\* The numbers of QLDB's blocks are those of its transactions.
LEMMA QldbExpected ==
  ASSUME LedgersTypeOK, Numbering, adapter = "qldb", NEW m
  PROVE  m \in Expected <=> m \in DOMAIN blocks /\ blocks[m].count = 1
<1>1. /\ blocks \in Seq(AnyBlock)
      /\ \A h \in DOMAIN blocks : /\ h \in Nat /\ blocks[h].first = h
                                  /\ blocks[h].count \in Nat /\ blocks[h].count <= 1
  BY BlockType DEF LedgersTypeOK, Numbering
<1>2. m \in Expected <=> \E t \in Ledger : m = t.number
  BY DEF Expected, Numbers
<1>3. ASSUME NEW t \in Ledger, m = t.number PROVE m \in DOMAIN blocks /\ blocks[m].count = 1
  <2>1. PICK h \in DOMAIN blocks : \E i \in 1 .. blocks[h].count : t = Transaction(h, i)
    BY DEF Ledger
  <2>2. PICK i \in 1 .. blocks[h].count : t = Transaction(h, i)
    BY <2>1
  <2>3. t.number = blocks[h].first + i - 1
    BY <2>2 DEF Transaction
  <2>4. i = 1 /\ blocks[h].count = 1 /\ blocks[h].first = h /\ h \in Nat
    BY <1>1
  <2> QED BY <1>3, <2>3, <2>4
<1>4. ASSUME m \in DOMAIN blocks, blocks[m].count = 1 PROVE \E t \in Ledger : m = t.number
  <2>1. 1 \in 1 .. blocks[m].count
    BY <1>4
  <2>2. Transaction(m, 1) \in Ledger
    BY <1>4, <2>1 DEF Ledger
  <2>3. Transaction(m, 1).number = m
    BY <1>1, <1>4 DEF Transaction
  <2> QED BY <2>2, <2>3
<1> QED BY <1>2, <1>3, <1>4

LEMMA NewBlockInv ==
  ASSUME LedgersAssumption, LedgersInv, NewBlock
  PROVE  LedgersInv'
<1> USE DEF LedgersInv
<1> DEFINE N == Len(blocks)
<1>1. /\ blocks \in Seq(AnyBlock) /\ N \in Nat /\ DOMAIN blocks = 1 .. N
      /\ fork \in Nat /\ adapter' = adapter /\ torn' = torn
  BY DEF LedgersTypeOK, NewBlock
<1>2. UNCHANGED <<adapter, fork, stored, pc, call, height, answer, retried>>
  BY DEF NewBlock, reading
<1>3. PICK n \in Counts : blocks' = Append(blocks, [fork |-> fork, first |-> NextNumber, count |-> n])
  BY DEF NewBlock
<1>4. n \in Nat /\ (adapter = "qldb" => n <= 1)
  BY DEF Counts, LedgersAssumption
<1> DEFINE b == [fork |-> fork, first |-> NextNumber, count |-> n]
<1>5. b \in AnyBlock /\ b.first = NextNumber /\ b.count = n
  BY <1>1, <1>4, NextNumberType DEF AnyBlock
<1>6. blocks' = Append(blocks, b)
  BY <1>3
<1> HIDE DEF b
<1>7. /\ blocks' \in Seq(AnyBlock) /\ Len(blocks') = N + 1 /\ DOMAIN blocks' = 1 .. N + 1
      /\ \A h \in 1 .. N : blocks'[h] = blocks[h]
      /\ blocks'[N + 1] = b
  BY <1>1, <1>5, <1>6
<1>8. LedgersTypeOK'
  BY <1>2, <1>7 DEF LedgersTypeOK, Numbers
<1>9. Numbering'
  <2>1. ASSUME NEW h \in 1 .. N + 1
        PROVE  IF adapter = "qldb" THEN blocks'[h].first = h /\ blocks'[h].count <= 1
               ELSE blocks'[h].first = IF h = 1 THEN 0
                                       ELSE blocks'[h - 1].first + blocks'[h - 1].count
    <3>1. CASE h \in 1 .. N
      <4>1. blocks'[h] = blocks[h] /\ (h # 1 => blocks'[h - 1] = blocks[h - 1]) /\ h \in DOMAIN blocks
        BY <1>1, <1>7, <3>1
      <4> QED BY <4>1 DEF Numbering
    <3>2. CASE h = N + 1
      <4>1. blocks'[h].first = NextNumber /\ blocks'[h].count = n
        BY <1>5, <1>7, <3>2
      <4>2. CASE adapter = "qldb"
        BY <1>4, <3>2, <4>1, <4>2 DEF NextNumber
      <4>3. CASE adapter # "qldb" /\ blocks = << >>
        BY <1>1, <3>2, <4>1, <4>3 DEF NextNumber
      <4>4. CASE adapter # "qldb" /\ blocks # << >>
        <5>1. h # 1 /\ h - 1 = N /\ N \in 1 .. N
          BY <1>1, <3>2, <4>4
        <5>2. blocks'[h - 1] = blocks[N]
          BY <1>7, <5>1
        <5> QED BY <4>1, <4>4, <5>1, <5>2 DEF NextNumber
      <4> QED BY <4>2, <4>3, <4>4
    <3> QED BY <1>1, <3>1, <3>2
  <2> QED BY <1>1, <1>7, <2>1 DEF Numbering
<1>10. QldbNumbers'
  BY <1>1, <1>2, <1>7 DEF QldbNumbers, Numbers
<1>11. ASSUME NEW K, Closed(K), adapter = "qldb" => K \subseteq 1 .. N
       PROVE  \A k \in K, m \in Expected' :
                m < k /\ (adapter = "zksync" => \E l \in K : l < m) => m \in K
  <2>1. ASSUME NEW m \in Expected', NEW k \in K, m < k PROVE m \in Expected
    <3>1. CASE adapter = "qldb"
      <4>1. m \in DOMAIN blocks' /\ blocks'[m].count = 1
        <5>1. \E h \in DOMAIN blocks' : \E i \in 1 .. blocks'[h].count :
                m = blocks'[h].first + i - 1
          BY <1>1, <2>1, <3>1 DEF Expected, Numbers, Ledger, Transaction
        <5>2. PICK h \in DOMAIN blocks' : \E i \in 1 .. blocks'[h].count :
                     m = blocks'[h].first + i - 1
          BY <5>1
        <5>3. PICK i \in 1 .. blocks'[h].count : m = blocks'[h].first + i - 1
          BY <5>2
        <5>4. blocks'[h].first = h /\ blocks'[h].count <= 1 /\ h \in Nat
          BY <1>1, <1>7, <1>9, <3>1 DEF Numbering
        <5>5. blocks'[h].count \in Nat
          <6>1. blocks'[h] \in AnyBlock
            BY <1>7
          <6> QED BY <6>1 DEF AnyBlock
        <5>6. i = 1 /\ m = h
          BY <5>3, <5>4, <5>5
        <5> QED BY <5>3, <5>4, <5>5, <5>6
      <4>2. m \in 1 .. N /\ blocks[m].count = 1
        BY <1>1, <1>7, <1>11, <2>1, <3>1, <4>1
      <4> QED BY <1>1, <3>1, <4>2, QldbExpected
    <3>2. CASE adapter # "qldb"
      BY <1>1, <2>1, <3>2 DEF Expected
    <3> QED BY <3>1, <3>2
  <2> QED BY <1>11, <2>1 DEF Closed
<1>12. RecordedIsClosed'
  <2>1. /\ Numbers(stored)' = Numbers(stored)
        /\ \A i : RecordedTo(answer, i)' = RecordedTo(answer, i)
    BY <1>2 DEF Numbers, RecordedTo
  <2>2. ASSUME adapter = "qldb"
        PROVE  /\ Numbers(stored) \subseteq 1 .. N
               /\ \A i \in 0 .. Len(answer) : RecordedTo(answer, i) \subseteq 1 .. N
    <3>1. \A i \in 0 .. Len(answer) : \A j \in 1 .. i : j \in DOMAIN answer
      BY DEF LedgersTypeOK
    <3> QED BY <2>2, <3>1 DEF QldbNumbers, RecordedTo
  <2>3. /\ ~torn => Closed(Numbers(stored))
        /\ ~torn /\ call.observer => \A i \in 0 .. Len(answer) : Closed(RecordedTo(answer, i))
    BY DEF RecordedIsClosed
  <2> HIDE DEF LedgersInv, N
  <2>4. ~torn => Closed(Numbers(stored))'
    BY <1>1, <1>11, <2>1, <2>2, <2>3 DEF Closed
  <2>5. ~torn /\ call.observer => \A i \in 0 .. Len(answer) : Closed(RecordedTo(answer, i))'
    BY <1>1, <1>11, <2>1, <2>2, <2>3 DEF Closed
  <2> QED BY <1>1, <1>2, <2>4, <2>5 DEF RecordedIsClosed
<1>13. CallIsCursor'
  BY <1>2 DEF CallIsCursor, HasNumber, HasHash, Numbers
<1>14. HeightIsFound'
  BY <1>1, <1>2, <1>7 DEF HeightIsFound, HasNumber, HasHash
<1> QED BY <1>8, <1>9, <1>10, <1>12, <1>13, <1>14

\* The places from a height on: none, and from one height to the next its transactions more.
LEMMA WithinGrows ==
  ASSUME NEW N \in Nat, NEW h \in 1 .. N, NEW counts, \A b \in h .. N : counts[b] \in Nat
  PROVE  /\ Cardinality(Within(counts, h, h)) = 0
         /\ \A g \in h .. N : /\ Cardinality(Within(counts, h, g)) \in Nat
                              /\ Cardinality(Within(counts, h, g + 1))
                                   = Cardinality(Within(counts, h, g)) + counts[g]
<1>1. Within(counts, h, h) = {}
  BY DEF Within
<1>2. Cardinality(Within(counts, h, h)) = 0 /\ IsFiniteSet(Within(counts, h, h))
  BY <1>1, FS_EmptySet
<1> DEFINE Row(g) == {<<g, i>> : i \in 1 .. counts[g]}
<1>3. ASSUME NEW g \in h .. N
      PROVE  /\ Within(counts, h, g + 1) = Within(counts, h, g) \cup Row(g)
             /\ Within(counts, h, g) \cap Row(g) = {}
             /\ IsFiniteSet(Row(g)) /\ Cardinality(Row(g)) = counts[g]
  <2>1. ASSUME NEW p
        PROVE  p \in Within(counts, h, g + 1) <=> p \in Within(counts, h, g) \/ p \in Row(g)
    <3>1. \A b : b \in h .. g + 1 - 1 <=> b \in h .. g - 1 \/ b = g
      OBVIOUS
    <3>2. p \in Within(counts, h, g + 1) <=> \E b \in h .. g + 1 - 1 : p \in Row(b)
      BY DEF Within
    <3>3. p \in Within(counts, h, g) <=> \E b \in h .. g - 1 : p \in Row(b)
      BY DEF Within
    <3> HIDE DEF Row
    <3> QED BY <3>1, <3>2, <3>3
  <2>2. Within(counts, h, g) \cap Row(g) = {}
    <3>1. ASSUME NEW p \in Within(counts, h, g) PROVE p \notin Row(g)
      <4>1. \E b \in h .. g - 1 : \E i \in 1 .. counts[b] : p = <<b, i>>
        BY DEF Within
      <4> QED BY <4>1
    <3> QED BY <3>1
  <2>3. IsFiniteSet(Row(g)) /\ Cardinality(Row(g)) = counts[g]
    <3> DEFINE f == [i \in 1 .. counts[g] |-> <<g, i>>]
    <3>1. f \in Bijection(1 .. counts[g], Row(g))
      BY DEF Bijection, Injection, Surjection, IsInjective
    <3>2. counts[g] \in Nat
      OBVIOUS
    <3>3. IsFiniteSet(1 .. counts[g]) /\ Cardinality(1 .. counts[g]) = counts[g]
      <4>1. \A n \in Nat : IsFiniteSet(1 .. n) /\ Cardinality(1 .. n) = n
        BY FS_Interval
      <4> QED BY <3>2, <4>1
    <3>4. \E r : r \in Bijection(1 .. counts[g], Row(g))
      BY <3>1
    <3> HIDE DEF f, Row
    <3>5. ExistsBijection(1 .. counts[g], Row(g))
      BY <3>4 DEF ExistsBijection
    <3> QED BY <3>3, <3>5, FS_Bijection
  <2> HIDE DEF Row
  <2>4. Within(counts, h, g + 1) = Within(counts, h, g) \cup Row(g)
    BY <2>1
  <2> QED BY <2>2, <2>3, <2>4
<1> DEFINE G == {n \in 0 .. N : n >= h => IsFiniteSet(Within(counts, h, n))}
<1>4. 0 \in G
  OBVIOUS
<1>5. ASSUME NEW n \in 1 .. N, n - 1 \in G PROVE n \in G
  <2>1. CASE n = h
    BY <1>2, <2>1
  <2>2. CASE n < h
    BY <2>2
  <2>3. CASE n > h
    <3>1. n - 1 \in h .. N /\ n - 1 + 1 = n /\ n \in 0 .. N
      BY <2>3
    <3>2. Within(counts, h, n) = Within(counts, h, n - 1) \cup Row(n - 1) /\ IsFiniteSet(Row(n - 1))
      <4> HIDE DEF Row
      <4> QED BY <1>3, <3>1
    <3>3. IsFiniteSet(Within(counts, h, n - 1))
      BY <1>5, <3>1
    <3> HIDE DEF Row
    <3>4. IsFiniteSet(Within(counts, h, n - 1) \cup Row(n - 1))
      BY <3>2, <3>3, FS_Union
    <3> QED BY <3>1, <3>2, <3>4
  <2> QED BY <2>1, <2>2, <2>3
<1>6. 0 .. N \subseteq G
  <2> HIDE DEF G
  <2> QED BY <1>4, <1>5, StepByStep
<1>7. ASSUME NEW g \in h .. N
      PROVE  /\ Cardinality(Within(counts, h, g)) \in Nat
             /\ Cardinality(Within(counts, h, g + 1)) = Cardinality(Within(counts, h, g)) + counts[g]
  <2>1. IsFiniteSet(Within(counts, h, g)) /\ Cardinality(Within(counts, h, g)) \in Nat
    <3>1. g \in 0 .. N /\ g >= h
      OBVIOUS
    <3> QED BY <1>6, <3>1, FS_CardinalityType
  <2> HIDE DEF Row
  <2>2. Cardinality(Within(counts, h, g + 1))
          = Cardinality(Within(counts, h, g)) + Cardinality(Row(g))
                - Cardinality(Within(counts, h, g) \cap Row(g))
    BY <1>3, <2>1, FS_Union
  <2>3. Cardinality(Within(counts, h, g) \cap Row(g)) = 0
    BY <1>3, FS_EmptySet
  <2> QED BY <1>3, <2>1, <2>2, <2>3
<1> QED BY <1>2, <1>7

LEMMA ReorganiseInv ==
  ASSUME LedgersAssumption, LedgersInv, Reorganise
  PROVE  LedgersInv'
<1> USE DEF LedgersInv
<1> DEFINE N == Len(blocks)
<1>1. /\ blocks \in Seq(AnyBlock) /\ N \in Nat /\ DOMAIN blocks = 1 .. N
      /\ fork \in Nat /\ fork' = fork + 1 /\ adapter # "qldb" /\ adapter' = adapter
      /\ torn' = (torn \/ pc # "idle")
  BY DEF LedgersTypeOK, Reorganise
<1>2. UNCHANGED <<adapter, stored, pc, call, height, answer, retried>>
  BY DEF Reorganise, reading
<1>3. PICK h \in 1 .. N, counts \in UNION {[g .. N -> Counts] : g \in 1 .. N} :
        /\ counts \in [h .. N -> Counts]
        /\ blocks' = [g \in 1 .. N |->
                        IF g < h THEN blocks[g]
                        ELSE [fork |-> fork', first |-> blocks[h].first + Cardinality(Within(counts, h, g)),
                              count |-> counts[g]]]
  BY <1>1 DEF Reorganise
<1>4. \A g \in h .. N : counts[g] \in Nat
  BY <1>1, <1>3 DEF Counts, LedgersAssumption
<1>5. /\ Cardinality(Within(counts, h, h)) = 0
      /\ \A g \in h .. N : /\ Cardinality(Within(counts, h, g)) \in Nat
                           /\ Cardinality(Within(counts, h, g + 1))
                                = Cardinality(Within(counts, h, g)) + counts[g]
  BY <1>1, <1>4, WithinGrows
<1>6. blocks[h].first \in Nat /\ h \in Nat
  BY <1>1, BlockType
<1>7. ASSUME NEW g \in 1 .. N
      PROVE  /\ blocks'[g] \in AnyBlock
             /\ g < h => blocks'[g] = blocks[g]
             /\ g >= h => /\ blocks'[g].first = blocks[h].first + Cardinality(Within(counts, h, g))
                          /\ blocks'[g].count = counts[g]
  <2>1. CASE g < h
    BY <1>1, <1>3, <1>6, <2>1
  <2>2. CASE g >= h
    <3>1. g \in h .. N
      BY <1>6, <2>2
    <3> DEFINE c == Cardinality(Within(counts, h, g))
               b == [fork |-> fork', first |-> blocks[h].first + c, count |-> counts[g]]
    <3>2. c \in Nat /\ counts[g] \in Nat
      BY <1>4, <1>5, <3>1
    <3>3. blocks'[g] = b
      BY <1>3, <1>6, <2>2
    <3>4. b \in AnyBlock /\ b.first = blocks[h].first + c /\ b.count = counts[g]
      <4> HIDE DEF c
      <4>1. fork' \in Nat /\ blocks[h].first + c \in Nat
        BY <1>1, <1>6, <3>2
      <4> QED BY <3>2, <4>1 DEF AnyBlock
    <3> HIDE DEF b
    <3> QED BY <1>6, <2>2, <3>3, <3>4
  <2> QED BY <1>6, <2>1, <2>2
<1>8. blocks' \in Seq(AnyBlock) /\ DOMAIN blocks' = 1 .. N /\ Len(blocks') = N
  <2>1. blocks' = [g \in 1 .. N |-> blocks'[g]]
    BY <1>3
  <2>2. blocks' \in [1 .. N -> AnyBlock]
    BY <1>7, <2>1
  <2> QED BY <1>1, <2>2
<1>9. LedgersTypeOK'
  <2>1. fork' \in Nat
    BY <1>1
  <2> HIDE DEF N
  <2> QED BY <1>2, <1>8, <2>1 DEF LedgersTypeOK, Numbers
<1>10. Numbering'
  <2>1. ASSUME NEW g \in 1 .. N
        PROVE  blocks'[g].first = IF g = 1 THEN 0 ELSE blocks'[g - 1].first + blocks'[g - 1].count
    <3>1. blocks[g].first = IF g = 1 THEN 0 ELSE blocks[g - 1].first + blocks[g - 1].count
      BY <1>1 DEF Numbering
    <3>2. g # 1 => g - 1 \in 1 .. N
      OBVIOUS
    <3>3. CASE g < h
      BY <1>6, <1>7, <3>1, <3>2, <3>3
    <3>4. CASE g = h
      <4>1. blocks'[g].first = blocks[g].first
        BY <1>5, <1>6, <1>7, <3>4
      <4>2. g # 1 => blocks'[g - 1] = blocks[g - 1]
        BY <1>6, <1>7, <3>2, <3>4
      <4> QED BY <3>1, <4>1, <4>2
    <3>5. CASE g > h
      <4>1. g # 1 /\ g - 1 \in h .. N /\ g - 1 >= h /\ g - 1 + 1 = g
        BY <1>6, <3>5
      <4>2. Cardinality(Within(counts, h, g)) = Cardinality(Within(counts, h, g - 1)) + counts[g - 1]
        BY <1>5, <4>1
      <4>3. /\ blocks'[g].first = blocks[h].first + Cardinality(Within(counts, h, g))
            /\ blocks'[g - 1].first = blocks[h].first + Cardinality(Within(counts, h, g - 1))
            /\ blocks'[g - 1].count = counts[g - 1]
        BY <1>6, <1>7, <3>2, <3>5, <4>1
      <4>4. Cardinality(Within(counts, h, g - 1)) \in Nat /\ counts[g - 1] \in Nat
        BY <1>4, <1>5, <4>1
      <4> QED BY <1>6, <4>1, <4>2, <4>3, <4>4
    <3> QED BY <1>6, <3>3, <3>4, <3>5
  <2> QED BY <1>1, <1>8, <2>1 DEF Numbering
<1>11. QldbNumbers'
  BY <1>1 DEF QldbNumbers
<1>12. RecordedIsClosed'
  <2>1. Expected' = Expected
    BY <1>1 DEF Expected
  <2>2. /\ Numbers(stored)' = Numbers(stored) /\ answer' = answer /\ call' = call
        /\ \A i : RecordedTo(answer, i)' = RecordedTo(answer, i)
    BY <1>2 DEF Numbers, RecordedTo
  <2>3. RecordedIsClosed /\ adapter' = adapter
    BY <1>1
  <2>4. ~torn' => ~torn
    BY <1>1
  <2> HIDE DEF LedgersInv
  <2> QED BY <2>1, <2>2, <2>3, <2>4 DEF RecordedIsClosed, Closed
<1>13. CallIsCursor'
  BY <1>2 DEF CallIsCursor, HasNumber, HasHash, Numbers
<1>14. HeightIsFound'
  BY <1>1, <1>2 DEF HeightIsFound, HasNumber, HasHash
<1> QED BY <1>9, <1>10, <1>11, <1>12, <1>13, <1>14

-----------------------------------------------------------------------------
(* The theorems                                                            *)

LEMMA LedgersNextInv ==
  ASSUME LedgersAssumption, LedgersInv, [LedgersNext]_ledgersVars
  PROVE  LedgersInv'
<1>1. CASE NewBlock
  BY <1>1, NewBlockInv
<1>2. CASE Reorganise
  BY <1>2, ReorganiseInv
<1>3. CASE Poll
  BY <1>3, PollInv
<1>4. CASE Ask
  BY <1>4, AskInv
<1>5. CASE EthereumFind
  BY <1>5, EthereumFindInv
<1>6. CASE EthereumRead
  BY <1>6, EthereumReadInv
<1>7. CASE ZksyncFind
  BY <1>7, ZksyncFindInv
<1>8. CASE ZksyncRead
  BY <1>8, ZksyncReadInv
<1>9. CASE QldbRead
  BY <1>9, QldbReadInv
<1>10. CASE Record
  BY <1>10, RecordInv
<1>11. CASE ReadRejects
  BY <1>11, ReadRejectsInv
<1>12. CASE UNCHANGED ledgersVars
  <2> USE <1>12 DEF ledgersVars, ledger, reading, LedgersInv
  <2>1. /\ Expected' = Expected /\ (Numbering <=> Numbering') /\ blocks' = blocks
        /\ adapter' = adapter
    BY SameLedger
  <2>2. LedgersTypeOK' /\ QldbNumbers'
    BY DEF LedgersTypeOK, QldbNumbers, Numbers
  <2>3. RecordedIsClosed'
    BY <2>1 DEF RecordedIsClosed, Closed, RecordedTo, Numbers
  <2>4. CallIsCursor' /\ HeightIsFound'
    BY DEF CallIsCursor, HeightIsFound, HasNumber, HasHash, Numbers
  <2> QED BY <2>1, <2>2, <2>3, <2>4
<1> QED BY <1>1, <1>2, <1>3, <1>4, <1>5, <1>6, <1>7, <1>8, <1>9, <1>10, <1>11, <1>12
        DEF LedgersNext, ReadStep

\* The invariant holds of every state the ledger and a polling node can be in.
THEOREM LedgersInvariance == LedgersSpec => []LedgersInv
<1>1. LedgersInit => LedgersInv
  BY LedgersInitInv, LedgersAssumption
<1>2. LedgersInv /\ [LedgersNext]_ledgersVars => LedgersInv'
  BY LedgersNextInv, LedgersAssumption
<1> QED BY <1>1, <1>2, PTL DEF LedgersSpec

\* Whatever is cut short, restarted or read in between, polling records no transaction without
\* those before it (with zkSync: those between), unless a reorganisation fell into a read.
THEOREM NeverPassedOver == LedgersSpec => []NothingPassedOver
<1>1. LedgersInv => NothingPassedOver
  <2> SUFFICES ASSUME LedgersInv, ~torn, NEW t \in Ledger, NEW later \in stored,
                      t.number < later.number,
                      adapter = "zksync" => \E earlier \in stored : earlier.number < t.number
               PROVE  t.number \in Numbers(stored)
    BY DEF NothingPassedOver
  <2>1. Closed(Numbers(stored))
    BY DEF LedgersInv, RecordedIsClosed
  <2>2. t.number \in Expected
    <3>1. t \in AnyTransaction
      BY LedgersAssumption, LedgerIsFinite DEF LedgersInv
    <3> QED BY <3>1 DEF Expected, Numbers, AnyTransaction
  <2>3. later.number \in Numbers(stored)
    BY DEF Numbers
  <2>4. adapter = "zksync" => \E k \in Numbers(stored) : k < t.number
    BY DEF Numbers
  <2> QED BY <2>1, <2>2, <2>3, <2>4 DEF Closed
<1> QED BY <1>1, LedgersInvariance, PTL

\* What an answer has to be.
Unbroken(s) ==
  /\ \A i, j \in DOMAIN s : i < j => s[i].number < s[j].number /\ s[i].time <= s[j].time
  /\ s # << >> =>
       \A t \in Ledger :
         /\ t.number > s[1].number
         /\ adapter = "zksync" => t.time <= TimeOf(height)
         => t \in Elements(s)

\* The transactions of all heights between two are, with each, the later ones up to the second.
LEMMA RangeHasLater ==
  ASSUME LedgersAssumption, LedgersInv, NEW from \in Nat, NEW to \in Nat,
         (adapter = "zksync" /\ to = height) \/ to = Len(blocks),
         NEW t \in Elements(GetTransactions(from, to)), NEW u \in Ledger, u.number > t.number,
         adapter = "zksync" => u.time <= TimeOf(height)
  PROVE  u \in Elements(GetTransactions(from, to))
<1> DEFINE s == GetTransactions(from, to)
<1> USE DEF LedgersInv
<1>1. \A k \in DOMAIN s : \E h \in from .. to : \E i \in Nat : On(h, i) /\ s[k] = Transaction(h, i)
  BY GetTransactionsIs
<1>2. \A h \in from .. to : \A i \in Nat : On(h, i) => \E k \in DOMAIN s : s[k] = Transaction(h, i)
  BY GetTransactionsIs
<1>3. t \in Elements(s)
  OBVIOUS
<1> HIDE DEF s
<1>4. PICK k \in DOMAIN s : t = s[k]
  BY <1>3 DEF Elements
<1>5. PICK g \in from .. to : \E j \in Nat : On(g, j) /\ t = Transaction(g, j)
  BY <1>1, <1>4
<1>6. PICK j \in Nat : On(g, j) /\ t = Transaction(g, j)
  BY <1>5
<1>7. PICK h \in Nat, i \in Nat : On(h, i) /\ u = Transaction(h, i)
  BY LedgerIs
<1>8. t.number < u.number
  <2>1. t \in AnyTransaction /\ u \in AnyTransaction
    BY <1>6, <1>7, TransactionType
  <2> QED BY <2>1 DEF AnyTransaction
<1>9. g <= h
  BY <1>6, <1>7, <1>8, PlacesAreOrdered
<1>10. h <= to
  <2>1. CASE to = Len(blocks)
    BY <1>7, <2>1 DEF On, LedgersTypeOK
  <2>2. CASE adapter = "zksync" /\ to = height
    <3>1. u.time = Genesis + h /\ u.time <= Genesis + height /\ height \in Nat
      BY <1>7, <2>2, TransactionType DEF TimeOf, LedgersTypeOK
    <3> QED BY <2>2, <3>1 DEF LedgersAssumption
  <2> QED BY <2>1, <2>2
<1>11. h \in from .. to
  BY <1>9, <1>10
<1>12. \E l \in DOMAIN s : s[l] = u
  BY <1>2, <1>7, <1>11
<1> QED BY <1>12 DEF Elements, s

\* An answer from all heights between two has what is on the ledger up to the second.
LEMMA RangeIsUnbroken ==
  ASSUME LedgersAssumption, LedgersInv, NEW from \in Nat, NEW to \in Nat,
         (adapter = "zksync" /\ to = height) \/ to = Len(blocks)
  PROVE  Unbroken(GetTransactions(from, to))
<1> DEFINE s == GetTransactions(from, to)
<1>1. /\ s \in Seq(AnyTransaction)
      /\ \A j, k \in DOMAIN s : j < k => s[j].number < s[k].number /\ s[j].time <= s[k].time
  BY GetTransactionsIs DEF LedgersInv
<1>2. \A t \in Elements(s), u \in Ledger :
        u.number > t.number /\ (adapter = "zksync" => u.time <= TimeOf(height)) => u \in Elements(s)
  BY RangeHasLater
<1> HIDE DEF s
<1>3. s # << >> => s[1] \in Elements(s)
  BY <1>1 DEF Elements
<1> QED BY <1>1, <1>2, <1>3 DEF Unbroken, s

\* A sorted answer with all of the ledger from its first transaction on.
LEMMA SortedIsUnbroken ==
  ASSUME LedgersAssumption, LedgersInv, NEW S, S \subseteq Ledger,
         \A t \in S : \A u \in Ledger :
           /\ u.number > t.number
           /\ adapter = "zksync" => u.time <= TimeOf(height)
           => u \in S
  PROVE  Unbroken(Sorted(S))
<1> DEFINE s == Sorted(S)
<1>1. /\ s \in Seq(AnyTransaction)
      /\ \A k \in DOMAIN s : s[k] \in S
      /\ \A t \in S : \E k \in DOMAIN s : s[k] = t
      /\ \A j, k \in DOMAIN s : j < k => s[j].number < s[k].number /\ s[j].time <= s[k].time
  BY SortedIs DEF LedgersInv
<1> HIDE DEF s
<1>2. s # << >> => 1 \in DOMAIN s /\ s[1] \in S
  BY <1>1
<1> QED BY <1>1, <1>2 DEF Unbroken, Elements, s

\* A read that is not about a given block answers in order and leaves out no transaction after
\* its first, whichever ledger is below and whatever happens to it between the calls.
THEOREM AnswersNeverBroken == LedgersSpec => AnswersAreUnbroken
<1>1. ASSUME LedgersAssumption, LedgersInv, [LedgersNext]_ledgersVars,
             pc' = "answered", pc # "answered", HasHash => HasNumber /\ adapter # "zksync"
      PROVE  Unbroken(answer')
  <2> USE DEF LedgersInv
  <2>1. ASSUME NEW s, Answer(s), Unbroken(s) PROVE Unbroken(answer')
    BY <2>1 DEF Answer
  <2>2. Unbroken(<< >>)
    BY DEF Unbroken
  <2>3. height \in Nat /\ Len(blocks) \in Nat /\ BatchStart \in Nat
    BY <1>1, BatchIs DEF LedgersTypeOK
  <2>4. CASE EthereumFind
    <3>1. CASE \E t \in Ledger : Found(t.time)
      BY <1>1, <3>1 DEF Found
    <3>2. CASE Answer(<< >>)
      BY <2>1, <2>2, <3>2
    <3>3. CASE ~HasNumber /\ ~HasHash
      <4>1. Answer(GetTransactions(0, Len(blocks))) /\ adapter # "qldb"
        BY <2>4, <3>3 DEF EthereumFind
      <4>2. Unbroken(GetTransactions(0, Len(blocks)))
        BY <1>1, <2>3, <4>1, RangeIsUnbroken
      <4> QED BY <2>1, <4>1, <4>2
    <3> QED BY <1>1, <2>4, <3>1, <3>2, <3>3 DEF EthereumFind
  <2>5. CASE EthereumRead
    <3>1. HasNumber /\ adapter # "qldb"
      BY <1>1, <2>5 DEF HeightIsFound, EthereumRead
    <3>2. Answer(GetTransactions(height, Len(blocks)))
      BY <2>5, <3>1 DEF EthereumRead, SinceBlock
    <3>3. Unbroken(GetTransactions(height, Len(blocks)))
      BY <1>1, <2>3, <3>1, RangeIsUnbroken
    <3> QED BY <2>1, <3>2, <3>3
  <2>6. CASE ZksyncFind
    <3>1. ~HasHash
      BY <1>1, <2>6 DEF ZksyncFind
    <3> QED BY <1>1, <2>6, <3>1 DEF ZksyncFind, Found
  <2>7. CASE ZksyncRead
    <3>1. ~HasHash /\ adapter = "zksync"
      BY <1>1, <2>7 DEF ZksyncRead
    <3>2. Unbroken(Batch)
      BY <1>1, <2>3, <3>1, RangeIsUnbroken DEF Batch
    <3>3. CASE ~HasNumber
      BY <2>1, <2>7, <3>1, <3>2, <3>3 DEF ZksyncRead
    <3>4. CASE HasNumber
      <4> DEFINE later == {t \in Elements(Batch) : t.number > call.number}
      <4>1. Answer(Sorted(later))
        BY <1>1, <2>7, <3>1, <3>4 DEF ZksyncRead, Found
      <4>2. Elements(Batch) \subseteq Ledger
        <5>1. \A k \in DOMAIN Batch :
                \E h \in BatchStart .. height : \E i \in Nat : On(h, i) /\ Batch[k] = Transaction(h, i)
          BY <1>1, <2>3, GetTransactionsIs DEF Batch
        <5>2. \A h \in BatchStart .. height : h \in Nat
          BY <2>3
        <5>3. \A k \in DOMAIN Batch : Batch[k] \in Ledger
          BY <1>1, <5>1, <5>2, LedgerIs
        <5> QED BY <5>3 DEF Elements
      <4>3. ASSUME NEW t \in later, NEW u \in Ledger, u.number > t.number,
                   adapter = "zksync" => u.time <= TimeOf(height)
            PROVE  u \in later
        <5>1. u \in Elements(Batch)
          BY <1>1, <2>3, <3>1, <4>3, RangeHasLater DEF Batch
        <5>2. u.number \in Nat /\ t.number \in Nat /\ call.number \in Int
          BY <1>1, <4>2, LedgerIsFinite DEF AnyTransaction, AnyCall, NoNumber, LedgersTypeOK
        <5> QED BY <4>3, <5>1, <5>2
      <4>4. later \subseteq Ledger
        BY <4>2
      <4> HIDE DEF later
      <4>5. Unbroken(Sorted(later))
        BY <1>1, <4>3, <4>4, SortedIsUnbroken
      <4> QED BY <2>1, <4>1, <4>5
    <3> QED BY <3>3, <3>4
  <2>8. CASE QldbRead
    <3> DEFINE S == IF HasNumber THEN {t \in Ledger : t.number >= call.number} ELSE Ledger
    <3>1. adapter = "qldb" /\ Answer(Sorted(S))
      BY <1>1, <2>8 DEF QldbRead, QldbNumbers, HasNumber, HasNumberUnlessZero
    <3>2. ASSUME NEW t \in S, NEW u \in Ledger, u.number > t.number PROVE u \in S
      <4>1. t \in AnyTransaction /\ u \in AnyTransaction /\ call \in AnyCall
        BY <1>1, LedgerIsFinite DEF LedgersTypeOK
      <4>2. t.number \in Nat /\ u.number \in Nat /\ call.number \in Int
        BY <4>1 DEF AnyTransaction, AnyCall, NoNumber
      <4> QED BY <3>2, <4>2
    <3>3. S \subseteq Ledger
      OBVIOUS
    <3> HIDE DEF S
    <3>4. Unbroken(Sorted(S))
      BY <1>1, <3>2, <3>3, SortedIsUnbroken
    <3> QED BY <2>1, <3>1, <3>4
  <2> QED BY <1>1, <2>4, <2>5, <2>6, <2>7, <2>8
          DEF LedgersNext, ReadStep, NewBlock, Reorganise, Poll, Ask, Begin, Record, End,
              ReadRejects, reading, ledgersVars
<1>2. LedgersInv /\ [LedgersNext]_ledgersVars =>
        (pc' = "answered" /\ pc # "answered" /\ (HasHash => HasNumber /\ adapter # "zksync") =>
           /\ \A i, j \in DOMAIN answer' :
                i < j => /\ answer'[i].number < answer'[j].number
                         /\ answer'[i].time <= answer'[j].time
           /\ answer' # << >> =>
                \A t \in Ledger :
                  /\ t.number > answer'[1].number
                  /\ adapter = "zksync" => t.time <= TimeOf(height)
                  => t \in Elements(answer'))
  <2> SUFFICES ASSUME LedgersInv, [LedgersNext]_ledgersVars, pc' = "answered", pc # "answered",
                      HasHash => HasNumber /\ adapter # "zksync"
               PROVE  /\ \A i, j \in DOMAIN answer' :
                           i < j => /\ answer'[i].number < answer'[j].number
                                    /\ answer'[i].time <= answer'[j].time
                      /\ answer' # << >> =>
                           \A t \in Ledger :
                             /\ t.number > answer'[1].number
                             /\ adapter = "zksync" => t.time <= TimeOf(height)
                             => t \in Elements(answer')
    OBVIOUS
  <2>1. Unbroken(answer')
    BY <1>1, LedgersAssumption
  <2> QED BY <2>1 DEF Unbroken
<1> QED BY <1>2, LedgersInvariance, PTL DEF AnswersAreUnbroken, LedgersSpec
=============================================================================
