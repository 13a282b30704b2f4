---------------------------- MODULE BatchingProofs ----------------------------
(***************************************************************************)
(* Proofs about Batching, for every set of requests, of DIDs and of types, *)
(* every limit of the lock and every number of faults: what a batch on the *)
(* ledger is, in which order the operations of a DID get there, that no    *)
(* operation gets there twice unless something fails, and that the queue   *)
(* and the ledger together implement AnchoringService.                     *)
(***************************************************************************)
EXTENDS Batching, FiniteSetTheorems, SequenceTheorems, WellFoundedInduction, TLAPS

Sent == ToSet(order)
Known == queue \cup Anchored

-----------------------------------------------------------------------------
(* The inductive invariant, in the parts the theorems need                 *)

\* A request gets its _id once, and its document comes after that.
StatusFits ==
  /\ \A r \in Requests : status[r] \in {"new", "checked"} => r \notin Sent
  /\ \A r \in Requests : status[r] \in {"inserting", "accepted"} => r \in Sent
  /\ \A r \in Known : status[r] \in {"accepted", "failed"}
  /\ Anchored \subseteq Sent

OneOfADid == \A r, s \in queue : SameDid(r, s) => r = s

BatchIsHeld ==
  /\ batch \subseteq queue
  /\ pc = "idle" => batch = {}
  /\ pc # "idle" => batch # {} /\ \E k \in Allowances : Cardinality(batch) <= k
  /\ pc # "delete" => last = {}

QueueInv == TypeOK /\ StatusFits /\ OneOfADid /\ BatchIsHeld /\ BatchesAreValid

\* What is not in the queue yet has a later _id than everything that is or was.
InsertsComeLast ==
  \A r \in Known, s \in Requests : status[s] = "inserting" => Precedes(r, s)

\* The batch is the start of the queue, and dequeue deletes nothing else.
BatchIsFirst ==
  /\ \A r \in batch, s \in queue : Precedes(s, r) => s \in batch
  /\ last \subseteq batch

\* What is on the ledger comes before what waits.
AnchoredBeforeQueued ==
  \A r \in Anchored, s \in queue : SameDid(r, s) => r = s \/ Precedes(r, s)

OrderInv == QueueInv /\ InsertsComeLast /\ BatchIsFirst /\ AnchoredBeforeQueued /\ AnchoredInOrder

\* Until something fails, only the batch being removed is both in the queue and anchored, and
\* the document dequeue found is the last of it.
RemovedWhole ==
  faults = 0 =>
    /\ pc \in {"idle", "files"} => queue \cap Anchored = {}
    /\ queue \cap Anchored \subseteq batch
    /\ pc = "delete" => \A r \in batch : \E l \in last : r = l \/ Precedes(r, l)

OnceInv == OrderInv /\ RemovedWhole /\ AnchoredOnce

\* The batch is on the ledger before dequeue begins.
RemovedIsAnchored == pc \in {"dequeue", "delete"} => batch \subseteq Anchored

-----------------------------------------------------------------------------
(* The order of the _ids                                                   *)

LEMMA PrecedesIsOrder ==
  ASSUME order \in Seq(Requests), IsInjective(order)
  PROVE  /\ \A r, s : Precedes(r, s) => r \in Sent /\ s \in Sent /\ r # s /\ ~Precedes(s, r)
         /\ \A r, s, t : Precedes(r, s) /\ Precedes(s, t) => Precedes(r, t)
         /\ \A r, s \in Sent : r = s \/ Precedes(r, s) \/ Precedes(s, r)
<1>1. DOMAIN order = 1 .. Len(order) /\ Len(order) \in Nat
  OBVIOUS
<1>2. \A i, j \in DOMAIN order : order[i] = order[j] => i = j
  BY DEF IsInjective
<1>3. ASSUME NEW r, NEW s, Precedes(r, s)
      PROVE  r \in Sent /\ s \in Sent /\ r # s /\ ~Precedes(s, r)
  <2>1. PICK i, j \in DOMAIN order : i < j /\ order[i] = r /\ order[j] = s
    BY <1>3 DEF Precedes
  <2>2. r \in Sent /\ s \in Sent
    BY <2>1 DEF Sent, ToSet
  <2>3. ASSUME NEW k \in DOMAIN order, NEW l \in DOMAIN order, order[k] = s, order[l] = r
        PROVE  ~(k < l)
    BY <1>1, <1>2, <2>1, <2>3
  <2>4. ~Precedes(s, r)
    BY <2>3 DEF Precedes
  <2>5. r # s
    BY <1>1, <1>2, <2>1
  <2> QED BY <2>2, <2>4, <2>5
<1>4. ASSUME NEW r, NEW s, NEW t, Precedes(r, s), Precedes(s, t)
      PROVE  Precedes(r, t)
  <2>1. PICK i, j \in DOMAIN order : i < j /\ order[i] = r /\ order[j] = s
    BY <1>4 DEF Precedes
  <2>2. PICK k, l \in DOMAIN order : k < l /\ order[k] = s /\ order[l] = t
    BY <1>4 DEF Precedes
  <2>3. j = k
    BY <1>2, <2>1, <2>2
  <2>4. i < l
    BY <1>1, <2>1, <2>2, <2>3
  <2> QED BY <2>1, <2>2, <2>4 DEF Precedes
<1>5. ASSUME NEW r \in Sent, NEW s \in Sent
      PROVE  r = s \/ Precedes(r, s) \/ Precedes(s, r)
  <2>1. PICK i \in DOMAIN order : order[i] = r
    BY DEF Sent, ToSet
  <2>2. PICK j \in DOMAIN order : order[j] = s
    BY DEF Sent, ToSet
  <2>3. i < j \/ i = j \/ j < i
    BY <1>1
  <2> QED BY <2>1, <2>2, <2>3 DEF Precedes
<1> QED BY <1>3, <1>4, <1>5

LEMMA PrecedesStays ==
  ASSUME UNCHANGED order
  PROVE  Sent' = Sent /\ \A r, s : Precedes(r, s)' <=> Precedes(r, s)
BY DEF Precedes, Sent

LEMMA PrecedesGrows ==
  ASSUME order \in Seq(Requests), IsInjective(order),
         NEW x \in Requests, x \notin Sent, order' = Append(order, x)
  PROVE  /\ order' \in Seq(Requests) /\ IsInjective(order)'
         /\ Sent' = Sent \cup {x}
         /\ \A r, s \in Sent : Precedes(r, s)' <=> Precedes(r, s)
         /\ \A r \in Sent : Precedes(r, x)'
<1> DEFINE n == Len(order)
<1>1. /\ DOMAIN order = 1 .. n /\ n \in Nat
      /\ order' \in Seq(Requests) /\ DOMAIN order' = 1 .. n + 1
      /\ \A i \in 1 .. n : order'[i] = order[i]
      /\ order'[n + 1] = x
  OBVIOUS
<1>2. \A i \in 1 .. n : order[i] \in Sent /\ order[i] # x
  BY <1>1 DEF Sent, ToSet
<1> HIDE DEF n
<1>3. \A i \in 1 .. n + 1 : i \in 1 .. n \/ i = n + 1
  BY <1>1
<1>4. IsInjective(order)'
  <2> SUFFICES ASSUME NEW i \in 1 .. n + 1, NEW j \in 1 .. n + 1, order'[i] = order'[j]
               PROVE  i = j
    BY <1>1 DEF IsInjective
  <2> QED BY <1>1, <1>2, <1>3 DEF IsInjective
<1>5. Sent' = Sent \cup {x}
  <2>1. Sent' = {order'[i] : i \in 1 .. n + 1} /\ Sent = {order[i] : i \in 1 .. n}
    BY <1>1 DEF Sent, ToSet
  <2>2. ASSUME NEW y \in Sent' PROVE y \in Sent \cup {x}
    <3>1. PICK i \in 1 .. n + 1 : y = order'[i]
      BY <2>1
    <3> QED BY <1>1, <1>2, <1>3, <3>1
  <2>3. ASSUME NEW y \in Sent PROVE y \in Sent'
    <3>1. PICK i \in 1 .. n : y = order[i]
      BY <2>1
    <3>2. i \in 1 .. n + 1 /\ y = order'[i]
      BY <1>1, <3>1
    <3> QED BY <2>1, <3>2
  <2>4. x \in Sent'
    <3>1. n + 1 \in 1 .. n + 1
      BY <1>1
    <3> QED BY <1>1, <2>1, <3>1
  <2> QED BY <2>2, <2>3, <2>4
<1>6. ASSUME NEW r \in Sent, NEW s \in Sent
      PROVE  Precedes(r, s)' <=> Precedes(r, s)
  <2>1. ASSUME Precedes(r, s) PROVE Precedes(r, s)'
    <3>1. PICK i, j \in 1 .. n : i < j /\ order[i] = r /\ order[j] = s
      BY <1>1, <2>1 DEF Precedes
    <3>2. i \in 1 .. n + 1 /\ j \in 1 .. n + 1 /\ order'[i] = r /\ order'[j] = s
      BY <1>1, <3>1
    <3> QED BY <1>1, <3>1, <3>2 DEF Precedes
  <2>2. ASSUME Precedes(r, s)' PROVE Precedes(r, s)
    <3>1. PICK i, j \in 1 .. n + 1 : i < j /\ order'[i] = r /\ order'[j] = s
      BY <1>1, <2>2 DEF Precedes
    <3>2. i \in 1 .. n /\ j \in 1 .. n
      BY <1>1, <1>3, <3>1
    <3> QED BY <1>1, <3>1, <3>2 DEF Precedes
  <2> QED BY <2>1, <2>2
<1>7. ASSUME NEW r \in Sent PROVE Precedes(r, x)'
  <2>1. PICK i \in 1 .. n : order[i] = r
    BY <1>1 DEF Sent, ToSet
  <2>2. i \in 1 .. n + 1 /\ n + 1 \in 1 .. n + 1 /\ i < n + 1 /\ order'[i] = r
    BY <1>1, <2>1
  <2> QED BY <1>1, <2>2 DEF Precedes
<1> QED BY <1>1, <1>4, <1>5, <1>6, <1>7

-----------------------------------------------------------------------------
(* The first documents of the queue                                        *)

LEMMA QueueFacts ==
  ASSUME TypeOK
  PROVE  /\ queue \subseteq Sent /\ Sent \subseteq Requests /\ IsFiniteSet(queue)
         /\ \A S \in SUBSET queue : IsFiniteSet(S) /\ Cardinality(S) \in Nat
<1>1. Sent \subseteq Requests
  BY DEF TypeOK, Sent, ToSet
<1>2. queue \subseteq Sent
  BY DEF TypeOK, Sent
<1>3. IsFiniteSet(queue)
  BY <1>1, <1>2, ConstantsAssumption, FS_Subset
<1> QED BY <1>1, <1>2, <1>3, FS_Subset, FS_CardinalityType

LEMMA SmallerBatchesFirst == IsWellFoundedOn(StrictSubsetOrdering(Requests), SUBSET Requests)
<1>1. FiniteSubsetsOf(Requests) = SUBSET Requests
  BY ConstantsAssumption, FS_FiniteSubsetsOfFinite
<1> QED BY <1>1, FS_StrictSubsetOrderingWellFounded

IsLastOf(r, S) == r \in S /\ \A s \in S : r = s \/ Precedes(s, r)

LEMMA HasLast ==
  ASSUME TypeOK, NEW S \in SUBSET queue, S # {}
  PROVE  \E r \in S : IsLastOf(r, S)
<1> DEFINE without == {T \in SUBSET Requests : T # {} /\ T \subseteq queue /\ ~\E t \in T : IsLastOf(t, T)}
<1>1. without = {}
  <2> SUFFICES ASSUME without # {} PROVE FALSE
    OBVIOUS
  <2>1. PICK T \in without : \A U \in without : ~(<<U, T>> \in StrictSubsetOrdering(Requests))
    <3>1. without \subseteq SUBSET Requests
      OBVIOUS
    <3> HIDE DEF without
    <3> QED BY <3>1, SmallerBatchesFirst, WFMin
  <2>2. PICK x \in T : TRUE
    OBVIOUS
  <2>3. /\ T \ {x} \in SUBSET Requests /\ T \ {x} # T
        /\ <<T \ {x}, T>> \in StrictSubsetOrdering(Requests)
    BY <2>2 DEF StrictSubsetOrdering
  <2>4. T \ {x} = {} \/ \E t \in T \ {x} : IsLastOf(t, T \ {x})
    BY <2>1, <2>3
  <2>5. T \subseteq Sent
    BY QueueFacts
  <2>6. \E t \in T : IsLastOf(t, T)
    <3>1. CASE T \ {x} = {}
      BY <2>2, <3>1 DEF IsLastOf
    <3>2. CASE \E t \in T \ {x} : IsLastOf(t, T \ {x})
      <4>1. PICK t \in T \ {x} : \A s \in T \ {x} : t = s \/ Precedes(s, t)
        BY <3>2 DEF IsLastOf
      <4>2. CASE Precedes(x, t)
        BY <4>1, <4>2 DEF IsLastOf
      <4>3. CASE Precedes(t, x)
        <5>1. \A s \in T : x = s \/ Precedes(s, x)
          BY <4>1, <4>3, PrecedesIsOrder DEF TypeOK
        <5> QED BY <2>2, <5>1 DEF IsLastOf
      <4> QED BY <2>2, <2>5, <4>1, <4>2, <4>3, PrecedesIsOrder DEF TypeOK
    <3> QED BY <2>4, <3>1, <3>2
  <2> QED BY <2>1, <2>6
<1> QED BY <1>1, QueueFacts

LEMMA HasOneLast ==
  ASSUME TypeOK, NEW S \in SUBSET queue
  PROVE  Cardinality({r \in S : \A s \in S : r = s \/ Precedes(s, r)}) <= 1
<1> DEFINE L == {r \in S : \A s \in S : r = s \/ Precedes(s, r)}
<1>1. \A r, s \in L : r = s
  BY PrecedesIsOrder DEF TypeOK
<1>2. L = {} \/ \E r : L = {r}
  BY <1>1
<1> QED BY <1>2, FS_EmptySet, FS_Singleton

Before(r) == {s \in queue : Precedes(s, r)}

LEMMA FirstFacts ==
  ASSUME TypeOK, NEW k \in Nat
  PROVE  /\ First(k) \subseteq queue
         /\ \A r \in First(k), s \in queue : Precedes(s, r) => s \in First(k)
         /\ Cardinality(First(k)) <= k
<1>1. First(k) = {r \in queue : Cardinality(Before(r)) < k}
  BY DEF First, Before
<1>2. \A r : Before(r) \in SUBSET queue /\ Cardinality(Before(r)) \in Nat /\ IsFiniteSet(Before(r))
  BY QueueFacts DEF Before
<1>3. ASSUME NEW r \in First(k), NEW s \in queue, Precedes(s, r) PROVE s \in First(k)
  <2>1. Before(s) \subseteq Before(r)
    BY <1>3, PrecedesIsOrder DEF Before, TypeOK
  <2>2. Cardinality(Before(s)) <= Cardinality(Before(r))
    BY <1>2, <2>1, FS_Subset
  <2> QED BY <1>1, <1>2, <2>2
<1>4. Cardinality(First(k)) <= k
  <2>1. CASE First(k) = {}
    BY <2>1, FS_EmptySet
  <2>2. CASE First(k) # {}
    <3>1. PICK r \in First(k) : IsLastOf(r, First(k))
      BY <1>1, <2>2, HasLast
    <3>2. First(k) \ {r} \subseteq Before(r)
      BY <1>1, <3>1 DEF IsLastOf, Before
    <3>3. Cardinality(First(k) \ {r}) <= Cardinality(Before(r))
      BY <1>2, <3>2, FS_Subset
    <3>4. /\ IsFiniteSet(First(k)) /\ Cardinality(First(k)) \in Nat
          /\ Cardinality(First(k) \ {r}) = Cardinality(First(k)) - 1
      BY <1>1, QueueFacts, FS_RemoveElement
    <3> QED BY <1>1, <1>2, <3>3, <3>4
  <2> QED BY <2>1, <2>2
<1> QED BY <1>1, <1>3, <1>4

\* The start of the queue is found again by its size.
LEMMA FirstIsBatch ==
  ASSUME TypeOK, NEW B \in SUBSET queue,
         \A r \in B, s \in queue : Precedes(s, r) => s \in B
  PROVE  First(Cardinality(B)) = B
<1>1. First(Cardinality(B)) = {r \in queue : Cardinality(Before(r)) < Cardinality(B)}
  BY DEF First, Before
<1>2. /\ \A r : Before(r) \in SUBSET queue /\ Cardinality(Before(r)) \in Nat /\ IsFiniteSet(Before(r))
      /\ IsFiniteSet(B) /\ Cardinality(B) \in Nat
  BY QueueFacts DEF Before
<1>3. ASSUME NEW r \in B PROVE Cardinality(Before(r)) < Cardinality(B)
  <2>1. Before(r) \subseteq B \ {r}
    BY <1>3, PrecedesIsOrder DEF Before, TypeOK
  <2>2. IsFiniteSet(B \ {r}) /\ Cardinality(B \ {r}) = Cardinality(B) - 1
    BY <1>2, FS_RemoveElement
  <2>3. Cardinality(Before(r)) <= Cardinality(B \ {r})
    BY <2>1, <2>2, FS_Subset
  <2> QED BY <1>2, <2>2, <2>3
<1>4. ASSUME NEW r \in queue, r \notin B PROVE ~(Cardinality(Before(r)) < Cardinality(B))
  <2>1. B \subseteq Before(r)
    BY <1>4, QueueFacts, PrecedesIsOrder DEF Before, TypeOK
  <2>2. Cardinality(B) <= Cardinality(Before(r))
    BY <1>2, <2>1, FS_Subset
  <2> QED BY <1>2, <2>2
<1> QED BY <1>1, <1>3, <1>4

-----------------------------------------------------------------------------
(* What the steps do to the queue and to the ledger                        *)

\* The database executed the inserts of the requests in L, in the order of their _id.
Inserts(L) ==
  /\ L \in SUBSET {r \in Requests : status[r] = "inserting"}
  /\ queue' = queue \cup L
  /\ \A r \in L : AcceptedByIndex(r)
  /\ \A r, s \in L : SameDid(r, s) => r = s
  /\ OrderedInserts =>
       \A r \in L, s \in Requests : status[s] = "inserting" /\ Precedes(s, r) => s \in L
  /\ \A r \in L : status'[r] \in {"accepted", "failed"}
  /\ \A r \in Requests \ L : status'[r] # status[r] =>
       \/ status[r] = "new" /\ status'[r] \in {"checked", "rejected", "failed"}
       \/ status[r] \in {"checked", "inserting"} /\ status'[r] \in {"rejected", "failed"}
  /\ status' \in [Requests -> {"new", "checked", "inserting", "accepted", "rejected", "failed"}]
  /\ UNCHANGED <<typeOf, order, cas, chain>>

LEMMA SetStatusIs ==
  ASSUME TypeOK, NEW r \in Requests, NEW s, SetStatus(r, s)
  PROVE  status'[r] = s /\ \A t \in Requests \ {r} : status'[t] = status[t]
BY DEF TypeOK, SetStatus

LEMMA RequestInserts ==
  ASSUME TypeOK, NEW r \in Requests, Check(r) \/ Insert(r) \/ RequestFails(r)
  PROVE  (\E L : Inserts(L)) /\ UNCHANGED <<pc, batch, last>>
<1>1. CASE Check(r)
  <2>1. /\ status[r] = "new" /\ status'[r] \in {"checked", "rejected"}
        /\ \A t \in Requests \ {r} : status'[t] = status[t]
    BY <1>1, SetStatusIs DEF Check
  <2>2. status' \in [Requests -> {"new", "checked", "inserting", "accepted", "rejected", "failed"}]
    BY <1>1 DEF Check, SetStatus, TypeOK
  <2>3. Inserts({})
    BY <1>1, <2>1, <2>2 DEF Check, Inserts
  <2> QED BY <1>1, <2>3 DEF Check, writer
<1>2. CASE Insert(r)
  <2>1. status[r] = "inserting"
    BY <1>2 DEF Insert, MayInsert
  <2>2. CASE AcceptedByIndex(r)
    <3>1. /\ status'[r] = "accepted" /\ \A t \in Requests \ {r} : status'[t] = status[t]
          /\ queue' = queue \cup {r}
      BY <1>2, <2>2, SetStatusIs DEF Insert
    <3>2. status' \in [Requests -> {"new", "checked", "inserting", "accepted", "rejected", "failed"}]
      BY <1>2, <2>2 DEF Insert, SetStatus, TypeOK
    <3>3. Inserts({r})
      BY <1>2, <2>1, <2>2, <3>1, <3>2 DEF Insert, MayInsert, Inserts
    <3> QED BY <1>2, <3>3 DEF Insert, writer
  <2>3. CASE ~AcceptedByIndex(r)
    <3>1. /\ status'[r] = "rejected" /\ \A t \in Requests \ {r} : status'[t] = status[t]
          /\ queue' = queue
      BY <1>2, <2>3, SetStatusIs DEF Insert
    <3>2. status' \in [Requests -> {"new", "checked", "inserting", "accepted", "rejected", "failed"}]
      BY <1>2, <2>3 DEF Insert, SetStatus, TypeOK
    <3>3. Inserts({})
      BY <1>2, <2>1, <3>1, <3>2 DEF Insert, Inserts
    <3> QED BY <1>2, <3>3 DEF Insert, writer
  <2> QED BY <2>2, <2>3
<1>3. CASE RequestFails(r)
  <2>1. /\ status[r] \in {"new", "inserting"} /\ status'[r] = "failed"
        /\ \A t \in Requests \ {r} : status'[t] = status[t]
    BY <1>3, SetStatusIs DEF RequestFails
  <2>2. status' \in [Requests -> {"new", "checked", "inserting", "accepted", "rejected", "failed"}]
    BY <1>3 DEF RequestFails, SetStatus, TypeOK
  <2>3. CASE UNCHANGED queue
    <3>1. Inserts({})
      BY <1>3, <2>1, <2>2, <2>3 DEF RequestFails, Inserts
    <3> QED BY <1>3, <3>1 DEF RequestFails, writer
  <2>4. CASE MayInsert(r) /\ AcceptedByIndex(r) /\ queue' = queue \cup {r}
    <3>1. Inserts({r})
      BY <1>3, <2>1, <2>2, <2>4 DEF RequestFails, MayInsert, Inserts
    <3> QED BY <1>3, <3>1 DEF RequestFails, writer
  <2> QED BY <1>3, <2>3, <2>4 DEF RequestFails
<1> QED BY <1>1, <1>2, <1>3

LEMMA CrashInserts ==
  ASSUME TypeOK, Crash
  PROVE  \E L : Inserts(L)
<1>1. PICK L \in SUBSET {r \in Requests : status[r] = "inserting" /\ AcceptedByIndex(r)} :
        /\ \A r, s \in L : SameDid(r, s) => r = s
        /\ OrderedInserts => \A r \in L, s \in Requests :
                               status[s] = "inserting" /\ Precedes(s, r) => s \in L
        /\ queue' = queue \cup L
  BY DEF Crash
<1>2. /\ \A r \in Requests : status'[r] = IF status[r] \in {"checked", "inserting"} THEN "failed" ELSE status[r]
      /\ status' \in [Requests -> {"new", "checked", "inserting", "accepted", "rejected", "failed"}]
  BY DEF Crash, TypeOK
<1>3. \A r \in L : status'[r] = "failed"
  BY <1>2
<1>4. Inserts(L)
  BY <1>1, <1>2, <1>3 DEF Crash, Inserts
<1> QED BY <1>4

\* A batch is appended to the ledger.
LEMMA AnchoredGrows ==
  ASSUME chain \in Seq(SUBSET Requests), NEW B \in SUBSET Requests, chain' = Append(chain, B)
  PROVE  /\ chain' \in Seq(SUBSET Requests)
         /\ DOMAIN chain = 1 .. Len(chain) /\ Len(chain) \in Nat
         /\ DOMAIN chain' = 1 .. Len(chain) + 1
         /\ \A i \in DOMAIN chain : chain'[i] = chain[i]
         /\ chain'[Len(chain) + 1] = B
         /\ Anchored' = Anchored \cup B
<1>1. /\ chain' \in Seq(SUBSET Requests)
      /\ DOMAIN chain = 1 .. Len(chain) /\ Len(chain) \in Nat
      /\ DOMAIN chain' = 1 .. Len(chain) + 1
      /\ \A i \in DOMAIN chain : chain'[i] = chain[i]
      /\ chain'[Len(chain) + 1] = B
  OBVIOUS
<1>2. Anchored' = Anchored \cup B
  <2>1. \A i \in DOMAIN chain' : i \in DOMAIN chain \/ i = Len(chain) + 1
    BY <1>1
  <2>2. DOMAIN chain \subseteq DOMAIN chain' /\ Len(chain) + 1 \in DOMAIN chain'
    BY <1>1
  <2>3. ASSUME NEW r \in Anchored' PROVE r \in Anchored \cup B
    BY <1>1, <2>1 DEF Anchored
  <2>4. ASSUME NEW r \in Anchored \cup B PROVE r \in Anchored'
    <3>1. CASE r \in B
      BY <1>1, <2>2, <3>1 DEF Anchored
    <3>2. CASE r \in Anchored
      <4>1. PICK i \in DOMAIN chain : r \in chain[i]
        BY <3>2 DEF Anchored
      <4>2. i \in DOMAIN chain' /\ r \in chain'[i]
        BY <1>1, <2>2, <4>1
      <4> QED BY <4>2 DEF Anchored
    <3> QED BY <3>1, <3>2
  <2> QED BY <2>3, <2>4
<1> QED BY <1>1, <1>2

LEMMA AnchoredIn == \A i \in DOMAIN chain : \A r \in chain[i] : r \in Anchored
BY DEF Anchored

LEMMA AnchoredType ==
  ASSUME chain \in Seq(SUBSET Requests)
  PROVE  Anchored \subseteq Requests
<1>1. \A i \in DOMAIN chain : chain[i] \in SUBSET Requests
  OBVIOUS
<1> QED BY <1>1 DEF Anchored

-----------------------------------------------------------------------------
(* What holds of the queue and of the batches whatever is configured       *)

LEMMA QueueInit == Init => QueueInv
<1> SUFFICES ASSUME Init PROVE QueueInv
  OBVIOUS
<1>1. Sent = {} /\ Anchored = {}
  BY DEF Init, Sent, ToSet, Anchored
<1>2. TypeOK
  <2>1. order \in Seq(Requests) /\ IsInjective(order) /\ chain \in Seq(SUBSET Requests)
    BY DEF Init, IsInjective
  <2>2. last \subseteq Requests /\ Cardinality(last) <= 1
    BY FS_EmptySet DEF Init
  <2> QED BY <2>1, <2>2, ConstantsAssumption DEF Init, TypeOK
<1> QED BY <1>1, <1>2 DEF Init, QueueInv, StatusFits, Known, OneOfADid, BatchIsHeld, BatchesAreValid

LEMMA FaultsStep == TypeOK /\ [Next]_vars => faults' \in 0 .. MaxFaults /\ faults <= faults'
<1> SUFFICES ASSUME TypeOK, [Next]_vars PROVE faults' \in 0 .. MaxFaults /\ faults <= faults'
  OBVIOUS
<1>1. faults \in 0 .. MaxFaults /\ MaxFaults \in Nat
  BY ConstantsAssumption DEF TypeOK
<1>2. faults' = faults \/ (faults < MaxFaults /\ faults' = faults + 1)
  BY DEF Next, HandlerStep, WriterStep, Check, Enqueue, Insert, RequestFails, Peek, WriteFile,
         WriteToLedger, LedgerWriteFails, FindLast, Delete, RoundFails, Crash, vars
<1> QED BY <1>1, <1>2

LEMMA TypeNext == QueueInv /\ [Next]_vars => TypeOK'
<1> SUFFICES ASSUME QueueInv, [Next]_vars PROVE TypeOK'
  OBVIOUS
<1> USE DEF QueueInv
<1>1. faults' \in 0 .. MaxFaults
  BY FaultsStep
<1>2. ASSUME NEW L, Inserts(L), batch' \subseteq Requests, last' \subseteq Requests,
             Cardinality(last') <= 1, pc' \in {"idle", "files", "dequeue", "delete"}
      PROVE  TypeOK'
  <2>1. L \subseteq Sent
    BY <1>2 DEF Inserts, StatusFits
  <2>2. (queue \subseteq ToSet(order))'
    BY <1>2, <2>1 DEF Inserts, TypeOK, Sent
  <2> QED BY <1>1, <1>2, <2>2 DEF Inserts, TypeOK
<1>3. ASSUME NEW r \in Requests, Check(r) \/ Insert(r) \/ RequestFails(r) PROVE TypeOK'
  BY <1>2, <1>3, RequestInserts DEF TypeOK
<1>4. ASSUME NEW r \in Requests, Enqueue(r) PROVE TypeOK'
  <2>1. r \notin Sent /\ order' = Append(order, r)
    BY <1>4 DEF Enqueue, StatusFits
  <2>2. order' \in Seq(Requests) /\ IsInjective(order)' /\ Sent \subseteq Sent'
    BY <2>1, PrecedesGrows DEF TypeOK
  <2>3. (queue \subseteq ToSet(order))'
    BY <1>4, <2>2 DEF Enqueue, TypeOK, Sent
  <2>4. status' \in [Requests -> {"new", "checked", "inserting", "accepted", "rejected", "failed"}]
    BY <1>4 DEF Enqueue, SetStatus, TypeOK
  <2> QED BY <1>1, <1>4, <2>2, <2>3, <2>4 DEF Enqueue, writer, TypeOK
<1>5. CASE Peek
  <2>1. PICK k \in Allowances : batch' = First(k)
    BY <1>5 DEF Peek
  <2>2. batch' \subseteq Requests
    BY <2>1, QueueFacts DEF First
  <2>3. pc' \in {"idle", "files"}
    BY <1>5 DEF Peek, NextRound
  <2> QED BY <1>1, <1>5, <2>2, <2>3 DEF Peek, handler, TypeOK
<1>6. CASE WriteFile
  <2>1. cas' \subseteq [ops : SUBSET Requests, file : Files]
    BY <1>6 DEF WriteFile, TypeOK
  <2> QED BY <1>1, <1>6, <2>1 DEF WriteFile, handler, writer, TypeOK
<1>7. CASE WriteToLedger
  <2>1. chain' \in Seq(SUBSET Requests)
    BY <1>7 DEF WriteToLedger, TypeOK
  <2> QED BY <1>1, <1>7, <2>1 DEF WriteToLedger, handler, TypeOK
<1>8. CASE LedgerWriteFails
  <2>1. chain' \in Seq(SUBSET Requests)
    BY <1>8 DEF LedgerWriteFails, TypeOK
  <2>2. pc' \in {"idle", "dequeue"} /\ batch' \subseteq Requests
    BY <1>8 DEF LedgerWriteFails, TypeOK, NextRoundAfterFailure
  <2> QED BY <1>1, <1>8, <2>1, <2>2 DEF LedgerWriteFails, handler, TypeOK
<1>9. CASE FindLast
  <2> DEFINE found == First(Cardinality(batch))
  <2>1. /\ last' = {r \in found : \A s \in found : r = s \/ Precedes(s, r)}
        /\ pc' = "delete" /\ UNCHANGED <<handler, queue, batch, cas, chain>>
    BY <1>9 DEF FindLast
  <2>2. found \in SUBSET queue
    BY DEF First
  <2> HIDE DEF found
  <2>3. Cardinality(last') <= 1
    BY <2>1, <2>2, HasOneLast
  <2>4. last' \subseteq Requests
    BY <2>1, <2>2, QueueFacts
  <2> QED BY <1>1, <2>1, <2>3, <2>4 DEF handler, TypeOK
<1>10. CASE Delete
  <2>1. queue' \subseteq queue /\ pc' = "idle" /\ batch' = {} /\ last' = {}
    BY <1>10 DEF Delete, KeptByDequeue, NextRound
  <2> QED BY <1>1, <1>10, <2>1, FS_EmptySet DEF Delete, handler, TypeOK
<1>11. CASE RoundFails
  BY <1>1, <1>11, FS_EmptySet DEF RoundFails, NextRoundAfterFailure, handler, TypeOK
<1>12. CASE Crash
  <2>1. batch' = {} /\ last' = {} /\ pc' = "idle"
    BY <1>12 DEF Crash
  <2> QED BY <1>2, <1>12, <2>1, CrashInserts, FS_EmptySet DEF TypeOK
<1>13. CASE UNCHANGED vars
  BY <1>13 DEF vars, handler, writer, TypeOK
<1> QED BY <1>3, <1>4, <1>5, <1>6, <1>7, <1>8, <1>9, <1>10, <1>11, <1>12, <1>13
       DEF Next, HandlerStep, WriterStep

LEMMA WriterFrame ==
  ASSUME WriterStep \/ LedgerWriteFails \/ RoundFails \/ UNCHANGED vars
  PROVE  UNCHANGED handler /\ queue' \subseteq queue
BY DEF WriterStep, Peek, WriteFile, WriteToLedger, LedgerWriteFails, FindLast, Delete,
       KeptByDequeue, RoundFails, vars

\* The batch on the ledger after a step was there before or is the one being written.
LEMMA AnchoredStep ==
  ASSUME QueueInv, [Next]_vars
  PROVE  \/ chain' = chain /\ Anchored' = Anchored
         \/ /\ pc = "files" /\ MayAnchor /\ chain' = Append(chain, batch)
            /\ Anchored' = Anchored \cup batch /\ batch \subseteq queue
            /\ UNCHANGED <<handler, queue, cas, last>>
<1>1. chain' = chain => Anchored' = Anchored
  BY DEF Anchored
<1>2. ASSUME chain' = Append(chain, batch) PROVE Anchored' = Anchored \cup batch
  BY <1>2, AnchoredGrows DEF QueueInv, TypeOK
<1> QED BY <1>1, <1>2
       DEF Next, HandlerStep, WriterStep, Check, Enqueue, Insert, RequestFails, Peek, WriteFile,
           WriteToLedger, LedgerWriteFails, FindLast, Delete, RoundFails, Crash, vars, QueueInv,
           BatchIsHeld, writer

LEMMA StatusNext == QueueInv /\ [Next]_vars => StatusFits'
<1> SUFFICES ASSUME QueueInv, [Next]_vars PROVE StatusFits'
  OBVIOUS
<1>1. TypeOK /\ StatusFits /\ Sent \subseteq Requests /\ queue \subseteq Sent /\ Anchored \subseteq Sent
  BY QueueFacts DEF QueueInv, StatusFits
<1>2. ASSUME NEW L, Inserts(L) PROVE StatusFits'
  <2>1. Sent' = Sent /\ Anchored' = Anchored /\ Known' = Known \cup L
    BY <1>2 DEF Inserts, Sent, Anchored, Known
  <2>2. \A r \in Known : r \in Requests /\ r \notin L /\ status'[r] = status[r]
    BY <1>1, <1>2 DEF Inserts, StatusFits, Known
  <2>3. \A r \in Requests : status'[r] \in {"new", "checked"} => r \notin Sent
    BY <1>1, <1>2 DEF Inserts, StatusFits
  <2>4. \A r \in Requests : status'[r] \in {"inserting", "accepted"} => r \in Sent
    BY <1>1, <1>2 DEF Inserts, StatusFits
  <2> QED BY <1>1, <1>2, <2>1, <2>2, <2>3, <2>4 DEF Inserts, StatusFits
<1>3. ASSUME NEW r \in Requests, Enqueue(r) PROVE StatusFits'
  <2>1. /\ r \notin Sent /\ order' = Append(order, r) /\ queue' = queue /\ chain' = chain
        /\ status'[r] = "inserting" /\ \A t \in Requests \ {r} : status'[t] = status[t]
    BY <1>1, <1>3, SetStatusIs DEF Enqueue, StatusFits
  <2>2. Sent' = Sent \cup {r}
    BY <1>1, <2>1, PrecedesGrows DEF TypeOK
  <2>3. Known' = Known /\ Anchored' = Anchored
    BY <2>1 DEF Known, Anchored
  <2> QED BY <1>1, <2>1, <2>2, <2>3 DEF StatusFits, Known
<1>4. CASE WriterStep \/ LedgerWriteFails \/ RoundFails \/ UNCHANGED vars
  <2>1. UNCHANGED handler /\ queue' \subseteq queue
    BY <1>4, WriterFrame
  <2>2. Anchored' \subseteq Anchored \cup queue
    BY AnchoredStep
  <2>3. Sent' = Sent /\ status' = status
    BY <2>1 DEF handler, Sent
  <2> QED BY <1>1, <2>1, <2>2, <2>3 DEF StatusFits, Known
<1> QED BY <1>1, <1>2, <1>3, <1>4, RequestInserts, CrashInserts DEF Next, HandlerStep

LEMMA OneNext == QueueInv /\ [Next]_vars => OneOfADid'
<1> SUFFICES ASSUME QueueInv, [Next]_vars PROVE OneOfADid'
  OBVIOUS
<1>1. TypeOK /\ OneOfADid
  BY DEF QueueInv
<1>2. ASSUME NEW L, Inserts(L) PROVE OneOfADid'
  BY <1>1, <1>2 DEF Inserts, OneOfADid, AcceptedByIndex, SameDid
<1>3. ASSUME queue' \subseteq queue PROVE OneOfADid'
  BY <1>1, <1>3 DEF OneOfADid, SameDid
<1>4. ASSUME NEW r \in Requests, Enqueue(r) PROVE OneOfADid'
  BY <1>3, <1>4 DEF Enqueue
<1> QED BY <1>1, <1>2, <1>3, <1>4, RequestInserts, CrashInserts, WriterFrame DEF Next, HandlerStep

LEMMA HeldNext == QueueInv /\ [Next]_vars => BatchIsHeld'
<1> SUFFICES ASSUME QueueInv, [Next]_vars PROVE BatchIsHeld'
  OBVIOUS
<1>1. TypeOK /\ BatchIsHeld
  BY DEF QueueInv
<1>2. ASSUME queue \subseteq queue', UNCHANGED writer PROVE BatchIsHeld'
  BY <1>1, <1>2 DEF BatchIsHeld, writer
<1>3. ASSUME pc' = "idle", batch' = {}, last' = {} PROVE BatchIsHeld'
  BY <1>3 DEF BatchIsHeld
<1>4. ASSUME NEW r \in Requests, HandlerStep(r) \/ RequestFails(r) PROVE BatchIsHeld'
  <2>1. UNCHANGED writer /\ queue \subseteq queue'
    BY <1>4 DEF HandlerStep, Check, Enqueue, Insert, RequestFails
  <2> QED BY <1>2, <2>1
<1>5. CASE Peek
  <2>1. PICK k \in Allowances : batch' = First(k)
    BY <1>5 DEF Peek
  <2>2. k \in Nat
    BY ConstantsAssumption
  <2>3. batch' \subseteq queue /\ Cardinality(batch') <= k
    BY <1>1, <2>1, <2>2, FirstFacts
  <2>4. /\ queue' = queue /\ last' = last /\ pc = "idle"
        /\ pc' = IF batch' = {} THEN "idle" ELSE "files"
    BY <1>5 DEF Peek, NextRound
  <2> QED BY <1>1, <2>3, <2>4 DEF BatchIsHeld
<1>6. CASE WriteFile \/ UNCHANGED vars
  BY <1>2, <1>6 DEF WriteFile, vars
<1>7. CASE WriteToLedger
  BY <1>1, <1>7 DEF WriteToLedger, BatchIsHeld
<1>8. CASE LedgerWriteFails
  BY <1>1, <1>8 DEF LedgerWriteFails, BatchIsHeld, NextRoundAfterFailure
<1>9. CASE FindLast
  BY <1>1, <1>9 DEF FindLast, BatchIsHeld
<1>10. CASE Delete
  BY <1>3, <1>10 DEF Delete, NextRound
<1>11. CASE RoundFails
  BY <1>3, <1>11 DEF RoundFails, NextRoundAfterFailure
<1>12. CASE Crash
  BY <1>3, <1>12 DEF Crash
<1> QED BY <1>4, <1>5, <1>6, <1>7, <1>8, <1>9, <1>10, <1>11, <1>12 DEF Next, WriterStep

LEMMA ValidNext == QueueInv /\ [Next]_vars => BatchesAreValid'
<1> SUFFICES ASSUME QueueInv, [Next]_vars PROVE BatchesAreValid'
  OBVIOUS
<1> DEFINE Valid(B) ==
      /\ B # {} /\ \E k \in Allowances : Cardinality(B) <= k
      /\ \A r, s \in B : SameDid(r, s) => r = s
      /\ \A f \in FilesOf(B) : [ops |-> B, file |-> f] \in cas
<1>1. TypeOK /\ OneOfADid /\ BatchIsHeld /\ \A i \in DOMAIN chain : Valid(chain[i])
  BY DEF QueueInv, BatchesAreValid
<1>2. cas \subseteq cas' /\ typeOf' = typeOf
  BY DEF Next, HandlerStep, WriterStep, Check, Enqueue, Insert, RequestFails, Peek, WriteFile,
         WriteToLedger, LedgerWriteFails, FindLast, Delete, RoundFails, Crash, vars, handler
<1>3. ASSUME NEW i \in DOMAIN chain', Valid(chain'[i])
      PROVE  /\ chain'[i] # {} /\ \E k \in Allowances : Cardinality(chain'[i]) <= k
             /\ \A r, s \in chain'[i] : SameDid(r, s) => r = s
             /\ \A f \in FilesOf(chain[i])' : [ops |-> chain'[i], file |-> f] \in cas'
  <2>1. FilesOf(chain[i])' = FilesOf(chain'[i])
    BY <1>2 DEF FilesOf, TypesIn
  <2> QED BY <1>2, <1>3, <2>1
<1>4. \A i \in DOMAIN chain' : Valid(chain'[i])
  <2>1. CASE chain' = chain
    BY <1>1, <2>1
  <2>2. CASE chain' = Append(chain, batch) /\ pc = "files" /\ MayAnchor
    <3>1. Valid(batch)
      BY <1>1, <2>2 DEF BatchIsHeld, OneOfADid, MayAnchor, FilesLeft
    <3>2. \A i \in DOMAIN chain' :
            chain'[i] = batch \/ (i \in DOMAIN chain /\ chain'[i] = chain[i])
      BY <1>1, <2>2, AnchoredGrows DEF TypeOK
    <3> HIDE DEF Valid
    <3> QED BY <1>1, <3>1, <3>2
  <2> QED BY <2>1, <2>2, AnchoredStep
<1> HIDE DEF Valid
<1>5. ASSUME NEW i \in DOMAIN chain'
      PROVE  /\ chain'[i] # {} /\ \E k \in Allowances : Cardinality(chain'[i]) <= k
             /\ \A r, s \in chain'[i] : SameDid(r, s) => r = s
             /\ \A f \in FilesOf(chain[i])' : [ops |-> chain'[i], file |-> f] \in cas'
  BY <1>3, <1>4
<1> QED BY <1>5 DEF BatchesAreValid, SameDid

LEMMA QueueNext == QueueInv /\ [Next]_vars => QueueInv'
BY TypeNext, StatusNext, OneNext, HeldNext, ValidNext DEF QueueInv

LEMMA QueueInvariant == Spec => []QueueInv
BY QueueInit, QueueNext, PTL DEF Spec

\* The batches on the ledger are ones the protocol accepts, whatever fails and in whatever
\* order the database executes the inserts: BatchWriter anchors a batch only after all its
\* files are written, and dequeues it later.
THEOREM ValidBatches == Spec => []BatchesAreValid
<1>1. QueueInv => BatchesAreValid
  BY DEF QueueInv
<1> QED BY <1>1, QueueInvariant, PTL

\* Every variable of the write side keeps its type.
THEOREM TypeCorrect == Spec => []TypeOK
<1>1. QueueInv => TypeOK
  BY DEF QueueInv
<1> QED BY <1>1, QueueInvariant, PTL

-----------------------------------------------------------------------------
(* The order of the operations of a DID                                    *)

LEMMA OrderInit == Init => OrderInv
<1> SUFFICES ASSUME Init PROVE OrderInv
  OBVIOUS
<1>1. Anchored = {}
  BY DEF Init, Anchored
<1> QED BY <1>1, QueueInit DEF Init, OrderInv, InsertsComeLast, Known, BatchIsFirst,
          AnchoredBeforeQueued, AnchoredInOrder

LEMMA SentFacts ==
  ASSUME QueueInv
  PROVE  /\ order \in Seq(Requests) /\ IsInjective(order)
         /\ queue \subseteq Sent /\ Sent \subseteq Requests /\ Anchored \subseteq Sent /\ batch \subseteq queue
         /\ \A s \in Requests : status[s] = "inserting" => s \in Sent /\ s \notin Known
BY QueueFacts DEF QueueInv, TypeOK, StatusFits, BatchIsHeld

LEMMA LaterInsertsComeLast ==
  ASSUME OrderedInserts, OrderInv, [Next]_vars
  PROVE  InsertsComeLast'
<1>1. InsertsComeLast /\ QueueInv
  BY DEF OrderInv
<1>2. ASSUME NEW L, Inserts(L) PROVE InsertsComeLast'
  <2>1. /\ Known' = Known \cup L /\ \A r, s : Precedes(r, s)' <=> Precedes(r, s)
        /\ \A r \in L : r \in Requests /\ status[r] = "inserting"
    BY <1>2, PrecedesStays DEF Inserts, Known, Anchored
  <2>2. \A s \in Requests : status'[s] = "inserting" => status[s] = "inserting" /\ s \notin L
    BY <1>2 DEF Inserts
  <2>3. ASSUME NEW r \in L, NEW s \in Requests, status[s] = "inserting", s \notin L
        PROVE  Precedes(r, s)
    <3>1. ~Precedes(s, r) /\ r # s
      BY <1>2, <2>3 DEF Inserts
    <3>2. r \in Sent /\ s \in Sent
      BY <1>1, <2>1, <2>3, SentFacts
    <3> QED BY <1>1, <3>1, <3>2, SentFacts, PrecedesIsOrder
  <2> QED BY <1>1, <2>1, <2>2, <2>3 DEF InsertsComeLast
<1>3. ASSUME NEW x \in Requests, Enqueue(x) PROVE InsertsComeLast'
  <2>1. /\ order' = Append(order, x) /\ x \notin Sent /\ Known' = Known
        /\ \A t \in Requests \ {x} : status'[t] = status[t]
    BY <1>1, <1>3, SetStatusIs DEF Enqueue, QueueInv, StatusFits, Known, Anchored
  <2>2. /\ \A r, s \in Sent : Precedes(r, s)' <=> Precedes(r, s)
        /\ \A r \in Sent : Precedes(r, x)'
    BY <1>1, <2>1, SentFacts, PrecedesGrows
  <2>3. Known \subseteq Sent /\ \A s \in Requests : status[s] = "inserting" => s \in Sent
    BY <1>1, SentFacts DEF Known
  <2> QED BY <1>1, <2>1, <2>2, <2>3 DEF InsertsComeLast
<1>4. CASE WriterStep \/ LedgerWriteFails \/ RoundFails \/ UNCHANGED vars
  <2>1. UNCHANGED <<order, status>> /\ queue' \subseteq queue
    BY <1>4, WriterFrame DEF handler
  <2>2. Known' \subseteq Known
    BY <1>1, <2>1, AnchoredStep DEF Known
  <2> QED BY <1>1, <2>1, <2>2, PrecedesStays DEF InsertsComeLast
<1> QED BY <1>2, <1>3, <1>4, RequestInserts, CrashInserts DEF Next, HandlerStep, OrderInv, QueueInv

LEMMA LaterBatchIsFirst ==
  ASSUME OrderInv, [Next]_vars
  PROVE  BatchIsFirst'
<1>1. BatchIsFirst /\ QueueInv /\ InsertsComeLast
  BY DEF OrderInv
<1>2. ASSUME batch' = {}, last' = {} PROVE BatchIsFirst'
  BY <1>2 DEF BatchIsFirst
<1>3. ASSUME NEW L, Inserts(L), UNCHANGED <<batch, last>> PROVE BatchIsFirst'
  <2>1. /\ queue' = queue \cup L /\ \A r, s : Precedes(r, s)' <=> Precedes(r, s)
        /\ \A r \in L : r \in Requests /\ status[r] = "inserting"
    BY <1>3, PrecedesStays DEF Inserts
  <2>2. \A r \in batch, s \in L : Precedes(r, s)
    BY <1>1, <2>1, SentFacts DEF InsertsComeLast, Known
  <2>3. \A r \in batch, s \in L : ~Precedes(s, r)
    BY <1>1, <2>2, SentFacts, PrecedesIsOrder
  <2> QED BY <1>1, <1>3, <2>1, <2>3 DEF BatchIsFirst
<1>4. ASSUME NEW x \in Requests, Enqueue(x) PROVE BatchIsFirst'
  <2>1. /\ order' = Append(order, x) /\ x \notin Sent /\ UNCHANGED <<queue, batch, last>>
    BY <1>1, <1>4 DEF Enqueue, QueueInv, StatusFits, writer
  <2>2. \A r, s \in Sent : Precedes(r, s)' <=> Precedes(r, s)
    BY <1>1, <2>1, SentFacts, PrecedesGrows
  <2> QED BY <1>1, <2>1, <2>2, SentFacts DEF BatchIsFirst
<1>5. CASE Peek
  <2>1. PICK k \in Allowances : batch' = First(k)
    BY <1>5 DEF Peek
  <2>2. UNCHANGED <<queue, order>> /\ last' = {}
    BY <1>1, <1>5 DEF Peek, handler, QueueInv, BatchIsHeld
  <2>3. \A r \in First(k), s \in queue : Precedes(s, r) => s \in First(k)
    BY <1>1, ConstantsAssumption, FirstFacts DEF QueueInv
  <2> QED BY <2>1, <2>2, <2>3, PrecedesStays DEF BatchIsFirst
<1>6. CASE FindLast
  <2>1. First(Cardinality(batch)) = batch
    BY <1>1, SentFacts, FirstIsBatch DEF BatchIsFirst, QueueInv
  <2>2. last' \subseteq batch /\ UNCHANGED <<queue, order, batch>>
    BY <1>6, <2>1 DEF FindLast, handler
  <2> QED BY <1>1, <2>2, PrecedesStays DEF BatchIsFirst
<1>7. ASSUME UNCHANGED <<order, queue, batch, last>> PROVE BatchIsFirst'
  BY <1>1, <1>7, PrecedesStays DEF BatchIsFirst
<1>8. CASE WriteFile \/ WriteToLedger \/ UNCHANGED vars
  BY <1>7, <1>8 DEF WriteFile, WriteToLedger, vars, handler, writer
<1>9. CASE LedgerWriteFails
  <2>1. last = {}
    BY <1>1, <1>9 DEF LedgerWriteFails, QueueInv, BatchIsHeld
  <2> QED BY <1>2, <1>7, <1>9, <2>1 DEF LedgerWriteFails, handler
<1>10. CASE Delete \/ RoundFails \/ Crash
  BY <1>2, <1>10 DEF Delete, RoundFails, Crash
<1> QED BY <1>1, <1>3, <1>4, <1>5, <1>6, <1>8, <1>9, <1>10, RequestInserts
       DEF Next, HandlerStep, WriterStep, QueueInv

LEMMA LaterAnchoredBeforeQueued ==
  ASSUME OrderInv, [Next]_vars
  PROVE  AnchoredBeforeQueued'
<1>1. AnchoredBeforeQueued /\ QueueInv /\ InsertsComeLast
  BY DEF OrderInv
<1>2. ASSUME NEW L, Inserts(L) PROVE AnchoredBeforeQueued'
  <2>1. /\ queue' = queue \cup L /\ Anchored' = Anchored
        /\ \A r, s : Precedes(r, s)' <=> Precedes(r, s)
        /\ \A r \in L : r \in Requests /\ status[r] = "inserting"
    BY <1>2, PrecedesStays DEF Inserts, Anchored
  <2>2. \A r \in Anchored, s \in L : Precedes(r, s)
    BY <1>1, <2>1 DEF InsertsComeLast, Known
  <2> QED BY <1>1, <2>1, <2>2 DEF AnchoredBeforeQueued, SameDid
<1>3. ASSUME NEW x \in Requests, Enqueue(x) PROVE AnchoredBeforeQueued'
  <2>1. /\ order' = Append(order, x) /\ x \notin Sent /\ UNCHANGED queue /\ Anchored' = Anchored
    BY <1>1, <1>3 DEF Enqueue, QueueInv, StatusFits, Anchored
  <2>2. \A r, s \in Sent : Precedes(r, s)' <=> Precedes(r, s)
    BY <1>1, <2>1, SentFacts, PrecedesGrows
  <2> QED BY <1>1, <2>1, <2>2, SentFacts DEF AnchoredBeforeQueued, SameDid
<1>4. CASE WriterStep \/ LedgerWriteFails \/ RoundFails \/ UNCHANGED vars
  <2>1. UNCHANGED order /\ queue' \subseteq queue
    BY <1>4, WriterFrame DEF handler
  <2>2. Anchored' \subseteq Anchored \cup batch /\ batch \subseteq queue
    BY <1>1, AnchoredStep, SentFacts
  <2>3. \A r \in batch, s \in queue : SameDid(r, s) => r = s
    BY <1>1, <2>2 DEF QueueInv, OneOfADid
  <2> QED BY <1>1, <2>1, <2>2, <2>3, PrecedesStays DEF AnchoredBeforeQueued, SameDid
<1> QED BY <1>1, <1>2, <1>3, <1>4, RequestInserts, CrashInserts DEF Next, HandlerStep, QueueInv

LEMMA LaterAnchoredInOrder ==
  ASSUME OrderInv, [Next]_vars
  PROVE  AnchoredInOrder'
<1>1. AnchoredInOrder /\ AnchoredBeforeQueued /\ QueueInv
  BY DEF OrderInv
<1>2. \A r, s \in Sent : Precedes(r, s) => Precedes(r, s)'
  <2>1. CASE UNCHANGED order
    BY <2>1, PrecedesStays
  <2>2. ASSUME NEW x \in Requests, Enqueue(x)
        PROVE  \A r, s \in Sent : Precedes(r, s) => Precedes(r, s)'
    <3>1. order' = Append(order, x) /\ x \notin Sent
      BY <1>1, <2>2 DEF Enqueue, QueueInv, StatusFits
    <3> QED BY <1>1, <3>1, SentFacts, PrecedesGrows
  <2>3. UNCHANGED order \/ \E x \in Requests : Enqueue(x)
    BY DEF Next, HandlerStep, WriterStep, Check, Insert, RequestFails, Peek, WriteFile,
           WriteToLedger, LedgerWriteFails, FindLast, Delete, RoundFails, Crash, vars, handler
  <2> QED BY <2>1, <2>2, <2>3
<1>3. CASE chain' = chain
  <2> SUFFICES ASSUME NEW i \in DOMAIN chain, NEW j \in DOMAIN chain, i < j,
                      NEW r \in chain[i], NEW s \in chain[j], SameDid(r, s)
               PROVE  r = s \/ Precedes(r, s)'
    BY <1>3 DEF AnchoredInOrder, SameDid
  <2>1. r \in Sent /\ s \in Sent
    BY <1>1, AnchoredIn, SentFacts
  <2> QED BY <1>1, <1>2, <2>1 DEF AnchoredInOrder
<1>4. CASE chain' = Append(chain, batch)
  <2>1. /\ DOMAIN chain = 1 .. Len(chain) /\ Len(chain) \in Nat
        /\ DOMAIN chain' = 1 .. Len(chain) + 1
        /\ \A i \in DOMAIN chain : chain'[i] = chain[i]
        /\ chain'[Len(chain) + 1] = batch
    BY <1>1, <1>4, AnchoredGrows DEF QueueInv, TypeOK
  <2> SUFFICES ASSUME NEW i \in DOMAIN chain', NEW j \in DOMAIN chain', i < j,
                      NEW r \in chain'[i], NEW s \in chain'[j], SameDid(r, s)
               PROVE  r = s \/ Precedes(r, s)'
    BY DEF AnchoredInOrder, SameDid
  <2>2. i \in DOMAIN chain /\ r \in chain[i]
    BY <2>1
  <2>3. CASE j \in DOMAIN chain
    <3>1. s \in chain[j] /\ r \in Sent /\ s \in Sent
      BY <1>1, <2>1, <2>2, <2>3, AnchoredIn, SentFacts
    <3> QED BY <1>1, <1>2, <2>2, <2>3, <3>1 DEF AnchoredInOrder
  <2>4. CASE j = Len(chain) + 1
    <3>1. s \in queue /\ r \in Anchored /\ s \in Sent /\ r \in Sent
      BY <1>1, <2>1, <2>2, <2>4, AnchoredIn, SentFacts
    <3> QED BY <1>1, <1>2, <3>1 DEF AnchoredBeforeQueued
  <2> QED BY <2>1, <2>3, <2>4
<1> QED BY <1>1, <1>3, <1>4, AnchoredStep

LEMMA OrderNext == OrderedInserts /\ OrderInv /\ [Next]_vars => OrderInv'
BY QueueNext, LaterInsertsComeLast, LaterBatchIsFirst, LaterAnchoredBeforeQueued,
   LaterAnchoredInOrder DEF OrderInv

LEMMA OrderInvariant ==
  ASSUME OrderedInserts
  PROVE  Spec => []OrderInv
<1>1. OrderInv /\ [Next]_vars => OrderInv'
  BY OrderNext
<1> QED BY <1>1, OrderInit, PTL DEF Spec

\* Operations of one DID are anchored in the order they were queued, also when a batch is
\* anchored again after a failure, provided the database executes the inserts in the order
\* of their _id.  BatchWriter takes the first documents sorted by _id.
THEOREM AlwaysAnchoredInOrder ==
  ASSUME OrderedInserts
  PROVE  Spec => []AnchoredInOrder
<1>1. OrderInv => AnchoredInOrder
  BY DEF OrderInv
<1> QED BY <1>1, OrderInvariant, PTL

-----------------------------------------------------------------------------
(* Anchoring once                                                          *)

LEMMA OnceInit == Init => OnceInv
<1> SUFFICES ASSUME Init PROVE OnceInv
  OBVIOUS
<1>1. Anchored = {}
  BY DEF Init, Anchored
<1> QED BY <1>1, OrderInit DEF Init, OnceInv, RemovedWhole, AnchoredOnce

LEMMA OnceNext ==
  ASSUME OnceInv, [Next]_vars
  PROVE  RemovedWhole' /\ AnchoredOnce'
<1>1. OrderInv /\ QueueInv /\ TypeOK /\ faults \in Nat
  BY ConstantsAssumption DEF OnceInv, OrderInv, QueueInv, TypeOK
<1> SUFFICES ASSUME faults' = 0 PROVE RemovedWhole' /\ AnchoredOnce'
  BY DEF RemovedWhole, AnchoredOnce
<1>2. faults = 0 /\ faults' # faults + 1
  BY <1>1, FaultsStep
<1>3. /\ pc \in {"idle", "files"} => queue \cap Anchored = {}
      /\ queue \cap Anchored \subseteq batch
      /\ pc = "delete" => \A r \in batch : \E l \in last : r = l \/ Precedes(r, l)
  BY <1>2 DEF OnceInv, RemovedWhole
<1>4. AnchoredOnce'
  <2>1. CASE chain' = chain
    BY <1>2, <2>1 DEF OnceInv, AnchoredOnce
  <2>2. CASE pc = "files" /\ batch \subseteq queue /\ chain' = Append(chain, batch)
    <3>1. /\ DOMAIN chain = 1 .. Len(chain) /\ Len(chain) \in Nat
          /\ DOMAIN chain' = 1 .. Len(chain) + 1
          /\ \A i \in DOMAIN chain : chain'[i] = chain[i]
          /\ chain'[Len(chain) + 1] = batch
      BY <1>1, <2>2, AnchoredGrows DEF TypeOK
    <3>2. \A i \in DOMAIN chain : chain[i] \cap batch = {}
      BY <1>3, <2>2, AnchoredIn
    <3>3. \A i \in DOMAIN chain' : i \in DOMAIN chain \/ i = Len(chain) + 1
      BY <3>1
    <3> SUFFICES ASSUME NEW i \in DOMAIN chain', NEW j \in DOMAIN chain', i # j
                 PROVE  chain'[i] \cap chain'[j] = {}
      BY DEF AnchoredOnce
    <3> QED BY <1>2, <3>1, <3>2, <3>3 DEF OnceInv, AnchoredOnce
  <2> QED BY <1>1, <2>1, <2>2, AnchoredStep
<1>5. ASSUME NEW L, Inserts(L), UNCHANGED writer PROVE RemovedWhole'
  <2>1. /\ queue' = queue \cup L /\ Anchored' = Anchored
        /\ \A r, s : Precedes(r, s)' <=> Precedes(r, s)
        /\ \A r \in L : r \in Requests /\ status[r] = "inserting"
    BY <1>5, PrecedesStays DEF Inserts, Anchored
  <2>2. L \cap Anchored = {}
    BY <1>1, <2>1, SentFacts DEF Known
  <2> QED BY <1>3, <1>5, <2>1, <2>2 DEF RemovedWhole, writer
<1>6. ASSUME NEW x \in Requests, Enqueue(x) PROVE RemovedWhole'
  <2>1. /\ order' = Append(order, x) /\ x \notin Sent /\ UNCHANGED <<queue, writer>>
        /\ Anchored' = Anchored
    BY <1>1, <1>6 DEF Enqueue, QueueInv, StatusFits, Anchored
  <2>2. \A r, s \in Sent : Precedes(r, s)' <=> Precedes(r, s)
    BY <1>1, <2>1, SentFacts, PrecedesGrows
  <2>3. batch \subseteq Sent /\ last \subseteq Sent
    BY <1>1, SentFacts DEF OrderInv, BatchIsFirst
  <2> QED BY <1>3, <2>1, <2>2, <2>3 DEF RemovedWhole, writer
<1>7. CASE Peek
  BY <1>1, <1>3, <1>4, <1>7 DEF Peek, RemovedWhole, NextRound, Anchored, QueueInv, BatchIsHeld
<1>8. CASE WriteFile \/ UNCHANGED vars
  <2>1. UNCHANGED <<queue, order, writer>> /\ Anchored' = Anchored
    BY <1>8 DEF WriteFile, vars, handler, Anchored
  <2> QED BY <1>3, <1>4, <2>1, PrecedesStays DEF RemovedWhole, writer
<1>9. CASE WriteToLedger
  <2>1. Anchored' = Anchored \cup batch
    BY <1>1, <1>9, AnchoredGrows DEF WriteToLedger, TypeOK
  <2> QED BY <1>3, <1>4, <1>9, <2>1 DEF WriteToLedger, RemovedWhole
<1>10. CASE FindLast
  <2>1. First(Cardinality(batch)) = batch
    BY <1>1, SentFacts, FirstIsBatch DEF OrderInv, BatchIsFirst
  <2>2. /\ last' = {r \in batch : IsLastOf(r, batch)} /\ pc' = "delete"
        /\ UNCHANGED <<queue, order, batch>> /\ Anchored' = Anchored
    BY <1>10, <2>1 DEF FindLast, IsLastOf, handler, Anchored
  <2>3. \A r \in batch : \E l \in last' : r = l \/ Precedes(r, l)
    <3> SUFFICES ASSUME NEW r \in batch PROVE \E l \in last' : r = l \/ Precedes(r, l)
      OBVIOUS
    <3>1. PICK l \in batch : IsLastOf(l, batch)
      BY <1>1, SentFacts, HasLast
    <3> QED BY <2>2, <3>1 DEF IsLastOf
  <2> QED BY <1>3, <1>4, <2>2, <2>3, PrecedesStays DEF RemovedWhole
<1>11. CASE Delete
  <2>1. /\ queue' = {r \in queue : \A l \in last : Precedes(l, r)} /\ pc = "delete"
        /\ pc' = "idle" /\ Anchored' = Anchored
    BY <1>11 DEF Delete, KeptByDequeue, NextRound, Anchored
  <2>2. \A r \in batch : r \notin queue'
    BY <1>1, <1>3, <2>1, PrecedesIsOrder DEF TypeOK
  <2>3. queue' \cap Anchored = {}
    BY <1>3, <2>1, <2>2
  <2> QED BY <1>4, <2>1, <2>3 DEF RemovedWhole
<1>12. ~LedgerWriteFails /\ ~RoundFails /\ ~Crash /\ \A r \in Requests : ~RequestFails(r)
  BY <1>2 DEF LedgerWriteFails, RoundFails, Crash, RequestFails
<1>13. ASSUME NEW r \in Requests, Check(r) \/ Insert(r) PROVE RemovedWhole'
  BY <1>1, <1>5, <1>13, RequestInserts DEF writer
<1> QED BY <1>4, <1>6, <1>7, <1>8, <1>9, <1>10, <1>11, <1>12, <1>13
       DEF Next, HandlerStep, WriterStep

\* As long as nothing failed no operation is anchored twice, provided the database executes
\* the inserts in the order of their _id: dequeue counts on the first documents being the
\* batch it was called for.
THEOREM AlwaysAnchoredOnce ==
  ASSUME OrderedInserts
  PROVE  Spec => []AnchoredOnce
<1>1. OnceInv /\ [Next]_vars => OnceInv'
  BY OrderNext, OnceNext DEF OnceInv
<1>2. OnceInv => AnchoredOnce
  BY DEF OnceInv
<1> QED BY <1>1, <1>2, OnceInit, PTL DEF Spec

-----------------------------------------------------------------------------
(* The queue and the ledger implement AnchoringService                     *)

PromiseInv == OrderInv /\ RemovedIsAnchored

LEMMA PromiseInit == Init => PromiseInv
BY OrderInit DEF Init, PromiseInv, RemovedIsAnchored

LEMMA LaterRemovedIsAnchored ==
  ASSUME ~SwallowsWriteErrors, PromiseInv, [Next]_vars
  PROVE  RemovedIsAnchored'
<1>1. QueueInv /\ (pc \in {"dequeue", "delete"} => batch \subseteq Anchored)
  BY DEF PromiseInv, OrderInv, RemovedIsAnchored
<1>2. Anchored \subseteq Anchored'
  BY <1>1, AnchoredStep
<1>3. ASSUME UNCHANGED writer PROVE RemovedIsAnchored'
  BY <1>1, <1>2, <1>3 DEF RemovedIsAnchored, writer
<1>4. ASSUME batch' = {} \/ pc' \in {"idle", "files"} PROVE RemovedIsAnchored'
  BY <1>4 DEF RemovedIsAnchored
<1>5. CASE WriteToLedger
  <2>1. Anchored' = Anchored \cup batch
    BY <1>1, <1>5, AnchoredGrows DEF WriteToLedger, QueueInv, TypeOK
  <2> QED BY <1>5, <2>1 DEF WriteToLedger, RemovedIsAnchored
<1>6. CASE FindLast
  BY <1>1, <1>2, <1>6 DEF FindLast, RemovedIsAnchored
<1> QED BY <1>3, <1>4, <1>5, <1>6
       DEF Next, HandlerStep, WriterStep, Check, Enqueue, Insert, RequestFails, Peek, WriteFile,
           LedgerWriteFails, Delete, RoundFails, Crash, vars, NextRound

\* Only documents of the batch are removed, and the batch is on the ledger.
LEMMA OnlyAnchoredRemoved ==
  ASSUME PromiseInv, [Next]_vars
  PROVE  queue \ queue' \subseteq Anchored
<1>1. TypeOK /\ queue \subseteq Sent /\ Sent \subseteq Requests /\ BatchIsFirst /\ RemovedIsAnchored
  BY SentFacts DEF PromiseInv, OrderInv, QueueInv
<1>2. CASE Delete
  <2>1. queue' = {r \in queue : \A l \in last : Precedes(l, r)} /\ pc = "delete"
    BY <1>2 DEF Delete, KeptByDequeue
  <2> SUFFICES ASSUME NEW r \in queue, r \notin queue' PROVE r \in Anchored
    OBVIOUS
  <2>2. PICK l \in last : ~Precedes(l, r)
    BY <2>1
  <2>3. l \in batch /\ l \in queue
    BY <1>1, SentFacts DEF BatchIsFirst, PromiseInv, OrderInv
  <2>4. r \in batch
    BY <1>1, <2>2, <2>3, PrecedesIsOrder DEF TypeOK, BatchIsFirst
  <2> QED BY <1>1, <2>1, <2>4 DEF RemovedIsAnchored
<1>3. Delete \/ queue \subseteq queue'
  BY DEF Next, HandlerStep, WriterStep, Check, Enqueue, Insert, RequestFails, Peek, WriteFile,
         WriteToLedger, LedgerWriteFails, FindLast, RoundFails, Crash, vars
<1> QED BY <1>2, <1>3

LEMMA StepIsServiceStep ==
  ASSUME PromiseInv, [Next]_vars
  PROVE  [Service!Next]_(Service!vars)
<1>1. /\ QueueInv /\ queue \subseteq Requests /\ Anchored \subseteq Requests
      /\ batch \subseteq queue
  BY SentFacts DEF PromiseInv, OrderInv
<1>2. ASSUME NEW L, Inserts(L) PROVE [Service!Next]_(Service!vars)
  <2>1. /\ queue' = queue \cup L /\ Anchored' = Anchored /\ L \subseteq Requests
        /\ \A r \in L : status[r] = "inserting"
    BY <1>2 DEF Inserts, Anchored
  <2>2. L \cap (queue \cup Anchored) = {}
    BY <1>1, <2>1, SentFacts DEF Known
  <2>3. CASE L = {}
    BY <2>1, <2>3 DEF Service!vars
  <2>4. CASE L # {}
    <3>1. Service!Take(L)
      BY <2>1, <2>2, <2>4 DEF Service!Take
    <3> QED BY <2>1, <3>1 DEF Service!Next
  <2> QED BY <2>3, <2>4
<1>3. CASE chain' # chain
  <2>1. /\ pc = "files" /\ Anchored' = Anchored \cup batch /\ queue' = queue
        /\ batch # {}
    BY <1>1, <1>3, AnchoredStep DEF QueueInv, BatchIsHeld
  <2>2. Service!AnchorBatch(batch)
    BY <1>1, <2>1 DEF Service!AnchorBatch
  <2> QED BY <1>1, <2>2 DEF Service!Next
<1>4. CASE chain' = chain /\ queue' \subseteq queue
  <2>1. Anchored' = Anchored /\ queue \ queue' \subseteq queue \cap Anchored
    BY <1>4, OnlyAnchoredRemoved DEF Anchored
  <2>2. CASE queue' = queue
    BY <2>1, <2>2 DEF Service!vars
  <2>3. CASE queue' # queue
    <3>1. Service!LetGo(queue \ queue')
      BY <1>4, <2>1, <2>3 DEF Service!LetGo
    <3> QED BY <1>1, <3>1 DEF Service!Next
  <2> QED BY <2>2, <2>3
<1>5. (\E L : Inserts(L)) \/ queue' \subseteq queue
  BY <1>1, RequestInserts, CrashInserts, WriterFrame DEF Next, HandlerStep, Enqueue, QueueInv
<1> QED BY <1>2, <1>3, <1>4, <1>5

\* The write side keeps its promise: an operation in the queue stays there until it is on the
\* ledger, and nothing on the ledger goes away, whatever fails and whenever the node stops.
\* It takes a database that executes the inserts in the order of their _id and a ledger
\* whose write rejects when it failed.
THEOREM ImplementsService ==
  ASSUME OrderedInserts, ~SwallowsWriteErrors
  PROVE  Spec => ServiceSpec
<1>1. PromiseInv /\ [Next]_vars => PromiseInv'
  BY OrderNext, LaterRemovedIsAnchored DEF PromiseInv
<1>2. Init => Service!Init
  BY DEF Init, Service!Init, Anchored
<1>3. PromiseInv /\ [Next]_vars => [Service!Next]_(Service!vars)
  BY StepIsServiceStep
<1> QED BY <1>1, <1>2, <1>3, PromiseInit, PTL DEF Spec, ServiceSpec, Service!Spec

\* What leaves the queue is on the ledger, as BatchWriter says of its dequeue, under the same
\* two conditions; a ledger that swallows its errors breaks it.
THEOREM RemovedAreAlwaysWritten ==
  ASSUME OrderedInserts, ~SwallowsWriteErrors
  PROVE  Spec => RemovedAreWritten
<1>1. PromiseInv /\ [Next]_vars => PromiseInv'
  BY OrderNext, LaterRemovedIsAnchored DEF PromiseInv
<1>2. PromiseInv /\ [Next]_vars => [queue \ queue' \subseteq Anchored]_vars
  BY OnlyAnchoredRemoved
<1> QED BY <1>1, <1>2, PromiseInit, PTL DEF Spec, RemovedAreWritten
=============================================================================
