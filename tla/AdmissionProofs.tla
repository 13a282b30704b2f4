--------------------------- MODULE AdmissionProofs ---------------------------
(***************************************************************************)
(* Proofs about Admission, for every ledger, set of locks, fee schedule    *)
(* and setting of the limits: what the batch writer paid and the lock it   *)
(* named still satisfy the reader, so the node never refuses a batch of    *)
(* its own without the ledger giving it a reason; what one read takes of a *)
(* transaction time are the ones that paid most; and what is recorded of   *)
(* it keeps the limits.                                                    *)
(***************************************************************************)
EXTENDS Admission, FiniteSetTheorems, SequenceTheorems, WellFoundedInduction, TLAPS

\* What the batch writer prepared at a time, and what such a batch looks like on the ledger.
Prepared(ops, fee, lock, since) ==
  /\ since \in Times
  /\ MayBatch(lock, ops)
  /\ fee = MinimumFee(NormalizedFee[since], ops)
  /\ lock # NoLock => lock \in Locks /\ lock.owner = Self /\ lock.from <= since

DraftIsPrepared ==
  draft # NoDraft =>
    Prepared(draft.ops, draft.fee, draft.lock, draft.since) /\ draft.since <= time

OwnArePrepared ==
  \A n \in DOMAIN ledger : ledger[n].writer = Self =>
    /\ Prepared(ledger[n].ops, ledger[n].fee, ledger[n].lock, ledger[n].since)
    /\ ledger[n].since <= ledger[n].time

\* A transaction whose processing has ended is accepted if it was paid for.
Judged(n) == Accepted(ledger[n]) => n \in accepted

ListedAreJudged == \A i \in DOMAIN listed : listed[i].done => Judged(listed[i].number)
StoredAreJudged == \A n \in stored : Judged(n)

Inv == TypeOK /\ DraftIsPrepared /\ OwnArePrepared /\ ListedAreJudged /\ StoredAreJudged

Records == [writer : Writers, fee : Nat, ops : Nat, lock : Locks \cup {NoLock},
            since : Times, time : Times]
EntriesOfList == [number : DOMAIN ledger, done : BOOLEAN]

-----------------------------------------------------------------------------
(* Fees                                                                    *)

LEMMA ProductIsMonotone ==
  ASSUME NEW a \in Nat, NEW b \in Nat, NEW c \in Nat, a <= b
  PROVE  a * c <= b * c
<1>1. PICK d \in Nat : b = a + d
  <2>1. b - a \in Nat /\ b = a + (b - a)
    OBVIOUS
  <2> QED BY <2>1
<1>2. b * c = a * c + d * c
  BY <1>1
<1>3. d * c \in Nat /\ a * c \in Nat
  BY <1>1
<1> QED BY <1>2, <1>3

LEMMA MinimumFeeType ==
  ASSUME NEW fee \in Nat, NEW n \in Nat
  PROVE  /\ MinimumFee(fee, n) \in Nat
         /\ fee * FeeDivisor \in Nat /\ fee * FeeMultiplier * n \in Nat
         /\ MinimumFee(fee, n) >= fee * FeeDivisor
         /\ MinimumFee(fee, n) >= fee * FeeMultiplier * n
<1>1. fee * FeeDivisor \in Nat
  BY ConstantsAssumption
<1>2. fee * FeeMultiplier \in Nat
  BY ConstantsAssumption
<1>3. fee * FeeMultiplier * n \in Nat
  BY <1>2
<1>4. \A a, b \in Nat : Larger(a, b) \in Nat /\ Larger(a, b) >= a /\ Larger(a, b) >= b
  BY DEF Larger
<1> QED BY <1>1, <1>3, <1>4 DEF MinimumFee

\* What FeeManager computes as the minimum at one fee passes its own check at every fee
\* that is not higher (FeeManager.ts:36-58 and 69-100).
THEOREM MinimumFeeSuffices ==
  ASSUME NEW old \in Nat, NEW now \in Nat, NEW n \in Nat, n > 0, now <= old
  PROVE  PaysFee(MinimumFee(old, n), n, now)
<1> DEFINE paid == MinimumFee(old, n)
<1>1. /\ paid \in Nat /\ old * FeeDivisor \in Nat /\ old * FeeMultiplier * n \in Nat
      /\ paid >= old * FeeDivisor /\ paid >= old * FeeMultiplier * n
  BY MinimumFeeType
<1>2. now * FeeDivisor \in Nat /\ now * FeeMultiplier * n \in Nat
  BY MinimumFeeType
<1>3. now * FeeDivisor <= old * FeeDivisor
  BY ProductIsMonotone, ConstantsAssumption
<1>4. now * FeeMultiplier <= old * FeeMultiplier
  BY ProductIsMonotone, ConstantsAssumption
<1>5. now * FeeMultiplier * n <= old * FeeMultiplier * n
  <2>1. now * FeeMultiplier \in Nat /\ old * FeeMultiplier \in Nat
    BY ConstantsAssumption
  <2> QED BY <1>4, <2>1, ProductIsMonotone
<1> HIDE DEF paid
<1>6. paid >= now * FeeDivisor /\ paid >= now * FeeMultiplier * n
  BY <1>1, <1>2, <1>3, <1>5
<1> QED BY <1>6 DEF PaysFee, paid

\* A batch that was prepared is accepted at the time it was anchored, unless the fee rose or
\* the lock it needs has run out.
LEMMA PreparedIsAccepted ==
  ASSUME NEW tx \in Records, tx.writer = Self, tx.since <= tx.time,
         Prepared(tx.ops, tx.fee, tx.lock, tx.since),
         NormalizedFee[tx.time] <= NormalizedFee[tx.since],
         tx.ops <= FreeOperations \/ tx.time < tx.lock.until
  PROVE  Accepted(tx)
<1>1. /\ tx.ops \in Nat /\ tx.since \in Times /\ tx.time \in Times
      /\ tx.since \in Int /\ tx.time \in Int
  BY ConstantsAssumption DEF Records, Times
<1>2. NormalizedFee[tx.time] \in Nat /\ NormalizedFee[tx.since] \in Nat
  BY <1>1, ConstantsAssumption
<1>3. tx.ops \in 1 .. MaxOperationsPerBatch /\ LockAllows(tx.lock, tx.ops)
  BY DEF Prepared, MayBatch
<1>4. Readable(tx)
  BY <1>3 DEF Readable
<1>5. PaysFee(tx.fee, tx.ops, NormalizedFee[tx.time])
  <2>1. tx.ops > 0
    BY <1>3, ConstantsAssumption
  <2> QED BY <1>1, <1>2, <2>1, MinimumFeeSuffices DEF Prepared
<1>6. PaysLock(tx)
  <2>1. CASE tx.ops <= FreeOperations
    BY <2>1 DEF PaysLock
  <2>2. CASE ~(tx.ops <= FreeOperations)
    <3>1. tx.lock # NoLock
      BY <1>3, <2>2 DEF LockAllows
    <3>2. tx.lock \in Locks /\ tx.lock.owner = tx.writer /\ tx.lock.from <= tx.since
      BY <3>1 DEF Prepared
    <3>3. tx.lock.from \in Int
      BY <3>2, ConstantsAssumption DEF Times
    <3>4. tx.lock.from <= tx.time
      BY <1>1, <3>2, <3>3
    <3> QED BY <1>3, <2>2, <3>1, <3>2, <3>4 DEF PaysLock, InForce
  <2> QED BY <2>1, <2>2
<1> QED BY <1>4, <1>5, <1>6 DEF Accepted

-----------------------------------------------------------------------------
(* The invariant                                                           *)

LEMMA InitInv == Init => Inv
<1> SUFFICES ASSUME Init PROVE Inv
  OBVIOUS
<1>1. TypeOK
  <2>1. NoDraft \in [ops : Nat, fee : Nat, lock : Locks \cup {NoLock}, since : Nat]
    BY DEF NoDraft
  <2>2. time \in Times
    BY ConstantsAssumption DEF Init, Times
  <2> QED BY <2>1, <2>2 DEF Init, TypeOK
<1> QED BY <1>1 DEF Init, Inv, DraftIsPrepared, OwnArePrepared, ListedAreJudged, StoredAreJudged

\* Appending a transaction to the ledger changes nothing about the earlier ones.
LEMMA AnchorKeepsInv ==
  ASSUME TypeOK, OwnArePrepared, ListedAreJudged, StoredAreJudged,
         NEW tx \in Records, ledger' = Append(ledger, tx),
         tx.writer = Self =>
           Prepared(tx.ops, tx.fee, tx.lock, tx.since) /\ tx.since <= tx.time,
         UNCHANGED <<time, node>>
  PROVE  /\ ledger' \in Seq(Records)
         /\ (stored \subseteq DOMAIN ledger)'
         /\ (listed \in Seq(EntriesOfList))'
         /\ OwnArePrepared' /\ ListedAreJudged' /\ StoredAreJudged'
<1>1. ledger \in Seq(Records) /\ listed \in Seq(EntriesOfList) /\ stored \subseteq DOMAIN ledger
  BY DEF TypeOK, Records, EntriesOfList
<1>2. /\ ledger' \in Seq(Records) /\ DOMAIN ledger \subseteq DOMAIN ledger'
      /\ DOMAIN ledger' = DOMAIN ledger \cup {Len(ledger) + 1}
      /\ \A n \in DOMAIN ledger : ledger'[n] = ledger[n]
      /\ ledger'[Len(ledger) + 1] = tx
  BY <1>1
<1>3. stored' = stored /\ listed' = listed /\ accepted' = accepted
  BY DEF node
<1>4. \A n \in DOMAIN ledger : Judged(n) => Judged(n)'
  BY <1>2, <1>3 DEF Judged
<1>5. \A i \in DOMAIN listed : listed[i].number \in DOMAIN ledger
  <2>1. \A i \in DOMAIN listed : listed[i] \in EntriesOfList
    BY <1>1
  <2> QED BY <2>1 DEF EntriesOfList
<1>6. ListedAreJudged'
  BY <1>3, <1>4, <1>5 DEF ListedAreJudged
<1>7. StoredAreJudged'
  BY <1>1, <1>3, <1>4 DEF StoredAreJudged
<1>8. OwnArePrepared'
  BY <1>2 DEF OwnArePrepared
<1>9. (stored \subseteq DOMAIN ledger)'
  BY <1>1, <1>2, <1>3
<1>10. (listed \in Seq(EntriesOfList))'
  <2>1. EntriesOfList \subseteq EntriesOfList'
    BY <1>2 DEF EntriesOfList
  <2> QED BY <1>1, <1>3, <2>1
<1> QED BY <1>2, <1>6, <1>7, <1>8, <1>9, <1>10

LEMMA PrepareInv == Inv /\ Prepare => Inv'
<1> SUFFICES ASSUME Inv, Prepare PROVE Inv'
  OBVIOUS
<1>1. PICK lock \in {l \in Locks : l.owner = Self /\ InForce(l, time)} \cup {NoLock},
           n \in 1 .. MaxQueued :
        /\ MayBatch(lock, n)
        /\ draft' = [ops |-> n, fee |-> MinimumFee(NormalizedFee[time], n),
                     lock |-> lock, since |-> time]
  BY DEF Prepare
<1>2. time \in Times /\ time \in Nat /\ n \in Nat
  BY ConstantsAssumption DEF Inv, TypeOK, Times
<1>3. MinimumFee(NormalizedFee[time], n) \in Nat
  <2>1. NormalizedFee[time] \in Nat
    BY <1>2, ConstantsAssumption
  <2> QED BY <1>2, <2>1, MinimumFeeType
<1>4. lock \in Locks \cup {NoLock}
  OBVIOUS
<1>5. draft' \in [ops : Nat, fee : Nat, lock : Locks \cup {NoLock}, since : Nat]
  BY <1>1, <1>2, <1>3, <1>4
<1>6. lock # NoLock => lock \in Locks /\ lock.owner = Self /\ lock.from <= time
  BY DEF InForce
<1>7. /\ draft'.ops = n /\ draft'.fee = MinimumFee(NormalizedFee[time], n)
      /\ draft'.lock = lock /\ draft'.since = time
  BY <1>1
<1>8. Prepared(draft'.ops, draft'.fee, draft'.lock, draft'.since) /\ draft'.since <= time
  BY <1>1, <1>2, <1>6, <1>7 DEF Prepared
<1>9. UNCHANGED <<time, ledger, stored, listed, accepted>>
  BY DEF Prepare, node
<1>10. DraftIsPrepared'
  BY <1>8, <1>9 DEF DraftIsPrepared
<1>11. TypeOK'
  BY <1>5, <1>9 DEF Inv, TypeOK
<1>12. \A m : Judged(m)' <=> Judged(m)
  BY <1>9 DEF Judged
<1> QED BY <1>9, <1>10, <1>11, <1>12
       DEF Inv, OwnArePrepared, ListedAreJudged, StoredAreJudged

LEMMA WriteInv == Inv /\ Write => Inv'
<1> SUFFICES ASSUME Inv, Write PROVE Inv'
  OBVIOUS
<1> DEFINE tx == [writer |-> Self, fee |-> draft.fee, ops |-> draft.ops, lock |-> draft.lock,
                  since |-> draft.since, time |-> time]
<1>1. Prepared(draft.ops, draft.fee, draft.lock, draft.since) /\ draft.since <= time
  BY DEF Inv, Write, DraftIsPrepared
<1>2. tx \in Records
  BY <1>1, ConstantsAssumption DEF Inv, TypeOK, Prepared, Records
<1>3. ledger' = Append(ledger, tx) /\ draft' = NoDraft /\ UNCHANGED <<time, node>>
  BY DEF Write, Anchor
<1>4. tx.writer = Self => Prepared(tx.ops, tx.fee, tx.lock, tx.since) /\ tx.since <= tx.time
  BY <1>1
<1> HIDE DEF tx
<1>5. /\ ledger' \in Seq(Records) /\ (stored \subseteq DOMAIN ledger)'
      /\ (listed \in Seq(EntriesOfList))'
      /\ OwnArePrepared' /\ ListedAreJudged' /\ StoredAreJudged'
  BY <1>2, <1>3, <1>4, AnchorKeepsInv DEF Inv
<1>6. NoDraft \in [ops : Nat, fee : Nat, lock : Locks \cup {NoLock}, since : Nat]
  BY DEF NoDraft
<1>7. TypeOK'
  BY <1>3, <1>5, <1>6 DEF Inv, TypeOK, Records, EntriesOfList
<1>8. DraftIsPrepared'
  BY <1>3 DEF DraftIsPrepared
<1> QED BY <1>5, <1>7, <1>8 DEF Inv

LEMMA AnchorOtherInv == Inv /\ AnchorOther => Inv'
<1> SUFFICES ASSUME Inv, AnchorOther PROVE Inv'
  OBVIOUS
<1>1. PICK content \in Anchorable : Anchor(content.writer, content, time)
  BY DEF AnchorOther
<1> DEFINE tx == [writer |-> content.writer, fee |-> content.fee, ops |-> content.ops,
                  lock |-> content.lock, since |-> time, time |-> time]
<1>2. tx \in Records /\ tx.writer # Self
  BY ConstantsAssumption DEF Inv, TypeOK, Contents, Records
<1>3. ledger' = Append(ledger, tx) /\ draft' = draft /\ UNCHANGED <<time, node>>
  BY <1>1 DEF AnchorOther, Anchor
<1> HIDE DEF tx
<1>4. /\ ledger' \in Seq(Records) /\ (stored \subseteq DOMAIN ledger)'
      /\ (listed \in Seq(EntriesOfList))'
      /\ OwnArePrepared' /\ ListedAreJudged' /\ StoredAreJudged'
  BY <1>2, <1>3, AnchorKeepsInv DEF Inv
<1>5. TypeOK'
  BY <1>3, <1>4 DEF Inv, TypeOK, Records, EntriesOfList
<1>6. DraftIsPrepared'
  BY <1>3 DEF Inv, DraftIsPrepared
<1> QED BY <1>4, <1>5, <1>6 DEF Inv

LEMMA ReadInv == Inv /\ Read => Inv'
<1> SUFFICES ASSUME Inv, Read PROVE Inv'
  OBVIOUS
<1> DEFINE chosen == Qualified(Page)
<1>1. PICK new \in [1 .. Cardinality(chosen) -> chosen] :
        listed' = listed \o [i \in DOMAIN new |-> [number |-> new[i], done |-> FALSE]]
  BY DEF Read
<1> DEFINE added == [i \in DOMAIN new |-> [number |-> new[i], done |-> FALSE]]
<1>2. chosen \subseteq DOMAIN ledger
  BY DEF Qualified, Page
<1>3. Cardinality(chosen) \in Nat
  <2>1. DOMAIN ledger = 1 .. Len(ledger) /\ Len(ledger) \in Nat
    BY DEF Inv, TypeOK
  <2>2. IsFiniteSet(DOMAIN ledger)
    BY <2>1, FS_Interval
  <2>3. IsFiniteSet(chosen)
    BY <1>2, <2>2, FS_Subset
  <2> QED BY <2>3, FS_CardinalityType
<1> HIDE DEF chosen
<1>4. added \in Seq(EntriesOfList) /\ Len(added) = Cardinality(chosen)
  <2>1. DOMAIN added = 1 .. Cardinality(chosen)
    BY <1>1
  <2>2. \A i \in DOMAIN added : added[i] \in EntriesOfList
    BY <1>1, <1>2 DEF EntriesOfList
  <2>3. added \in [1 .. Cardinality(chosen) -> EntriesOfList]
    BY <2>1, <2>2
  <2> HIDE DEF added
  <2> QED BY <1>3, <2>1, <2>3
<1>5. \A i \in DOMAIN added : ~added[i].done
  OBVIOUS
<1>6. listed \in Seq(EntriesOfList)
  BY DEF Inv, TypeOK, EntriesOfList
<1> HIDE DEF added
<1>7. UNCHANGED <<time, ledger, stored, accepted, draft>> /\ listed' = listed \o added
  BY <1>1 DEF Read, added
<1>8. listed' \in Seq(EntriesOfList)
  BY <1>4, <1>6, <1>7
<1>9. \A i \in DOMAIN listed' : listed'[i].done => i \in DOMAIN listed /\ listed'[i] = listed[i]
  <2> SUFFICES ASSUME NEW i \in DOMAIN listed', listed'[i].done
      PROVE i \in DOMAIN listed /\ listed'[i] = listed[i]
    OBVIOUS
  <2>1. i \in 1 .. Len(listed) + Len(added)
    BY <1>4, <1>6, <1>7
  <2>2. CASE i \in 1 .. Len(listed)
    BY <1>4, <1>6, <1>7, <2>2
  <2>3. CASE i \notin 1 .. Len(listed)
    <3>1. i - Len(listed) \in DOMAIN added /\ listed'[i] = added[i - Len(listed)]
      BY <1>4, <1>6, <1>7, <2>1, <2>3
    <3> QED BY <1>5, <3>1
  <2> QED BY <2>2, <2>3
<1>10. \A m : Judged(m)' <=> Judged(m)
  BY <1>7 DEF Judged
<1>11. TypeOK'
  BY <1>7, <1>8 DEF Inv, TypeOK, EntriesOfList
<1>12. ListedAreJudged'
  BY <1>9, <1>10 DEF Inv, ListedAreJudged
<1> QED BY <1>7, <1>10, <1>11, <1>12
       DEF Inv, DraftIsPrepared, OwnArePrepared, StoredAreJudged

LEMMA StoreInv == Inv /\ Store => Inv'
<1> SUFFICES ASSUME Inv, Store PROVE Inv'
  OBVIOUS
<1>1. UNCHANGED <<time, ledger, accepted, draft>>
  BY DEF Store
<1>2. \A m : Judged(m)' <=> Judged(m)
  BY <1>1 DEF Judged
<1>3. CASE stored' = stored /\ listed' = listed
  BY <1>1, <1>2, <1>3
     DEF Inv, TypeOK, DraftIsPrepared, OwnArePrepared, ListedAreJudged, StoredAreJudged
<1>4. CASE /\ listed # << >> /\ Head(listed).done
           /\ stored' = stored \cup {Head(listed).number} /\ listed' = Tail(listed)
  <2>1. listed \in Seq(EntriesOfList)
    BY DEF Inv, TypeOK, EntriesOfList
  <2>2. 1 \in DOMAIN listed /\ Head(listed) = listed[1] /\ listed[1] \in EntriesOfList
    BY <1>4, <2>1
  <2>3. Judged(Head(listed).number) /\ Head(listed).number \in DOMAIN ledger
    BY <1>4, <2>2 DEF Inv, ListedAreJudged, EntriesOfList
  <2>4. /\ listed' \in Seq(EntriesOfList)
        /\ \A i \in DOMAIN listed' : i + 1 \in DOMAIN listed /\ listed'[i] = listed[i + 1]
    BY <1>4, <2>1
  <2>5. ListedAreJudged'
    BY <1>2, <2>4 DEF Inv, ListedAreJudged
  <2>6. StoredAreJudged'
    BY <1>2, <1>4, <2>3 DEF Inv, StoredAreJudged
  <2>7. TypeOK'
    BY <1>1, <1>4, <2>3, <2>4 DEF Inv, TypeOK, EntriesOfList
  <2> QED BY <1>1, <2>5, <2>6, <2>7 DEF Inv, DraftIsPrepared, OwnArePrepared
<1> QED BY <1>3, <1>4 DEF Store

LEMMA FinishInv ==
  ASSUME Inv, NEW i \in DOMAIN listed, Finish(i)
  PROVE  Inv'
<1>1. UNCHANGED <<time, ledger, stored, draft>>
  BY DEF Finish
<1>2. listed \in Seq(EntriesOfList)
  BY DEF Inv, TypeOK, EntriesOfList
<1>3. /\ listed' = [listed EXCEPT ![i].done = TRUE]
      /\ accepted' = IF Accepted(ledger[listed[i].number])
                   THEN accepted \cup {listed[i].number} ELSE accepted
  BY DEF Finish
<1>4. /\ listed' \in Seq(EntriesOfList) /\ DOMAIN listed' = DOMAIN listed
      /\ \A j \in DOMAIN listed : listed'[j].number = listed[j].number
      /\ \A j \in DOMAIN listed : j # i => listed'[j] = listed[j]
  <2>1. listed[i] \in EntriesOfList
    BY <1>2
  <2>2. [listed[i] EXCEPT !.done = TRUE] \in EntriesOfList
    BY <2>1 DEF EntriesOfList
  <2>3. listed' = [listed EXCEPT ![i] = [listed[i] EXCEPT !.done = TRUE]]
    BY <1>3
  <2>4. [listed[i] EXCEPT !.done = TRUE].number = listed[i].number
    BY <2>1 DEF EntriesOfList
  <2> QED BY <1>2, <2>2, <2>3, <2>4
<1>5. \A m : Judged(m) => Judged(m)'
  BY <1>1, <1>3 DEF Judged
<1>6. \A m : m = listed[i].number => Judged(m)'
  BY <1>1, <1>3 DEF Judged
<1>7. ListedAreJudged'
  BY <1>4, <1>5, <1>6 DEF Inv, ListedAreJudged
<1>8. StoredAreJudged'
  BY <1>1, <1>5 DEF Inv, StoredAreJudged
<1>9. TypeOK'
  BY <1>1, <1>4 DEF Inv, TypeOK, EntriesOfList
<1> QED BY <1>1, <1>7, <1>8, <1>9 DEF Inv, DraftIsPrepared, OwnArePrepared

LEMMA OtherStepsInv == Inv /\ (NextTime \/ ReadNothing \/ Wait \/ Restart \/ UNCHANGED vars) => Inv'
<1>1. ASSUME Inv, NextTime PROVE Inv'
  <2>1. time' \in Times /\ time <= time' /\ time \in Nat
    BY <1>1, ConstantsAssumption DEF Inv, TypeOK, NextTime, Times
  <2>2. UNCHANGED <<ledger, stored, listed, accepted, draft>>
    BY <1>1 DEF NextTime, node
  <2>3. TypeOK'
    BY <1>1, <2>1, <2>2 DEF Inv, TypeOK
  <2>4. DraftIsPrepared'
    <3>1. draft.since \in Nat /\ time' \in Nat
      BY <1>1, <2>1, ConstantsAssumption DEF Inv, TypeOK, Times
    <3> QED BY <1>1, <2>1, <2>2, <3>1 DEF Inv, DraftIsPrepared
  <2> QED BY <1>1, <2>2, <2>3, <2>4
         DEF Inv, OwnArePrepared, ListedAreJudged, StoredAreJudged, Judged
<1>2. ASSUME Inv, ReadNothing \/ Wait \/ UNCHANGED vars PROVE Inv'
  <2>1. UNCHANGED <<time, ledger, stored, listed, accepted, draft>>
    BY <1>2 DEF ReadNothing, Wait, vars, node
  <2> QED BY <1>2, <2>1 DEF Inv, TypeOK, DraftIsPrepared, OwnArePrepared, ListedAreJudged,
                            StoredAreJudged, Judged
<1>3. ASSUME Inv, Restart PROVE Inv'
  <2>1. UNCHANGED <<time, ledger, stored, accepted>> /\ listed' = << >> /\ draft' = NoDraft
    BY <1>3 DEF Restart
  <2>2. NoDraft \in [ops : Nat, fee : Nat, lock : Locks \cup {NoLock}, since : Nat]
    BY DEF NoDraft
  <2>3. TypeOK'
    BY <1>3, <2>1, <2>2 DEF Inv, TypeOK
  <2> QED BY <1>3, <2>1, <2>3 DEF Inv, DraftIsPrepared, OwnArePrepared, ListedAreJudged,
                                  StoredAreJudged, Judged
<1> QED BY <1>1, <1>2, <1>3

LEMMA NextInv == Inv /\ [Next]_vars => Inv'
<1> SUFFICES ASSUME Inv, [Next]_vars PROVE Inv'
  OBVIOUS
<1>1. CASE NextTime \/ ReadNothing \/ Wait \/ Restart \/ UNCHANGED vars
  BY <1>1, OtherStepsInv
<1>2. CASE AnchorOther
  BY <1>2, AnchorOtherInv
<1>3. CASE Prepare
  BY <1>3, PrepareInv
<1>4. CASE Write
  BY <1>4, WriteInv
<1>5. CASE Read
  BY <1>5, ReadInv
<1>6. CASE Store
  BY <1>6, StoreInv
<1>7. ASSUME NEW i \in DOMAIN listed, Finish(i) PROVE Inv'
  BY <1>7, FinishInv
<1> QED BY <1>1, <1>2, <1>3, <1>4, <1>5, <1>6, <1>7 DEF Next

LEMMA InvImpliesOwnBatchesAreAccepted == Inv => OwnBatchesAreAccepted
<1> SUFFICES ASSUME Inv, NEW n \in stored,
                    ledger[n].writer = Self,
                    NormalizedFee[ledger[n].time] <= NormalizedFee[ledger[n].since],
                    ledger[n].ops <= FreeOperations \/ ledger[n].time < ledger[n].lock.until
             PROVE  n \in accepted
  BY DEF OwnBatchesAreAccepted
<1>1. n \in DOMAIN ledger /\ ledger[n] \in Records
  <2>1. ledger \in Seq(Records) /\ n \in DOMAIN ledger
    BY DEF Inv, TypeOK, Records
  <2> QED BY <2>1
<1>2. /\ Prepared(ledger[n].ops, ledger[n].fee, ledger[n].lock, ledger[n].since)
      /\ ledger[n].since <= ledger[n].time
  BY <1>1 DEF Inv, OwnArePrepared
<1>3. Accepted(ledger[n])
  BY <1>1, <1>2, PreparedIsAccepted
<1> QED BY <1>3 DEF Inv, StoredAreJudged, Judged

\* What is recorded of the node's own batches was accepted, unless the ledger's fee rose or
\* the lock ran out between the writer's reading of them and the anchoring
\* (BatchWriter.ts:41-47, TransactionProcessor.ts:55-59 and 240-254).
THEOREM OwnBatchesAlwaysAccepted == Spec => []OwnBatchesAreAccepted
<1>1. Init => Inv
  BY InitInv
<1>2. Inv /\ [Next]_vars => Inv'
  BY NextInv
<1>3. Inv => OwnBatchesAreAccepted
  BY InvImpliesOwnBatchesAreAccepted
<1> QED BY <1>1, <1>2, <1>3, PTL DEF Spec


-----------------------------------------------------------------------------
(* Recursion over the subsets of a finite set                              *)

LEMMA HasSmallest ==
  ASSUME NEW Q, IsFiniteSet(Q), NEW B, B \subseteq SUBSET Q, B # {}
  PROVE  \E T \in B : \A U \in B : U \subseteq T => U = T
<1>1. IsWellFoundedOn(StrictSubsetOrdering(Q), SUBSET Q)
  BY FS_StrictSubsetOrderingWellFounded, FS_FiniteSubsetsOfFinite
<1>2. PICK T \in B : \A U \in B : ~(<<U, T>> \in StrictSubsetOrdering(Q))
  BY <1>1, WFMin
<1>3. ASSUME NEW U \in B, U \subseteq T, U # T PROVE FALSE
  <2>1. <<U, T>> \in StrictSubsetOrdering(Q)
    BY <1>3 DEF StrictSubsetOrdering
  <2> QED BY <1>2, <2>1
<1> QED BY <1>2, <1>3

\* A function on the subsets of Q by recursion: an element of the set is taken out, and the
\* value for the rest is handed on.
IsRecursive(f, Q, V, first, pick, step) ==
  /\ f \in [SUBSET Q -> V]
  /\ f[{}] = first
  /\ \A S \in SUBSET Q : S # {} => f[S] = step[S][f[S \ {pick[S]}]]

LEMMA RecursionIsUnique ==
  ASSUME NEW Q, IsFiniteSet(Q), NEW V, NEW first, NEW pick, NEW step,
         \A S \in SUBSET Q : S # {} => pick[S] \in S,
         NEW f, IsRecursive(f, Q, V, first, pick, step),
         NEW R, Q \subseteq R,
         NEW g, IsRecursive(g, R, V, first, pick, step),
         NEW S \in SUBSET Q
  PROVE  f[S] = g[S]
<1> DEFINE differ == {T \in SUBSET Q : f[T] # g[T]}
<1>1. ASSUME differ # {} PROVE FALSE
  <2>1. PICK T \in differ : \A U \in differ : U \subseteq T => U = T
    <3>1. differ \subseteq SUBSET Q
      OBVIOUS
    <3> HIDE DEF differ
    <3> QED BY <1>1, <3>1, HasSmallest
  <2>2. T # {}
    BY <2>1 DEF IsRecursive
  <2>3. pick[T] \in T
    BY <2>1, <2>2
  <2>4. /\ T \ {pick[T]} \in SUBSET Q /\ T \ {pick[T]} \subseteq T
        /\ T \ {pick[T]} # T
    <3>1. T \in SUBSET Q
      OBVIOUS
    <3> HIDE DEF differ
    <3> QED BY <2>3, <3>1
  <2>5. f[T \ {pick[T]}] = g[T \ {pick[T]}]
    <3> DEFINE W == T \ {pick[T]}
    <3>1. W \in SUBSET Q /\ W \subseteq T /\ W # T
      BY <2>4
    <3> HIDE DEF W
    <3>2. f[W] = g[W]
      BY <2>1, <3>1
    <3> QED BY <3>2 DEF W
  <2>6. T \in SUBSET Q /\ T \in SUBSET R
    OBVIOUS
  <2>7. f[T] = step[T][f[T \ {pick[T]}]]
    BY <2>2, <2>6 DEF IsRecursive
  <2>8. g[T] = step[T][g[T \ {pick[T]}]]
    BY <2>2, <2>6 DEF IsRecursive
  <2> QED BY <2>1, <2>5, <2>7, <2>8
<1> QED BY <1>1

LEMMA RecursionExists ==
  ASSUME NEW Q, IsFiniteSet(Q), NEW V, NEW first \in V, NEW pick, NEW step,
         \A S \in SUBSET Q : S # {} => pick[S] \in S /\ step[S] \in [V -> V]
  PROVE  \E f : IsRecursive(f, Q, V, first, pick, step)
<1> DEFINE Is(f, T) == IsRecursive(f, T, V, first, pick, step)
           without == {T \in SUBSET Q : ~\E f : Is(f, T)}
           value(T) == (CHOOSE f : Is(f, T))[T]
<1> SUFFICES ASSUME without # {} PROVE FALSE
  OBVIOUS
<1>1. PICK T \in without : \A U \in without : U \subseteq T => U = T
  <2>1. without \subseteq SUBSET Q
    OBVIOUS
  <2> HIDE DEF without
  <2> QED BY <2>1, HasSmallest
<1>2. ASSUME NEW U \in SUBSET T, U # T PROVE Is(CHOOSE f : Is(f, U), U)
  <2>1. \E f : Is(f, U)
    BY <1>1, <1>2
  <2> HIDE DEF Is
  <2> QED BY <2>1
<1>3. ASSUME NEW U \in SUBSET T, U # T PROVE value(U) \in V
  <2> DEFINE g == CHOOSE f : Is(f, U)
  <2>1. Is(g, U)
    BY <1>2, <1>3
  <2> HIDE DEF g
  <2>2. g[U] \in V
    BY <2>1 DEF IsRecursive
  <2> QED BY <2>2 DEF g
<1>4. T # {} => value({}) = first
  BY <1>2 DEF IsRecursive
<1>5. ASSUME NEW U \in SUBSET T, U # T, U # {}
      PROVE  value(U) = step[U][value(U \ {pick[U]})]
  <2> DEFINE W == U \ {pick[U]}
  <2>1. pick[U] \in U
    BY <1>1, <1>5
  <2>2. W \in SUBSET T /\ W # T /\ W \subseteq U /\ IsFiniteSet(W)
    BY <1>1, <1>5, <2>1, FS_Subset
  <2>3. Is(CHOOSE f : Is(f, U), U) /\ Is(CHOOSE f : Is(f, W), W)
    BY <1>2, <1>5, <2>2
  <2>4. \A S \in SUBSET W : S # {} => pick[S] \in S
    BY <1>1
  <2>5. value(W) = (CHOOSE f : Is(f, U))[W]
    <3> DEFINE g == CHOOSE f : Is(f, W)
               h == CHOOSE f : Is(f, U)
    <3>1. IsRecursive(g, W, V, first, pick, step) /\ IsRecursive(h, U, V, first, pick, step)
      BY <2>3
    <3> HIDE DEF g, h, W
    <3>2. g[W] = h[W]
      BY <2>2, <2>4, <3>1, RecursionIsUnique
    <3> QED BY <3>2 DEF g, h
  <2>6. value(U) = step[U][(CHOOSE f : Is(f, U))[W]]
    BY <1>5, <2>3 DEF IsRecursive
  <2> QED BY <2>5, <2>6
<1> DEFINE F == [S \in SUBSET T |-> IF S = {} THEN first ELSE step[S][value(S \ {pick[S]})]]
<1>6. ASSUME NEW S \in SUBSET T, S # {}
      PROVE  /\ S \ {pick[S]} \in SUBSET T /\ S \ {pick[S]} # T
             /\ F[S] = step[S][value(S \ {pick[S]})]
  BY <1>1, <1>6
<1> HIDE DEF Is, value
<1>7. F \in [SUBSET T -> V]
  <2>1. ASSUME NEW S \in SUBSET T, S # {} PROVE step[S][value(S \ {pick[S]})] \in V
    <3>1. value(S \ {pick[S]}) \in V
      BY <1>3, <1>6, <2>1
    <3>2. step[S] \in [V -> V]
      BY <1>1, <2>1
    <3> QED BY <3>1, <3>2
  <2> QED BY <2>1
<1>8. F[{}] = first
  OBVIOUS
<1>9. ASSUME NEW S \in SUBSET T, S # {} PROVE F[S \ {pick[S]}] = value(S \ {pick[S]})
  <2>1. CASE S \ {pick[S]} = {}
    BY <1>4, <1>8, <1>9, <2>1
  <2>2. CASE S \ {pick[S]} # {}
    BY <1>5, <1>6, <1>9, <2>2
  <2> QED BY <2>1, <2>2
<1> HIDE DEF F
<1>10. Is(F, T)
  BY <1>6, <1>7, <1>8, <1>9 DEF Is, IsRecursive
<1> QED BY <1>1, <1>10

-----------------------------------------------------------------------------
(* Sums of operations                                                      *)

Sum(w, S) == MapThenSumSet(LAMBDA n : w[n].ops, S)

Counts(w, S) == IsFiniteSet(S) /\ \A n \in S : w[n].ops \in Nat

Picked(Q) == [S \in SUBSET Q |-> CHOOSE n \in S : TRUE]
Adding(w, Q) == [S \in SUBSET Q |-> [v \in Nat |-> w[Picked(Q)[S]].ops + v]]

LEMMA SumIsRecursive ==
  ASSUME NEW w, NEW Q, Counts(w, Q)
  PROVE  \E f : /\ IsRecursive(f, Q, Nat, 0, Picked(Q), Adding(w, Q))
                /\ Sum(w, Q) = f[Q]
<1> DEFINE Is(f) == f = [S \in SUBSET Q |-> IF S = {} THEN 0
                           ELSE w[CHOOSE n \in S : TRUE].ops + f[S \ {CHOOSE n \in S : TRUE}]]
           iter == CHOOSE f : Is(f)
<1>1. ASSUME NEW S \in SUBSET Q, S # {}
      PROVE  /\ Picked(Q)[S] = (CHOOSE n \in S : TRUE)
             /\ Picked(Q)[S] \in S /\ w[Picked(Q)[S]].ops \in Nat
             /\ Adding(w, Q)[S] \in [Nat -> Nat]
             /\ \A v \in Nat : Adding(w, Q)[S][v] = w[Picked(Q)[S]].ops + v
  <2>1. Picked(Q)[S] = (CHOOSE n \in S : TRUE)
    BY DEF Picked
  <2>2. Picked(Q)[S] \in S
    BY <1>1, <2>1
  <2>3. w[Picked(Q)[S]].ops \in Nat
    BY <2>2 DEF Counts
  <2>4. Adding(w, Q)[S] = [v \in Nat |-> w[Picked(Q)[S]].ops + v]
    BY DEF Adding
  <2> QED BY <2>1, <2>2, <2>3, <2>4
<1>2. \E f : IsRecursive(f, Q, Nat, 0, Picked(Q), Adding(w, Q))
  <2>1. IsFiniteSet(Q) /\ 0 \in Nat
    BY DEF Counts
  <2> QED BY <1>1, <2>1, RecursionExists
<1>3. ASSUME NEW f, IsRecursive(f, Q, Nat, 0, Picked(Q), Adding(w, Q)) PROVE Is(f)
  <2>1. ASSUME NEW S \in SUBSET Q, S # {}
        PROVE  f[S] = w[CHOOSE n \in S : TRUE].ops + f[S \ {CHOOSE n \in S : TRUE}]
    <3>1. f[S] = Adding(w, Q)[S][f[S \ {Picked(Q)[S]}]] /\ f[S \ {Picked(Q)[S]}] \in Nat
      BY <1>3, <2>1 DEF IsRecursive
    <3> QED BY <1>1, <2>1, <3>1
  <2>2. f[{}] = 0 /\ f = [S \in SUBSET Q |-> f[S]]
    BY <1>3 DEF IsRecursive
  <2> QED BY <2>1, <2>2
<1>4. Is(iter)
  <2>1. \E f : Is(f)
    BY <1>2, <1>3
  <2> HIDE DEF Is
  <2> QED BY <2>1
<1>5. IsRecursive(iter, Q, Nat, 0, Picked(Q), Adding(w, Q))
  <2>1. PICK f : IsRecursive(f, Q, Nat, 0, Picked(Q), Adding(w, Q))
    BY <1>2
  <2>2. iter = f
    <3>1. \A S \in SUBSET Q : iter[S] = f[S]
      <4> DEFINE differ == {S \in SUBSET Q : iter[S] # f[S]}
      <4> SUFFICES ASSUME differ # {} PROVE FALSE
        OBVIOUS
      <4>1. PICK S \in differ : \A U \in differ : U \subseteq S => U = S
        <5>1. differ \subseteq SUBSET Q /\ IsFiniteSet(Q)
          BY DEF Counts
        <5> HIDE DEF differ
        <5> QED BY <5>1, HasSmallest
      <4>2. S \in SUBSET Q /\ iter[S] # f[S]
        OBVIOUS
      <4>3. S # {}
        <5>1. Is(f)
          BY <1>3, <2>1
        <5>2. f[{}] = 0
          BY <2>1 DEF IsRecursive
        <5>3. iter[{}] = 0
          <6> HIDE DEF iter
          <6> QED BY <1>4
        <5> HIDE DEF iter
        <5> QED BY <4>2, <5>2, <5>3
      <4> DEFINE W == S \ {CHOOSE n \in S : TRUE}
      <4>4. W \in SUBSET Q /\ W \subseteq S /\ W # S
        BY <4>2, <4>3
      <4>5. iter[W] = f[W]
        <5> HIDE DEF W, iter
        <5> QED BY <4>1, <4>4
      <4>6. iter[S] = w[CHOOSE n \in S : TRUE].ops + iter[W]
        <5> HIDE DEF iter
        <5> QED BY <1>4, <4>2, <4>3
      <4>7. f[S] = w[CHOOSE n \in S : TRUE].ops + f[W]
        BY <1>3, <2>1, <4>2, <4>3
      <4> QED BY <4>2, <4>5, <4>6, <4>7
    <3>2. f = [S \in SUBSET Q |-> f[S]]
      BY <2>1 DEF IsRecursive
    <3>3. iter = [S \in SUBSET Q |-> iter[S]]
      <4> HIDE DEF iter
      <4> QED BY <1>4
    <3> HIDE DEF iter
    <3> QED BY <3>1, <3>2, <3>3
  <2> QED BY <2>1, <2>2
<1>6. Sum(w, Q) = iter[Q]
  BY DEF Sum, MapThenSumSet, MapThenFoldSet
<1> QED BY <1>5, <1>6

LEMMA SumType ==
  ASSUME NEW w, NEW Q, Counts(w, Q)
  PROVE  Sum(w, Q) \in Nat
<1>1. PICK f : IsRecursive(f, Q, Nat, 0, Picked(Q), Adding(w, Q)) /\ Sum(w, Q) = f[Q]
  BY SumIsRecursive
<1> QED BY <1>1 DEF IsRecursive

LEMMA SumOfNone == \A w : Sum(w, {}) = 0
<1> SUFFICES ASSUME NEW w PROVE Sum(w, {}) = 0
  OBVIOUS
<1>1. Counts(w, {})
  BY FS_EmptySet DEF Counts
<1>2. PICK f : IsRecursive(f, {}, Nat, 0, Picked({}), Adding(w, {})) /\ Sum(w, {}) = f[{}]
  BY <1>1, SumIsRecursive
<1> QED BY <1>2 DEF IsRecursive

LEMMA CountsLess ==
  ASSUME NEW w, NEW Q, Counts(w, Q), NEW S \in SUBSET Q
  PROVE  Counts(w, S)
BY FS_Subset DEF Counts

LEMMA SumByPick ==
  ASSUME NEW w, NEW Q, Counts(w, Q), Q # {}
  PROVE  \E n \in Q : Sum(w, Q) = w[n].ops + Sum(w, Q \ {n})
<1>1. PICK f : IsRecursive(f, Q, Nat, 0, Picked(Q), Adding(w, Q)) /\ Sum(w, Q) = f[Q]
  BY SumIsRecursive
<1> DEFINE n == Picked(Q)[Q]
           W == Q \ {n}
<1>2. n \in Q
  BY DEF Picked
<1>3. W \in SUBSET Q /\ Counts(w, W) /\ IsFiniteSet(W)
  BY CountsLess DEF Counts
<1>4. PICK g : IsRecursive(g, W, Nat, 0, Picked(W), Adding(w, W)) /\ Sum(w, W) = g[W]
  <2> HIDE DEF W
  <2> QED BY <1>3, SumIsRecursive
<1>5. /\ f[Q] = Adding(w, Q)[Q][f[W]] /\ f[W] \in Nat
  <2>1. Q \in SUBSET Q
    OBVIOUS
  <2> QED BY <1>1, <1>3, <2>1 DEF IsRecursive
<1>6. f[Q] = w[n].ops + f[W]
  BY <1>5 DEF Adding
<1>7. \A S \in SUBSET W : /\ Picked(W)[S] = Picked(Q)[S]
                          /\ Adding(w, W)[S] = Adding(w, Q)[S]
                          /\ S # {} => Picked(W)[S] \in S
  <2> SUFFICES ASSUME NEW S \in SUBSET W
               PROVE  /\ Picked(W)[S] = Picked(Q)[S]
                      /\ Adding(w, W)[S] = Adding(w, Q)[S]
                      /\ S # {} => Picked(W)[S] \in S
    OBVIOUS
  <2>1. S \in SUBSET Q
    BY <1>3
  <2> HIDE DEF W, n
  <2>2. Picked(W)[S] = (CHOOSE m \in S : TRUE) /\ Picked(Q)[S] = (CHOOSE m \in S : TRUE)
    BY <2>1 DEF Picked
  <2>3. /\ Adding(w, W)[S] = [v \in Nat |-> w[Picked(W)[S]].ops + v]
        /\ Adding(w, Q)[S] = [v \in Nat |-> w[Picked(Q)[S]].ops + v]
    BY <2>1 DEF Adding
  <2> QED BY <2>2, <2>3
<1> HIDE DEF W, n
<1>8. \A S \in SUBSET W : f[S] = g[S]
  <2> DEFINE differ == {S \in SUBSET W : f[S] # g[S]}
  <2> SUFFICES ASSUME differ # {} PROVE FALSE
    OBVIOUS
  <2>1. PICK S \in differ : \A U \in differ : U \subseteq S => U = S
    <3>1. differ \subseteq SUBSET W
      OBVIOUS
    <3> HIDE DEF differ
    <3> QED BY <1>3, <3>1, HasSmallest
  <2>2. S \in SUBSET W /\ S \in SUBSET Q /\ f[S] # g[S]
    BY <1>3
  <2>3. S # {}
    BY <1>1, <1>4, <2>2 DEF IsRecursive
  <2> DEFINE V == S \ {Picked(W)[S]}
  <2>4. V \in SUBSET W /\ V \subseteq S /\ V # S
    BY <1>7, <2>2, <2>3
  <2>5. f[V] = g[V]
    <3> HIDE DEF V
    <3> QED BY <2>1, <2>4
  <2>6. f[S] = Adding(w, Q)[S][f[V]]
    BY <1>1, <1>7, <2>2, <2>3 DEF IsRecursive
  <2>7. g[S] = Adding(w, W)[S][g[V]]
    BY <1>4, <2>2, <2>3 DEF IsRecursive
  <2> QED BY <1>7, <2>2, <2>5, <2>6, <2>7
<1>9. f[W] = Sum(w, W)
  BY <1>4, <1>8
<1> QED BY <1>1, <1>2, <1>6, <1>9 DEF W

LEMMA SumWithout ==
  ASSUME NEW w, NEW Q, Counts(w, Q), NEW m \in Q
  PROVE  Sum(w, Q) = w[m].ops + Sum(w, Q \ {m})
<1> DEFINE Bad == {S \in SUBSET Q : \E x \in S : Sum(w, S) # w[x].ops + Sum(w, S \ {x})}
<1>1. ASSUME Bad # {} PROVE FALSE
  <2>1. PICK S \in Bad : \A U \in Bad : U \subseteq S => U = S
    <3>1. Bad \subseteq SUBSET Q /\ IsFiniteSet(Q)
      BY DEF Counts
    <3> HIDE DEF Bad
    <3> QED BY <1>1, <3>1, HasSmallest
  <2>2. PICK x \in S : Sum(w, S) # w[x].ops + Sum(w, S \ {x})
    OBVIOUS
  <2>3. S \in SUBSET Q
    OBVIOUS
  <2>4. Counts(w, S)
    BY <2>3, CountsLess
  <2>5. PICK y \in S : Sum(w, S) = w[y].ops + Sum(w, S \ {y})
    BY <2>2, <2>4, SumByPick
  <2>6. x # y
    BY <2>2, <2>5
  <2> DEFINE X == S \ {x}
             Y == S \ {y}
  <2>7. /\ X \in SUBSET Q /\ X \subseteq S /\ X # S /\ y \in X
        /\ Y \in SUBSET Q /\ Y \subseteq S /\ Y # S /\ x \in Y
        /\ X \ {y} = Y \ {x} /\ X \ {y} \in SUBSET Q
    BY <2>3, <2>6
  <2> HIDE DEF X, Y
  <2>8. X \notin Bad /\ Y \notin Bad
    BY <2>1, <2>7
  <2>9. Sum(w, X) = w[y].ops + Sum(w, X \ {y}) /\ Sum(w, Y) = w[x].ops + Sum(w, Y \ {x})
    BY <2>7, <2>8
  <2>10. /\ w[x].ops \in Nat /\ w[y].ops \in Nat /\ Sum(w, X \ {y}) \in Nat
    BY <2>4, <2>7, CountsLess, SumType DEF Counts
  <2>11. Sum(w, S) = w[y].ops + Sum(w, Y)
    BY <2>5 DEF Y
  <2>12. Sum(w, S) # w[x].ops + Sum(w, X)
    BY <2>2 DEF X
  <2> QED BY <2>7, <2>9, <2>10, <2>11, <2>12
<1>2. Q \in SUBSET Q
  OBVIOUS
<1> QED BY <1>1, <1>2

LEMMA SumWith ==
  ASSUME NEW w, NEW Q, Counts(w, Q), NEW m, w[m].ops \in Nat
  PROVE  /\ Counts(w, Q \cup {m})
         /\ Sum(w, Q \cup {m}) = IF m \in Q THEN Sum(w, Q) ELSE w[m].ops + Sum(w, Q)
<1> DEFINE R == Q \cup {m}
<1>1. Counts(w, R)
  BY FS_AddElement DEF Counts
<1>2. CASE m \in Q
  <2>1. R = Q
    BY <1>2
  <2> QED BY <1>1, <1>2, <2>1
<1>3. CASE m \notin Q
  <2>1. m \in R /\ R \ {m} = Q
    BY <1>3
  <2> HIDE DEF R
  <2>2. Sum(w, R) = w[m].ops + Sum(w, Q)
    BY <1>1, <2>1, SumWithout
  <2> QED BY <1>1, <1>3, <2>2 DEF R
<1> QED BY <1>2, <1>3

LEMMA SumIsMonotone ==
  ASSUME NEW w, NEW Q, Counts(w, Q), NEW S \in SUBSET Q
  PROVE  Sum(w, S) <= Sum(w, Q)
<1> DEFINE Bad == {T \in SUBSET Q : S \subseteq T /\ ~(Sum(w, S) <= Sum(w, T))}
<1>1. ASSUME Bad # {} PROVE FALSE
  <2>1. PICK T \in Bad : \A U \in Bad : U \subseteq T => U = T
    <3>1. Bad \subseteq SUBSET Q /\ IsFiniteSet(Q)
      BY DEF Counts
    <3> HIDE DEF Bad
    <3> QED BY <1>1, <3>1, HasSmallest
  <2>2. T \in SUBSET Q /\ S \subseteq T /\ ~(Sum(w, S) <= Sum(w, T))
    OBVIOUS
  <2>3. Counts(w, T) /\ Sum(w, T) \in Nat
    BY <2>2, CountsLess, SumType
  <2>4. PICK x \in T : x \notin S
    BY <2>2, <2>3
  <2> DEFINE X == T \ {x}
  <2>5. X \in SUBSET Q /\ S \subseteq X /\ X \subseteq T /\ X # T
    BY <2>2, <2>4
  <2>6. Sum(w, T) = w[x].ops + Sum(w, X) /\ w[x].ops \in Nat
    BY <2>3, SumWithout DEF Counts
  <2> HIDE DEF X
  <2>7. Sum(w, S) <= Sum(w, X)
    BY <2>1, <2>5
  <2>8. Sum(w, X) \in Nat /\ Sum(w, S) \in Nat
    BY <2>5, CountsLess, SumType
  <2> QED BY <2>2, <2>3, <2>6, <2>7, <2>8
<1>2. Q \in SUBSET Q
  OBVIOUS
<1> QED BY <1>1, <1>2

LEMMA SumOfUnion ==
  ASSUME NEW w, NEW S, Counts(w, S), NEW Q, Counts(w, Q)
  PROVE  /\ Counts(w, S \cup Q)
         /\ Sum(w, S \cup Q) <= Sum(w, S) + Sum(w, Q)
<1>1. Counts(w, S \cup Q)
  BY FS_Union DEF Counts
<1> DEFINE Bad == {T \in SUBSET Q : ~(Sum(w, S \cup T) <= Sum(w, S) + Sum(w, T))}
<1>2. ASSUME Bad # {} PROVE FALSE
  <2>1. PICK T \in Bad : \A U \in Bad : U \subseteq T => U = T
    <3>1. Bad \subseteq SUBSET Q /\ IsFiniteSet(Q)
      BY DEF Counts
    <3> HIDE DEF Bad
    <3> QED BY <1>2, <3>1, HasSmallest
  <2>2. T \in SUBSET Q /\ ~(Sum(w, S \cup T) <= Sum(w, S) + Sum(w, T))
    OBVIOUS
  <2>3. Counts(w, T) /\ Sum(w, T) \in Nat /\ Sum(w, S) \in Nat
    BY <2>2, CountsLess, SumType
  <2>4. T # {}
    <3> SUFFICES ASSUME T = {} PROVE FALSE
      OBVIOUS
    <3>1. Sum(w, T) = 0
      BY SumOfNone
    <3>2. S \cup T = S
      OBVIOUS
    <3>3. Sum(w, S \cup T) = Sum(w, S)
      BY <3>2
    <3> HIDE DEF Bad
    <3> QED BY <2>2, <2>3, <3>1, <3>3
  <2>5. PICK x \in T : TRUE
    BY <2>4
  <2> DEFINE X == T \ {x}
  <2>6. X \in SUBSET Q /\ X \subseteq T /\ X # T /\ S \cup T = (S \cup X) \cup {x}
    BY <2>2, <2>5
  <2>7. Sum(w, T) = w[x].ops + Sum(w, X) /\ w[x].ops \in Nat
    BY <2>3, SumWithout DEF Counts
  <2> HIDE DEF X
  <2>8. Sum(w, S \cup X) <= Sum(w, S) + Sum(w, X)
    BY <2>1, <2>6
  <2>9. S \cup X \in SUBSET (S \cup Q)
    BY <2>6
  <2>10. Counts(w, S \cup X) /\ Sum(w, X) \in Nat /\ Sum(w, S \cup X) \in Nat
    BY <1>1, <2>6, <2>9, CountsLess, SumType
  <2>11. Sum(w, S \cup T) <= w[x].ops + Sum(w, S \cup X)
    <3> DEFINE Y == S \cup X
    <3>1. Counts(w, Y) /\ Sum(w, Y) \in Nat
      BY <2>10
    <3> HIDE DEF Y
    <3>2. Sum(w, Y \cup {x}) = IF x \in Y THEN Sum(w, Y) ELSE w[x].ops + Sum(w, Y)
      BY <2>7, <3>1, SumWith
    <3>3. Sum(w, Y \cup {x}) <= w[x].ops + Sum(w, Y)
      BY <2>7, <3>1, <3>2
    <3> QED BY <2>6, <3>3 DEF Y
  <2>12. Sum(w, S \cup T) \in Nat
    <3>1. S \cup T \in SUBSET (S \cup Q)
      BY <2>2
    <3> QED BY <1>1, <3>1, CountsLess, SumType
  <2> QED BY <2>2, <2>3, <2>7, <2>8, <2>10, <2>11, <2>12
<1>3. Q \in SUBSET Q
  OBVIOUS
<1> QED BY <1>1, <1>2, <1>3

\* Two ledgers that agree on a set have the same sum over it.
LEMMA SumAgrees ==
  ASSUME NEW w, NEW v, NEW Q, Counts(w, Q), \A n \in Q : w[n] = v[n]
  PROVE  Counts(v, Q) /\ Sum(w, Q) = Sum(v, Q)
<1>1. Counts(v, Q)
  BY DEF Counts
<1> DEFINE Bad == {T \in SUBSET Q : Sum(w, T) # Sum(v, T)}
<1>2. ASSUME Bad # {} PROVE FALSE
  <2>1. PICK T \in Bad : \A U \in Bad : U \subseteq T => U = T
    <3>1. Bad \subseteq SUBSET Q /\ IsFiniteSet(Q)
      BY DEF Counts
    <3> HIDE DEF Bad
    <3> QED BY <1>2, <3>1, HasSmallest
  <2>2. T \in SUBSET Q /\ Sum(w, T) # Sum(v, T)
    OBVIOUS
  <2>3. T # {}
    BY <2>2, SumOfNone
  <2>4. PICK x \in T : TRUE
    BY <2>3
  <2> DEFINE X == T \ {x}
  <2>5. X \in SUBSET Q /\ X \subseteq T /\ X # T
    BY <2>2, <2>4
  <2>6. Sum(w, T) = w[x].ops + Sum(w, X) /\ Sum(v, T) = v[x].ops + Sum(v, X)
    BY <1>1, <2>2, CountsLess, SumWithout
  <2> HIDE DEF X
  <2>7. Sum(w, X) = Sum(v, X) /\ w[x] = v[x]
    BY <2>1, <2>2, <2>5
  <2> QED BY <2>2, <2>6, <2>7
<1>3. Q \in SUBSET Q
  OBVIOUS
<1> QED BY <1>1, <1>2, <1>3

-----------------------------------------------------------------------------
(* The order of the priority queue                                         *)

LEMMA LedgerType ==
  ASSUME TypeOK
  PROVE  /\ IsFiniteSet(DOMAIN ledger) /\ DOMAIN ledger \subseteq Nat \ {0}
         /\ \A n \in DOMAIN ledger : ledger[n] \in Records /\ ledger[n].ops \in Nat
         /\ \A S \in SUBSET DOMAIN ledger : Counts(ledger, S)
<1>1. ledger \in Seq(Records)
  BY DEF TypeOK, Records
<1>2. DOMAIN ledger = 1 .. Len(ledger) /\ Len(ledger) \in Nat
  BY <1>1
<1>3. IsFiniteSet(DOMAIN ledger)
  BY <1>2, FS_Interval
<1>4. \A n \in DOMAIN ledger : ledger[n] \in Records
  BY <1>1
<1>5. \A n \in DOMAIN ledger : ledger[n].ops \in Nat
  BY <1>4 DEF Records
<1>6. \A S \in SUBSET DOMAIN ledger : Counts(ledger, S)
  BY <1>3, <1>5, FS_Subset DEF Counts
<1> QED BY <1>2, <1>3, <1>4, <1>5, <1>6

LEMMA BeforeIsOrder ==
  ASSUME TypeOK
  PROVE  /\ \A m, n \in DOMAIN ledger : m # n => Before(m, n) \/ Before(n, m)
         /\ \A m, n \in DOMAIN ledger : Before(m, n) => ~Before(n, m) /\ m # n
         /\ \A l, m, n \in DOMAIN ledger : Before(l, m) /\ Before(m, n) => Before(l, n)
<1>1. \A n \in DOMAIN ledger : n \in Nat /\ ledger[n].fee \in Nat
  BY LedgerType DEF Records
<1> QED BY <1>1 DEF Before

LEMMA HasLowest ==
  ASSUME TypeOK, NEW S \in SUBSET DOMAIN ledger, S # {}
  PROVE  Lowest(S) \in S /\ \A m \in S \ {Lowest(S)} : Before(m, Lowest(S))
<1> DEFINE HasLow(T) == \E n \in T : \A m \in T \ {n} : Before(m, n)
           without == {T \in SUBSET DOMAIN ledger : T # {} /\ ~HasLow(T)}
<1>1. ASSUME without # {} PROVE FALSE
  <2>1. PICK T \in without : \A U \in without : U \subseteq T => U = T
    <3>1. without \subseteq SUBSET DOMAIN ledger
      OBVIOUS
    <3> HIDE DEF without
    <3> QED BY <1>1, <3>1, LedgerType, HasSmallest
  <2>2. T \in SUBSET DOMAIN ledger /\ T # {} /\ ~HasLow(T)
    OBVIOUS
  <2>3. PICK x \in T : TRUE
    BY <2>2
  <2> DEFINE X == T \ {x}
  <2>4. X \in SUBSET DOMAIN ledger /\ X \subseteq T /\ X # T
    BY <2>2, <2>3
  <2>5. CASE X = {}
    BY <2>2, <2>3, <2>5
  <2>6. CASE X # {}
    <3>1. HasLow(X)
      <4> HIDE DEF X, HasLow
      <4> QED BY <2>1, <2>4, <2>6
    <3>2. PICK n \in X : \A m \in X \ {n} : Before(m, n)
      BY <3>1
    <3>3. n \in T /\ x \in DOMAIN ledger /\ n \in DOMAIN ledger /\ x # n
      BY <2>2, <3>2
    <3>4. CASE Before(x, n)
      BY <2>2, <3>2, <3>3, <3>4
    <3>5. CASE Before(n, x)
      <4>1. \A m \in T \ {x} : Before(m, x)
        BY <2>2, <3>2, <3>3, <3>5, BeforeIsOrder
      <4> QED BY <2>2, <2>3, <4>1
    <3> QED BY <3>3, <3>4, <3>5, BeforeIsOrder
  <2> QED BY <2>5, <2>6
<1>2. HasLow(S)
  BY <1>1
<1> QED BY <1>2 DEF Lowest

-----------------------------------------------------------------------------
(* The loop over the queue                                                 *)

LEMMA OperationsInIsSum == \A S : OperationsIn(S) = Sum(ledger, S)
BY DEF OperationsIn, Sum

LEMMA RoomType ==
  ASSUME TypeOK, NEW t
  PROVE  RoomForTransactions(t) \in Int /\ RoomForOperations(t) \in Int
<1>1. /\ NumbersAt(t, stored) \in SUBSET DOMAIN ledger
      /\ ReadableIn(NumbersAt(t, stored)) \in SUBSET DOMAIN ledger
  BY DEF TypeOK, NumbersAt, ReadableIn
<1>2. Cardinality(NumbersAt(t, stored)) \in Nat
  BY <1>1, LedgerType, FS_CardinalityType DEF Counts
<1>3. OperationsIn(ReadableIn(NumbersAt(t, stored))) \in Nat
  BY <1>1, LedgerType, SumType, OperationsInIsSum
<1> QED BY <1>2, <1>3, ConstantsAssumption DEF RoomForTransactions, RoomForOperations

Outcomes(queue) == [taken : SUBSET queue, seen : Nat]

\* There is no room for more.
Ended(t, prev) ==
  Cardinality(prev.taken) >= RoomForTransactions(t) \/ prev.seen >= RoomForOperations(t)

\* One turn of the loop, for the transaction n.
Turn(t, n, prev) ==
  IF Ended(t, prev) \/ ~Readable(ledger[n]) THEN prev
  ELSE [taken |-> IF MayTake(prev.seen + ledger[n].ops, RoomForOperations(t))
                  THEN prev.taken \cup {n} ELSE prev.taken,
        seen  |-> prev.seen + ledger[n].ops]

IsLoop(f, t, queue) ==
  /\ f = [S \in SUBSET queue |-> f[S]]
  /\ f[{}] = [taken |-> {}, seen |-> 0]
  /\ \A S \in SUBSET queue : S # {} => f[S] = Turn(t, Lowest(S), f[S \ {Lowest(S)}])

LEMMA LoopExists ==
  ASSUME TypeOK, NEW t, NEW queue \in SUBSET DOMAIN ledger
  PROVE  \E f : IsLoop(f, t, queue)
<1> DEFINE pick == [S \in SUBSET queue |-> Lowest(S)]
           step == [S \in SUBSET queue |-> [prev \in Outcomes(queue) |-> Turn(t, pick[S], prev)]]
           none == [taken |-> {}, seen |-> 0]
<1>1. none \in Outcomes(queue) /\ IsFiniteSet(queue)
  BY LedgerType DEF Outcomes, Counts
<1>2. ASSUME NEW S \in SUBSET queue, S # {}
      PROVE  pick[S] \in S /\ step[S] \in [Outcomes(queue) -> Outcomes(queue)]
  <2>1. pick[S] \in S
    <3>1. S \in SUBSET DOMAIN ledger
      OBVIOUS
    <3> QED BY <1>2, <3>1, HasLowest
  <2>2. ASSUME NEW prev \in Outcomes(queue) PROVE Turn(t, pick[S], prev) \in Outcomes(queue)
    <3> DEFINE n == pick[S]
    <3>1. n \in queue /\ ledger[n].ops \in Nat
      BY <2>1, LedgerType
    <3>2. prev.taken \in SUBSET queue /\ prev.seen \in Nat
      BY DEF Outcomes
    <3> HIDE DEF n
    <3>3. prev.taken \cup {n} \in SUBSET queue /\ prev.seen + ledger[n].ops \in Nat
      BY <3>1, <3>2
    <3>4. Turn(t, n, prev) \in Outcomes(queue)
      BY <3>2, <3>3 DEF Turn, Outcomes
    <3> QED BY <3>4 DEF n
  <2> HIDE DEF pick
  <2> QED BY <2>1, <2>2
<1> HIDE DEF step, none
<1>3. PICK f : IsRecursive(f, queue, Outcomes(queue), none, pick, step)
  <2> HIDE DEF pick
  <2> QED BY <1>1, <1>2, RecursionExists
<1>4. ASSUME NEW S \in SUBSET queue, S # {}
      PROVE  f[S] = Turn(t, Lowest(S), f[S \ {Lowest(S)}])
  <2>1. f[S] = step[S][f[S \ {pick[S]}]] /\ f[S \ {pick[S]}] \in Outcomes(queue)
    <3> HIDE DEF pick
    <3>1. S \ {pick[S]} \in SUBSET queue
      OBVIOUS
    <3> QED BY <1>3, <1>4, <3>1 DEF IsRecursive
  <2>2. f[S] = Turn(t, pick[S], f[S \ {pick[S]}])
    <3> HIDE DEF pick
    <3> QED BY <2>1 DEF step
  <2> QED BY <2>2
<1>5. f = [S \in SUBSET queue |-> f[S]] /\ f[{}] = none
  BY <1>3 DEF IsRecursive
<1> QED BY <1>4, <1>5 DEF IsLoop, none

LEMMA HighestFeeIsLoop ==
  ASSUME TypeOK, NEW t, NEW queue \in SUBSET DOMAIN ledger
  PROVE  \E f : IsLoop(f, t, queue) /\ HighestFee(t, queue) = f[queue].taken
<1> DEFINE Is(f) ==
      f = [S \in SUBSET queue |->
             IF S = {} THEN [taken |-> {}, seen |-> 0]
             ELSE IF \/ Cardinality(f[S \ {Lowest(S)}].taken) >= RoomForTransactions(t)
                     \/ f[S \ {Lowest(S)}].seen >= RoomForOperations(t)
                     \/ ~Readable(ledger[Lowest(S)])
                  THEN f[S \ {Lowest(S)}]
                  ELSE [taken |-> IF MayTake(f[S \ {Lowest(S)}].seen + ledger[Lowest(S)].ops,
                                             RoomForOperations(t))
                                  THEN f[S \ {Lowest(S)}].taken \cup {Lowest(S)}
                                  ELSE f[S \ {Lowest(S)}].taken,
                        seen  |-> f[S \ {Lowest(S)}].seen + ledger[Lowest(S)].ops]]
           through == CHOOSE f : Is(f)
<1>1. ASSUME NEW f, IsLoop(f, t, queue) PROVE Is(f)
  <2>1. f = [S \in SUBSET queue |-> IF S = {} THEN [taken |-> {}, seen |-> 0]
                                    ELSE Turn(t, Lowest(S), f[S \ {Lowest(S)}])]
    BY <1>1 DEF IsLoop
  <2> QED BY <2>1 DEF Turn, Ended
<1>2. ASSUME NEW f, Is(f) PROVE IsLoop(f, t, queue)
  BY <1>2 DEF IsLoop, Turn, Ended
<1>3. \E f : Is(f)
  BY <1>1, LoopExists
<1>4. Is(through)
  <2> HIDE DEF Is
  <2> QED BY <1>3
<1>5. HighestFee(t, queue) = through[queue].taken
  BY DEF HighestFee
<1> HIDE DEF through, Is
<1> QED BY <1>2, <1>4, <1>5

\* What of S the queue hands out up to n, and whether there is room for all of it.
UpTo(n, S) == {m \in ReadableIn(S) : m = n \/ Before(m, n)}

Fits(t, n, S) ==
  /\ Cardinality(UpTo(n, S)) <= RoomForTransactions(t)
  /\ OperationsIn(UpTo(n, S)) <= RoomForOperations(t)

Fitting(t, S) == {n \in ReadableIn(S) : Fits(t, n, S)}

\* What the loop knows after S: all of it was taken and counted, or there is no more room.
WentThrough(t, S, s) ==
  /\ s.taken = Fitting(t, S)
  /\ s.seen \in Nat /\ s.seen <= Sum(ledger, ReadableIn(S))
  /\ Ended(t, s) \/ (s.taken = ReadableIn(S) /\ s.seen = Sum(ledger, ReadableIn(S)))

LEMMA TurnGoesOn ==
  ASSUME TypeOK, NEW t, NEW S \in SUBSET DOMAIN ledger, S # {}, NEW prev,
         WentThrough(t, S \ {Lowest(S)}, prev)
  PROVE  WentThrough(t, S, Turn(t, Lowest(S), prev))
<1> DEFINE n    == Lowest(S)
           R    == S \ {n}
           over == ReadableIn(S)
           rest == ReadableIn(R)
<1>1. n \in S /\ \A m \in S \ {n} : Before(m, n)
  BY HasLowest
<1>2. \A m \in S \ {n} : ~Before(n, m)
  <2>1. \A m \in S : m \in DOMAIN ledger
    OBVIOUS
  <2> HIDE DEF n
  <2> QED BY <1>1, <2>1, BeforeIsOrder
<1>3. R \in SUBSET DOMAIN ledger /\ rest \in SUBSET DOMAIN ledger /\ over \in SUBSET DOMAIN ledger
  BY DEF ReadableIn
<1>4. /\ Counts(ledger, rest) /\ Counts(ledger, over)
      /\ Sum(ledger, rest) \in Nat /\ Sum(ledger, over) \in Nat
      /\ IsFiniteSet(rest) /\ Cardinality(rest) \in Nat
  <2> HIDE DEF rest, over
  <2>1. Counts(ledger, rest) /\ Counts(ledger, over)
    BY <1>3, LedgerType
  <2> QED BY <2>1, SumType, FS_CardinalityType DEF Counts
<1>5. ASSUME NEW m \in rest PROVE UpTo(m, S) = UpTo(m, R) /\ (Fits(t, m, S) <=> Fits(t, m, R))
  <2>1. m \in S \ {n} /\ m # n /\ ~Before(n, m)
    BY <1>2 DEF ReadableIn
  <2>2. UpTo(m, S) = UpTo(m, R)
    BY <2>1 DEF UpTo, ReadableIn
  <2> QED BY <2>2 DEF Fits
<1>6. prev.taken = {m \in rest : Fits(t, m, S)}
  <2>1. prev.taken = {m \in rest : Fits(t, m, R)}
    BY DEF WentThrough, Fitting
  <2> HIDE DEF rest, R
  <2> QED BY <1>5, <2>1
<1>7. /\ prev.seen \in Nat /\ prev.seen <= Sum(ledger, rest)
      /\ Ended(t, prev) \/ (prev.taken = rest /\ prev.seen = Sum(ledger, rest))
  BY DEF WentThrough
<1>8. RoomForTransactions(t) \in Int /\ RoomForOperations(t) \in Int
  BY RoomType
<1>9. CASE ~Readable(ledger[n])
  <2>1. over = rest
    BY <1>9 DEF ReadableIn
  <2>2. Turn(t, n, prev) = prev
    BY <1>9 DEF Turn
  <2> HIDE DEF over, rest, n
  <2>3. prev.taken = Fitting(t, S)
    BY <1>6, <2>1 DEF Fitting, over
  <2> QED BY <1>7, <2>1, <2>2, <2>3 DEF WentThrough, over, n
<1>10. CASE Readable(ledger[n])
  <2>1. over = rest \cup {n} /\ n \notin rest /\ UpTo(n, S) = over
    BY <1>1, <1>10 DEF ReadableIn, UpTo
  <2>2. ledger[n].ops \in Nat /\ ledger[n].ops >= 1
    BY <1>1, <1>10, LedgerType, ConstantsAssumption DEF Readable
  <2> HIDE DEF over, rest, n
  <2>3. Sum(ledger, over) = ledger[n].ops + Sum(ledger, rest)
    BY <1>4, <2>1, <2>2, SumWith
  <2>4. Cardinality(over) = Cardinality(rest) + 1
    BY <1>4, <2>1, FS_AddElement
  <2>5. Fits(t, n, S) <=> /\ Cardinality(rest) + 1 <= RoomForTransactions(t)
                          /\ ledger[n].ops + Sum(ledger, rest) <= RoomForOperations(t)
    BY <2>1, <2>3, <2>4, OperationsInIsSum DEF Fits
  <2>6. Fitting(t, S) = prev.taken \cup (IF Fits(t, n, S) THEN {n} ELSE {})
    BY <1>6, <2>1 DEF Fitting, over
  <2>7. prev.taken \subseteq rest /\ Cardinality(prev.taken) <= Cardinality(rest)
        /\ Cardinality(prev.taken) \in Nat
    BY <1>4, <1>6, FS_Subset, FS_CardinalityType
  <2>8. CASE Ended(t, prev)
    <3>1. Turn(t, n, prev) = prev
      BY <2>8 DEF Turn
    <3>2. ~Fits(t, n, S)
      <4>1. CASE Cardinality(prev.taken) >= RoomForTransactions(t)
        BY <1>4, <1>8, <2>5, <2>7, <4>1
      <4>2. CASE prev.seen >= RoomForOperations(t)
        BY <1>4, <1>7, <1>8, <2>2, <2>5, <4>2
      <4> QED BY <2>8, <4>1, <4>2 DEF Ended
    <3>3. prev.taken = Fitting(t, S)
      BY <2>6, <3>2
    <3>4. prev.seen <= Sum(ledger, over)
      BY <1>4, <1>7, <2>2, <2>3
    <3>5. WentThrough(t, S, prev)
      BY <1>7, <2>8, <3>3, <3>4 DEF WentThrough, over
    <3> QED BY <3>1, <3>5 DEF n
  <2>9. CASE ~Ended(t, prev)
    <3> DEFINE now == prev.seen + ledger[n].ops
               new == Turn(t, n, prev)
    <3>1. prev.taken = rest /\ prev.seen = Sum(ledger, rest)
      BY <1>7, <2>9
    <3>2. /\ new.taken = IF MayTake(now, RoomForOperations(t))
                         THEN prev.taken \cup {n} ELSE prev.taken
          /\ new.seen = now
      BY <1>10, <2>9 DEF Turn
    <3>3. now = Sum(ledger, over) /\ now \in Nat
      BY <1>4, <2>2, <2>3, <3>1
    <3>4. Cardinality(rest) + 1 <= RoomForTransactions(t)
      <4>1. ~(Cardinality(rest) >= RoomForTransactions(t))
        BY <2>9, <3>1 DEF Ended
      <4> QED BY <1>4, <1>8, <4>1
    <3>5. Fits(t, n, S) <=> now <= RoomForOperations(t)
      BY <2>3, <2>5, <3>3, <3>4
    <3> HIDE DEF new, now
    <3>6. new.taken = Fitting(t, S)
      BY <2>6, <3>2, <3>5 DEF MayTake
    <3>7. CASE now <= RoomForOperations(t)
      <4>1. new.taken = over
        BY <2>1, <3>1, <3>2, <3>7 DEF MayTake
      <4>2. new.seen \in Nat /\ new.seen = Sum(ledger, over) /\ new.seen <= Sum(ledger, over)
        BY <1>4, <3>2, <3>3
      <4> QED BY <3>6, <4>1, <4>2 DEF WentThrough, over, n, new
    <3>8. CASE ~(now <= RoomForOperations(t))
      <4>1. Ended(t, new)
        BY <1>8, <3>2, <3>3, <3>8 DEF Ended
      <4>2. new.seen \in Nat /\ new.seen <= Sum(ledger, over)
        BY <1>4, <3>2, <3>3
      <4> QED BY <3>6, <4>1, <4>2 DEF WentThrough, over, n, new
    <3> QED BY <3>7, <3>8
  <2> QED BY <2>8, <2>9
<1> QED BY <1>9, <1>10

\* The loop takes of the queue exactly what there is room for after everything before it.
LEMMA TakesWhatFits ==
  ASSUME TypeOK, NEW t, NEW queue \in SUBSET DOMAIN ledger
  PROVE  HighestFee(t, queue) = Fitting(t, queue)
<1>1. PICK f : IsLoop(f, t, queue) /\ HighestFee(t, queue) = f[queue].taken
  BY HighestFeeIsLoop
<1> DEFINE Bad == {S \in SUBSET queue : ~WentThrough(t, S, f[S])}
<1>2. ASSUME Bad # {} PROVE FALSE
  <2>1. PICK S \in Bad : \A U \in Bad : U \subseteq S => U = S
    <3>1. Bad \subseteq SUBSET queue /\ IsFiniteSet(queue)
      BY LedgerType DEF Counts
    <3> HIDE DEF Bad
    <3> QED BY <1>2, <3>1, HasSmallest
  <2>2. S \in SUBSET queue /\ S \in SUBSET DOMAIN ledger /\ ~WentThrough(t, S, f[S])
    OBVIOUS
  <2>3. CASE S = {}
    <3>1. f[S] = [taken |-> {}, seen |-> 0]
      BY <1>1, <2>3 DEF IsLoop
    <3>2. ReadableIn(S) = {} /\ Fitting(t, S) = {}
      BY <2>3 DEF ReadableIn, Fitting
    <3>3. Sum(ledger, ReadableIn(S)) = 0
      BY <3>2, SumOfNone
    <3> QED BY <2>2, <3>1, <3>2, <3>3 DEF WentThrough
  <2>4. CASE S # {}
    <3> DEFINE R == S \ {Lowest(S)}
    <3>1. R \in SUBSET queue /\ R \subseteq S /\ R # S
      BY <2>2, <2>4, HasLowest
    <3>2. WentThrough(t, R, f[R])
      <4> HIDE DEF R
      <4> QED BY <2>1, <3>1
    <3>3. f[S] = Turn(t, Lowest(S), f[R])
      BY <1>1, <2>2, <2>4 DEF IsLoop
    <3> QED BY <2>2, <2>4, <3>2, <3>3, TurnGoesOn
  <2> QED BY <2>3, <2>4
<1>3. WentThrough(t, queue, f[queue])
  <2>1. queue \in SUBSET queue
    OBVIOUS
  <2> QED BY <1>2, <2>1
<1> QED BY <1>1, <1>3 DEF WentThrough

-----------------------------------------------------------------------------
(* The limits                                                              *)

\* What is recorded or under processing, and of one transaction time.
InHand == stored \cup {listed[i].number : i \in DOMAIN listed}
At(w, hand, t) == {n \in hand : w[n].time = t}

KeepsLimits(w, hand, t) ==
  /\ Cardinality(At(w, hand, t)) <= MaxTransactionsPerTime
  /\ Sum(w, At(w, hand, t)) <= MaxOperationsPerTime

HandIsReadable(w, hand) == \A n \in hand : Readable(w[n])

\* Also what is still under processing keeps the limits of the times that are not crowded, and
\* only readable transactions are taken in hand.
LimitInv ==
  /\ Inv
  /\ HandIsReadable(ledger, InHand)
  /\ \A t \in Times \ crowded : KeepsLimits(ledger, InHand, t)

LEMMA HandType ==
  ASSUME TypeOK
  PROVE  InHand \in SUBSET DOMAIN ledger /\ stored \in SUBSET InHand
<1>1. listed \in Seq(EntriesOfList) /\ stored \subseteq DOMAIN ledger
  BY DEF TypeOK, EntriesOfList
<1>2. \A i \in DOMAIN listed : listed[i] \in EntriesOfList
  BY <1>1
<1>3. \A i \in DOMAIN listed : listed[i].number \in DOMAIN ledger
  BY <1>2 DEF EntriesOfList
<1> QED BY <1>1, <1>3 DEF InHand

LEMMA LessKeepsLimits ==
  ASSUME TypeOK, NEW hand \in SUBSET DOMAIN ledger, NEW w, \A n \in DOMAIN ledger : w[n] = ledger[n],
         NEW less \in SUBSET hand, NEW t, KeepsLimits(ledger, hand, t)
  PROVE  KeepsLimits(w, less, t)
<1> DEFINE A == At(ledger, hand, t)
           B == At(w, less, t)
<1>1. A \in SUBSET DOMAIN ledger /\ B \in SUBSET A
  BY DEF At
<1> HIDE DEF A, B
<1>2. Counts(ledger, A) /\ Counts(ledger, B) /\ IsFiniteSet(A)
  BY <1>1, LedgerType DEF Counts
<1>3. Cardinality(B) <= Cardinality(A) /\ Cardinality(A) \in Nat /\ Cardinality(B) \in Nat
  BY <1>1, <1>2, FS_Subset, FS_CardinalityType
<1>4. /\ Sum(ledger, B) <= Sum(ledger, A) /\ Sum(w, B) = Sum(ledger, B)
      /\ Sum(ledger, A) \in Nat /\ Sum(ledger, B) \in Nat
  <2>1. \A n \in B : ledger[n] = w[n]
    BY <1>1
  <2> QED BY <1>1, <1>2, <2>1, SumAgrees, SumIsMonotone, SumType
<1>5. Cardinality(A) <= MaxTransactionsPerTime /\ Sum(ledger, A) <= MaxOperationsPerTime
  BY DEF KeepsLimits, A
<1> QED BY <1>3, <1>4, <1>5, ConstantsAssumption DEF KeepsLimits, B

\* What the loop takes has room beside what is recorded.
LEMMA FittingKeepsLimits ==
  ASSUME TypeOK, NEW t, NEW queue \in SUBSET DOMAIN ledger,
         HandIsReadable(ledger, stored), KeepsLimits(ledger, stored, t),
         NEW hand, At(ledger, hand, t) \subseteq At(ledger, stored, t) \cup Fitting(t, queue)
  PROVE  KeepsLimits(ledger, hand, t)
<1> DEFINE old == At(ledger, stored, t)
           new == Fitting(t, queue)
           all == At(ledger, hand, t)
<1>1. old \in SUBSET DOMAIN ledger /\ new \in SUBSET DOMAIN ledger
  BY DEF TypeOK, At, Fitting, ReadableIn
<1>2. /\ ReadableIn(NumbersAt(t, stored)) = old /\ NumbersAt(t, stored) = old
  BY DEF ReadableIn, NumbersAt, At, HandIsReadable
<1>3. /\ RoomForTransactions(t) = MaxTransactionsPerTime - Cardinality(old)
      /\ RoomForOperations(t) = MaxOperationsPerTime - Sum(ledger, old)
  BY <1>2, OperationsInIsSum DEF RoomForTransactions, RoomForOperations
<1>4. Cardinality(old) <= MaxTransactionsPerTime /\ Sum(ledger, old) <= MaxOperationsPerTime
  BY DEF KeepsLimits
<1>5. all \in SUBSET (old \cup new)
  OBVIOUS
<1>6. ASSUME new # {}
      PROVE  /\ Cardinality(new) <= RoomForTransactions(t)
             /\ Sum(ledger, new) <= RoomForOperations(t)
  <2> DEFINE n == Lowest(new)
             U == UpTo(n, queue)
  <2>1. n \in new /\ \A m \in new \ {n} : Before(m, n)
    <3> HIDE DEF new
    <3> QED BY <1>1, <1>6, HasLowest
  <2>2. Cardinality(U) <= RoomForTransactions(t) /\ Sum(ledger, U) <= RoomForOperations(t)
    BY <2>1, OperationsInIsSum DEF Fitting, Fits
  <2>3. new \in SUBSET U /\ U \in SUBSET DOMAIN ledger
    <3>1. \A m \in new : m \in ReadableIn(queue)
      BY DEF Fitting
    <3> HIDE DEF new, n
    <3> QED BY <2>1, <3>1 DEF UpTo, ReadableIn
  <2> HIDE DEF new, n, U
  <2>4. Counts(ledger, U) /\ Counts(ledger, new) /\ IsFiniteSet(U) /\ IsFiniteSet(new)
    BY <1>1, <2>3, LedgerType DEF Counts
  <2>5. Cardinality(new) <= Cardinality(U) /\ Sum(ledger, new) <= Sum(ledger, U)
    BY <2>3, <2>4, FS_Subset, SumIsMonotone
  <2>6. /\ Cardinality(new) \in Nat /\ Cardinality(U) \in Nat
        /\ Sum(ledger, new) \in Nat /\ Sum(ledger, U) \in Nat
    BY <2>4, FS_CardinalityType, SumType
  <2> QED BY <2>2, <2>5, <2>6, RoomType
<1> HIDE DEF old, new, all
<1>7. /\ Counts(ledger, old) /\ Counts(ledger, new) /\ Counts(ledger, old \cup new)
      /\ IsFiniteSet(old) /\ IsFiniteSet(new) /\ IsFiniteSet(old \cup new)
  <2>1. old \cup new \in SUBSET DOMAIN ledger
    BY <1>1
  <2> QED BY <1>1, <2>1, LedgerType DEF Counts
<1>8. /\ Cardinality(old) \in Nat /\ Cardinality(new) \in Nat /\ Cardinality(old \cup new) \in Nat
      /\ Sum(ledger, old) \in Nat /\ Sum(ledger, new) \in Nat /\ Sum(ledger, old \cup new) \in Nat
  BY <1>7, FS_CardinalityType, SumType
<1>9. /\ Cardinality(old \cup new) <= MaxTransactionsPerTime
      /\ Sum(ledger, old \cup new) <= MaxOperationsPerTime
  <2>1. CASE new = {}
    <3>1. old \cup new = old
      BY <2>1
    <3> QED BY <1>4, <3>1
  <2>2. CASE new # {}
    <3>1. Cardinality(old \cap new) \in Nat
      BY <1>7, FS_Intersection, FS_CardinalityType
    <3>2. Cardinality(old \cup new) <= Cardinality(old) + Cardinality(new)
      BY <1>7, <1>8, <3>1, FS_Union
    <3>3. Sum(ledger, old \cup new) <= Sum(ledger, old) + Sum(ledger, new)
      BY <1>7, SumOfUnion
    <3> QED BY <1>3, <1>6, <1>8, <2>2, <3>2, <3>3, ConstantsAssumption
  <2> QED BY <2>1, <2>2
<1>10. /\ Cardinality(all) <= Cardinality(old \cup new) /\ Cardinality(all) \in Nat
       /\ Sum(ledger, all) <= Sum(ledger, old \cup new) /\ Sum(ledger, all) \in Nat
  <2>1. Counts(ledger, all) /\ IsFiniteSet(all)
    BY <1>5, <1>7, CountsLess DEF Counts
  <2> QED BY <1>5, <1>7, <2>1, FS_Subset, FS_CardinalityType, SumIsMonotone, SumType
<1> QED BY <1>8, <1>9, <1>10, ConstantsAssumption DEF KeepsLimits, all

-----------------------------------------------------------------------------
(* What a read adds                                                        *)

LEMMA QualifiedAt ==
  ASSUME TypeOK, NEW t
  PROVE  LET queue == FirstOfEachWriter(NumbersAt(t, Page)) IN
         /\ queue \in SUBSET DOMAIN ledger
         /\ At(ledger, Qualified(Page), t) = Fitting(t, queue)
<1> DEFINE queue == FirstOfEachWriter(NumbersAt(t, Page))
<1>1. queue \in SUBSET DOMAIN ledger /\ \A n \in queue : n \in Page /\ ledger[n].time = t
  BY DEF FirstOfEachWriter, NumbersAt, Page
<1>2. At(ledger, Qualified(Page), t) = {n \in Page : ledger[n].time = t /\ n \in HighestFee(t, queue)}
  BY DEF At, Qualified
<1> HIDE DEF queue
<1>3. HighestFee(t, queue) = Fitting(t, queue)
  BY <1>1, TakesWhatFits
<1>4. Fitting(t, queue) \subseteq queue
  BY DEF Fitting, ReadableIn
<1>5. At(ledger, Qualified(Page), t) = Fitting(t, queue)
  BY <1>1, <1>2, <1>3, <1>4
<1> QED BY <1>1, <1>5 DEF queue

LEMMA QualifiedIsReadable ==
  ASSUME TypeOK
  PROVE  Qualified(Page) \in SUBSET DOMAIN ledger /\ HandIsReadable(ledger, Qualified(Page))
<1>1. Qualified(Page) \in SUBSET DOMAIN ledger
  BY DEF Qualified, Page
<1>2. ASSUME NEW n \in Qualified(Page) PROVE Readable(ledger[n])
  <2> DEFINE t == ledger[n].time
             queue == FirstOfEachWriter(NumbersAt(t, Page))
  <2>1. n \in At(ledger, Qualified(Page), t)
    BY <1>2 DEF At
  <2>2. n \in Fitting(t, queue)
    <3> HIDE DEF t
    <3> QED BY <2>1, QualifiedAt
  <2> QED BY <2>2 DEF Fitting, ReadableIn
<1> QED BY <1>1, <1>2 DEF HandIsReadable

LEMMA ReadAdds ==
  ASSUME Inv, Read
  PROVE  /\ {listed'[i].number : i \in Len(listed) + 1 .. Len(listed')} = Qualified(Page)
         /\ InHand' = InHand \cup Qualified(Page)
<1> DEFINE chosen == Qualified(Page)
<1>1. PICK new \in [1 .. Cardinality(chosen) -> chosen] :
        /\ \A i, j \in DOMAIN new : i < j => new[i] < new[j]
        /\ listed' = listed \o [i \in DOMAIN new |-> [number |-> new[i], done |-> FALSE]]
  BY DEF Read
<1> DEFINE k     == Cardinality(chosen)
           added == [i \in DOMAIN new |-> [number |-> new[i], done |-> FALSE]]
<1>2. TypeOK /\ listed \in Seq(EntriesOfList) /\ Len(listed) \in Nat
  BY DEF Inv, TypeOK, EntriesOfList
<1>3. chosen \in SUBSET DOMAIN ledger /\ IsFiniteSet(chosen) /\ k \in Nat
  <2>1. chosen \in SUBSET DOMAIN ledger
    BY <1>2, QualifiedIsReadable
  <2> HIDE DEF chosen
  <2> QED BY <1>2, <2>1, LedgerType, FS_CardinalityType DEF Counts
<1>4. \A n \in chosen : n \in Nat /\ n \in DOMAIN ledger
  BY <1>2, <1>3, LedgerType
<1> HIDE DEF chosen
<1>5. {new[i] : i \in 1 .. k} = chosen
  <2>1. \A i, j \in 1 .. k : new[i] = new[j] => i = j
    <3> SUFFICES ASSUME NEW i \in 1 .. k, NEW j \in 1 .. k, new[i] = new[j], i # j PROVE FALSE
      OBVIOUS
    <3>1. new[i] \in Nat /\ new[j] \in Nat
      BY <1>1, <1>4
    <3>2. i < j \/ j < i
      BY <1>3
    <3> QED BY <1>1, <3>1, <3>2
  <2>2. new \in Injection(1 .. k, chosen)
    BY <1>1, <2>1 DEF Injection, IsInjective
  <2>3. IsFiniteSet(1 .. k) /\ Cardinality(1 .. k) = k
    BY <1>3, FS_Interval
  <2>4. new \in Surjection(1 .. k, chosen)
    BY <1>3, <2>2, <2>3, FS_Injection
  <2> QED BY <1>1, <2>4 DEF Surjection
<1>6. added \in Seq(EntriesOfList) /\ Len(added) = k
  <2>1. DOMAIN added = 1 .. k
    BY <1>1
  <2>2. \A i \in DOMAIN added : added[i] \in EntriesOfList
    BY <1>1, <1>4 DEF EntriesOfList
  <2>3. added \in [1 .. k -> EntriesOfList]
    BY <2>1, <2>2
  <2> HIDE DEF added
  <2> QED BY <1>3, <2>1, <2>3
<1>7. \A i \in 1 .. k : added[i].number = new[i]
  BY <1>1
<1> HIDE DEF added
<1>8. listed' = listed \o added
  BY <1>1 DEF added
<1>9. /\ Len(listed') = Len(listed) + k /\ DOMAIN listed' = 1 .. Len(listed) + k
      /\ \A i \in DOMAIN listed : i \in DOMAIN listed' /\ listed'[i] = listed[i]
      /\ \A i \in Len(listed) + 1 .. Len(listed') :
           i - Len(listed) \in 1 .. k /\ listed'[i] = added[i - Len(listed)]
  BY <1>2, <1>3, <1>6, <1>8
<1>10. {listed'[i].number : i \in Len(listed) + 1 .. Len(listed')} = chosen
  <2>1. ASSUME NEW i \in Len(listed) + 1 .. Len(listed') PROVE listed'[i].number \in chosen
    BY <1>1, <1>7, <1>9
  <2>2. ASSUME NEW n \in chosen
        PROVE  \E i \in Len(listed) + 1 .. Len(listed') : listed'[i].number = n
    <3>1. PICK j \in 1 .. k : new[j] = n
      BY <1>5
    <3>2. /\ Len(listed) + j \in Len(listed) + 1 .. Len(listed')
          /\ (Len(listed) + j) - Len(listed) = j
      BY <1>2, <1>3, <1>9
    <3>3. listed'[Len(listed) + j] = added[j]
      BY <1>9, <3>2
    <3>4. listed'[Len(listed) + j].number = n
      BY <1>7, <3>1, <3>3
    <3> QED BY <3>2, <3>4
  <2> QED BY <2>1, <2>2
<1>11. InHand' = InHand \cup chosen
  <2>1. stored' = stored
    BY DEF Read
  <2>2. {listed'[i].number : i \in DOMAIN listed'}
          = {listed[i].number : i \in DOMAIN listed} \cup chosen
    <3>1. DOMAIN listed' = DOMAIN listed \cup (Len(listed) + 1 .. Len(listed'))
      BY <1>2, <1>3, <1>9
    <3> QED BY <1>9, <1>10, <3>1
  <2> QED BY <2>1, <2>2 DEF InHand
<1> QED BY <1>10, <1>11 DEF chosen

-----------------------------------------------------------------------------
(* The steps                                                               *)

LEMMA NothingNewInHand ==
  ASSUME LimitInv, Inv', \A n \in DOMAIN ledger : ledger'[n] = ledger[n],
         InHand' \subseteq InHand, crowded' = crowded
  PROVE  LimitInv'
<1>1. TypeOK /\ InHand \in SUBSET DOMAIN ledger
  BY HandType DEF LimitInv, Inv
<1> DEFINE less == InHand'
           w == ledger'
<1>2. less \in SUBSET InHand /\ \A n \in DOMAIN ledger : w[n] = ledger[n]
  OBVIOUS
<1>3. HandIsReadable(ledger, InHand) /\ \A t \in Times \ crowded : KeepsLimits(ledger, InHand, t)
  BY DEF LimitInv
<1> HIDE DEF less, w
<1>4. HandIsReadable(w, less)
  BY <1>1, <1>2, <1>3 DEF HandIsReadable
<1>5. \A t \in Times \ crowded : KeepsLimits(w, less, t)
  BY <1>1, <1>2, <1>3, LessKeepsLimits
<1> QED BY <1>4, <1>5 DEF LimitInv, less, w

LEMMA ReadKeepsLimits ==
  ASSUME LimitInv, Inv', Read
  PROVE  LimitInv'
<1>1. TypeOK /\ InHand \in SUBSET DOMAIN ledger /\ stored \in SUBSET InHand
  BY HandType DEF LimitInv, Inv
<1>2. InHand' = InHand \cup Qualified(Page)
  BY ReadAdds DEF LimitInv
<1>3. ledger' = ledger /\ crowded' = crowded \cup {ledger[n].time : n \in Unrecorded}
  BY DEF Read
<1>4. HandIsReadable(ledger, InHand \cup Qualified(Page))
  BY <1>1, QualifiedIsReadable DEF LimitInv, HandIsReadable
<1>5. ASSUME NEW t \in Times \ crowded'
      PROVE  KeepsLimits(ledger, InHand \cup Qualified(Page), t)
  <2> DEFINE queue == FirstOfEachWriter(NumbersAt(t, Page))
             hand == InHand \cup Qualified(Page)
  <2>1. t \in Times \ crowded /\ \A n \in Unrecorded : ledger[n].time # t
    BY <1>3, <1>5
  <2>2. \A n \in InHand : n \notin stored => n \in Unrecorded
    BY DEF InHand, Unrecorded
  <2>3. At(ledger, InHand, t) = At(ledger, stored, t)
    BY <1>1, <2>1, <2>2 DEF At
  <2>4. queue \in SUBSET DOMAIN ledger /\ At(ledger, Qualified(Page), t) = Fitting(t, queue)
    BY <1>1, QualifiedAt
  <2> HIDE DEF queue
  <2>5. At(ledger, hand, t) \subseteq At(ledger, stored, t) \cup Fitting(t, queue)
    <3>1. At(ledger, hand, t) = At(ledger, InHand, t) \cup At(ledger, Qualified(Page), t)
      BY DEF At
    <3> QED BY <2>3, <2>4, <3>1
  <2>6. HandIsReadable(ledger, stored)
    BY <1>1 DEF LimitInv, HandIsReadable
  <2>7. KeepsLimits(ledger, stored, t)
    <3>1. KeepsLimits(ledger, InHand, t)
      BY <2>1 DEF LimitInv
    <3> QED BY <2>3, <3>1 DEF KeepsLimits
  <2> HIDE DEF hand
  <2>8. KeepsLimits(ledger, hand, t)
    BY <1>1, <2>4, <2>5, <2>6, <2>7, FittingKeepsLimits
  <2> QED BY <2>8 DEF hand
<1> QED BY <1>2, <1>3, <1>4, <1>5 DEF LimitInv

LEMMA OthersTakeNothing ==
  ASSUME Inv, Next, ~Read
  PROVE  /\ \A n \in DOMAIN ledger : ledger'[n] = ledger[n]
         /\ InHand' \subseteq InHand /\ crowded' = crowded
<1>1. ledger \in Seq(Records) /\ listed \in Seq(EntriesOfList)
  BY DEF Inv, TypeOK, Records, EntriesOfList
<1>2. CASE NextTime \/ Prepare \/ ReadNothing \/ Wait
  BY <1>2 DEF NextTime, Prepare, ReadNothing, Wait, node, InHand
<1>3. ASSUME NEW writer, NEW tx, NEW since, Anchor(writer, tx, since), UNCHANGED node
      PROVE  /\ \A n \in DOMAIN ledger : ledger'[n] = ledger[n]
             /\ InHand' \subseteq InHand /\ crowded' = crowded
  <2>1. \A n \in DOMAIN ledger : ledger'[n] = ledger[n]
    BY <1>1, <1>3 DEF Anchor
  <2> QED BY <1>3, <2>1 DEF node, InHand
<1>4. CASE AnchorOther
  BY <1>3, <1>4 DEF AnchorOther
<1>5. CASE Write
  BY <1>3, <1>5 DEF Write
<1>6. CASE Restart
  BY <1>6 DEF Restart, InHand
<1>7. CASE Store
  <2>1. ledger' = ledger /\ crowded' = crowded
    BY <1>7 DEF Store
  <2>2. CASE stored' = stored /\ listed' = listed
    BY <2>1, <2>2 DEF InHand
  <2>3. CASE /\ listed # << >> /\ Head(listed).done
             /\ stored' = stored \cup {Head(listed).number} /\ listed' = Tail(listed)
    <3>1. 1 \in DOMAIN listed /\ Head(listed) = listed[1]
      BY <1>1, <2>3
    <3>2. \A i \in DOMAIN listed' : i + 1 \in DOMAIN listed /\ listed'[i] = listed[i + 1]
      BY <1>1, <2>3
    <3> QED BY <2>1, <2>3, <3>1, <3>2 DEF InHand
  <2> QED BY <1>7, <2>2, <2>3 DEF Store
<1>8. ASSUME NEW i \in DOMAIN listed, Finish(i)
      PROVE  /\ \A n \in DOMAIN ledger : ledger'[n] = ledger[n]
             /\ InHand' \subseteq InHand /\ crowded' = crowded
  <2>1. listed' = [listed EXCEPT ![i].done = TRUE] /\ UNCHANGED <<ledger, stored, crowded>>
    BY <1>8 DEF Finish
  <2>2. \A j \in DOMAIN listed : listed[j] \in EntriesOfList
    BY <1>1
  <2>3. DOMAIN listed' = DOMAIN listed /\ \A j \in DOMAIN listed : listed'[j].number = listed[j].number
    BY <2>1, <2>2 DEF EntriesOfList
  <2> QED BY <2>1, <2>3 DEF InHand
<1> QED BY <1>2, <1>4, <1>5, <1>6, <1>7, <1>8 DEF Next

LEMMA LimitInit == Init => LimitInv
<1> SUFFICES ASSUME Init PROVE LimitInv
  OBVIOUS
<1>1. InHand = {}
  BY DEF Init, InHand
<1>2. HandIsReadable(ledger, InHand)
  BY <1>1 DEF HandIsReadable
<1>3. ASSUME NEW t PROVE KeepsLimits(ledger, InHand, t)
  <2>1. At(ledger, InHand, t) = {}
    BY <1>1 DEF At
  <2>2. Cardinality({}) = 0 /\ Sum(ledger, {}) = 0
    BY FS_EmptySet, SumOfNone
  <2> QED BY <2>1, <2>2, ConstantsAssumption DEF KeepsLimits
<1> QED BY <1>2, <1>3, InitInv DEF LimitInv

LEMMA LimitNext == LimitInv /\ [Next]_vars => LimitInv'
<1> SUFFICES ASSUME LimitInv, [Next]_vars PROVE LimitInv'
  OBVIOUS
<1>1. Inv'
  BY NextInv DEF LimitInv
<1>2. CASE Read
  BY <1>1, <1>2, ReadKeepsLimits
<1>3. CASE Next /\ ~Read
  BY <1>1, <1>3, OthersTakeNothing, NothingNewInHand DEF LimitInv
<1>4. CASE UNCHANGED vars
  <2>1. UNCHANGED <<ledger, stored, listed, crowded>>
    BY <1>4 DEF vars, node
  <2> QED BY <1>1, <2>1, NothingNewInHand DEF InHand
<1> QED BY <1>2, <1>3, <1>4

LEMMA LimitInvariant == Spec => []LimitInv
BY LimitInit, LimitNext, PTL DEF Spec

\* Of a transaction time that was read only while nothing of it was under processing no more
\* is recorded than the protocol parameters allow (TransactionSelector.ts:66-76), in how many
\* parts and with how many restarts it was read.
THEOREM LimitsAreAlwaysKept == Spec => []LimitsAreKept
<1>1. LimitInv => LimitsAreKept
  <2> SUFFICES ASSUME LimitInv, NEW t \in Times \ crowded PROVE KeepsLimits(ledger, stored, t)
    BY DEF LimitsAreKept, KeepsLimits, At, Sum
  <2>1. TypeOK /\ InHand \in SUBSET DOMAIN ledger /\ stored \in SUBSET InHand
    BY HandType DEF LimitInv, Inv
  <2>2. KeepsLimits(ledger, InHand, t)
    BY DEF LimitInv
  <2> QED BY <2>1, <2>2, LessKeepsLimits
<1> QED BY <1>1, LimitInvariant, PTL

\* The queue and the order of AddsWhatPaidMost are those of the selector.
LEMMA SameQueue ==
  ASSUME TypeOK, NEW page \in SUBSET DOMAIN ledger
  PROVE  LET queue == {n \in page : /\ ledger[n].ops \in 1 .. MaxOperationsPerBatch
                                    /\ \A m \in page : m < n => ledger[m].writer # ledger[n].writer}
             upTo(n) == {m \in queue : \/ ledger[m].fee > ledger[n].fee
                                       \/ ledger[m].fee = ledger[n].fee /\ m <= n}
         IN /\ queue = ReadableIn(FirstOfEachWriter(page))
            /\ \A n \in queue : upTo(n) = UpTo(n, FirstOfEachWriter(page))
<1> DEFINE queue == {n \in page : /\ ledger[n].ops \in 1 .. MaxOperationsPerBatch
                                  /\ \A m \in page : m < n => ledger[m].writer # ledger[n].writer}
           upTo(n) == {m \in queue : \/ ledger[m].fee > ledger[n].fee
                                     \/ ledger[m].fee = ledger[n].fee /\ m <= n}
<1>1. \A n \in page : n \in Nat /\ ledger[n].fee \in Nat
  BY LedgerType DEF Records
<1>2. queue = ReadableIn(FirstOfEachWriter(page))
  <2>1. \A m, n \in page : m < n <=> ~(n <= m)
    BY <1>1
  <2> QED BY <2>1 DEF ReadableIn, FirstOfEachWriter, Readable
<1>3. ASSUME NEW n \in queue PROVE upTo(n) = UpTo(n, FirstOfEachWriter(page))
  <2>1. ASSUME NEW m \in queue
        PROVE  (ledger[m].fee > ledger[n].fee \/ (ledger[m].fee = ledger[n].fee /\ m <= n))
                 <=> (m = n \/ Before(m, n))
    <3>1. m \in Nat /\ n \in Nat /\ ledger[m].fee \in Nat /\ ledger[n].fee \in Nat
      BY <1>1, <1>3, <2>1
    <3> QED BY <3>1 DEF Before
  <2> HIDE DEF queue
  <2> QED BY <1>2, <2>1 DEF UpTo
<1> QED BY <1>2, <1>3

LEMMA ReadTakesByFee ==
  ASSUME LimitInv, [Next]_vars
  PROVE  [AddsWhatPaidMost]_vars
<1> SUFFICES ASSUME pc = "read", pc' = "wait", MayRead, NEW t \in Times
             PROVE  LET page  == {n \in Page : ledger[n].time = t}
                        queue == {n \in page : /\ ledger[n].ops \in 1 .. MaxOperationsPerBatch
                                               /\ \A m \in page : m < n => ledger[m].writer # ledger[n].writer}
                        upTo(n) == {m \in queue : \/ ledger[m].fee > ledger[n].fee
                                                  \/ ledger[m].fee = ledger[n].fee /\ m <= n}
                        old   == {n \in stored : ledger[n].time = t}
                        ops(S) == MapThenSumSet(LAMBDA n : ledger[n].ops, S)
                        new   == {listed'[i].number : i \in Len(listed) + 1 .. Len(listed')}
                    IN {n \in new : ledger[n].time = t} =
                         {n \in queue :
                            /\ Cardinality(old) + Cardinality(upTo(n)) <= MaxTransactionsPerTime
                            /\ ops(old) + ops(upTo(n)) <= MaxOperationsPerTime}
  BY DEF AddsWhatPaidMost
<1> DEFINE page  == {n \in Page : ledger[n].time = t}
           queue == {n \in page : /\ ledger[n].ops \in 1 .. MaxOperationsPerBatch
                                  /\ \A m \in page : m < n => ledger[m].writer # ledger[n].writer}
           upTo(n) == {m \in queue : \/ ledger[m].fee > ledger[n].fee
                                     \/ ledger[m].fee = ledger[n].fee /\ m <= n}
           old   == {n \in stored : ledger[n].time = t}
           new   == {listed'[i].number : i \in Len(listed) + 1 .. Len(listed')}
           first == FirstOfEachWriter(page)
<1>1. TypeOK /\ Inv
  BY DEF LimitInv, Inv
<1>2. Read
  BY DEF Next, NextTime, AnchorOther, Prepare, Write, Read, ReadNothing, Wait, Store, Restart,
         Finish, node, vars
<1>3. new = Qualified(Page)
  BY <1>1, <1>2, ReadAdds
<1>4. page = NumbersAt(t, Page) /\ page \in SUBSET DOMAIN ledger
  BY DEF NumbersAt, Page
<1>5. {n \in new : ledger[n].time = t} = Fitting(t, first)
  <2>1. At(ledger, Qualified(Page), t) = Fitting(t, first)
    BY <1>1, <1>4, QualifiedAt
  <2> HIDE DEF new, first
  <2> QED BY <1>3, <2>1 DEF At
<1>6. queue = ReadableIn(first) /\ \A n \in queue : upTo(n) = UpTo(n, first)
  <2> HIDE DEF page
  <2> QED BY <1>1, <1>4, SameQueue
<1>7. /\ RoomForTransactions(t) = MaxTransactionsPerTime - Cardinality(old)
      /\ RoomForOperations(t) = MaxOperationsPerTime - Sum(ledger, old)
      /\ Cardinality(old) \in Nat /\ Sum(ledger, old) \in Nat
  <2>1. HandIsReadable(ledger, stored)
    BY <1>1, HandType DEF LimitInv, HandIsReadable
  <2>2. ReadableIn(NumbersAt(t, stored)) = old /\ NumbersAt(t, stored) = old
    BY <2>1 DEF ReadableIn, NumbersAt, HandIsReadable
  <2>3. old \in SUBSET DOMAIN ledger
    BY <1>1 DEF TypeOK
  <2> HIDE DEF old
  <2>4. Counts(ledger, old)
    BY <1>1, <2>3, LedgerType
  <2>5. Cardinality(old) \in Nat /\ Sum(ledger, old) \in Nat
    BY <2>4, SumType, FS_CardinalityType DEF Counts
  <2> QED BY <2>2, <2>5, OperationsInIsSum DEF RoomForTransactions, RoomForOperations
<1>8. ASSUME NEW n \in queue
      PROVE  Fits(t, n, first) <=>
               /\ Cardinality(old) + Cardinality(upTo(n)) <= MaxTransactionsPerTime
               /\ Sum(ledger, old) + Sum(ledger, upTo(n)) <= MaxOperationsPerTime
  <2> DEFINE U == UpTo(n, first)
  <2>1. U \in SUBSET DOMAIN ledger
    BY <1>4 DEF UpTo, ReadableIn, FirstOfEachWriter
  <2>2. upTo(n) = U
    BY <1>6
  <2> HIDE DEF U, upTo, old, first
  <2>3. Counts(ledger, U)
    BY <1>1, <2>1, LedgerType
  <2>4. Cardinality(U) \in Nat /\ Sum(ledger, U) \in Nat
    BY <2>3, SumType, FS_CardinalityType DEF Counts
  <2>5. Fits(t, n, first) <=> /\ Cardinality(U) <= RoomForTransactions(t)
                              /\ Sum(ledger, U) <= RoomForOperations(t)
    BY OperationsInIsSum DEF Fits, U
  <2> QED BY <1>7, <2>2, <2>4, <2>5, ConstantsAssumption
<1>9. {n \in new : ledger[n].time = t} =
        {n \in queue :
           /\ Cardinality(old) + Cardinality(upTo(n)) <= MaxTransactionsPerTime
           /\ Sum(ledger, old) + Sum(ledger, upTo(n)) <= MaxOperationsPerTime}
  <2>1. Fitting(t, first) = {n \in queue : Fits(t, n, first)}
    <3> HIDE DEF queue, first
    <3> QED BY <1>6 DEF Fitting
  <2> HIDE DEF queue, first, new, old, upTo
  <2> QED BY <1>5, <1>8, <2>1
<1> QED BY <1>9 DEF Sum

\* Each read takes of a transaction time exactly what there is room for after everything that
\* paid more, whatever the page, the limits and what is recorded already
\* (TransactionSelector.ts:41-93).
THEOREM AlwaysTakesWhatPaidMost == Spec => TakesWhatPaidMost
<1>1. LimitInv /\ [Next]_vars => [AddsWhatPaidMost]_vars
  BY ReadTakesByFee
<1> QED BY <1>1, LimitInvariant, PTL DEF Spec, TakesWhatPaidMost
=============================================================================
