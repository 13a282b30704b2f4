--------------------------- MODULE ObserverProofs ---------------------------
(***************************************************************************)
(* Proofs about the live loop, for every ledger length, number of forks,   *)
(* page size, download limit and set of processing results.                *)
(***************************************************************************)
EXTENDS Observer, FiniteSetTheorems, SequenceTheorems, WellFoundedInduction, TLAPS

\* Every number up to the tip is anchored on some fork.
LedgerOK == \A n \in Numbers : n <= tip => chain[n] \in Forks

TypeInv == TypeOK /\ LedgerOK

\* Below an entry of the list every number is stored, skipped, or earlier in the list.
ListedWithoutGaps ==
  \A i \in DOMAIN listed, n \in Numbers :
    n < listed[i].tx.number =>
      \/ n \in NumbersOf(stored) \cup skipped
      \/ \E j \in 1 .. i - 1 : listed[j].tx.number = n

\* The entries the storing loop has passed are stored.
PassedAreStored ==
  \A j \in 1 .. toStore : listed[j].tx.number \in NumbersOf(stored)

\* The page that is read follows the last stored transaction.
CursorIsLastStored == pc = "read" => IsLastStored(cursor)

\* Nothing is under processing while the stores are reverted.
RevertsAlone ==
  /\ pc = "reorgTrim" => Processing = {}
  /\ pc \in {"findValid", "deleteOps", "deleteUnresolvable", "deleteTxs"} =>
       listed = << >> /\ toStore = 0

GapInv == /\ TypeInv /\ StoredWithoutGaps /\ ListedWithoutGaps /\ PassedAreStored
          /\ CursorIsLastStored /\ RevertsAlone

-----------------------------------------------------------------------------
(* Types                                                                   *)

LEMMA NoTxFacts ==
  /\ FirstNumber \in Nat /\ LastNumber \in Nat /\ FirstNumber <= LastNumber
  /\ NoTx.number = FirstNumber - 1
  /\ NoTx \notin Transactions
BY ConstantsAssumption DEF NoTx, Transactions, Forks

\* What a read appends to the list are entries of transactions on the chain.
LEMMA NewEntriesType ==
  ASSUME TypeInv, NEW lo, NEW hi,
         lo \in Int, hi \in Int, FirstNumber <= lo, lo <= hi => hi <= tip,
         NEW s \in Selections(lo, hi)
  PROVE  /\ s \in Seq(lo .. hi)
         /\ NewEntries(s) \in Seq(Entries)
         /\ Len(NewEntries(s)) = Len(s)
         /\ \A i \in 1 .. Len(s) : /\ s[i] \in Numbers /\ s[i] <= tip
                                   /\ NewEntries(s)[i] = [tx |-> At(s[i]), done |-> FALSE]
<1>1. PICK k \in 0 .. PageSize : s \in [1 .. k -> lo .. hi]
  BY DEF Selections
<1>2. k \in Nat
  BY <1>1, ConstantsAssumption
<1>3. s \in Seq(lo .. hi) /\ Len(s) = k /\ DOMAIN s = 1 .. k
  BY <1>1, <1>2
<1>4. \A i \in 1 .. k : s[i] \in Numbers /\ s[i] <= tip
  BY <1>1, <1>2, ConstantsAssumption DEF Numbers, TypeInv, TypeOK
<1>5. \A i \in 1 .. k : [tx |-> At(s[i]), done |-> FALSE] \in Entries
  BY <1>4 DEF Entries, At, Transactions, TypeInv, LedgerOK
<1>6. NewEntries(s) \in [1 .. k -> Entries]
  BY <1>3, <1>5 DEF NewEntries
<1>7. QED
  BY <1>2, <1>3, <1>4, <1>6 DEF NewEntries

\* The bounds of a page: it starts after what is stored and never passes the tip.
LEMMA PageBounds ==
  ASSUME TypeInv
  PROVE  /\ PageStart \in Int /\ FirstNumber <= PageStart
         /\ PageEnd \in Int /\ (PageStart <= PageEnd => PageEnd <= tip)
         /\ cursor # NoTx => cursor \in Transactions /\ PageStart <= cursor.number + 1
         /\ cursor = NoTx => PageStart = FirstNumber
<1>1. cursor # NoTx => cursor \in Transactions /\ cursor.number \in Int
                       /\ FirstNumber <= cursor.number
  BY NoTxFacts DEF TypeInv, TypeOK, Transactions, Numbers
<1>2. PageStart \in Int /\ FirstNumber <= PageStart
  BY <1>1, NoTxFacts DEF PageStart
<1>3. Room \in Int /\ PageSize \in Int /\ tip \in Int
  BY ConstantsAssumption DEF Room, TypeInv, TypeOK, Entries
<1>4. LastOffered \in Int /\ LastOffered <= tip
  BY <1>3, ConstantsAssumption DEF LastOffered
<1>5. PageEnd \in Int /\ (PageStart <= PageEnd => PageEnd <= tip)
  BY <1>2, <1>3, <1>4 DEF PageEnd
<1>6. QED
  BY <1>1, <1>2, <1>5 DEF PageStart

\* The transaction at an anchored number.
LEMMA AtType ==
  ASSUME TypeInv, NEW n \in Int, FirstNumber <= n, n <= tip
  PROVE  At(n) \in Transactions
BY ConstantsAssumption DEF At, Transactions, Numbers, TypeInv, TypeOK, LedgerOK

LEMMA TypeInit == Init => TypeInv
<1> SUFFICES ASSUME Init PROVE TypeInv
  OBVIOUS
<1>1. 1 \in Forks /\ 0 \in 0 .. MaxFork /\ 1 \in 0 .. MaxFork
  BY ConstantsAssumption DEF Forks
<1>2. stored \subseteq Transactions /\ unresolvable \subseteq Transactions
      /\ skipped \subseteq Numbers
  BY <1>1, ConstantsAssumption DEF Init, Transactions, Numbers
<1>3. ops \in [Transactions -> {"none", "core", "all"}]
  BY DEF Init
<1>4. verdict \in [Transactions -> AllResults \cup {"never"}]
  BY DEF Init, AllResults
<1>5. chain \in [Numbers -> 0 .. MaxFork]
  BY <1>1 DEF Init
<1>6. listed \in Seq(Entries) /\ toStore \in 0 .. Len(listed)
  BY EmptySeq DEF Init
<1>7. TypeOK
  BY <1>1, <1>2, <1>3, <1>4, <1>5, <1>6 DEF Init, TypeOK, Places
<1>8. LedgerOK
  BY <1>1 DEF Init, LedgerOK
<1>9. QED
  BY <1>7, <1>8 DEF TypeInv

\* The steps of the ledger and its adapter.
LEMMA TypeLedger ==
  TypeInv /\ (Anchor \/ Reorganize \/ AdapterRestarts \/ AdapterCatchesUp) => TypeInv'
<1> SUFFICES ASSUME TypeInv, Anchor \/ Reorganize \/ AdapterRestarts \/ AdapterCatchesUp
             PROVE  TypeInv'
  OBVIOUS
<1> USE ConstantsAssumption DEF TypeInv, store, memory, notes
<1>1. CASE Anchor
  <2>1. tip + 1 \in Numbers /\ fork \in 0 .. MaxFork
    BY <1>1 DEF Anchor, TypeOK, Numbers, Forks
  <2>2. TypeOK'
    BY <1>1, <2>1 DEF Anchor, TypeOK
  <2>3. LedgerOK'
    BY <1>1, <2>1 DEF Anchor, TypeOK, LedgerOK, Numbers
  <2>4. QED
    BY <2>2, <2>3
<1>2. CASE Reorganize
  <2>1. fork + 1 \in Forks /\ fork + 1 \in 0 .. MaxFork /\ 0 \in 0 .. MaxFork
    BY <1>2 DEF Reorganize, TypeOK, Forks
  <2>2. TypeOK'
    BY <1>2, <2>1 DEF Reorganize, TypeOK
  <2>3. LedgerOK'
    <3>1. PICK kept \in FirstNumber - 1 .. tip - 1, newTip \in FirstNumber - 1 .. LastNumber :
            /\ chain' = [n \in Numbers |-> IF n <= kept THEN chain[n]
                                           ELSE IF n <= newTip THEN fork + 1 ELSE 0]
            /\ tip' = newTip
      BY <1>2 DEF Reorganize
    <3>2. \A n \in Numbers : n <= kept => n <= tip
      BY DEF TypeOK, Numbers
    <3>3. QED
      BY <3>1, <3>2, <2>1 DEF LedgerOK
  <2>4. QED
    BY <2>2, <2>3
<1>3. CASE AdapterRestarts
  BY <1>3 DEF AdapterRestarts, TypeOK, LedgerOK
<1>4. CASE AdapterCatchesUp
  BY <1>4 DEF AdapterCatchesUp, TypeOK, LedgerOK
<1>5. QED
  BY <1>1, <1>2, <1>3, <1>4

\* The end of one processing run.
LEMMA TypeProcess ==
  ASSUME TypeInv, NEW t \in Transactions, NEW r \in Results, Process(t, r)
  PROVE  /\ ops' \in [Transactions -> {"none", "core", "all"}]
         /\ unresolvable' \subseteq Transactions
         /\ verdict' \in [Transactions -> AllResults \cup {"never"}]
<1>1. r \in AllResults
  BY ConstantsAssumption
<1>2. WhatIsInserted(t, r) \in [Transactions -> {"none", "core", "all"}]
  BY <1>1 DEF WhatIsInserted, AllResults, TypeInv, TypeOK
<1>3. QED
  BY <1>1, <1>2 DEF Process, TypeInv, TypeOK

LEMMA TypeFinish ==
  ASSUME TypeInv, NEW t \in Transactions, FinishListed(t) \/ FinishRetry(t)
  PROVE  TypeInv'
<1>1. CASE FinishListed(t)
  <2>1. PICK i \in Processing, r \in Results :
          /\ Process(t, r)
          /\ listed' = [listed EXCEPT ![i].done = DoneAfter(r)]
    BY <1>1 DEF FinishListed
  <2>2. listed \in Seq(Entries) /\ DOMAIN listed = 1 .. Len(listed)
    BY DEF TypeInv, TypeOK
  <2>3. i \in 1 .. Len(listed) /\ listed[i] \in Entries
    BY <2>2 DEF Processing
  <2>4. [listed[i] EXCEPT !.done = TRUE] \in Entries
    BY <2>3 DEF Entries
  <2>5. listed' \in Seq(Entries) /\ Len(listed') = Len(listed)
    BY <2>1, <2>2, <2>3, <2>4, ExceptSeq DEF DoneAfter
  <2>6. QED
    BY <1>1, <2>1, <2>5, TypeProcess
       DEF FinishListed, TypeInv, TypeOK, LedgerOK, ledger
<1>2. CASE FinishRetry(t)
  BY <1>2, TypeProcess DEF FinishRetry, TypeInv, TypeOK, LedgerOK, ledger
<1>3. QED
  BY <1>1, <1>2

LEMMA TypeTrimming == TypeInv /\ (StoreNext \/ TrimListed) => TypeInv'
<1> SUFFICES ASSUME TypeInv, StoreNext \/ TrimListed PROVE TypeInv'
  OBVIOUS
<1>0. listed \in Seq(Entries) /\ toStore \in 0 .. Len(listed) /\ Len(listed) \in Nat
  BY DEF TypeInv, TypeOK, Entries
<1>1. CASE StoreNext
  <2>1. toStore + 1 \in 1 .. Len(listed) /\ listed[toStore + 1] \in Entries
    BY <1>0, <1>1 DEF StoreNext, MayStore
  <2>2. stored' \subseteq Transactions
    BY <1>1, <2>1 DEF StoreNext, AddTransaction, Entries, TypeInv, TypeOK
  <2>3. toStore' \in 0 .. Len(listed')
    BY <1>1, <2>1, <1>0 DEF StoreNext
  <2>4. QED
    BY <1>1, <2>2, <2>3 DEF StoreNext, TypeInv, TypeOK, LedgerOK, ledger, notes
<1>2. CASE TrimListed
  <2>1. listed' \in Seq(Entries)
    <3>1. \A i \in toStore + 1 .. Len(listed) : listed[i] \in Entries
      BY <1>0
    <3>2. QED
      BY <1>0, <1>2, <3>1, SubSeqProperties DEF TrimListed, Trimmed
  <2>2. toStore' = 0 /\ Len(listed') \in Nat
    BY <1>2, <2>1 DEF TrimListed, IndexAfterTrim
  <2>3. pc' \in Places
    BY <1>2 DEF TrimListed, Trimming, AfterTrim, Places
  <2>4. QED
    BY <1>2, <2>1, <2>2, <2>3
       DEF TrimListed, TypeInv, TypeOK, LedgerOK, ledger, store, notes, Entries
<1>3. QED
  BY <1>1, <1>2

LEMMA TypeRead == TypeInv /\ ReadPage => TypeInv'
<1> SUFFICES ASSUME TypeInv, ReadPage PROVE TypeInv'
  OBVIOUS
<1>1. /\ PageStart \in Int /\ FirstNumber <= PageStart
      /\ PageEnd \in Int /\ (PageStart <= PageEnd => PageEnd <= tip)
  BY PageBounds
<1>2. PICK s \in Selections(PageStart, PageEnd) :
        /\ listed' = listed \o NewEntries(s)
        /\ skipped' = skipped \cup {n \in PageStart .. PageEnd : \A i \in DOMAIN s : s[i] # n}
  BY DEF ReadPage
<1>3. NewEntries(s) \in Seq(Entries) /\ listed \in Seq(Entries)
  BY <1>1, NewEntriesType DEF TypeInv, TypeOK, Entries
<1>4. listed' \in Seq(Entries) /\ Len(listed') = Len(listed) + Len(NewEntries(s))
  BY <1>2, <1>3, ConcatProperties
<1>5. toStore' \in 0 .. Len(listed')
  BY <1>3, <1>4, LenProperties DEF ReadPage, TypeInv, TypeOK
<1>6. skipped' \subseteq Numbers
  <2>1. tip \in Int /\ tip <= LastNumber /\ skipped \subseteq Numbers
    BY ConstantsAssumption DEF TypeInv, TypeOK
  <2>2. PageStart .. PageEnd \subseteq Numbers
    BY <1>1, <2>1, ConstantsAssumption DEF Numbers
  <2>3. QED
    BY <1>2, <2>1, <2>2
<1>7. cursor' \in Transactions \cup {NoTx}
  <2>1. CASE PageStart <= PageEnd
    <3>1. At(PageEnd) \in Transactions
      BY <1>1, <2>1, AtType, ConstantsAssumption
    <3>2. QED
      BY <2>1, <3>1 DEF ReadPage
  <2>2. CASE ~(PageStart <= PageEnd)
    BY <2>2 DEF ReadPage, TypeInv, TypeOK
  <2>3. QED
    BY <2>1, <2>2
<1>8. more' \in BOOLEAN /\ pc' \in Places
  BY DEF ReadPage, Places
<1>9. QED
  BY <1>4, <1>5, <1>6, <1>7, <1>8
     DEF ReadPage, TypeInv, TypeOK, LedgerOK, ledger, store, Entries

\* The other steps of the loop change the place, the cursor and the retries.
LEMMA TypeLoop ==
  TypeInv /\ (\/ Poll \/ GetLast \/ ReadInvalid \/ CheckTime \/ ReorgWait \/ Wait
              \/ GetDue \/ RetryWait) => TypeInv'
<1> SUFFICES ASSUME TypeInv, \/ Poll \/ GetLast \/ ReadInvalid \/ CheckTime \/ ReorgWait
                             \/ Wait \/ GetDue \/ RetryWait
             PROVE  TypeInv'
  OBVIOUS
<1> USE DEF TypeInv, TypeOK, LedgerOK, Places, ledger, store, notes
<1>1. CASE Poll
  BY <1>1 DEF Poll
<1>2. CASE GetLast
  BY <1>2 DEF GetLast
<1>3. CASE ReadInvalid
  BY <1>3 DEF ReadInvalid
<1>4. CASE CheckTime
  BY <1>4 DEF CheckTime
<1>5. CASE ReorgWait
  BY <1>5 DEF ReorgWait
<1>6. CASE Wait
  BY <1>6 DEF Wait
<1>7. CASE GetDue
  BY <1>7 DEF GetDue
<1>8. CASE RetryWait
  BY <1>8 DEF RetryWait
<1>9. QED
  BY <1>1, <1>2, <1>3, <1>4, <1>5, <1>6, <1>7, <1>8

LEMMA TypeRevert ==
  TypeInv /\ (FindValid \/ DeleteOps \/ DeleteUnresolvable \/ DeleteTxs) => TypeInv'
<1> SUFFICES ASSUME TypeInv, FindValid \/ DeleteOps \/ DeleteUnresolvable \/ DeleteTxs
             PROVE  TypeInv'
  OBVIOUS
<1> USE DEF TypeInv, TypeOK, LedgerOK, Places, ledger, store, notes
<1>1. CASE FindValid
  <2>1. best' \in Transactions \cup {NoTx}
    BY <1>1 DEF FindValid, ExponentiallySpaced, IsLastIn
  <2>2. QED
    BY <1>1, <2>1 DEF FindValid
<1>2. CASE DeleteOps
  BY <1>2 DEF DeleteOps
<1>3. CASE DeleteUnresolvable
  BY <1>3 DEF DeleteUnresolvable
<1>4. CASE DeleteTxs
  BY <1>4 DEF DeleteTxs
<1>5. QED
  BY <1>1, <1>2, <1>3, <1>4

LEMMA TypeFaults == TypeInv /\ (CallRejected \/ Crash) => TypeInv'
<1> SUFFICES ASSUME TypeInv, CallRejected \/ Crash PROVE TypeInv'
  OBVIOUS
<1> USE DEF TypeInv, TypeOK, LedgerOK, Places, ledger, store
<1>1. CASE CallRejected
  BY <1>1 DEF CallRejected
<1>2. CASE Crash
  <2>1. listed' \in Seq(Entries) /\ toStore' \in 0 .. Len(listed')
    BY <1>2, EmptySeq DEF Crash
  <2>2. /\ UNCHANGED <<chain, tip, fork, behind, stored, ops, unresolvable, verdict, skipped>>
        /\ pc' = "idle" /\ cursor' = NoTx /\ more' = FALSE
        /\ retrying' = {} /\ best' = NoTx /\ faults' \in Nat
    BY <1>2 DEF Crash
  <2>3. QED
    BY <2>1, <2>2
<1>3. QED
  BY <1>1, <1>2

LEMMA TypeStep == TypeInv /\ [Next]_vars => TypeInv'
<1> SUFFICES ASSUME TypeInv, [Next]_vars PROVE TypeInv'
  OBVIOUS
<1>1. CASE UNCHANGED vars
  BY <1>1 DEF vars, ledger, store, memory, notes, TypeInv, TypeOK, LedgerOK
<1>2. CASE Next
  BY <1>2, TypeLedger, TypeFinish, TypeTrimming, TypeRead, TypeLoop, TypeRevert, TypeFaults
     DEF Next, LoopStep
<1>3. QED
  BY <1>1, <1>2

\* Every variable of the live loop keeps its type, whatever the constants.
THEOREM TypeCorrect == Spec => []TypeOK
<1>1. Spec => []TypeInv
  BY TypeInit, TypeStep, PTL DEF Spec
<1>2. TypeInv => TypeOK
  BY DEF TypeInv
<1>3. QED
  BY <1>1, <1>2, PTL
-----------------------------------------------------------------------------
(* No gap below what is stored                                             *)

LEMMA ListedType ==
  ASSUME TypeInv, NEW i \in DOMAIN listed
  PROVE  listed[i] \in Entries /\ listed[i].tx \in Transactions
<1>1. listed \in Seq(Entries)
  BY DEF TypeInv, TypeOK
<1>2. listed[i] \in Entries
  BY <1>1
<1>3. QED
  BY <1>2 DEF Entries

\* Trimming drops the entries that the storing loop has passed.
LEMMA TrimEntries ==
  ASSUME TypeInv, TrimListed
  PROVE  /\ DOMAIN listed' = 1 .. Len(listed) - toStore
         /\ \A i \in DOMAIN listed' : /\ toStore + i \in DOMAIN listed
                                     /\ listed'[i] = listed[toStore + i]
<1>1. /\ listed \in Seq(Entries) /\ Len(listed) \in Nat /\ DOMAIN listed = 1 .. Len(listed)
      /\ toStore \in 0 .. Len(listed)
      /\ listed' = SubSeq(listed, toStore + 1, Len(listed))
  BY DEF TypeInv, TypeOK, TrimListed, Trimmed, Entries
<1>2. \A k \in toStore + 1 .. Len(listed) : listed[k] \in Entries
  BY <1>1
<1>3. /\ listed' \in Seq(Entries)
      /\ Len(listed') = IF toStore + 1 <= Len(listed) THEN Len(listed) - (toStore + 1) + 1
                        ELSE 0
      /\ \A k \in 1 .. Len(listed) - (toStore + 1) + 1 :
           listed'[k] = listed[toStore + 1 + k - 1]
  BY <1>1, <1>2, SubSeqProperties
<1>4. Len(listed') = Len(listed) - toStore
  <2>1. Len(listed') = IF toStore + 1 <= Len(listed) THEN Len(listed) - (toStore + 1) + 1
                       ELSE 0
    BY <1>3
  <2>2. Len(listed) \in Nat /\ toStore \in 0 .. Len(listed)
    BY <1>1
  <2>3. QED
    BY <2>1, <2>2
<1>5. DOMAIN listed' = 1 .. Len(listed) - toStore
  BY <1>3, <1>4
<1>6. ASSUME NEW i \in 1 .. Len(listed) - toStore
      PROVE  toStore + i \in DOMAIN listed /\ listed'[i] = listed[toStore + i]
  <2>1. /\ i \in 1 .. Len(listed) - (toStore + 1) + 1
        /\ toStore + i \in 1 .. Len(listed)
        /\ toStore + 1 + i - 1 = toStore + i
    BY <1>1
  <2>2. QED
    BY <1>1, <1>3, <2>1
<1>7. QED
  BY <1>5, <1>6

\* Reading the list after a processing run ended: only `done` of one entry changed.
LEMMA FinishKeepsList ==
  ASSUME TypeInv, NEW t \in Transactions, FinishListed(t)
  PROVE  /\ Len(listed') = Len(listed) /\ DOMAIN listed' = DOMAIN listed
         /\ \A j \in DOMAIN listed : /\ listed'[j].tx = listed[j].tx
                                     /\ listed[j].done => listed'[j].done
         /\ \E i \in Processing : listed[i].tx = t
         /\ \A j \in DOMAIN listed : listed'[j].done /\ ~listed[j].done => listed'[j].tx = t
         /\ UNCHANGED <<stored, skipped, toStore, cursor, pc, retrying, best>>
<1>1. PICK i \in Processing, r \in Results :
        /\ listed[i].tx = t
        /\ listed' = [listed EXCEPT ![i].done = DoneAfter(r)]
  BY DEF FinishListed
<1>2. listed \in Seq(Entries) /\ DOMAIN listed = 1 .. Len(listed) /\ i \in DOMAIN listed
  BY DEF TypeInv, TypeOK, Processing
<1>3. listed[i] \in Entries
  BY <1>2
<1>4. [listed[i] EXCEPT !.done = TRUE] \in Entries
      /\ [listed[i] EXCEPT !.done = TRUE].tx = listed[i].tx
  BY <1>3 DEF Entries
<1>5. /\ listed' \in Seq(Entries) /\ Len(listed') = Len(listed)
      /\ \A j \in 1 .. Len(listed) :
           listed'[j] = IF j = i THEN [listed[i] EXCEPT !.done = TRUE] ELSE listed[j]
  BY <1>1, <1>2, <1>4, ExceptSeq DEF DoneAfter
<1>6. \A j \in DOMAIN listed : /\ listed'[j].tx = listed[j].tx
                               /\ listed[j].done => listed'[j].done
                               /\ listed'[j].done /\ ~listed[j].done => j = i
  BY <1>2, <1>3, <1>4, <1>5 DEF Entries
<1>7. QED
  BY <1>1, <1>2, <1>5, <1>6 DEF FinishListed

LEMMA AloneInit == Init => RevertsAlone
BY DEF Init, RevertsAlone

LEMMA AloneStep == TypeInv /\ RevertsAlone /\ [Next]_vars => RevertsAlone'
<1> SUFFICES ASSUME TypeInv, RevertsAlone, [Next]_vars PROVE RevertsAlone'
  OBVIOUS
<1> USE DEF RevertsAlone
<1>1. ASSUME NEW t \in Transactions, FinishListed(t) PROVE RevertsAlone'
  <2>1. /\ Processing # {} /\ DOMAIN listed' = DOMAIN listed /\ UNCHANGED <<pc, toStore>>
        /\ \A j \in DOMAIN listed : listed[j].done => listed'[j].done
    BY <1>1, FinishKeepsList
  <2>2. listed # << >>
    BY <2>1 DEF Processing
  <2>3. QED
    BY <2>1, <2>2
<1>2. CASE TrimListed
  <2>1. pc' = AfterTrim /\ toStore' = 0
    BY <1>2 DEF TrimListed, IndexAfterTrim
  <2>2. CASE pc = "reorgTrim"
    <3>1. listed \in Seq(Entries) /\ toStore \in 0 .. Len(listed)
      BY DEF TypeInv, TypeOK
    <3>2. ~(toStore + 1 <= Len(listed))
      <4>1. toStore + 1 <= Len(listed) => toStore + 1 \in Processing
        BY <3>1, <1>2 DEF TrimListed, MayStore, Processing
      <4>2. QED
        BY <4>1, <2>2
    <3>3. listed' = << >>
      BY <3>1, <3>2, <1>2, SubSeqEmpty DEF TrimListed, Trimmed
    <3>4. QED
      BY <2>1, <2>2, <3>3 DEF AfterTrim
  <2>3. CASE pc # "reorgTrim"
    BY <1>2, <2>1, <2>3 DEF AfterTrim, TrimListed, Trimming
  <2>4. QED
    BY <2>2, <2>3
<1>3. ASSUME \/ StoreNext \/ Poll \/ GetLast \/ ReadInvalid \/ CheckTime \/ ReorgWait
             \/ Wait \/ GetDue \/ RetryWait \/ ReadPage
      PROVE  RevertsAlone'
  BY <1>3 DEF StoreNext, Poll, GetLast, ReadInvalid, CheckTime, ReorgWait, Wait, GetDue,
              RetryWait, ReadPage, MayEndReorgWait, Processing, Trimming
<1>4. ASSUME FindValid \/ DeleteOps \/ DeleteUnresolvable \/ DeleteTxs
      PROVE  RevertsAlone'
  BY <1>4 DEF FindValid, DeleteOps, DeleteUnresolvable, DeleteTxs
<1>5. ASSUME \/ Anchor \/ Reorganize \/ AdapterRestarts \/ AdapterCatchesUp
             \/ UNCHANGED vars \/ \E t \in Transactions : FinishRetry(t)
      PROVE  RevertsAlone'
  BY <1>5 DEF Anchor, Reorganize, AdapterRestarts, AdapterCatchesUp, vars, memory, FinishRetry,
              Processing
<1>6. ASSUME CallRejected \/ Crash PROVE RevertsAlone'
  BY <1>6 DEF CallRejected, Crash
<1>7. QED
  BY <1>1, <1>2, <1>3, <1>4, <1>5, <1>6 DEF Next, LoopStep

\* A read starts at the transaction that GetLast found, since nothing stores in between.
LEMMA CursorStep ==
  TypeInv /\ CursorIsLastStored /\ [Next]_vars => CursorIsLastStored'
<1> SUFFICES ASSUME TypeInv, CursorIsLastStored, [Next]_vars PROVE CursorIsLastStored'
  OBVIOUS
<1> USE DEF CursorIsLastStored, IsLastStored, IsLastIn
<1>1. ASSUME NEW t \in Transactions, FinishListed(t) \/ FinishRetry(t)
      PROVE  CursorIsLastStored'
  BY <1>1 DEF FinishListed, FinishRetry
<1>2. CASE GetLast
  BY <1>2 DEF GetLast, store
<1>3. CASE StoreNext \/ TrimListed
  BY <1>3 DEF StoreNext, TrimListed, Trimming, AfterTrim
<1>4. ASSUME \/ Poll \/ ReadInvalid \/ CheckTime \/ ReorgWait \/ Wait \/ GetDue \/ RetryWait
             \/ ReadPage
      PROVE  CursorIsLastStored'
  BY <1>4 DEF Poll, ReadInvalid, CheckTime, ReorgWait, Wait, GetDue, RetryWait, ReadPage
<1>5. ASSUME FindValid \/ DeleteOps \/ DeleteUnresolvable \/ DeleteTxs
      PROVE  CursorIsLastStored'
  BY <1>5 DEF FindValid, DeleteOps, DeleteUnresolvable, DeleteTxs
<1>6. ASSUME Anchor \/ Reorganize \/ AdapterRestarts \/ AdapterCatchesUp \/ UNCHANGED vars
      PROVE  CursorIsLastStored'
  BY <1>6 DEF Anchor, Reorganize, AdapterRestarts, AdapterCatchesUp, vars, memory, store
<1>7. ASSUME CallRejected \/ Crash PROVE CursorIsLastStored'
  BY <1>7 DEF CallRejected, Crash
<1>8. QED
  BY <1>1, <1>2, <1>3, <1>4, <1>5, <1>6, <1>7 DEF Next, LoopStep

LEMMA GapInit == Init => GapInv
<1> SUFFICES ASSUME Init PROVE GapInv
  OBVIOUS
<1>1. PICK last \in FirstNumber - 1 .. tip :
        \E refused \in SUBSET (FirstNumber .. last) :
          /\ stored = {[number |-> n, fork |-> 1] : n \in (FirstNumber .. last) \ refused}
          /\ skipped = refused
  BY DEF Init
<1>2. StoredWithoutGaps
  <2> SUFFICES ASSUME NEW t \in stored, NEW n \in Numbers, n < t.number, n \notin skipped
               PROVE  n \in NumbersOf(stored)
    BY DEF StoredWithoutGaps
  <2>1. t.number \in FirstNumber .. last
    BY <1>1
  <2>2. n \in FirstNumber .. last
    BY <2>1, ConstantsAssumption DEF Numbers, Init
  <2>3. [number |-> n, fork |-> 1] \in stored
    BY <1>1, <2>2
  <2>4. QED
    BY <2>3 DEF NumbersOf
<1>3. ListedWithoutGaps /\ PassedAreStored /\ CursorIsLastStored
  BY DEF Init, ListedWithoutGaps, PassedAreStored, CursorIsLastStored
<1>4. QED
  BY <1>2, <1>3, TypeInit, AloneInit DEF GapInv

\* The part of the invariant about numbers.
GapParts == StoredWithoutGaps /\ ListedWithoutGaps /\ PassedAreStored

\* Steps that leave the list, its index, the transaction store and the skipped numbers alone.
LEMMA GapQuiet ==
  GapParts /\ UNCHANGED <<listed, toStore, stored, skipped>> => GapParts'
BY DEF GapParts, StoredWithoutGaps, ListedWithoutGaps, PassedAreStored, NumbersOf

LEMMA GapFinish ==
  ASSUME TypeInv, GapParts, NEW t \in Transactions, FinishListed(t)
  PROVE  GapParts'
<1>1. /\ DOMAIN listed' = DOMAIN listed
      /\ \A j \in DOMAIN listed : listed'[j].tx = listed[j].tx
      /\ UNCHANGED <<stored, skipped, toStore>>
  BY FinishKeepsList
<1>2. DOMAIN listed = 1 .. Len(listed) /\ toStore \in 0 .. Len(listed) /\ Len(listed) \in Nat
  BY DEF TypeInv, TypeOK, Entries
<1>3. StoredWithoutGaps'
  BY <1>1 DEF GapParts, StoredWithoutGaps, NumbersOf
<1>4. ListedWithoutGaps'
  <2> SUFFICES ASSUME NEW i \in DOMAIN listed, NEW n \in Numbers, n < listed[i].tx.number,
                      n \notin NumbersOf(stored) \cup skipped
               PROVE  \E j \in 1 .. i - 1 : listed'[j].tx.number = n
    BY <1>1 DEF ListedWithoutGaps, NumbersOf
  <2>1. PICK j \in 1 .. i - 1 : listed[j].tx.number = n
    BY DEF GapParts, ListedWithoutGaps
  <2>2. j \in DOMAIN listed
    BY <1>2
  <2>3. QED
    BY <1>1, <2>1, <2>2
<1>5. PassedAreStored'
  <2> SUFFICES ASSUME NEW j \in 1 .. toStore
               PROVE  listed'[j].tx.number \in NumbersOf(stored)
    BY <1>1 DEF PassedAreStored, NumbersOf
  <2>1. j \in DOMAIN listed
    BY <1>2
  <2>2. QED
    BY <1>1, <2>1 DEF GapParts, PassedAreStored
<1>6. QED
  BY <1>3, <1>4, <1>5 DEF GapParts

\* Storing the next entry: what is below it is stored, skipped, or was passed before.
LEMMA GapStore == TypeInv /\ GapParts /\ StoreNext => GapParts'
<1> SUFFICES ASSUME TypeInv, GapParts, StoreNext PROVE GapParts'
  OBVIOUS
<1> DEFINE t == listed[toStore + 1].tx
<1>1. /\ listed \in Seq(Entries) /\ Len(listed) \in Nat /\ DOMAIN listed = 1 .. Len(listed)
      /\ toStore \in Nat /\ toStore + 1 \in DOMAIN listed
  BY DEF TypeInv, TypeOK, StoreNext, MayStore, Entries
<1>2. stored' = AddTransaction(t) /\ toStore' = toStore + 1
      /\ UNCHANGED <<listed, skipped>>
  BY DEF StoreNext, notes
<1>3. /\ \A n \in NumbersOf(stored) : n \in NumbersOf(stored')
      /\ t.number \in NumbersOf(stored')
      /\ \A u \in stored' : u \in stored \/ u = t
  BY <1>2 DEF AddTransaction, NumbersOf
<1>4. StoredWithoutGaps'
  <2> SUFFICES ASSUME NEW u \in stored', NEW n \in Numbers, n < u.number, n \notin skipped
               PROVE  n \in NumbersOf(stored')
    BY <1>2 DEF StoredWithoutGaps, NumbersOf
  <2>1. CASE u \in stored
    BY <2>1, <1>3 DEF GapParts, StoredWithoutGaps
  <2>2. CASE u = t
    <3>1. n \in NumbersOf(stored) \/ \E j \in 1 .. toStore : listed[j].tx.number = n
      BY <2>2, <1>1 DEF GapParts, ListedWithoutGaps
    <3>2. QED
      BY <3>1, <1>3 DEF GapParts, PassedAreStored
  <2>3. QED
    BY <2>1, <2>2, <1>3
<1>5. ListedWithoutGaps'
  BY <1>2, <1>3 DEF GapParts, ListedWithoutGaps, NumbersOf
<1>6. PassedAreStored'
  <2> SUFFICES ASSUME NEW j \in 1 .. toStore + 1
               PROVE  listed[j].tx.number \in NumbersOf(stored')
    BY <1>2 DEF PassedAreStored, NumbersOf
  <2>1. CASE j = toStore + 1
    BY <2>1, <1>3
  <2>2. CASE j # toStore + 1
    <3>1. j \in 1 .. toStore
      BY <2>2, <1>1
    <3>2. QED
      BY <3>1, <1>3 DEF GapParts, PassedAreStored
  <2>3. QED
    BY <2>1, <2>2
<1>7. QED
  BY <1>4, <1>5, <1>6 DEF GapParts

\* Trimming drops entries that are all stored.
LEMMA GapTrim == TypeInv /\ GapParts /\ TrimListed => GapParts'
<1> SUFFICES ASSUME TypeInv, GapParts, TrimListed PROVE GapParts'
  OBVIOUS
<1>1. /\ listed \in Seq(Entries) /\ Len(listed) \in Nat /\ DOMAIN listed = 1 .. Len(listed)
      /\ toStore \in 0 .. Len(listed)
  BY DEF TypeInv, TypeOK, Entries
<1>2. listed' = SubSeq(listed, toStore + 1, Len(listed)) /\ toStore' = 0
      /\ UNCHANGED <<stored, skipped>>
  BY DEF TrimListed, Trimmed, IndexAfterTrim, store, notes
<1>3. /\ DOMAIN listed' = 1 .. Len(listed) - toStore
      /\ \A i \in DOMAIN listed' : toStore + i \in DOMAIN listed
                                  /\ listed'[i] = listed[toStore + i]
  BY TrimEntries
<1>4. StoredWithoutGaps'
  BY <1>2 DEF GapParts, StoredWithoutGaps, NumbersOf
<1>5. ListedWithoutGaps'
  <2> SUFFICES ASSUME NEW i \in DOMAIN listed', NEW n \in Numbers, n < listed'[i].tx.number,
                      n \notin NumbersOf(stored) \cup skipped
               PROVE  \E j \in 1 .. i - 1 : listed'[j].tx.number = n
    BY <1>2 DEF ListedWithoutGaps, NumbersOf
  <2>1. toStore + i \in DOMAIN listed /\ listed'[i] = listed[toStore + i]
    BY <1>1, <1>3
  <2>2. PICK j \in 1 .. (toStore + i) - 1 : listed[j].tx.number = n
    <3>1. n < listed[toStore + i].tx.number
      BY <2>1
    <3>2. QED
      BY <2>1, <3>1 DEF GapParts, ListedWithoutGaps
  <2>3. j \notin 1 .. toStore
    BY <2>2 DEF GapParts, PassedAreStored
  <2>4. /\ j - toStore \in 1 .. i - 1 /\ j - toStore \in 1 .. Len(listed) - toStore
        /\ toStore + (j - toStore) = j
    BY <1>1, <1>3, <2>2, <2>3
  <2>5. QED
    BY <1>3, <2>2, <2>4
<1>6. PassedAreStored'
  BY <1>2 DEF PassedAreStored
<1>7. QED
  BY <1>4, <1>5, <1>6 DEF GapParts

\* Reading a page: what is below the page is below the last stored transaction, and what is
\* in the page is listed or skipped.
LEMMA GapRead == TypeInv /\ GapParts /\ CursorIsLastStored /\ ReadPage => GapParts'
<1> SUFFICES ASSUME TypeInv, GapParts, CursorIsLastStored, ReadPage PROVE GapParts'
  OBVIOUS
<1>1. /\ PageStart \in Int /\ FirstNumber <= PageStart
      /\ PageEnd \in Int /\ (PageStart <= PageEnd => PageEnd <= tip)
      /\ cursor # NoTx => cursor \in Transactions /\ PageStart <= cursor.number + 1
      /\ cursor = NoTx => PageStart = FirstNumber
  BY PageBounds
<1>2. PICK s \in Selections(PageStart, PageEnd) :
        /\ listed' = listed \o NewEntries(s)
        /\ skipped' = skipped \cup {n \in PageStart .. PageEnd : \A i \in DOMAIN s : s[i] # n}
  BY DEF ReadPage
<1>3. UNCHANGED <<stored, toStore>>
  BY DEF ReadPage, store
<1>4. /\ s \in Seq(PageStart .. PageEnd) /\ NewEntries(s) \in Seq(Entries)
      /\ Len(NewEntries(s)) = Len(s)
      /\ \A i \in 1 .. Len(s) : NewEntries(s)[i].tx.number = s[i]
  <2>1. /\ s \in Seq(PageStart .. PageEnd) /\ NewEntries(s) \in Seq(Entries)
        /\ Len(NewEntries(s)) = Len(s)
        /\ \A i \in 1 .. Len(s) : NewEntries(s)[i] = [tx |-> At(s[i]), done |-> FALSE]
    BY <1>1, NewEntriesType
  <2>2. ASSUME NEW i \in 1 .. Len(s) PROVE NewEntries(s)[i].tx.number = s[i]
    <3>1. NewEntries(s)[i] = [tx |-> At(s[i]), done |-> FALSE]
      BY <2>1
    <3>2. [tx |-> At(s[i]), done |-> FALSE].tx = At(s[i])
      OBVIOUS
    <3>3. At(s[i]).number = s[i]
      BY DEF At
    <3>4. QED
      BY <3>1, <3>2, <3>3, SMT
  <2>3. QED
    BY <2>1, <2>2
<1>5. /\ listed \in Seq(Entries) /\ Len(listed) \in Nat /\ DOMAIN listed = 1 .. Len(listed)
      /\ toStore \in 0 .. Len(listed)
      /\ Len(s) \in Nat /\ DOMAIN s = 1 .. Len(s)
      /\ \A k \in 1 .. Len(s) : s[k] \in PageStart .. PageEnd
  <2>1. listed \in Seq(Entries) /\ toStore \in 0 .. Len(listed)
    BY DEF TypeInv, TypeOK
  <2>2. Len(listed) \in Nat /\ DOMAIN listed = 1 .. Len(listed)
    BY <2>1
  <2>3. /\ Len(s) \in Nat /\ DOMAIN s = 1 .. Len(s)
        /\ \A k \in 1 .. Len(s) : s[k] \in PageStart .. PageEnd
    <3>1. s \in Seq(PageStart .. PageEnd)
      BY <1>4
    <3>2. QED
      BY <3>1, ElementOfSeq, LenProperties
  <2>4. QED
    BY <2>1, <2>2, <2>3
<1>6. /\ DOMAIN listed' = 1 .. Len(listed) + Len(s)
      /\ \A i \in 1 .. Len(listed) : listed'[i] = listed[i]
      /\ \A k \in 1 .. Len(s) : listed'[Len(listed) + k].tx.number = s[k]
  <2>1. /\ listed' \in Seq(Entries)
        /\ Len(listed') = Len(listed) + Len(NewEntries(s))
        /\ \A i \in 1 .. Len(listed) + Len(NewEntries(s)) :
             listed'[i] = IF i <= Len(listed) THEN listed[i]
                          ELSE NewEntries(s)[i - Len(listed)]
    <3> DEFINE e == NewEntries(s)
    <3>1. listed \in Seq(Entries) /\ e \in Seq(Entries) /\ listed' = listed \o e
      BY <1>2, <1>4, <1>5
    <3> HIDE DEF e
    <3>2. /\ listed' \in Seq(Entries)
          /\ Len(listed') = Len(listed) + Len(e)
          /\ \A i \in 1 .. Len(listed) + Len(e) :
               listed'[i] = IF i <= Len(listed) THEN listed[i] ELSE e[i - Len(listed)]
      BY <3>1, ConcatProperties
    <3>3. QED
      BY <3>2 DEF e
  <2>2. \A k \in 1 .. Len(s) : /\ Len(listed) + k \in 1 .. Len(listed) + Len(s)
                               /\ ~(Len(listed) + k <= Len(listed))
                               /\ (Len(listed) + k) - Len(listed) = k
    BY <1>5
  <2>3. DOMAIN listed' = 1 .. Len(listed) + Len(s)
    <3>1. DOMAIN listed' = 1 .. Len(listed')
      BY <2>1
    <3>2. QED
      BY <3>1, <2>1, <1>4
  <2>4. \A i \in 1 .. Len(listed) : i \in 1 .. Len(listed) + Len(s) /\ i <= Len(listed)
    BY <1>5
  <2>5. \A i \in 1 .. Len(listed) : listed'[i] = listed[i]
    BY <2>1, <2>4, <1>4
  <2>6. \A k \in 1 .. Len(s) : listed'[Len(listed) + k] = NewEntries(s)[k]
    BY <2>1, <2>2, <1>4
  <2>7. QED
    BY <2>3, <2>5, <2>6, <1>4
<1>7. \A i, j \in 1 .. Len(s) : i < j => s[i] < s[j]
  BY <1>5 DEF Selections
<1>8. StoredWithoutGaps'
  BY <1>2, <1>3 DEF GapParts, StoredWithoutGaps, NumbersOf
<1>9. PassedAreStored'
  BY <1>3, <1>5, <1>6 DEF GapParts, PassedAreStored, NumbersOf
<1>10. \A n \in Numbers : n < PageStart => n \in NumbersOf(stored) \cup skipped
  <2> SUFFICES ASSUME NEW n \in Numbers, n < PageStart
               PROVE  n \in NumbersOf(stored) \cup skipped
    OBVIOUS
  <2>1. cursor # NoTx
    BY <1>1, ConstantsAssumption DEF Numbers
  <2>2. cursor \in stored /\ cursor.number \in Int /\ n <= cursor.number
    BY <1>1, <2>1, ConstantsAssumption
       DEF ReadPage, CursorIsLastStored, IsLastStored, IsLastIn, Numbers, Transactions
  <2>3. CASE n = cursor.number
    BY <2>2, <2>3 DEF NumbersOf
  <2>4. CASE n # cursor.number
    <3>1. n < cursor.number
      BY <2>2, <2>4 DEF Numbers
    <3>2. QED
      BY <2>2, <3>1 DEF GapParts, StoredWithoutGaps
  <2>5. QED
    BY <2>3, <2>4
<1>11. ListedWithoutGaps'
  <2> SUFFICES ASSUME NEW i \in DOMAIN listed', NEW n \in Numbers, n < listed'[i].tx.number,
                      n \notin NumbersOf(stored) \cup skipped'
               PROVE  \E j \in 1 .. i - 1 : listed'[j].tx.number = n
    BY <1>3 DEF ListedWithoutGaps, NumbersOf
  <2>0. n \notin NumbersOf(stored) \cup skipped
    BY <1>2
  <2>1. CASE i \in 1 .. Len(listed)
    <3>1. n < listed[i].tx.number
      BY <1>6, <2>1
    <3>2. PICK j \in 1 .. i - 1 : listed[j].tx.number = n
      BY <1>5, <2>0, <2>1, <3>1 DEF GapParts, ListedWithoutGaps
    <3>3. j \in 1 .. Len(listed)
      BY <1>5, <2>1
    <3>4. QED
      BY <1>6, <3>2, <3>3
  <2>2. CASE i \notin 1 .. Len(listed)
    <3>1. PICK k \in 1 .. Len(s) : i = Len(listed) + k
      <4>1. i \in 1 .. Len(listed) + Len(s)
        BY <1>6
      <4>2. i - Len(listed) \in 1 .. Len(s) /\ i = Len(listed) + (i - Len(listed))
        BY <1>5, <2>2, <4>1
      <4>3. QED
        BY <4>2
    <3>2. n < s[k] /\ s[k] \in PageStart .. PageEnd
      BY <1>5, <1>6, <3>1
    <3>3. n \in PageStart .. PageEnd
      BY <1>1, <1>10, <2>0, <3>2, ConstantsAssumption DEF Numbers
    <3>4. PICK m \in 1 .. Len(s) : s[m] = n
      BY <1>2, <1>5, <3>3
    <3>5. m < k
      <4>1. ~(k < m) /\ k # m
        BY <1>1, <1>5, <1>7, <3>2, <3>4
      <4>2. QED
        BY <1>5, <4>1
    <3>6. Len(listed) + m \in 1 .. i - 1
      BY <1>5, <3>1, <3>5
    <3>7. QED
      BY <1>6, <3>4, <3>6
  <2>3. QED
    BY <2>1, <2>2
<1>12. QED
  BY <1>8, <1>9, <1>11 DEF GapParts

\* The revert removes the end of what is stored, while nothing is listed.
LEMMA GapDelete == TypeInv /\ GapParts /\ RevertsAlone /\ DeleteTxs => GapParts'
<1> SUFFICES ASSUME TypeInv, GapParts, RevertsAlone, DeleteTxs PROVE GapParts'
  OBVIOUS
<1>1. /\ stored' = {t \in stored : t.number \in KeptByRemove(best)}
      /\ listed' = << >> /\ toStore' = 0 /\ UNCHANGED skipped
  BY DEF DeleteTxs, RevertsAlone, notes
<1>2. StoredWithoutGaps'
  <2> SUFFICES ASSUME NEW t \in stored', NEW n \in Numbers, n < t.number, n \notin skipped
               PROVE  n \in NumbersOf(stored')
    BY <1>1 DEF StoredWithoutGaps, NumbersOf
  <2>1. /\ t \in stored /\ t.number \in Numbers /\ t.number <= best.number
        /\ best.number \in Int
    BY <1>1, NoTxFacts DEF KeptByRemove, TypeInv, TypeOK, Transactions, Numbers
  <2>2. PICK u \in stored : u.number = n
    BY <2>1 DEF GapParts, StoredWithoutGaps, NumbersOf
  <2>3. n <= best.number
    BY <2>1, ConstantsAssumption DEF Numbers
  <2>4. u \in stored'
    BY <1>1, <2>2, <2>3 DEF KeptByRemove
  <2>5. QED
    BY <2>2, <2>4 DEF NumbersOf
<1>3. ListedWithoutGaps' /\ PassedAreStored'
  BY <1>1 DEF ListedWithoutGaps, PassedAreStored
<1>4. QED
  BY <1>2, <1>3 DEF GapParts

LEMMA GapFaults == TypeInv /\ GapParts /\ (CallRejected \/ Crash) => GapParts'
<1> SUFFICES ASSUME TypeInv, GapParts, CallRejected \/ Crash PROVE GapParts'
  OBVIOUS
<1>1. UNCHANGED <<stored, skipped>> /\ toStore' = 0
      /\ (UNCHANGED listed \/ listed' = << >>)
  BY DEF CallRejected, Crash, store
<1>2. StoredWithoutGaps' /\ PassedAreStored'
  BY <1>1 DEF GapParts, StoredWithoutGaps, PassedAreStored, NumbersOf
<1>3. ListedWithoutGaps'
  BY <1>1 DEF GapParts, ListedWithoutGaps, NumbersOf
<1>4. QED
  BY <1>2, <1>3 DEF GapParts

LEMMA GapStep == GapInv /\ [Next]_vars => GapInv'
<1> SUFFICES ASSUME GapInv, [Next]_vars PROVE GapInv'
  OBVIOUS
<1>0. TypeInv /\ GapParts /\ CursorIsLastStored /\ RevertsAlone
  BY DEF GapInv, GapParts
<1>1. ASSUME \/ Anchor \/ Reorganize \/ AdapterRestarts \/ AdapterCatchesUp
             \/ UNCHANGED vars \/ \E t \in Transactions : FinishRetry(t)
      PROVE  GapParts'
  <2>1. UNCHANGED <<listed, toStore, stored, skipped>>
    BY <1>1 DEF Anchor, Reorganize, AdapterRestarts, AdapterCatchesUp, FinishRetry,
                vars, store, memory, notes
  <2>2. QED
    BY <1>0, <2>1, GapQuiet
<1>2. ASSUME \/ Poll \/ GetLast \/ ReadInvalid \/ CheckTime \/ ReorgWait \/ Wait
             \/ GetDue \/ RetryWait
      PROVE  GapParts'
  <2>1. UNCHANGED <<listed, toStore, stored, skipped>>
    BY <1>2 DEF Poll, GetLast, ReadInvalid, CheckTime, ReorgWait, Wait, GetDue, RetryWait,
                store, notes
  <2>2. QED
    BY <1>0, <2>1, GapQuiet
<1>3. ASSUME FindValid \/ DeleteOps \/ DeleteUnresolvable
      PROVE  GapParts'
  <2>1. UNCHANGED <<listed, toStore, stored, skipped>>
    BY <1>3 DEF FindValid, DeleteOps, DeleteUnresolvable, store, notes
  <2>2. QED
    BY <1>0, <2>1, GapQuiet
<1>4. GapParts'
  BY <1>0, <1>1, <1>2, <1>3, GapFinish, GapStore, GapTrim, GapRead, GapDelete, GapFaults
     DEF Next, LoopStep
<1>5. QED
  BY <1>0, <1>4, TypeStep, AloneStep, CursorStep DEF GapInv, GapParts

\* The transaction store never passes a number that was neither stored nor left out: for
\* every order in which downloads end, every crash, rejected call and revert.
THEOREM NoGaps == Spec => []StoredWithoutGaps
<1>1. Spec => []GapInv
  BY GapInit, GapStep, PTL DEF Spec
<1>2. GapInv => StoredWithoutGaps
  BY DEF GapInv
<1>3. QED
  BY <1>1, <1>2, PTL

-----------------------------------------------------------------------------
(* The limit on downloads                                                  *)

\* Only while the loop waits may more be under processing than the limit.
BoundInv ==
  /\ TypeInv
  /\ pc # "wait" => Cardinality(Processing) <= MaxConcurrentDownloads

LEMMA ProcessingFinite ==
  ASSUME TypeInv
  PROVE  IsFiniteSet(Processing) /\ Cardinality(Processing) \in Nat
<1>1. DOMAIN listed = 1 .. Len(listed) /\ Len(listed) \in Nat
  BY DEF TypeInv, TypeOK, Entries
<1>2. IsFiniteSet(DOMAIN listed) /\ Processing \subseteq DOMAIN listed
  BY <1>1, FS_Interval DEF Processing
<1>3. QED
  BY <1>2, FS_Subset, FS_CardinalityType

\* The end of a processing run and trimming leave no more under processing.
LEMMA ProcessingShrinks ==
  ASSUME TypeInv, TypeInv', TrimListed \/ \E t \in Transactions : FinishListed(t)
  PROVE  Cardinality(Processing') <= Cardinality(Processing)
<1>1. ASSUME NEW t \in Transactions, FinishListed(t)
      PROVE  Cardinality(Processing') <= Cardinality(Processing)
  <2>1. Processing' \subseteq Processing
    BY <1>1, FinishKeepsList DEF Processing
  <2>2. QED
    BY <2>1, ProcessingFinite, FS_Subset
<1>2. CASE TrimListed
  <2> DEFINE f == [i \in Processing' |-> toStore + i]
  <2>1. /\ DOMAIN listed' = 1 .. Len(listed) - toStore
        /\ \A i \in DOMAIN listed' : /\ toStore + i \in DOMAIN listed
                                    /\ listed'[i] = listed[toStore + i]
    BY <1>2, TrimEntries
  <2>2. toStore \in Int
    BY DEF TypeInv, TypeOK
  <2>3. f \in Injection(Processing', Processing)
    <3>1. \A i \in Processing' : f[i] = toStore + i /\ f[i] \in Processing
      BY <2>1 DEF Processing
    <3>2. \A i \in Processing' : i \in Int
      BY <2>1 DEF Processing
    <3> HIDE DEF f
    <3>3. ASSUME NEW i \in Processing', NEW j \in Processing', f[i] = f[j]
          PROVE  i = j
      <4>1. toStore + i = toStore + j
        BY <3>1, <3>3
      <4>2. i \in Int /\ j \in Int
        BY <3>2
      <4>3. QED
        BY <2>2, <4>1, <4>2
    <3>4. f \in [Processing' -> Processing]
      BY <3>1 DEF f
    <3>5. QED
      BY <3>3, <3>4 DEF Injection, IsInjective
  <2>4. QED
    BY <2>3, ProcessingFinite, FS_Injection
<1>3. QED
  BY <1>1, <1>2

LEMMA BoundStep == BoundInv /\ [Next]_vars => BoundInv'
<1> SUFFICES ASSUME BoundInv, [Next]_vars, pc' # "wait"
             PROVE  Cardinality(Processing') <= MaxConcurrentDownloads
  BY TypeStep DEF BoundInv
<1>0. TypeInv /\ TypeInv' /\ MaxConcurrentDownloads \in Nat
      /\ Cardinality(Processing) \in Nat /\ Cardinality(Processing') \in Nat
  <2>1. TypeInv /\ TypeInv'
    BY TypeStep DEF BoundInv
  <2>2. Cardinality(Processing') \in Nat
    <3>1. DOMAIN listed' = 1 .. Len(listed') /\ Len(listed') \in Nat
      BY <2>1 DEF TypeInv, TypeOK, Entries
    <3>2. IsFiniteSet(DOMAIN listed') /\ Processing' \subseteq DOMAIN listed'
      BY <3>1, FS_Interval DEF Processing
    <3>3. QED
      BY <3>2, FS_Subset, FS_CardinalityType
  <2>3. QED
    BY <2>1, <2>2, ProcessingFinite, ConstantsAssumption
<1>1. ASSUME UNCHANGED listed, pc # "wait"
      PROVE  Cardinality(Processing') <= MaxConcurrentDownloads
  BY <1>1 DEF Processing, BoundInv
<1>2. ASSUME NEW t \in Transactions, FinishListed(t)
      PROVE  Cardinality(Processing') <= MaxConcurrentDownloads
  <2>1. pc # "wait"
    BY <1>2 DEF FinishListed
  <2>2. QED
    BY <1>0, <1>2, <2>1, ProcessingShrinks DEF BoundInv
<1>3. CASE TrimListed
  <2>1. pc # "wait"
    BY <1>3 DEF TrimListed, Trimming
  <2>2. QED
    BY <1>0, <1>3, <2>1, ProcessingShrinks DEF BoundInv
<1>4. CASE Wait
  BY <1>4 DEF Wait, MayEndWait, Processing
<1>5. CASE Crash
  <2>1. Processing' = {}
    BY <1>5 DEF Crash, Processing
  <2>2. QED
    BY <1>0, <2>1, FS_EmptySet
<1>6. ASSUME \/ Poll \/ StoreNext \/ GetLast \/ ReadInvalid \/ CheckTime \/ ReorgWait
             \/ GetDue \/ RetryWait \/ FindValid \/ DeleteOps \/ DeleteUnresolvable
             \/ DeleteTxs \/ CallRejected
      PROVE  UNCHANGED listed /\ pc # "wait"
  BY <1>6 DEF Poll, StoreNext, Trimming, GetLast, ReadInvalid, CheckTime, ReorgWait, GetDue,
              RetryWait, FindValid, DeleteOps, DeleteUnresolvable, DeleteTxs, CallRejected
<1>7. ASSUME \/ Anchor \/ Reorganize \/ AdapterRestarts \/ AdapterCatchesUp
             \/ UNCHANGED vars \/ \E t \in Transactions : FinishRetry(t)
      PROVE  UNCHANGED listed /\ pc # "wait"
  BY <1>7 DEF Anchor, Reorganize, AdapterRestarts, AdapterCatchesUp, vars, memory, FinishRetry
<1>8. ~ReadPage
  BY DEF ReadPage
<1>9. QED
  BY <1>1, <1>2, <1>3, <1>4, <1>5, <1>6, <1>7, <1>8 DEF Next, LoopStep

\* Observer.processTransactions: however many pages there are and however downloads end,
\* another page is only read while the downloads under way are within the limit.
THEOREM DownloadsLimited == Spec => []DownloadsBounded
<1>1. Init => BoundInv
  <2> SUFFICES ASSUME Init PROVE BoundInv
    OBVIOUS
  <2>1. Processing = {}
    BY DEF Init, Processing
  <2>2. QED
    BY <2>1, TypeInit, FS_EmptySet, ConstantsAssumption DEF BoundInv
<1>2. BoundInv => DownloadsBounded
  BY DEF BoundInv, DownloadsBounded
<1>3. QED
  BY <1>1, <1>2, BoundStep, PTL DEF Spec
-----------------------------------------------------------------------------
(* The revert (revertInvalidTransactions): it is complete when the         *)
(* transactions are removed, and one that is interrupted is started again, *)
(* for every number of forks, crashes and rejected calls.                  *)

\* A retry is under way only while the loop awaits it.
RetriesAwaited == retrying # {} => pc = "retryWait"

\* What the first two calls of the revert removed stays removed until the third.
LaterRemoved ==
  /\ pc \in {"deleteUnresolvable", "deleteTxs"} =>
       \A t \in Transactions : ops[t] # "none" => t.number <= best.number
  /\ pc = "deleteTxs" => \A t \in unresolvable : t.number <= best.number

RevertInv == TypeInv /\ RevertsAlone /\ RetriesAwaited /\ LaterRemoved

-----------------------------------------------------------------------------
(* The revert is complete                                                  *)

LEMMA RevertInit == Init => RevertInv
BY TypeInit, AloneInit DEF Init, RevertInv, RetriesAwaited, LaterRemoved

LEMMA RetriesStep == RetriesAwaited /\ [Next]_vars => RetriesAwaited'
<1> SUFFICES ASSUME RetriesAwaited, [Next]_vars PROVE RetriesAwaited'
  OBVIOUS
<1> USE DEF RetriesAwaited
<1>1. ASSUME NEW t \in Transactions, FinishListed(t) \/ FinishRetry(t)
      PROVE  RetriesAwaited'
  BY <1>1 DEF FinishListed, FinishRetry
<1>2. ASSUME \/ Poll \/ StoreNext \/ TrimListed \/ GetLast \/ ReadPage \/ ReadInvalid
             \/ CheckTime \/ ReorgWait \/ Wait
      PROVE  RetriesAwaited'
  BY <1>2 DEF Poll, StoreNext, TrimListed, Trimming, GetLast, ReadPage, ReadInvalid,
              CheckTime, ReorgWait, Wait
<1>3. ASSUME \/ GetDue \/ RetryWait \/ FindValid \/ DeleteOps \/ DeleteUnresolvable
             \/ DeleteTxs
      PROVE  RetriesAwaited'
  BY <1>3 DEF GetDue, RetryWait, FindValid, DeleteOps, DeleteUnresolvable, DeleteTxs
<1>4. ASSUME Anchor \/ Reorganize \/ AdapterRestarts \/ AdapterCatchesUp \/ UNCHANGED vars
      PROVE  RetriesAwaited'
  BY <1>4 DEF Anchor, Reorganize, AdapterRestarts, AdapterCatchesUp, vars, memory
<1>5. ASSUME CallRejected \/ Crash PROVE RetriesAwaited'
  BY <1>5 DEF CallRejected, Crash
<1>6. QED
  BY <1>1, <1>2, <1>3, <1>4, <1>5 DEF Next, LoopStep

\* No processing ends while the stores are reverted: none is under way.
LEMMA NoneEndsInRevert ==
  ASSUME RevertsAlone, RetriesAwaited, NEW t \in Transactions,
         FinishListed(t) \/ FinishRetry(t)
  PROVE  pc \notin {"findValid", "deleteOps", "deleteUnresolvable", "deleteTxs"}
BY DEF RevertsAlone, RetriesAwaited, FinishListed, FinishRetry, Processing

LEMMA LaterStep == RevertInv /\ [Next]_vars => LaterRemoved'
<1> SUFFICES ASSUME RevertInv, [Next]_vars PROVE LaterRemoved'
  OBVIOUS
<1> USE DEF LaterRemoved
<1>1. ASSUME NEW t \in Transactions, FinishListed(t) \/ FinishRetry(t)
      PROVE  LaterRemoved'
  <2>1. UNCHANGED pc
    BY <1>1 DEF FinishListed, FinishRetry
  <2>2. QED
    BY <1>1, <2>1, NoneEndsInRevert DEF RevertInv
<1>2. ASSUME \/ Poll \/ StoreNext \/ TrimListed \/ GetLast \/ ReadPage \/ ReadInvalid
             \/ CheckTime \/ ReorgWait \/ Wait \/ GetDue \/ RetryWait \/ FindValid
      PROVE  LaterRemoved'
  BY <1>2 DEF Poll, StoreNext, TrimListed, Trimming, AfterTrim, GetLast, ReadPage,
              ReadInvalid, CheckTime, ReorgWait, Wait, GetDue, RetryWait, FindValid
<1>3. CASE DeleteOps
  <2>1. \A t \in Transactions : ops'[t] # "none" => t.number \in KeptByDelete(best)
    BY <1>3 DEF DeleteOps
  <2>2. \A n \in KeptByDelete(best) : n <= best.number
    BY DEF KeptByDelete
  <2>3. QED
    BY <1>3, <2>1, <2>2 DEF DeleteOps
<1>4. CASE DeleteUnresolvable
  BY <1>4 DEF RevertInv, DeleteUnresolvable, KeptByRemove
<1>5. CASE DeleteTxs
  BY <1>5 DEF DeleteTxs
<1>6. ASSUME Anchor \/ Reorganize \/ AdapterRestarts \/ AdapterCatchesUp \/ UNCHANGED vars
      PROVE  LaterRemoved'
  BY <1>6 DEF RevertInv, Anchor, Reorganize, AdapterRestarts, AdapterCatchesUp, vars, store,
              memory
<1>7. ASSUME CallRejected \/ Crash PROVE LaterRemoved'
  BY <1>7 DEF CallRejected, Crash
<1>8. QED
  BY <1>1, <1>2, <1>3, <1>4, <1>5, <1>6, <1>7 DEF Next, LoopStep

LEMMA RevertStep == RevertInv /\ [Next]_vars => RevertInv'
BY TypeStep, AloneStep, RetriesStep, LaterStep DEF RevertInv

\* revertInvalidTransactions: when the transactions are removed, the operations and the
\* unresolvable transactions after the one it goes back to are gone, and no download is
\* under way that could bring one back.
THEOREM RevertComplete == Spec => []RevertIsComplete
<1>1. Spec => []RevertInv
  BY RevertInit, RevertStep, PTL DEF Spec
<1>2. RevertInv => RevertIsComplete
  BY DEF RevertInv, RevertsAlone, RetriesAwaited, LaterRemoved, RevertIsComplete
<1>3. QED
  BY <1>1, <1>2, PTL

-----------------------------------------------------------------------------
(* A transaction that the node knows was anchored on a fork of the past, or *)
(* on the present one below its tip: it can leave the chain and not return. *)

Known == {t \in Transactions : t.fork < fork \/ (t.fork = fork /\ t.number <= tip)}

\* The transactions of the chain.
Valid == {t \in Transactions : OnChain(t)}

AllKnown ==
  /\ \A n \in Numbers : chain[n] <= fork
  /\ stored \subseteq Known
  /\ \A i \in DOMAIN listed : listed[i].tx \in Known

StoredOnce == \A t, u \in stored : t.number = u.number => t = u

\* The transactions whose processing ended, with their operations stored if all were found.
Accounted ==
  {t \in Transactions : verdict[t] # "never" /\ (verdict[t] = "all" => ops[t] = "all")}

DoneAreAccounted == \A i \in DOMAIN listed : listed[i].done => listed[i].tx \in Accounted

\* The transactions that may have lost their operations to a revert that was interrupted:
\* nothing is listed, and whatever the next revert may go back to is below them.
Torn ==
  {t \in stored : /\ listed = << >>
                  /\ \A u \in ExponentiallySpaced \cap Valid : u.number < t.number}

StoredOrTorn ==
  pc \notin {"deleteUnresolvable", "deleteTxs"} =>
    stored \subseteq Accounted \cup Torn

\* What the revert goes back to is the last it may go back to, and loses nothing below it.
BestIsLastValid ==
  pc \in {"deleteOps", "deleteUnresolvable", "deleteTxs"} =>
    /\ \A u \in ExponentiallySpaced \cap Valid : u.number <= best.number
    /\ \A t \in stored : t.number <= best.number => t \in Accounted

AccountInv ==
  /\ TypeInv /\ RevertsAlone /\ CursorIsLastStored
  /\ AllKnown /\ StoredOnce /\ DoneAreAccounted /\ StoredOrTorn /\ BestIsLastValid

-----------------------------------------------------------------------------
(* What is known of the ledger                                             *)

LEMMA TxFacts ==
  ASSUME NEW t \in Transactions
  PROVE  t.number \in Numbers /\ t.number \in Int /\ t.fork \in Int /\ t # NoTx
BY ConstantsAssumption, NoTxFacts DEF Transactions, Numbers, Forks

LEMMA AtIsKnown ==
  ASSUME TypeInv, AllKnown, NEW n \in Int, FirstNumber <= n, n <= tip
  PROVE  At(n) \in Known
<1>1. n \in Numbers /\ chain[n] \in Int /\ fork \in Int
  BY ConstantsAssumption DEF Numbers, TypeInv, TypeOK, Forks
<1>2. QED
  BY <1>1, AtType DEF AllKnown, Known, At

\* The ledger only takes known transactions off the chain.
LEMMA LedgerStep ==
  ASSUME TypeInv, AllKnown, [Next]_vars
  PROVE  /\ \A n \in Numbers : chain'[n] <= fork'
         /\ Known \subseteq Known'
         /\ Known \cap Valid' \subseteq Valid
<1> USE ConstantsAssumption DEF Known, Valid
<1>0. /\ chain \in [Numbers -> 0 .. MaxFork] /\ tip \in Int /\ fork \in Int
      /\ tip >= FirstNumber - 1 /\ tip <= LastNumber
      /\ \A n \in Numbers : chain[n] \in Int /\ chain[n] <= fork
  BY DEF TypeInv, TypeOK, AllKnown, Forks
<1>1. CASE Anchor
  <2>1. /\ chain' = [chain EXCEPT ![tip + 1] = fork] /\ tip' = tip + 1 /\ fork' = fork
        /\ tip + 1 \in Numbers
    BY <1>0, <1>1 DEF Anchor, Numbers
  <2>2. \A n \in Numbers : chain'[n] = IF n = tip + 1 THEN fork ELSE chain[n]
    BY <1>0, <2>1
  <2>3. ASSUME NEW t \in Transactions, t \in Known
        PROVE  t \in Known' /\ (t \in Valid' => t \in Valid)
    <3>1. t.number \in Numbers /\ t.number \in Int /\ t.fork \in Int
      BY TxFacts
    <3>2. t.number = tip + 1 => t.fork # fork
      BY <1>0, <2>3, <3>1
    <3>3. QED
      BY <1>0, <2>1, <2>2, <2>3, <3>1, <3>2 DEF OnChain
  <2>4. QED
    BY <1>0, <2>1, <2>2, <2>3
<1>2. CASE Reorganize
  <2>1. PICK kept \in FirstNumber - 1 .. tip - 1, newTip \in FirstNumber - 1 .. LastNumber :
          /\ chain' = [n \in Numbers |-> IF n <= kept THEN chain[n]
                                         ELSE IF n <= newTip THEN fork + 1 ELSE 0]
          /\ tip' = newTip
    BY <1>2 DEF Reorganize
  <2>2. fork' = fork + 1 /\ kept <= tip /\ fork \in Nat
    BY <1>0, <1>2 DEF Reorganize, TypeInv, TypeOK, Forks
  <2>3. ASSUME NEW t \in Transactions, t \in Known
        PROVE  t \in Known' /\ (t \in Valid' => t \in Valid)
    <3>1. t.number \in Numbers /\ t.number \in Int /\ t.fork \in Int /\ t.fork <= fork
          /\ t.fork \in Forks
      BY <1>0, <2>3, TxFacts DEF Transactions
    <3>2. t \in Valid' => t.number <= kept /\ chain[t.number] = t.fork
      BY <1>0, <2>1, <2>2, <3>1 DEF OnChain, Forks
    <3>3. QED
      BY <1>0, <2>2, <3>1, <3>2 DEF OnChain, Numbers
  <2>4. QED
    BY <1>0, <2>1, <2>2, <2>3
<1>3. ASSUME ~Anchor, ~Reorganize PROVE UNCHANGED <<chain, tip, fork>>
  <2>1. ASSUME NEW t \in Transactions, FinishListed(t) \/ FinishRetry(t)
        PROVE  UNCHANGED <<chain, tip, fork>>
    BY <2>1 DEF FinishListed, FinishRetry, ledger
  <2>2. ASSUME LoopStep PROVE UNCHANGED <<chain, tip, fork>>
    BY <2>2 DEF LoopStep, Poll, StoreNext, TrimListed, GetLast, ReadPage, ReadInvalid,
                CheckTime, ReorgWait, Wait, GetDue, RetryWait, FindValid, DeleteOps,
                DeleteUnresolvable, DeleteTxs, ledger
  <2>3. QED
    BY <1>3, <2>1, <2>2 DEF Next, AdapterRestarts, AdapterCatchesUp, CallRejected, Crash,
                            ledger, vars
<1>4. CASE UNCHANGED <<chain, tip, fork>>
  BY <1>0, <1>4 DEF OnChain
<1>5. QED
  BY <1>1, <1>2, <1>3, <1>4

-----------------------------------------------------------------------------
(* What is known, stored once and accounted for                            *)

\* Who changes the transaction store, and who the list.
LEMMA WhoChanges ==
  ASSUME [Next]_vars
  PROVE  /\ UNCHANGED stored \/ StoreNext \/ DeleteTxs
         /\ \/ UNCHANGED listed \/ ReadPage \/ TrimListed \/ Crash
            \/ \E t \in Transactions : FinishListed(t)
<1>1. ASSUME NEW t \in Transactions, FinishListed(t) \/ FinishRetry(t)
      PROVE  UNCHANGED stored /\ (UNCHANGED listed \/ FinishListed(t))
  BY <1>1 DEF FinishListed, FinishRetry
<1>2. ASSUME LoopStep
      PROVE  /\ UNCHANGED stored \/ StoreNext \/ DeleteTxs
             /\ UNCHANGED listed \/ ReadPage \/ TrimListed
  BY <1>2 DEF LoopStep, Poll, StoreNext, TrimListed, GetLast, ReadPage, ReadInvalid,
              CheckTime, ReorgWait, Wait, GetDue, RetryWait, FindValid, DeleteOps,
              DeleteUnresolvable, DeleteTxs, store
<1>3. ASSUME \/ Anchor \/ Reorganize \/ AdapterRestarts \/ AdapterCatchesUp
             \/ CallRejected \/ Crash \/ UNCHANGED vars
      PROVE  UNCHANGED stored /\ (UNCHANGED listed \/ Crash)
  BY <1>3 DEF Anchor, Reorganize, AdapterRestarts, AdapterCatchesUp, CallRejected, vars,
              store, memory, Crash
<1>4. QED
  BY <1>1, <1>2, <1>3 DEF Next

\* A read appends entries of the chain that are not processed yet.
LEMMA ReadEntries ==
  ASSUME TypeInv, ReadPage, NEW i \in DOMAIN listed'
  PROVE  \/ i \in DOMAIN listed /\ listed'[i] = listed[i]
         \/ \E n \in FirstNumber .. tip : listed'[i] = [tx |-> At(n), done |-> FALSE]
<1>1. /\ PageStart \in Int /\ FirstNumber <= PageStart
      /\ PageEnd \in Int /\ (PageStart <= PageEnd => PageEnd <= tip)
  BY PageBounds
<1>2. PICK s \in Selections(PageStart, PageEnd) : listed' = listed \o NewEntries(s)
  BY DEF ReadPage
<1> DEFINE e == NewEntries(s)
<1>3. /\ e \in Seq(Entries) /\ Len(e) = Len(s)
      /\ \A k \in 1 .. Len(s) : /\ s[k] \in Numbers /\ s[k] <= tip
                                /\ e[k] = [tx |-> At(s[k]), done |-> FALSE]
  BY <1>1, NewEntriesType
<1>4. listed \in Seq(Entries) /\ listed' = listed \o e
  BY <1>2 DEF TypeInv, TypeOK
<1> HIDE DEF e
<1>5. /\ listed' \in Seq(Entries)
      /\ Len(listed') = Len(listed) + Len(e)
      /\ \A k \in 1 .. Len(listed) + Len(e) :
           listed'[k] = IF k <= Len(listed) THEN listed[k] ELSE e[k - Len(listed)]
  BY <1>3, <1>4, ConcatProperties
<1>6. /\ Len(listed) \in Nat /\ DOMAIN listed = 1 .. Len(listed) /\ Len(e) \in Nat
      /\ i \in 1 .. Len(listed) + Len(e)
  BY <1>3, <1>4, <1>5, LenProperties
<1>7. CASE i <= Len(listed)
  BY <1>5, <1>6, <1>7
<1>8. CASE ~(i <= Len(listed))
  <2>1. i - Len(listed) \in 1 .. Len(s) /\ listed'[i] = e[i - Len(listed)]
    BY <1>3, <1>5, <1>6, <1>8
  <2>2. s[i - Len(listed)] \in FirstNumber .. tip
    <3> DEFINE k == i - Len(listed)
    <3>1. k \in 1 .. Len(s)
      BY <2>1
    <3> HIDE DEF k
    <3>2. s[k] \in Numbers /\ s[k] <= tip
      BY <1>3, <3>1
    <3>3. s[k] \in FirstNumber .. tip
      BY <3>2, ConstantsAssumption DEF Numbers, TypeInv, TypeOK
    <3>4. QED
      BY <3>3 DEF k
  <2>3. QED
    BY <1>3, <2>1, <2>2
<1>9. QED
  BY <1>7, <1>8

\* The transaction that the storing loop stores next.
LEMMA StoreEntry ==
  ASSUME TypeInv, StoreNext
  PROVE  /\ toStore + 1 \in DOMAIN listed /\ listed[toStore + 1].done
         /\ listed[toStore + 1].tx \in Transactions
         /\ stored' = AddTransaction(listed[toStore + 1].tx)
         /\ UNCHANGED <<listed, ops, verdict>>
<1>1. listed \in Seq(Entries) /\ Len(listed) \in Nat /\ toStore \in Nat
  BY DEF TypeInv, TypeOK, Entries
<1>2. toStore + 1 \in DOMAIN listed /\ listed[toStore + 1] \in Entries
  BY <1>1 DEF StoreNext, MayStore
<1>3. QED
  BY <1>2 DEF StoreNext, MayStore, Entries, notes

LEMMA KnownStep == TypeInv /\ AllKnown /\ [Next]_vars => AllKnown'
<1> SUFFICES ASSUME TypeInv, AllKnown, [Next]_vars PROVE AllKnown'
  OBVIOUS
<1>1. /\ \A n \in Numbers : chain'[n] <= fork'
      /\ Known \subseteq Known'
  BY LedgerStep
<1>2. /\ listed \in Seq(Entries) /\ stored \subseteq Transactions
      /\ \A i \in DOMAIN listed : listed[i].tx \in Transactions
  BY ListedType DEF TypeInv, TypeOK
<1>3. ASSUME NEW t \in stored' PROVE t \in Known'
  <2>1. CASE StoreNext
    BY <1>1, <1>2, <2>1, StoreEntry DEF AllKnown, AddTransaction
  <2>2. CASE UNCHANGED stored \/ DeleteTxs
    BY <1>1, <1>2, <1>3, <2>2 DEF AllKnown, DeleteTxs
  <2>3. QED
    BY <2>1, <2>2, WhoChanges
<1>4. ASSUME NEW i \in DOMAIN listed' PROVE listed'[i].tx \in Known'
  <2>1. \A j \in DOMAIN listed : listed[j].tx \in Known'
    BY <1>1, <1>2 DEF AllKnown
  <2>2. CASE UNCHANGED listed
    BY <1>4, <2>1, <2>2
  <2>3. CASE ReadPage
    <3>1. CASE i \in DOMAIN listed /\ listed'[i] = listed[i]
      BY <2>1, <3>1
    <3>2. CASE \E n \in FirstNumber .. tip : listed'[i] = [tx |-> At(n), done |-> FALSE]
      <4>1. PICK n \in FirstNumber .. tip : listed'[i] = [tx |-> At(n), done |-> FALSE]
        BY <3>2
      <4>2. n \in Int /\ FirstNumber <= n /\ n <= tip
        BY ConstantsAssumption DEF TypeInv, TypeOK
      <4>3. At(n) \in Transactions /\ At(n) \in Known
        BY <4>2, AtType, AtIsKnown
      <4>4. QED
        BY <1>1, <4>1, <4>3
    <3>3. QED
      BY <1>4, <2>3, <3>1, <3>2, ReadEntries
  <2>4. CASE TrimListed
    BY <1>4, <2>1, <2>4, TrimEntries
  <2>5. CASE Crash
    BY <1>4, <2>5 DEF Crash
  <2>6. ASSUME NEW t \in Transactions, FinishListed(t) PROVE listed'[i].tx \in Known'
    BY <1>4, <2>1, <2>6, FinishKeepsList
  <2>7. QED
    BY <2>2, <2>3, <2>4, <2>5, <2>6, WhoChanges
<1>5. QED
  BY <1>1, <1>3, <1>4 DEF AllKnown

LEMMA OnceStep == TypeInv /\ StoredOnce /\ [Next]_vars => StoredOnce'
<1> SUFFICES ASSUME TypeInv, StoredOnce, [Next]_vars PROVE StoredOnce'
  OBVIOUS
<1>1. CASE StoreNext
  BY <1>1, StoreEntry DEF StoredOnce, AddTransaction, NumbersOf
<1>2. CASE UNCHANGED stored \/ DeleteTxs
  BY <1>2 DEF StoredOnce, DeleteTxs
<1>3. QED
  BY <1>1, <1>2, WhoChanges

LEMMA ProcessAccounts ==
  ASSUME TypeInv, NEW t \in Transactions, NEW r \in Results, Process(t, r)
  PROVE  Accounted \cup {t} \subseteq Accounted'
<1>1. /\ verdict \in [Transactions -> AllResults \cup {"never"}]
      /\ ops \in [Transactions -> {"none", "core", "all"}]
      /\ r \in AllResults
  BY ConstantsAssumption DEF TypeInv, TypeOK
<1>2. \A u \in Transactions : verdict'[u] = IF u = t THEN r ELSE verdict[u]
  BY <1>1 DEF Process
<1>3. /\ \A u \in Transactions \ {t} : ops'[u] = ops[u]
      /\ r = "all" => ops'[t] = "all"
  BY <1>1 DEF Process, WhatIsInserted, AllResults
<1>4. r # "never"
  BY <1>1 DEF AllResults
<1>5. QED
  BY <1>2, <1>3, <1>4 DEF Accounted

LEMMA FinishAccounts ==
  ASSUME TypeInv, NEW t \in Transactions, FinishListed(t) \/ FinishRetry(t)
  PROVE  Accounted \cup {t} \subseteq Accounted'
BY ProcessAccounts DEF FinishListed, FinishRetry

\* Only the first call of the revert makes a transaction unaccounted for.
LEMMA AccountedStep ==
  ASSUME TypeInv, [Next]_vars, ~DeleteOps
  PROVE  Accounted \subseteq Accounted'
<1>1. ASSUME LoopStep PROVE UNCHANGED <<ops, verdict>>
  BY <1>1 DEF LoopStep, Poll, StoreNext, TrimListed, GetLast, ReadPage, ReadInvalid,
              CheckTime, ReorgWait, Wait, GetDue, RetryWait, FindValid,
              DeleteUnresolvable, DeleteTxs, store, notes
<1>2. ASSUME \/ Anchor \/ Reorganize \/ AdapterRestarts \/ AdapterCatchesUp
             \/ CallRejected \/ Crash \/ UNCHANGED vars
      PROVE  UNCHANGED <<ops, verdict>>
  BY <1>2 DEF Anchor, Reorganize, AdapterRestarts, AdapterCatchesUp, CallRejected, vars,
              store, notes, Crash
<1>3. ASSUME UNCHANGED <<ops, verdict>> PROVE Accounted \subseteq Accounted'
  BY <1>3 DEF Accounted
<1>4. QED
  BY <1>1, <1>2, <1>3, FinishAccounts DEF Next

LEMMA DoneStep ==
  TypeInv /\ RevertsAlone /\ DoneAreAccounted /\ [Next]_vars => DoneAreAccounted'
<1> SUFFICES ASSUME TypeInv, RevertsAlone, DoneAreAccounted, [Next]_vars,
                    NEW i \in DOMAIN listed', listed'[i].done
             PROVE  listed'[i].tx \in Accounted'
  BY DEF DoneAreAccounted
<1>1. CASE DeleteOps
  BY <1>1 DEF DeleteOps, RevertsAlone
<1>2. CASE ~DeleteOps
  <2>1. \A j \in DOMAIN listed : listed[j].done => listed[j].tx \in Accounted'
    BY <1>2, AccountedStep DEF DoneAreAccounted
  <2>2. CASE UNCHANGED listed
    BY <2>1, <2>2
  <2>3. CASE ReadPage
    BY <2>1, <2>3, ReadEntries
  <2>4. CASE TrimListed
    BY <2>1, <2>4, TrimEntries
  <2>5. CASE Crash
    BY <2>5 DEF Crash
  <2>6. ASSUME NEW t \in Transactions, FinishListed(t) PROVE listed'[i].tx \in Accounted'
    <3>1. t \in Accounted'
      BY <2>6, FinishAccounts
    <3>2. i \in DOMAIN listed /\ listed'[i].tx = listed[i].tx
      BY <2>6, FinishKeepsList
    <3>3. CASE listed[i].done
      BY <2>1, <3>2, <3>3
    <3>4. CASE ~listed[i].done
      BY <2>6, <3>1, <3>2, <3>4, FinishKeepsList
    <3>5. QED
      BY <3>3, <3>4
  <2>7. QED
    BY <2>2, <2>3, <2>4, <2>5, <2>6, WhoChanges
<1>3. QED
  BY <1>1, <1>2

-----------------------------------------------------------------------------
(* The last stored transaction                                             *)

LEMMA LastExists ==
  ASSUME TypeInv, stored # {}
  PROVE  \E t \in stored : IsLastIn(t, stored)
<1> DEFINE T == {LastNumber - t.number : t \in stored}
           R == OpToRel(<, Nat)
<1>1. \A t \in stored : t.number \in Int /\ LastNumber - t.number \in Nat
  BY ConstantsAssumption DEF TypeInv, TypeOK, Transactions, Numbers
<1>2. T \subseteq Nat /\ T # {}
  BY <1>1
<1>3. PICK x \in T : \A y \in T : ~(<<y, x>> \in R)
  <2> HIDE DEF T, R
  <2>1. IsWellFoundedOn(R, Nat)
    BY NatLessThanWellFounded DEF R
  <2>2. QED
    BY <1>2, <2>1, WFMin
<1>4. \A y \in T : ~(y < x)
  BY <1>2, <1>3 DEF OpToRel
<1>5. PICK t \in stored : x = LastNumber - t.number
  BY <1>3
<1>6. ASSUME NEW u \in stored PROVE u.number <= t.number
  <2>1. ~(LastNumber - u.number < LastNumber - t.number)
    BY <1>4, <1>5
  <2>2. QED
    BY <1>1, <2>1, ConstantsAssumption
<1>7. QED
  BY <1>6 DEF IsLastIn

LEMMA StoredFinite ==
  ASSUME TypeInv, StoredOnce
  PROVE  IsFiniteSet(stored)
<1> DEFINE f == [t \in stored |-> t.number]
<1>1. f \in Injection(stored, Numbers)
  BY DEF Injection, IsInjective, StoredOnce, TypeInv, TypeOK, Transactions
<1>2. IsFiniteSet(Numbers)
  BY FS_Interval, ConstantsAssumption DEF Numbers
<1>3. QED
  BY <1>1, <1>2, FS_Injection

\* The search of the revert starts at the last stored transaction.
LEMMA LastIsSpaced ==
  ASSUME TypeInv, StoredOnce, NEW t, IsLastIn(t, stored)
  PROVE  t \in ExponentiallySpaced
<1>1. {u \in stored : u.number >= t.number} = {t}
  BY DEF IsLastIn, StoredOnce, TypeInv, TypeOK, Transactions, Numbers
<1>2. Cardinality({u \in stored : u.number >= t.number}) = 1
  BY <1>1, FS_Singleton
<1>3. 0 \in 0 .. Cardinality(stored)
  BY StoredFinite, FS_CardinalityType
<1>4. 2^0 = 1
  OBVIOUS
<1>5. QED
  BY <1>2, <1>3, <1>4 DEF ExponentiallySpaced, IsLastIn

-----------------------------------------------------------------------------
(* An interrupted revert is started again                                  *)

\* getExponentiallySpacedTransactions finds valid transactions, and none has the number 0,
\* which `delete` takes for no number at all.
RevertSearches == FirstNumber > 0 /\ FindsValid = TRUE

\* What the revert may go back to only becomes less while nothing is stored.
LEMMA SearchShrinks ==
  ASSUME TypeInv, AllKnown, [Next]_vars, UNCHANGED stored
  PROVE  (ExponentiallySpaced \cap Valid)' \subseteq ExponentiallySpaced \cap Valid
<1>1. ExponentiallySpaced' = ExponentiallySpaced /\ ExponentiallySpaced \subseteq Known
  BY DEF ExponentiallySpaced, AllKnown
<1>2. QED
  BY <1>1, LedgerStep

\* While a transaction is torn the last stored one is off the chain, so no page is read.
LEMMA TornNotRead ==
  ASSUME TypeInv, StoredOnce, CursorIsLastStored, NEW t \in Torn
  PROVE  ~ReadPage
<1> SUFFICES ASSUME ReadPage PROVE FALSE
  OBVIOUS
<1>1. t \in stored /\ cursor \in stored /\ IsLastIn(cursor, stored)
  BY DEF Torn, CursorIsLastStored, IsLastStored, ReadPage, IsLastIn
<1>2. cursor \in Transactions /\ cursor # NoTx /\ t.number <= cursor.number
      /\ t.number \in Int /\ cursor.number \in Int
  BY <1>1, TxFacts DEF TypeInv, TypeOK, IsLastIn
<1>3. cursor \in Valid
  BY <1>2 DEF ReadPage, CursorIsInvalid, Valid
<1>4. cursor \in ExponentiallySpaced
  BY <1>1, LastIsSpaced
<1>5. cursor.number < t.number
  BY <1>3, <1>4 DEF Torn
<1>6. QED
  BY <1>2, <1>5

LEMMA TornStep ==
  ASSUME TypeInv, AllKnown, StoredOnce, CursorIsLastStored, [Next]_vars, UNCHANGED stored
  PROVE  Torn \subseteq Torn'
<1> SUFFICES ASSUME NEW t \in Torn PROVE t \in Torn'
  OBVIOUS
<1>1. listed = << >>
  BY DEF Torn
<1>2. listed' = << >>
  <2>1. CASE TrimListed
    <3>1. toStore = 0 /\ Len(listed) = 0
      BY <1>1 DEF TypeInv, TypeOK
    <3>2. QED
      BY <1>1, <2>1, <3>1, SubSeqEmpty DEF TrimListed, Trimmed
  <2>2. ASSUME NEW u \in Transactions PROVE ~FinishListed(u)
    BY <1>1 DEF FinishListed, Processing
  <2>3. QED
    BY <1>1, <2>1, <2>2, TornNotRead, WhoChanges DEF Crash
<1>3. QED
  BY <1>2, SearchShrinks DEF Torn

\* What a step does to the place of the loop in the revert.
LEMMA RevertPlaces ==
  ASSUME [Next]_vars
  PROVE  /\ pc \in {"deleteUnresolvable", "deleteTxs"} =>
              UNCHANGED pc \/ DeleteUnresolvable \/ DeleteTxs \/ CallRejected \/ Crash
         /\ pc' \in {"deleteOps", "deleteUnresolvable", "deleteTxs"} =>
              \/ FindValid \/ DeleteOps \/ DeleteUnresolvable
              \/ UNCHANGED <<pc, stored, best>> /\ ~DeleteOps
<1>1. ASSUME NEW t \in Transactions, FinishListed(t) \/ FinishRetry(t)
      PROVE  UNCHANGED <<pc, stored, best>> /\ (DeleteOps => pc = "deleteOps" /\ UNCHANGED pc)
  BY <1>1 DEF FinishListed, FinishRetry, DeleteOps
<1>2. ASSUME \/ Poll \/ TrimListed \/ GetLast \/ ReadPage \/ ReadInvalid
             \/ CheckTime \/ ReorgWait \/ Wait \/ GetDue \/ RetryWait
      PROVE  /\ pc \notin {"deleteUnresolvable", "deleteTxs"}
             /\ pc' \notin {"deleteOps", "deleteUnresolvable", "deleteTxs"}
  BY <1>2 DEF Poll, TrimListed, Trimming, AfterTrim, GetLast, ReadPage, ReadInvalid,
              CheckTime, ReorgWait, Wait, GetDue, RetryWait
<1>3. ASSUME StoreNext
      PROVE  /\ pc \notin {"deleteUnresolvable", "deleteTxs"}
             /\ pc' \notin {"deleteOps", "deleteUnresolvable", "deleteTxs"}
  BY <1>3 DEF StoreNext, Trimming
<1>4. DeleteOps => pc = "deleteOps" /\ pc' = "deleteUnresolvable"
  BY DEF DeleteOps
<1>5. ASSUME Anchor \/ Reorganize \/ AdapterRestarts \/ AdapterCatchesUp \/ UNCHANGED vars
      PROVE  UNCHANGED <<pc, stored, best>>
  BY <1>5 DEF Anchor, Reorganize, AdapterRestarts, AdapterCatchesUp, vars, memory, store
<1>6. CallRejected \/ Crash \/ DeleteTxs =>
        pc' \notin {"deleteOps", "deleteUnresolvable", "deleteTxs"}
  BY DEF CallRejected, Crash, DeleteTxs
<1>7. FindValid => pc = "findValid"
  BY DEF FindValid
<1>8. QED
  BY <1>1, <1>2, <1>3, <1>4, <1>5, <1>6, <1>7 DEF Next, LoopStep

LEMMA StoredOrTornStep == AccountInv /\ [Next]_vars => StoredOrTorn'
<1> SUFFICES ASSUME AccountInv, [Next]_vars,
                    pc' \notin {"deleteUnresolvable", "deleteTxs"}
             PROVE  stored' \subseteq Accounted' \cup Torn'
  BY DEF StoredOrTorn
<1>0. /\ TypeInv /\ RevertsAlone /\ CursorIsLastStored
      /\ AllKnown /\ StoredOnce /\ DoneAreAccounted /\ StoredOrTorn /\ BestIsLastValid
  BY DEF AccountInv
<1>1. Accounted \subseteq Accounted'
  <2>1. ~DeleteOps
    BY DEF DeleteOps
  <2>2. QED
    BY <1>0, <2>1, AccountedStep
<1>2. UNCHANGED stored => Torn \subseteq Torn'
  BY <1>0, TornStep
<1>3. CASE pc \in {"deleteUnresolvable", "deleteTxs"}
  <2>1. CASE DeleteTxs
    <3>1. stored' \subseteq Accounted
      BY <1>0, <1>3, <2>1 DEF DeleteTxs, KeptByRemove, BestIsLastValid
    <3>2. QED
      BY <1>1, <3>1
  <2>2. CASE CallRejected \/ Crash
    <3>1. UNCHANGED stored
      BY <2>2 DEF CallRejected, Crash, store
    <3>2. stored \subseteq Accounted \cup Torn
      <4> SUFFICES ASSUME NEW t \in stored, ~(t.number <= best.number) PROVE t \in Torn
        BY <1>0, <1>3 DEF BestIsLastValid
      <4>1. t.number \in Int /\ best.number \in Int /\ best.number < t.number
        BY <1>0, TxFacts, NoTxFacts DEF TypeInv, TypeOK
      <4>2. \A u \in ExponentiallySpaced \cap Valid :
              u.number \in Int /\ u.number <= best.number
        BY <1>0, <1>3, TxFacts DEF BestIsLastValid, Valid
      <4>3. listed = << >>
        BY <1>0, <1>3 DEF RevertsAlone
      <4>4. QED
        BY <4>1, <4>2, <4>3 DEF Torn
    <3>3. QED
      BY <1>1, <1>2, <3>1, <3>2
  <2>3. CASE DeleteUnresolvable
    BY <2>3 DEF DeleteUnresolvable
  <2>4. QED
    BY <1>3, <2>1, <2>2, <2>3, RevertPlaces
<1>4. CASE pc \notin {"deleteUnresolvable", "deleteTxs"}
  <2>1. stored \subseteq Accounted \cup Torn
    BY <1>0, <1>4 DEF StoredOrTorn
  <2>2. CASE StoreNext
    <3>1. toStore + 1 \in DOMAIN listed /\ listed[toStore + 1].tx \in Accounted
      BY <1>0, <2>2, StoreEntry DEF DoneAreAccounted
    <3>2. stored \subseteq Accounted
      BY <2>1, <3>1 DEF Torn
    <3>3. stored' \subseteq Accounted
      BY <1>0, <2>2, <3>1, <3>2, StoreEntry DEF AddTransaction
    <3>4. QED
      BY <1>1, <3>3
  <2>3. CASE UNCHANGED stored
    BY <1>1, <1>2, <2>1, <2>3
  <2>4. CASE DeleteTxs
    BY <1>4, <2>4 DEF DeleteTxs
  <2>5. QED
    BY <2>2, <2>3, <2>4, WhoChanges
<1>5. QED
  BY <1>3, <1>4

LEMMA BestStep == RevertSearches /\ AccountInv /\ [Next]_vars => BestIsLastValid'
<1> SUFFICES ASSUME RevertSearches, AccountInv, [Next]_vars,
                    pc' \in {"deleteOps", "deleteUnresolvable", "deleteTxs"}
             PROVE  /\ \A u \in (ExponentiallySpaced \cap Valid)' : u.number <= best'.number
                    /\ \A t \in stored' : t.number <= best'.number => t \in Accounted'
  BY DEF BestIsLastValid
<1>0. /\ TypeInv /\ RevertsAlone /\ CursorIsLastStored
      /\ AllKnown /\ StoredOnce /\ DoneAreAccounted /\ StoredOrTorn /\ BestIsLastValid
      /\ stored \subseteq Transactions
  BY DEF AccountInv, TypeInv, TypeOK
<1>1. CASE FindValid
  <2> DEFINE valid == {t \in ExponentiallySpaced : FindsValid /\ OnChain(t)}
  <2>1. valid = ExponentiallySpaced \cap Valid /\ valid \subseteq stored
    BY <1>0 DEF RevertSearches, Valid, ExponentiallySpaced
  <2>2. /\ pc = "findValid" /\ UNCHANGED stored
        /\ IF valid = {} THEN best' = NoTx ELSE IsLastIn(best', valid)
    BY <1>1 DEF FindValid, store
  <2>3. Accounted \subseteq Accounted'
    <3>1. ~DeleteOps
      BY <2>2 DEF DeleteOps
    <3>2. QED
      BY <1>0, <3>1, AccountedStep
  <2>4. \A u \in valid : u.number <= best'.number
    BY <2>2 DEF IsLastIn
  <2>5. ASSUME NEW t \in stored, t.number <= best'.number PROVE t \in Accounted
    <3>1. t.number \in Int /\ FirstNumber <= t.number
      BY <1>0, ConstantsAssumption DEF Transactions, Numbers
    <3>2. valid # {}
      BY <2>2, <2>5, <3>1, NoTxFacts
    <3>3. best' \in valid /\ best' \in stored /\ best'.number \in Int
      BY <1>0, <2>1, <2>2, <3>2, TxFacts DEF IsLastIn
    <3>4. t \notin Torn
      <4>1. t \in Torn => best'.number < t.number
        BY <2>1, <3>3 DEF Torn
      <4>2. QED
        BY <2>5, <3>1, <3>3, <4>1
    <3>5. QED
      BY <1>0, <2>2, <3>4 DEF StoredOrTorn
  <2>6. QED
    BY <1>0, <2>1, <2>2, <2>3, <2>4, <2>5, SearchShrinks
<1>2. CASE DeleteOps
  <2>1. pc = "deleteOps" /\ UNCHANGED <<stored, best>>
    BY <1>2 DEF DeleteOps
  <2>2. ASSUME NEW t \in stored, t.number <= best.number PROVE t \in Accounted'
    <3>1. t \in Accounted
      BY <1>0, <2>1, <2>2 DEF BestIsLastValid
    <3>2. t \in Transactions /\ t.number \in Numbers /\ t.number \in Int
          /\ FirstNumber <= t.number
      BY <1>0, TxFacts, ConstantsAssumption DEF Numbers
    <3>3. best.number # 0
      BY <2>2, <3>2, ConstantsAssumption DEF RevertSearches
    <3>4. t.number \in KeptByDelete(best) /\ t.number \in KeptByRemove(best)
      BY <2>2, <3>2, <3>3 DEF KeptByDelete, KeptByRemove
    <3>5. ops'[t] = ops[t] /\ verdict'[t] = verdict[t]
      BY <1>2, <3>2, <3>4 DEF DeleteOps
    <3>6. QED
      BY <3>1, <3>5 DEF Accounted
  <2>3. QED
    BY <1>0, <2>1, <2>2, SearchShrinks DEF BestIsLastValid
<1>3. CASE DeleteUnresolvable \/ (UNCHANGED <<pc, stored, best>> /\ ~DeleteOps)
  <2>1. /\ pc \in {"deleteOps", "deleteUnresolvable", "deleteTxs"}
        /\ UNCHANGED <<stored, best>> /\ ~DeleteOps
    BY <1>3 DEF DeleteUnresolvable, DeleteOps
  <2>2. Accounted \subseteq Accounted'
    BY <1>0, <2>1, AccountedStep
  <2>3. QED
    BY <1>0, <2>1, <2>2, SearchShrinks DEF BestIsLastValid
<1>4. QED
  BY <1>1, <1>2, <1>3, RevertPlaces

LEMMA AccountInit == Init => AccountInv
<1> SUFFICES ASSUME Init PROVE AccountInv
  OBVIOUS
<1>1. TypeInv /\ RevertsAlone /\ CursorIsLastStored
  BY TypeInit, AloneInit, GapInit DEF GapInv
<1>2. PICK last \in FirstNumber - 1 .. tip :
        /\ \A t \in stored : t.fork = 1 /\ t.number <= last
        /\ StoredOnce
        /\ ops = [t \in Transactions |->
                     IF t.fork = 1 /\ t.number <= last THEN "all" ELSE "none"]
        /\ verdict = [t \in Transactions |->
                         IF t.fork = 1 /\ t.number <= last THEN "all" ELSE "never"]
  <2>1. PICK last \in FirstNumber - 1 .. tip :
          /\ \E refused \in SUBSET (FirstNumber .. last) :
               stored = {[number |-> n, fork |-> 1] : n \in (FirstNumber .. last) \ refused}
          /\ ops = [t \in Transactions |->
                       IF t.fork = 1 /\ t.number <= last THEN "all" ELSE "none"]
          /\ verdict = [t \in Transactions |->
                           IF t.fork = 1 /\ t.number <= last THEN "all" ELSE "never"]
    BY DEF Init
  <2>2. (\A t \in stored : t.fork = 1 /\ t.number <= last) /\ StoredOnce
    BY <2>1 DEF StoredOnce
  <2>3. QED
    BY <2>1, <2>2
<1>3. stored \subseteq Transactions /\ tip \in Int /\ \A t \in stored : t.number \in Int
  BY <1>1, ConstantsAssumption DEF TypeInv, TypeOK, Transactions, Numbers
<1>4. AllKnown
  <2>1. stored \subseteq Known
    BY <1>2, <1>3 DEF Init, Known
  <2>2. QED
    BY <2>1 DEF Init, AllKnown
<1>5. stored \subseteq Accounted
  BY <1>2, <1>3 DEF Accounted
<1>6. DoneAreAccounted /\ StoredOrTorn /\ BestIsLastValid
  BY <1>5 DEF Init, DoneAreAccounted, StoredOrTorn, BestIsLastValid
<1>7. QED
  BY <1>1, <1>2, <1>4, <1>6 DEF AccountInv

LEMMA AccountStep == RevertSearches /\ AccountInv /\ [Next]_vars => AccountInv'
<1> SUFFICES ASSUME RevertSearches, AccountInv, [Next]_vars PROVE AccountInv'
  OBVIOUS
<1>1. StoredOrTorn' /\ BestIsLastValid'
  BY StoredOrTornStep, BestStep
<1>2. QED
  BY <1>1, TypeStep, AloneStep, CursorStep, KnownStep, OnceStep, DoneStep DEF AccountInv

LEMMA AccountSuffices == AccountInv => StoredAreProcessed
<1> SUFFICES ASSUME AccountInv, pc \notin {"deleteUnresolvable", "deleteTxs"},
                    NEW t \in stored, t \notin Accounted
             PROVE  \E u \in stored : IsLastIn(u, stored) /\ ~OnChain(u)
  BY DEF StoredAreProcessed, Accounted, AccountInv, TypeInv, TypeOK
<1>1. TypeInv /\ StoredOnce /\ t \in Torn
  BY DEF AccountInv, StoredOrTorn
<1>2. PICK u \in stored : IsLastIn(u, stored)
  BY <1>1, LastExists
<1>3. /\ u \in ExponentiallySpaced /\ u \in Transactions /\ t \in Transactions
      /\ t.number <= u.number
  BY <1>1, <1>2, LastIsSpaced DEF TypeInv, TypeOK, IsLastIn
<1>4. u \notin Valid
  BY <1>1, <1>3, TxFacts DEF Torn
<1>5. QED
  BY <1>2, <1>3, <1>4 DEF Valid

\* An interrupted revert leaves no stored transaction without its operations for good: where
\* one is left, the last stored transaction is off the chain, so the next read reverts again.
\* The two conditions are what the contract of the ledger and of the operation store promise.
THEOREM ProcessedBeforeStored ==
  ASSUME FirstNumber > 0, FindsValid = TRUE
  PROVE  Spec => []StoredAreProcessed
<1>1. RevertSearches
  BY DEF RevertSearches
<1>2. Init => AccountInv
  BY AccountInit
<1>3. AccountInv /\ [Next]_vars => AccountInv'
  BY <1>1, AccountStep
<1>4. AccountInv => StoredAreProcessed
  BY AccountSuffices
<1>5. QED
  BY <1>2, <1>3, <1>4, PTL DEF Spec
=============================================================================
