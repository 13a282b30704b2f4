----------------------------- MODULE RanksProofs -----------------------------
(***************************************************************************)
(* Lemmas about Ranks and about numbers that other proofs share.           *)
(***************************************************************************)
EXTENDS Ranks, Sequences, FiniteSetTheorems, WellFoundedInduction, TLAPS

\* Ascending lists every number of the set, each once and the smaller first.
LEMMA AscendingIs ==
  ASSUME NEW S, \A i \in S : i \in Int, IsFiniteSet(S)
  PROVE  /\ Cardinality(S) \in Nat
         /\ DOMAIN Ascending(S) = 1 .. Cardinality(S)
         /\ Ascending(S) \in Seq(S) /\ Len(Ascending(S)) = Cardinality(S)
         /\ \A i \in S : \E k \in DOMAIN Ascending(S) : Ascending(S)[k] = i
         /\ \A j, k \in DOMAIN Ascending(S) : j < k => Ascending(S)[j] < Ascending(S)[k]
<1> DEFINE UpTo(i) == {j \in S : j <= i}
           Rank(i) == Cardinality(UpTo(i))
           n == Cardinality(S)
           rank == [i \in S |-> Rank(i)]
           A == Ascending(S)
<1>3. n \in Nat
  BY FS_CardinalityType
<1>4. ASSUME NEW i \in S
      PROVE  IsFiniteSet(UpTo(i)) /\ Rank(i) \in 1 .. n
  <2>1. IsFiniteSet(UpTo(i)) /\ Rank(i) <= n /\ Rank(i) \in Nat
    BY <1>3, FS_Subset, FS_CardinalityType
  <2>2. i \in UpTo(i)
    OBVIOUS
  <2>3. Rank(i) # 0
    BY <2>1, <2>2, FS_EmptySet
  <2> HIDE DEF Rank, UpTo, n
  <2> QED BY <1>3, <2>1, <2>3
<1>5. ASSUME NEW i \in S, NEW j \in S, i < j
      PROVE  Rank(i) < Rank(j)
  <2>1. UpTo(i) \subseteq UpTo(j) /\ j \in UpTo(j) /\ j \notin UpTo(i)
    BY <1>5
  <2>2. IsFiniteSet(UpTo(j))
    BY <1>4
  <2>3. Rank(i) <= Rank(j) /\ Rank(i) # Rank(j)
    <3> HIDE DEF UpTo
    <3> QED BY <2>1, <2>2, FS_Subset
  <2>4. Rank(i) \in 1 .. n /\ Rank(j) \in 1 .. n
    BY <1>4
  <2> HIDE DEF Rank
  <2> QED BY <1>3, <2>3, <2>4
<1>6. rank \in Injection(S, 1 .. n)
  <2>1. rank \in [S -> 1 .. n]
    BY <1>4
  <2>2. ASSUME NEW i \in S, NEW j \in S, i # j
        PROVE  rank[i] # rank[j]
    <3>1. i < j \/ j < i
      BY <2>2
    <3>2. Rank(i) # Rank(j)
      <4> HIDE DEF Rank, UpTo, n
      <4> QED BY <1>3, <1>4, <1>5, <3>1
    <3> QED BY <3>2
  <2> HIDE DEF rank, n
  <2> QED BY <2>1, <2>2 DEF Injection, IsInjective
<1>7. rank \in Surjection(S, 1 .. n)
  <2>1. IsFiniteSet(1 .. n) /\ Cardinality(1 .. n) = n
    <3> HIDE DEF n
    <3> QED BY <1>3, FS_Interval
  <2> HIDE DEF rank
  <2> QED BY <1>6, <2>1, FS_Injection
<1>8. ASSUME NEW k \in 1 .. n
      PROVE  \E i \in S : Rank(i) = k
  <2>1. \E i \in S : rank[i] = k
    <3> HIDE DEF rank, n
    <3> QED BY <1>7 DEF Surjection
  <2> QED BY <2>1
<1>9. A = [k \in 1 .. n |-> CHOOSE i \in S : Rank(i) = k]
  BY DEF Ascending
<1>10. ASSUME NEW k \in 1 .. n
       PROVE  A[k] \in S /\ Rank(A[k]) = k
  <2> DEFINE chosen == CHOOSE i \in S : Rank(i) = k
  <2>1. A[k] = chosen
    <3> HIDE DEF A, Rank, n
    <3> QED BY <1>9
  <2>2. chosen \in S /\ Rank(chosen) = k
    <3> HIDE DEF Rank
    <3> QED BY <1>8
  <2> HIDE DEF A, chosen
  <2> QED BY <2>1, <2>2
<1>11. DOMAIN A = 1 .. n
  <2> HIDE DEF A, n, Rank
  <2> QED BY <1>9
<1>12. A \in Seq(S) /\ Len(A) = n
  <2>1. A \in [1 .. n -> S]
    <3> HIDE DEF A, n, Rank
    <3> QED BY <1>9, <1>10, <1>11
  <2> HIDE DEF A, n
  <2> QED BY <1>3, <2>1
<1>13. ASSUME NEW i \in S
       PROVE  \E k \in DOMAIN A : A[k] = i
  <2>1. Rank(i) \in 1 .. n
    BY <1>4
  <2>2. PICK k \in 1 .. n : k = Rank(i)
    BY <2>1
  <2>3. A[k] \in S /\ Rank(A[k]) = Rank(i)
    BY <1>10, <2>2
  <2>4. A[k] = i
    <3> HIDE DEF A, Rank, UpTo, n
    <3>1. ~(A[k] < i) /\ ~(i < A[k])
      BY <1>3, <1>4, <1>5, <2>3
    <3> QED BY <2>3, <3>1
  <2> HIDE DEF A
  <2> QED BY <1>11, <2>4
<1>14. ASSUME NEW j \in DOMAIN A, NEW k \in DOMAIN A, j < k
       PROVE  A[j] < A[k]
  <2> HIDE DEF A, Rank, n
  <2>1. A[j] \in S /\ A[k] \in S /\ Rank(A[j]) = j /\ Rank(A[k]) = k
    BY <1>10, <1>11
  <2>2. ~(A[k] < A[j]) /\ A[j] # A[k]
    BY <1>3, <1>4, <1>5, <1>11, <1>14, <2>1
  <2> QED BY <2>1, <2>2
<1> HIDE DEF A, n
<1>15. QED
  BY <1>3, <1>11, <1>12, <1>13, <1>14 DEF A, n

-----------------------------------------------------------------------------
(* Least and greatest numbers                                              *)

\* Where m is smallest.
LEMMA HasLeast ==
  ASSUME NEW S, NEW m \in [S -> Nat], NEW B, B \subseteq S, B # {}
  PROVE  \E s \in B : \A t \in B : m[s] <= m[t]
<1> DEFINE values == {m[s] : s \in B}
<1>1. values \subseteq Nat /\ values # {}
  OBVIOUS
<1>2. PICK n \in values : \A k \in values : ~(<<k, n>> \in OpToRel(<, Nat))
  <2> HIDE DEF values
  <2> QED BY <1>1, NatLessThanWellFounded, WFMin
<1>3. \A k \in values : ~(k < n)
  <2> HIDE DEF values
  <2> QED BY <1>1, <1>2 DEF OpToRel
<1>4. PICK s \in B : n = m[s]
  OBVIOUS
<1>5. ASSUME NEW t \in B
      PROVE  m[s] <= m[t]
  <2>1. m[t] \in values /\ m[t] \in Nat /\ m[s] \in Nat
    OBVIOUS
  <2> HIDE DEF values
  <2> QED BY <1>3, <1>4, <2>1
<1> QED BY <1>5

LEMMA LeastNumber ==
  ASSUME NEW B, B \subseteq Nat, B # {}
  PROVE  \E n \in B : \A k \in B : n <= k
<1> DEFINE id == [n \in Nat |-> n]
<1>1. id \in [Nat -> Nat]
  OBVIOUS
<1>2. PICK n \in B : \A k \in B : id[n] <= id[k]
  <2> HIDE DEF id
  <2> QED BY <1>1, HasLeast
<1> QED BY <1>2

LEMMA GreatestNumber ==
  ASSUME NEW N \in Nat, NEW B, B \subseteq 0 .. N, B # {}
  PROVE  \E n \in B : \A k \in B : k <= n
<1> DEFINE C == {N - n : n \in B}
<1>1. C \subseteq Nat /\ C # {}
  <2>1. ASSUME NEW n \in B PROVE N - n \in Nat
    <3>1. n \in 0 .. N
      OBVIOUS
    <3> QED BY <3>1
  <2>2. PICK n \in B : TRUE
    OBVIOUS
  <2> QED BY <2>1, <2>2
<1>2. PICK c \in C : \A k \in C : c <= k
  <2> HIDE DEF C
  <2> QED BY <1>1, LeastNumber
<1>3. PICK n \in B : c = N - n
  OBVIOUS
<1>4. \A k \in B : N - k \in C
  OBVIOUS
<1> HIDE DEF C
<1>5. \A k \in B : N - n <= N - k
  BY <1>2, <1>3, <1>4
<1> QED BY <1>5

\* Induction over the numbers up to N.
LEMMA StepByStep ==
  ASSUME NEW N \in Nat, NEW G, 0 \in G,
         \A n \in 1 .. N : n - 1 \in G => n \in G
  PROVE  0 .. N \subseteq G
<1> DEFINE B == 0 .. N \ G
<1>1. ASSUME B # {} PROVE FALSE
  <2>1. B \subseteq Nat
    OBVIOUS
  <2>2. PICK n \in B : \A k \in B : n <= k
    <3> HIDE DEF B
    <3> QED BY <1>1, <2>1, LeastNumber
  <2>3. n \in 1 .. N /\ n \notin G
    OBVIOUS
  <2>4. n - 1 \notin B
    <3> HIDE DEF B
    <3> QED BY <2>2, <2>3
  <2> QED BY <2>3, <2>4
<1> QED BY <1>1

-----------------------------------------------------------------------------
(* The elements of a sequence at some places                               *)

\* t has the elements of s at some of the places, in their order.
TakenFrom(place, t, s, places) ==
  /\ place \in [DOMAIN t -> places]
  /\ \A k \in DOMAIN t : t[k] = s[place[k]]
  /\ \A j, k \in DOMAIN t : j < k => place[j] < place[k]

\* Picked takes the element at every one of the places.
LEMMA PickedIs ==
  ASSUME NEW S, NEW s \in Seq(S), NEW places, places \subseteq DOMAIN s
  PROVE  /\ Picked(s, places) \in Seq(S)
         /\ \A i \in places : \E k \in DOMAIN Picked(s, places) : Picked(s, places)[k] = s[i]
         /\ \E place : TakenFrom(place, Picked(s, places), s, places)
<1> DEFINE A == Ascending(places)
           n == Cardinality(places)
<1>1. /\ DOMAIN s = 1 .. Len(s) /\ Len(s) \in Nat
      /\ \A i \in places : i \in Int /\ s[i] \in S
  OBVIOUS
<1>2. IsFiniteSet(places)
  <2>1. IsFiniteSet(DOMAIN s)
    BY <1>1, FS_Interval
  <2> QED BY <2>1, FS_Subset
<1>3. /\ n \in Nat /\ DOMAIN A = 1 .. n /\ A \in Seq(places)
      /\ \A i \in places : \E k \in DOMAIN A : A[k] = i
      /\ \A j, k \in DOMAIN A : j < k => A[j] < A[k]
  BY <1>1, <1>2, AscendingIs
<1>4. Picked(s, places) = [k \in DOMAIN A |-> s[A[k]]]
  BY DEF Picked
<1> HIDE DEF A, n
<1>5. \A k \in DOMAIN A : A[k] \in places
  BY <1>3
<1>6. Picked(s, places) \in [1 .. n -> S]
  BY <1>1, <1>3, <1>4, <1>5
<1>7. Picked(s, places) \in Seq(S)
  BY <1>3, <1>6
<1>8. ASSUME NEW i \in places
      PROVE  \E k \in DOMAIN Picked(s, places) : Picked(s, places)[k] = s[i]
  BY <1>3, <1>4
<1>9. A \in [DOMAIN Picked(s, places) -> places]
  <2>1. A = [k \in DOMAIN A |-> A[k]]
    BY <1>3
  <2> QED BY <1>4, <1>5, <2>1
<1>10. TakenFrom(A, Picked(s, places), s, places)
  BY <1>3, <1>4, <1>9 DEF TakenFrom
<1> QED BY <1>7, <1>8, <1>10
-----------------------------------------------------------------------------
(* The elements of several sequences one after another                     *)

\* s has the elements of the first n parts, in their order.
Joins(s, parts, n) ==
  /\ \A k \in DOMAIN s : \E b \in 1 .. n : \E i \in DOMAIN parts[b] : s[k] = parts[b][i]
  /\ \A b \in 1 .. n : \A i \in DOMAIN parts[b] : \E k \in DOMAIN s : s[k] = parts[b][i]
  /\ \A j, k \in DOMAIN s :
       j < k => \E b, c \in 1 .. n : \E i \in DOMAIN parts[b], l \in DOMAIN parts[c] :
                  /\ s[j] = parts[b][i] /\ s[k] = parts[c][l]
                  /\ (b < c \/ (b = c /\ i < l))

\* One more part follows the others.
LEMMA JoinsOneMore ==
  ASSUME NEW S, NEW parts \in Seq(Seq(S)), NEW n \in 1 .. Len(parts), NEW s \in Seq(S),
         Joins(s, parts, n - 1)
  PROVE  /\ s \o parts[n] \in Seq(S)
         /\ Joins(s \o parts[n], parts, n)
<1> DEFINE p == parts[n]
           t == s \o p
<1>1. p \in Seq(S) /\ n \in Nat /\ \A b \in 1 .. n - 1 : b \in 1 .. n
  OBVIOUS
<1>2. /\ t \in Seq(S) /\ Len(t) = Len(s) + Len(p)
      /\ \A k \in DOMAIN t : (k \in DOMAIN s /\ t[k] = s[k])
                             \/ (k > Len(s) /\ k - Len(s) \in DOMAIN p /\ t[k] = p[k - Len(s)])
      /\ \A k \in DOMAIN s : k \in DOMAIN t /\ t[k] = s[k]
      /\ \A i \in DOMAIN p : Len(s) + i \in DOMAIN t /\ t[Len(s) + i] = p[i]
  BY <1>1
<1>3. n \in 1 .. n /\ p = parts[n] /\ DOMAIN s = 1 .. Len(s) /\ Len(s) \in Nat
      /\ DOMAIN t \subseteq Int /\ DOMAIN p \subseteq Int /\ DOMAIN s \subseteq Int
  BY <1>1, <1>2
<1> HIDE DEF t, p
<1>4. ASSUME NEW k \in DOMAIN t
      PROVE  \E b \in 1 .. n : \E i \in DOMAIN parts[b] : t[k] = parts[b][i]
  <2>1. CASE k \in DOMAIN s /\ t[k] = s[k]
    <3>1. PICK b \in 1 .. n - 1 : \E i \in DOMAIN parts[b] : s[k] = parts[b][i]
      BY <2>1 DEF Joins
    <3> QED BY <1>1, <2>1, <3>1
  <2>2. CASE k - Len(s) \in DOMAIN p /\ t[k] = p[k - Len(s)]
    BY <1>3, <2>2
  <2> QED BY <1>2, <2>1, <2>2
<1>5. ASSUME NEW b \in 1 .. n, NEW i \in DOMAIN parts[b]
      PROVE  \E k \in DOMAIN t : t[k] = parts[b][i]
  <2>1. CASE b = n
    BY <1>2, <1>3, <2>1
  <2>2. CASE b \in 1 .. n - 1
    BY <1>2, <1>3, <2>2 DEF Joins
  <2> QED BY <1>1, <2>1, <2>2
<1>6. ASSUME NEW j \in DOMAIN t, NEW k \in DOMAIN t, j < k
      PROVE  \E b, c \in 1 .. n : \E i \in DOMAIN parts[b], l \in DOMAIN parts[c] :
               /\ t[j] = parts[b][i] /\ t[k] = parts[c][l]
               /\ (b < c \/ (b = c /\ i < l))
  <2>1. CASE k \in DOMAIN s
    <3>1. j \in DOMAIN s /\ t[j] = s[j] /\ t[k] = s[k]
      BY <1>2, <1>3, <1>6, <2>1
    <3>2. PICK b \in 1 .. n - 1, c \in 1 .. n - 1 :
                 \E i \in DOMAIN parts[b], l \in DOMAIN parts[c] :
                   /\ s[j] = parts[b][i] /\ s[k] = parts[c][l]
                   /\ (b < c \/ (b = c /\ i < l))
      BY <1>6, <2>1, <3>1 DEF Joins
    <3>3. b \in 1 .. n /\ c \in 1 .. n
      BY <1>1
    <3> QED BY <3>1, <3>2, <3>3
  <2>2. CASE k \notin DOMAIN s /\ j \in DOMAIN s
    <3>1. PICK b \in 1 .. n - 1 : \E i \in DOMAIN parts[b] : s[j] = parts[b][i]
      BY <2>2 DEF Joins
    <3>2. t[j] = s[j] /\ k - Len(s) \in DOMAIN p /\ t[k] = p[k - Len(s)]
      BY <1>2, <1>3, <2>2
    <3>3. b \in 1 .. n /\ b < n
      BY <1>1
    <3> QED BY <1>3, <3>1, <3>2, <3>3
  <2>3. CASE k \notin DOMAIN s /\ j \notin DOMAIN s
    <3>1. /\ j - Len(s) \in DOMAIN p /\ t[j] = p[j - Len(s)]
          /\ k - Len(s) \in DOMAIN p /\ t[k] = p[k - Len(s)]
          /\ j - Len(s) < k - Len(s)
      BY <1>2, <1>3, <1>6, <2>3
    <3> QED BY <1>3, <3>1
  <2> QED BY <2>1, <2>2, <2>3
<1>7. Joins(t, parts, n)
  BY <1>4, <1>5, <1>6 DEF Joins
<1> QED BY <1>2, <1>7 DEF t, p

\* Joined has the elements of all parts.
LEMMA JoinedIs ==
  ASSUME NEW S, NEW parts \in Seq(Seq(S))
  PROVE  Joined(parts) \in Seq(S) /\ Joins(Joined(parts), parts, Len(parts))
<1> DEFINE N == Len(parts)
           Continues(f, n) ==
             f = [m \in 0 .. n |-> IF m = 0 THEN << >> ELSE f[m - 1] \o parts[m]]
           G == {n \in 0 .. N : \E f : Continues(f, n)}
           upTo == CHOOSE f : Continues(f, N)
           J == {n \in 0 .. N : upTo[n] \in Seq(S) /\ Joins(upTo[n], parts, n)}
<1>1. N \in Nat /\ Joined(parts) = upTo[N]
  BY DEF Joined
<1>2. Continues(upTo, N)
  <2>1. 0 \in G
    <3> DEFINE f == [m \in 0 .. 0 |-> << >>]
    <3>1. \A m \in 0 .. 0 : m = 0 /\ f[m] = << >>
      OBVIOUS
    <3>2. Continues(f, 0)
      BY <3>1
    <3>3. 0 \in 0 .. N
      BY <1>1
    <3> HIDE DEF f, Continues, N
    <3> QED BY <3>2, <3>3
  <2>2. ASSUME NEW n \in 1 .. N, n - 1 \in G PROVE n \in G
    <3>1. PICK f : Continues(f, n - 1)
      BY <2>2
    <3> DEFINE g == [m \in 0 .. n |-> IF m = n THEN f[n - 1] \o parts[n] ELSE f[m]]
    <3>2. ASSUME NEW m \in 0 .. n
          PROVE  g[m] = IF m = 0 THEN << >> ELSE g[m - 1] \o parts[m]
      <4>1. CASE m = n
        <5>1. m # 0 /\ n - 1 \in 0 .. n /\ n - 1 # n
          BY <1>1, <4>1
        <5>2. g[m] = f[n - 1] \o parts[n] /\ g[m - 1] = f[n - 1]
          BY <4>1, <5>1
        <5> QED BY <4>1, <5>1, <5>2
      <4>2. CASE m # n
        <5>1. m \in 0 .. n - 1 /\ g[m] = f[m] /\ (m # 0 => g[m - 1] = f[m - 1])
          BY <1>1, <4>2
        <5>2. f[m] = IF m = 0 THEN << >> ELSE f[m - 1] \o parts[m]
          BY <3>1, <5>1
        <5> QED BY <5>1, <5>2
      <4> QED BY <4>1, <4>2
    <3>3. Continues(g, n)
      BY <3>2
    <3>4. n \in 0 .. N
      BY <1>1
    <3> HIDE DEF g, Continues
    <3> QED BY <3>3, <3>4
  <2>3. N \in G
    <3> HIDE DEF G, N
    <3>1. 0 .. N \subseteq G
      BY <1>1, <2>1, <2>2, StepByStep
    <3> QED BY <1>1, <3>1
  <2> HIDE DEF Continues
  <2> QED BY <2>3
<1> HIDE DEF upTo
<1>3. N \in J
  <2>1. 0 \in J
    <3>1. upTo[0] = << >> /\ 0 \in 0 .. N
      BY <1>1, <1>2
    <3>2. << >> \in Seq(S) /\ Joins(<< >>, parts, 0)
      BY DEF Joins
    <3> QED BY <3>1, <3>2
  <2>2. ASSUME NEW n \in 1 .. N, n - 1 \in J PROVE n \in J
    <3>1. n \in 0 .. N /\ n # 0
      BY <1>1
    <3>2. upTo[n] = upTo[n - 1] \o parts[n]
      BY <1>2, <3>1
    <3>3. upTo[n] \in Seq(S) /\ Joins(upTo[n], parts, n)
      BY <2>2, <3>2, JoinsOneMore
    <3> QED BY <3>1, <3>3
  <2> HIDE DEF J, N
  <2>3. 0 .. N \subseteq J
    BY <1>1, <2>1, <2>2, StepByStep
  <2> QED BY <1>1, <2>3
<1> QED BY <1>1, <1>3
==============================================================================
