--------------------------- MODULE ResolutionProofs ---------------------------
(***************************************************************************)
(* Proofs about Resolution, for every set of operations clients may have   *)
(* anchored, every ledger made of them and every content of the store: the *)
(* resolver's answer is the replay of the ledger, applies all it can, and  *)
(* is never rewritten by a later operation.  Then proofs about Documents,  *)
(* what that state is made of and what a client sees of it.                *)
(***************************************************************************)
EXTENDS Resolution, Documents, RanksProofs, SequenceTheorems, FiniteSetTheorems,
        WellFoundedInduction, TLAPS

-----------------------------------------------------------------------------
(* Runs: a step is taken until it changes nothing                          *)

\* f takes a state to the one at the end of its run: next is taken until it changes nothing.
IsEnd(f, S, next) == f = [s \in S |-> IF next[s] = s THEN s ELSE f[next[s]]]

Closed(C, S, next) == C \subseteq S /\ \A x \in C : next[x] \in C
Reachable(s, S, next) == {t \in S : \A C \in SUBSET S : s \in C /\ Closed(C, S, next) => t \in C}

LEMMA EndExists ==
  ASSUME NEW S, NEW next \in [S -> S], NEW m \in [S -> Nat],
         \A s \in S : next[s] # s => m[next[s]] < m[s]
  PROVE  \E f : IsEnd(f, S, next)
<1> DEFINE R(s) == Reachable(s, S, next)
           Ends(s) == {t \in R(s) : next[t] = t}
           HasOne(s) == \E t \in S : Ends(s) = {t}
           f == [s \in S |-> CHOOSE t : Ends(s) = {t}]
<1>1. ASSUME NEW s \in S
      PROVE  R(s) = {s} \cup R(next[s])
  <2>1. s \in R(s)
    BY DEF Reachable
  <2>2. R(next[s]) \subseteq R(s)
    BY DEF Reachable, Closed
  <2>3. Closed({s} \cup R(next[s]), S, next)
    <3>1. next[s] \in R(next[s])
      BY DEF Reachable
    <3>2. ASSUME NEW x \in R(next[s]) PROVE next[x] \in R(next[s])
      BY <3>2 DEF Reachable, Closed
    <3>3. {s} \cup R(next[s]) \subseteq S
      BY DEF Reachable
    <3> HIDE DEF R
    <3> QED BY <3>1, <3>2, <3>3 DEF Closed
  <2>4. R(s) \subseteq {s} \cup R(next[s])
    <3> DEFINE C == {s} \cup R(next[s])
    <3>1. C \in SUBSET S /\ s \in C /\ Closed(C, S, next)
      BY <2>3 DEF Closed
    <3> HIDE DEF C
    <3>2. R(s) \subseteq C
      BY <3>1 DEF Reachable
    <3> QED BY <3>2 DEF C
  <2> HIDE DEF R
  <2> QED BY <2>1, <2>2, <2>4
<1>2. ASSUME NEW s \in S, next[s] # s
      PROVE  Ends(s) = Ends(next[s])
  <2> HIDE DEF R
  <2> QED BY <1>1, <1>2
<1>3. ASSUME NEW s \in S, next[s] = s
      PROVE  Ends(s) = {s}
  <2>1. Closed({s}, S, next)
    BY <1>3 DEF Closed
  <2>2. R(s) \subseteq {s}
    BY <2>1 DEF Reachable
  <2>3. s \in R(s)
    BY <1>1
  <2> HIDE DEF R
  <2> QED BY <1>3, <2>2, <2>3
<1>4. \A s \in S : HasOne(s)
  <2> DEFINE bad == {s \in S : ~HasOne(s)}
  <2> SUFFICES ASSUME bad # {} PROVE FALSE
    OBVIOUS
  <2>1. PICK s \in bad : \A t \in bad : m[s] <= m[t]
    <3>1. bad \subseteq S
      OBVIOUS
    <3> HIDE DEF bad
    <3> QED BY <3>1, HasLeast
  <2>2. next[s] # s
    <3> HIDE DEF Ends
    <3> QED BY <1>3
  <2>3. m[next[s]] < m[s] /\ next[s] \in S /\ m[s] \in Nat /\ m[next[s]] \in Nat
    BY <2>2
  <2>4. next[s] \notin bad
    <3> HIDE DEF bad
    <3> QED BY <2>1, <2>3
  <2>5. HasOne(next[s]) /\ Ends(s) = Ends(next[s])
    <3> HIDE DEF Ends
    <3> QED BY <1>2, <2>2, <2>3, <2>4
  <2> HIDE DEF Ends
  <2> QED BY <2>5
<1>5. \A s \in S : Ends(s) = {f[s]}
  <2> HIDE DEF Ends
  <2> QED BY <1>4
<1>6. ASSUME NEW s \in S
      PROVE  f[s] = IF next[s] = s THEN s ELSE f[next[s]]
  <2> HIDE DEF f, Ends
  <2>1. CASE next[s] = s
    BY <1>3, <1>5, <2>1
  <2>2. CASE next[s] # s
    <3>1. next[s] \in S
      OBVIOUS
    <3>2. {f[s]} = {f[next[s]]}
      BY <1>2, <1>5, <2>2, <3>1
    <3> QED BY <2>2, <3>2
  <2> QED BY <2>1, <2>2
<1>7. f = [s \in S |-> IF next[s] = s THEN s ELSE f[next[s]]]
  <2>1. f = [s \in S |-> f[s]]
    <3> HIDE DEF Ends
    <3> QED OBVIOUS
  <2> HIDE DEF f
  <2> QED BY <1>6, <2>1
<1> HIDE DEF f
<1> QED BY <1>7 DEF IsEnd

LEMMA EndIsEnd ==
  ASSUME NEW S, NEW next \in [S -> S], NEW m \in [S -> Nat],
         \A s \in S : next[s] # s => m[next[s]] < m[s],
         NEW f, IsEnd(f, S, next)
  PROVE  /\ f \in [S -> S]
         /\ \A s \in S : next[f[s]] = f[s] /\ f[s] = IF next[s] = s THEN s ELSE f[next[s]]
<1> DEFINE bad == {s \in S : ~(f[s] \in S /\ next[f[s]] = f[s])}
<1>1. \A s \in S : f[s] = IF next[s] = s THEN s ELSE f[next[s]]
  BY DEF IsEnd
<1>2. ASSUME bad # {} PROVE FALSE
  <2>1. PICK s \in bad : \A t \in bad : m[s] <= m[t]
    <3>1. bad \subseteq S
      OBVIOUS
    <3> HIDE DEF bad
    <3> QED BY <1>2, <3>1, HasLeast
  <2>2. next[s] # s
    BY <1>1
  <2>3. m[next[s]] < m[s] /\ next[s] \in S /\ m[s] \in Nat /\ m[next[s]] \in Nat
    BY <2>2
  <2>4. next[s] \notin bad
    <3> HIDE DEF bad
    <3> QED BY <2>1, <2>3
  <2> QED BY <1>1, <2>2, <2>3, <2>4
<1>3. f = [s \in S |-> f[s]]
  BY DEF IsEnd
<1> QED BY <1>1, <1>2, <1>3

\* What every step of a run keeps, the whole run keeps.
LEMMA EndKeeps ==
  ASSUME NEW S, NEW next \in [S -> S], NEW m \in [S -> Nat],
         \A s \in S : next[s] # s => m[next[s]] < m[s],
         NEW f, IsEnd(f, S, next),
         NEW P, P \subseteq S, \A s \in P : next[s] \in P
  PROVE  \A s \in P : f[s] \in P
<1> DEFINE bad == {s \in P : f[s] \notin P}
<1>1. \A s \in S : f[s] = IF next[s] = s THEN s ELSE f[next[s]]
  BY EndIsEnd
<1>2. ASSUME bad # {} PROVE FALSE
  <2>1. PICK s \in bad : \A t \in bad : m[s] <= m[t]
    <3>1. bad \subseteq S
      OBVIOUS
    <3> HIDE DEF bad
    <3> QED BY <1>2, <3>1, HasLeast
  <2>2. next[s] # s
    BY <1>1
  <2>3. m[next[s]] < m[s] /\ next[s] \in P /\ m[s] \in Nat /\ m[next[s]] \in Nat
    BY <2>2
  <2>4. next[s] \notin bad
    <3> HIDE DEF bad
    <3> QED BY <2>1, <2>3
  <2> QED BY <1>1, <2>2, <2>3, <2>4
<1> QED BY <1>2

\* A run with more to take begins with the same steps.
LEMMA EndContinues ==
  ASSUME NEW S, NEW next \in [S -> S], NEW m \in [S -> Nat],
         \A s \in S : next[s] # s => m[next[s]] < m[s],
         NEW f, IsEnd(f, S, next),
         NEW more \in [S -> S], NEW g, IsEnd(g, S, more),
         \A s \in S : next[s] # s => more[s] = next[s]
  PROVE  \A s \in S : g[s] = g[f[s]]
<1> DEFINE bad == {s \in S : g[s] # g[f[s]]}
<1>1. \A s \in S : f[s] = IF next[s] = s THEN s ELSE f[next[s]]
  BY EndIsEnd
<1>2. \A s \in S : g[s] = IF more[s] = s THEN s ELSE g[more[s]]
  BY DEF IsEnd
<1>3. ASSUME bad # {} PROVE FALSE
  <2>1. PICK s \in bad : \A t \in bad : m[s] <= m[t]
    <3>1. bad \subseteq S
      OBVIOUS
    <3> HIDE DEF bad
    <3> QED BY <1>3, <3>1, HasLeast
  <2>2. next[s] # s
    BY <1>1
  <2>3. m[next[s]] < m[s] /\ next[s] \in S /\ m[s] \in Nat /\ m[next[s]] \in Nat
    BY <2>2
  <2>4. next[s] \notin bad
    <3> HIDE DEF bad
    <3> QED BY <2>1, <2>3
  <2>5. f[s] = f[next[s]] /\ g[s] = g[next[s]]
    BY <1>1, <1>2, <2>2
  <2> QED BY <2>3, <2>4, <2>5
<1> QED BY <1>3

\* A run has one end.
LEMMA EndIsUnique ==
  ASSUME NEW S, NEW next \in [S -> S], NEW m \in [S -> Nat],
         \A s \in S : next[s] # s => m[next[s]] < m[s],
         NEW f, IsEnd(f, S, next), NEW g, IsEnd(g, S, next)
  PROVE  f = g
<1>1. \A s \in S : g[s] = g[f[s]]
  BY EndContinues
<1>2. \A s \in S : f[s] \in S /\ next[f[s]] = f[s]
  BY EndIsEnd
<1>3. \A s \in S : g[f[s]] = f[s]
  BY <1>2 DEF IsEnd
<1>4. f = [s \in S |-> f[s]] /\ g = [s \in S |-> g[s]]
  BY DEF IsEnd
<1> QED BY <1>1, <1>3, <1>4

-----------------------------------------------------------------------------
(* What an operation does to a state                                       *)

Typed ==
  /\ ledger \in Seq(Kinds)
  /\ stored \in Seq({"none", "core", "whole"}) /\ Len(stored) = Len(ledger)

LEMMA OperationsAreTyped ==
  ASSUME Typed, NEW i \in DOMAIN ledger
  PROVE  /\ ledger[i] \in Kinds /\ ledger[i] \in Operations /\ i \in Nat \ {0}
         /\ ledger[i].type \in {"create", "update", "recover", "deactivate"}
         /\ ledger[i].reveal \in Nat /\ ledger[i].next \in Nat /\ ledger[i].update \in Nat
         /\ ledger[i].type = "create" => ledger[i].next # Undefined
         /\ ledger[i].type # "create" => ledger[i].reveal # Undefined
         /\ ledger[i].type \in {"update", "recover"} => ledger[i].reveal < ledger[i].next
<1>1. ledger[i] \in Kinds /\ i \in Nat \ {0}
  BY DEF Typed
<1>2. ledger[i] \in Operations
  BY <1>1, ConstantsAssumption
<1>3. /\ ledger[i].type \in {"create", "update", "recover", "deactivate"}
      /\ ledger[i].reveal \in Nat /\ ledger[i].next \in Nat /\ ledger[i].update \in Nat
  BY <1>2 DEF Operations, Commitments, Undefined
<1> QED BY <1>1, <1>2, <1>3, FreshCommitments, ParsedOperations

LEMMA NoStateIsState == NoState \in DidStates /\ NoState.last = 0
BY DEF NoState, DidStates, Undefined

\* A create, update, recover or deactivate that is applied leaves its mark on the state.
Applied(t, s, i) ==
  /\ t \in DidStates /\ t.last = i
  /\ CASE ledger[i].type = "create" ->
            /\ s = NoState /\ t.recovery = ledger[i].next
            /\ t.update \in {Undefined, ledger[i].update}
       [] ledger[i].type = "recover" ->
            /\ s # NoState /\ ledger[i].reveal = s.recovery
            /\ t.recovery = ledger[i].next /\ t.update \in {Undefined, ledger[i].update}
            /\ t.chain = Append(s.chain, i)
       [] ledger[i].type = "deactivate" ->
            /\ s # NoState /\ ledger[i].reveal = s.recovery
            /\ t.recovery = Undefined /\ t.update = Undefined
            /\ t.chain = Append(s.chain, i)
       [] ledger[i].type = "update" ->
            /\ s # NoState /\ ledger[i].reveal = s.update
            /\ t.recovery = s.recovery /\ t.update = ledger[i].next
            /\ t.chain = s.chain /\ t.updates = Append(s.updates, i)

\* A delta sets the update commitment and the document, no more.
LEMMA DeltaEffect ==
  ASSUME Typed, NEW i \in DOMAIN ledger, NEW t \in DidStates
  PROVE  /\ WithDelta(i, t) \in DidStates
         /\ WithDelta(i, t).last = t.last /\ WithDelta(i, t).recovery = t.recovery
         /\ WithDelta(i, t).chain = t.chain
         /\ WithDelta(i, t).update \in {t.update, ledger[i].update}
<1> DEFINE d == IF ledger[i].delta = "valid" THEN <<i>> ELSE << >>
           u == [t EXCEPT !.update = ledger[i].update, !.doc = d]
<1>1. ledger[i].update \in Nat /\ i \in Nat
  BY OperationsAreTyped
<1>2. d \in Seq(Nat)
  BY <1>1
<1>3. WithDelta(i, t) \in {t, u}
  BY DEF WithDelta
<1> HIDE DEF d
<1>4. /\ u \in DidStates /\ u.last = t.last /\ u.recovery = t.recovery
      /\ u.chain = t.chain /\ u.update = ledger[i].update
  BY <1>1, <1>2 DEF DidStates
<1> HIDE DEF u
<1> QED BY <1>3, <1>4

LEMMA ApplyEffect ==
  ASSUME Typed, NEW i \in DOMAIN ledger, NEW s \in DidStates
  PROVE  Apply(s, i) = s \/ Applied(Apply(s, i), s, i)
<1>1. /\ i \in Nat \ {0}
      /\ ledger[i].reveal \in Nat /\ ledger[i].next \in Nat /\ ledger[i].update \in Nat
      /\ ledger[i].type \in {"create", "update", "recover", "deactivate"}
  BY OperationsAreTyped
<1>2. /\ s.doc \in Seq(Nat) /\ s.chain \in Seq(Nat) /\ s.updates \in Seq(Nat)
      /\ s.recovery \in Nat /\ s.update \in Nat /\ s.last \in Nat
  BY DEF DidStates
<1>3. ASSUME NEW t \in DidStates
      PROVE  /\ WithDelta(i, t) \in DidStates
             /\ WithDelta(i, t).last = t.last /\ WithDelta(i, t).recovery = t.recovery
             /\ WithDelta(i, t).chain = t.chain
             /\ WithDelta(i, t).update \in {t.update, ledger[i].update}
  BY DeltaEffect
<1>8. /\ NoState \in DidStates /\ NoState.recovery = Undefined /\ NoState.update = Undefined
  BY NoStateIsState DEF NoState
<1>4. CASE ledger[i].type = "create"
  <2> DEFINE c == <<i>>
             t == [NoState EXCEPT !.recovery = ledger[i].next, !.last = i, !.chain = c]
  <2>1. /\ t \in DidStates /\ t.last = i /\ t.recovery = ledger[i].next /\ t.update = Undefined
    <3>1. c \in Seq(Nat)
      BY <1>1
    <3> HIDE DEF c
    <3> QED BY <1>1, <1>8, <3>1 DEF DidStates
  <2>2. Apply(s, i) = IF s # NoState \/ stored[i] = "core" THEN s ELSE WithDelta(i, t)
    BY <1>4 DEF Apply, ApplyCreate
  <2> HIDE DEF t
  <2> QED BY <1>3, <1>4, <2>1, <2>2 DEF Applied
<1>5. CASE ledger[i].type = "recover"
  <2> DEFINE c == Append(s.chain, i)
             t == [NoState EXCEPT !.recovery = ledger[i].next, !.last = i, !.chain = c]
  <2>1. /\ t \in DidStates /\ t.last = i /\ t.recovery = ledger[i].next /\ t.update = Undefined
        /\ t.chain = c
    <3>1. c \in Seq(Nat)
      BY <1>1, <1>2
    <3> HIDE DEF c
    <3> QED BY <1>1, <1>8, <3>1 DEF DidStates
  <2>2. Apply(s, i) = IF s = NoState \/ ~ledger[i].signed \/ ledger[i].reveal # s.recovery
                      THEN s ELSE WithDelta(i, t)
    BY <1>5 DEF Apply, ApplyRecover
  <2> HIDE DEF t
  <2> QED BY <1>3, <1>5, <2>1, <2>2 DEF Applied
<1>6. CASE ledger[i].type = "deactivate"
  <2> DEFINE c == Append(s.chain, i)
             t == [s EXCEPT !.recovery = Undefined, !.update = Undefined, !.last = i, !.chain = c]
  <2>1. /\ t \in DidStates /\ t.last = i /\ t.recovery = Undefined /\ t.update = Undefined
        /\ t.chain = c
    <3>1. c \in Seq(Nat)
      BY <1>1, <1>2
    <3> HIDE DEF c
    <3> QED BY <1>1, <1>2, <3>1 DEF DidStates, Undefined
  <2>2. Apply(s, i) = IF s = NoState \/ ~ledger[i].signed \/ ledger[i].reveal # s.recovery
                      THEN s ELSE t
    BY <1>6 DEF Apply, ApplyDeactivate
  <2> HIDE DEF t
  <2> QED BY <1>6, <2>1, <2>2 DEF Applied
<1>7. CASE ledger[i].type = "update"
  <2> DEFINE u == Append(s.updates, i)
             d == IF ledger[i].delta = "valid" THEN Append(s.doc, i) ELSE s.doc
             t == [s EXCEPT !.update = ledger[i].next, !.last = i, !.updates = u, !.doc = d]
  <2>1. /\ t \in DidStates /\ t.last = i /\ t.recovery = s.recovery /\ t.update = ledger[i].next
        /\ t.chain = s.chain /\ t.updates = u
    <3>1. u \in Seq(Nat) /\ d \in Seq(Nat)
      BY <1>1, <1>2
    <3> HIDE DEF u, d
    <3> QED BY <1>1, <1>2, <3>1 DEF DidStates
  <2>2. Apply(s, i) = IF \/ s = NoState \/ ~ledger[i].signed \/ ledger[i].reveal # s.update
                         \/ ledger[i].delta = "mismatch"
                      THEN s ELSE t
    BY <1>7 DEF Apply, ApplyUpdate
  <2> HIDE DEF t
  <2> QED BY <1>7, <2>1, <2>2 DEF Applied
<1> QED BY <1>1, <1>4, <1>5, <1>6, <1>7

\* So an operation changes a state into one that tells it was the last, and changes that no
\* further: the commitment it reveals is spent.
LEMMA AppliedOnce ==
  ASSUME Typed, NEW i \in DOMAIN ledger, NEW s \in DidStates
  PROVE  /\ Apply(s, i) \in DidStates
         /\ Apply(s, i) = s \/ Apply(s, i).last = i
         /\ Apply(Apply(s, i), i) = Apply(s, i)
<1> DEFINE t == Apply(s, i)
<1>1. t = s \/ Applied(t, s, i)
  BY ApplyEffect
<1>2. t \in DidStates /\ (t = s \/ t.last = i)
  BY <1>1 DEF Applied
<1>3. Apply(t, i) = t
  <2> SUFFICES ASSUME Applied(t, s, i), Applied(Apply(t, i), t, i) PROVE FALSE
    <3> HIDE DEF t
    <3>1. Apply(t, i) = t \/ Applied(Apply(t, i), t, i)
      BY <1>2, ApplyEffect
    <3>2. t = s => Apply(t, i) = t
      BY DEF t
    <3> QED BY <1>1, <3>1, <3>2
  <2> HIDE DEF t
  <2>1. /\ i # 0 /\ NoState.last = 0
        /\ ledger[i].type \in {"create", "update", "recover", "deactivate"}
        /\ ledger[i].reveal \in Nat /\ ledger[i].next \in Nat
        /\ ledger[i].type # "create" => ledger[i].reveal # Undefined
        /\ ledger[i].type \in {"update", "recover"} => ledger[i].reveal < ledger[i].next
    BY OperationsAreTyped, NoStateIsState
  <2>2. CASE ledger[i].type = "create"
    BY <2>1, <2>2 DEF Applied
  <2>3. CASE ledger[i].type = "recover"
    BY <2>1, <2>3 DEF Applied
  <2>4. CASE ledger[i].type = "deactivate"
    BY <2>1, <2>4 DEF Applied
  <2>5. CASE ledger[i].type = "update"
    BY <2>1, <2>5 DEF Applied
  <2> QED BY <2>1, <2>2, <2>3, <2>4, <2>5
<1> QED BY <1>2, <1>3

-----------------------------------------------------------------------------
(* One turn of a loop                                                      *)

LEMMA EarliestIs ==
  ASSUME NEW S \in SUBSET Nat, S # {}
  PROVE  Earliest(S) \in S /\ \A i \in S : Earliest(S) <= i
<1> DEFINE m == [n \in Nat |-> n]
<1>1. m \in [Nat -> Nat] /\ S \subseteq Nat
  OBVIOUS
<1>2. PICK s \in S : \A t \in S : m[s] <= m[t]
  <2> HIDE DEF m
  <2> QED BY <1>1, HasLeast
<1>3. \E k \in S : \A t \in S : k <= t
  BY <1>2
<1> QED BY <1>3 DEF Earliest, Min

Valid(T, s) == {i \in T : Apply(s, i).last # s.last}

\* A turn applies the earliest valid operation, or there is none.
LEMMA TurnTakesEarliest ==
  ASSUME Typed, NEW T, T \subseteq DOMAIN ledger, NEW s \in DidStates
  PROVE  /\ ApplyFirstValid(T, s) \in DidStates
         /\ Valid(T, s) = {} => ApplyFirstValid(T, s) = s
         /\ Valid(T, s) # {} =>
              \E i \in Valid(T, s) :
                /\ ApplyFirstValid(T, s) = Apply(s, i) /\ ApplyFirstValid(T, s) # s
                /\ \A j \in Valid(T, s) : i <= j
<1>1. ApplyFirstValid(T, s) = IF Valid(T, s) = {} THEN s ELSE Apply(s, Earliest(Valid(T, s)))
  BY DEF ApplyFirstValid, Valid
<1>2. CASE Valid(T, s) = {}
  BY <1>1, <1>2
<1>3. CASE Valid(T, s) # {}
  <2>1. Valid(T, s) \in SUBSET Nat /\ Valid(T, s) \subseteq DOMAIN ledger
    BY DEF Valid, Typed
  <2> DEFINE i == Earliest(Valid(T, s))
  <2>2. i \in Valid(T, s) /\ \A j \in Valid(T, s) : i <= j
    BY <1>3, <2>1, EarliestIs
  <2>3. ApplyFirstValid(T, s) = Apply(s, i)
    BY <1>1, <1>3
  <2> HIDE DEF i
  <2>4. Apply(s, i) \in DidStates
    BY <2>1, <2>2, AppliedOnce
  <2>5. Apply(s, i) # s
    BY <2>2 DEF Valid
  <2> QED BY <1>3, <2>2, <2>3, <2>4, <2>5
<1> QED BY <1>2, <1>3

\* With one more operation, later than the others, a turn that took one of them takes the
\* same; only one that took none may take it.
LEMMA TurnWithOneMore ==
  ASSUME Typed, NEW T, T \subseteq DOMAIN ledger, NEW k \in DOMAIN ledger,
         \A i \in T : i < k, NEW s \in DidStates
  PROVE  /\ ApplyFirstValid(T, s) # s => ApplyFirstValid(T \cup {k}, s) = ApplyFirstValid(T, s)
         /\ ApplyFirstValid(T, s) = s => ApplyFirstValid(T \cup {k}, s) \in {s, Apply(s, k)}
         /\ ApplyFirstValid(T, s) = s /\ Apply(s, k).last # s.last =>
              ApplyFirstValid(T \cup {k}, s) = Apply(s, k)
<1>1. T \cup {k} \subseteq DOMAIN ledger /\ \A i \in T \cup {k} : i \in Nat
  BY DEF Typed
<1>2. Valid(T \cup {k}, s) = Valid(T, s) \cup Valid({k}, s) /\ Valid({k}, s) \subseteq {k}
  BY DEF Valid
<1>3. CASE Valid(T, s) = {}
  <2>1. ApplyFirstValid(T, s) = s /\ Valid(T \cup {k}, s) \subseteq {k}
    BY <1>2, <1>3, TurnTakesEarliest
  <2>2. Apply(s, k).last # s.last => k \in Valid(T \cup {k}, s)
    BY DEF Valid
  <2> QED BY <1>1, <2>1, <2>2, TurnTakesEarliest
<1>4. CASE Valid(T, s) # {}
  <2>1. PICK i \in Valid(T, s) :
          /\ ApplyFirstValid(T, s) = Apply(s, i) /\ ApplyFirstValid(T, s) # s
          /\ \A j \in Valid(T, s) : i <= j
    BY <1>4, TurnTakesEarliest
  <2>2. PICK h \in Valid(T \cup {k}, s) :
          /\ ApplyFirstValid(T \cup {k}, s) = Apply(s, h)
          /\ \A j \in Valid(T \cup {k}, s) : h <= j
    BY <1>1, <1>2, <1>4, TurnTakesEarliest
  <2>3. i \in T /\ i < k /\ i \in Valid(T \cup {k}, s)
    BY <1>2, <2>1 DEF Valid
  <2>4. h \in T \cup {k} /\ h <= i
    BY <2>2, <2>3 DEF Valid
  <2>5. h \in Valid(T, s)
    BY <1>1, <1>2, <2>2, <2>3, <2>4
  <2>6. h = i
    BY <1>1, <2>1, <2>3, <2>4, <2>5
  <2> QED BY <2>1, <2>2, <2>6
<1> QED BY <1>3, <1>4

\* The turns of the two loops, for a part T of what is stored.
RecoveryTurn(T) ==
  [s \in DidStates |-> ApplyFirstValid(Revealing(T \cap RecoverAndDeactivate, s.recovery), s)]
UpdateTurn(T) ==
  [s \in DidStates |-> ApplyFirstValid(Revealing(T \cap OfType("update"), s.update), s)]

\* The operations that may still be applied get fewer.
Unspent(c) == IF c = Undefined THEN {} ELSE {i \in DOMAIN ledger : ledger[i].reveal >= c}
RecoveriesLeft == [s \in DidStates |-> Cardinality(Unspent(s.recovery))]
UpdatesLeft == [s \in DidStates |-> Cardinality(Unspent(s.update))]

LEMMA FiniteLedger ==
  ASSUME Typed
  PROVE  IsFiniteSet(DOMAIN ledger)
<1>1. DOMAIN ledger = 1 .. Len(ledger) /\ Len(ledger) \in Nat
  BY DEF Typed
<1> QED BY <1>1, FS_Interval

LEMMA FewerUnspent ==
  ASSUME Typed, NEW i \in DOMAIN ledger, NEW c \in Nat, c # Undefined, ledger[i].reveal = c,
         NEW d \in Nat, d = Undefined \/ c < d
  PROVE  Cardinality(Unspent(d)) < Cardinality(Unspent(c))
<1>1. IsFiniteSet(DOMAIN ledger)
  BY FiniteLedger
<1>2. Unspent(c) \subseteq DOMAIN ledger /\ i \in Unspent(c)
  BY DEF Unspent
<1>3. \A j \in DOMAIN ledger : ledger[j].reveal \in Nat
  BY OperationsAreTyped
<1>4. Unspent(d) \subseteq Unspent(c) /\ i \notin Unspent(d)
  BY <1>3 DEF Unspent
<1>5. IsFiniteSet(Unspent(c)) /\ IsFiniteSet(Unspent(d))
  BY <1>1, <1>2, <1>4, FS_Subset
<1>6. /\ Cardinality(Unspent(d)) <= Cardinality(Unspent(c))
      /\ Cardinality(Unspent(d)) # Cardinality(Unspent(c))
  BY <1>2, <1>4, <1>5, FS_Subset
<1> QED BY <1>5, <1>6, FS_CardinalityType

LEMMA UnspentIsCounted ==
  ASSUME Typed, NEW c \in Nat
  PROVE  Cardinality(Unspent(c)) \in Nat
<1>2. IsFiniteSet(DOMAIN ledger)
  BY FiniteLedger
<1>3. Unspent(c) \subseteq DOMAIN ledger
  BY DEF Unspent
<1> QED BY <1>2, <1>3, FS_Subset, FS_CardinalityType

\* A turn of the loop over recoveries applies one of them, or changes nothing.
LEMMA RecoveryTurnApplies ==
  ASSUME Typed, NEW T, T \subseteq Get, NEW s \in DidStates, RecoveryTurn(T)[s] # s
  PROVE  \E i \in T : /\ RecoveryTurn(T)[s] = Apply(s, i) /\ Applied(Apply(s, i), s, i)
                      /\ s.recovery # Undefined
                      /\ ledger[i].type \in {"recover", "deactivate"}
<1> DEFINE R == Revealing(T \cap RecoverAndDeactivate, s.recovery)
<1>1. /\ R \subseteq DOMAIN ledger /\ R \subseteq T
      /\ \A i \in R : ledger[i].type \in {"recover", "deactivate"} /\ s.recovery # Undefined
  BY DEF Revealing, RecoverAndDeactivate, OfType, Get
<1>2. RecoveryTurn(T)[s] = ApplyFirstValid(R, s)
  BY DEF RecoveryTurn
<1> HIDE DEF R
<1>3. PICK i \in Valid(R, s) : RecoveryTurn(T)[s] = Apply(s, i)
  BY <1>1, <1>2, TurnTakesEarliest
<1>4. i \in R /\ Apply(s, i) # s
  BY <1>3 DEF Valid
<1> QED BY <1>1, <1>3, <1>4, ApplyEffect

LEMMA UpdateTurnApplies ==
  ASSUME Typed, NEW T, T \subseteq Get, NEW s \in DidStates, UpdateTurn(T)[s] # s
  PROVE  \E i \in T : /\ UpdateTurn(T)[s] = Apply(s, i) /\ Applied(Apply(s, i), s, i)
                      /\ s.update # Undefined /\ ledger[i].type = "update"
<1> DEFINE R == Revealing(T \cap OfType("update"), s.update)
<1>1. /\ R \subseteq DOMAIN ledger /\ R \subseteq T
      /\ \A i \in R : ledger[i].type = "update" /\ s.update # Undefined
  BY DEF Revealing, OfType, Get
<1>2. UpdateTurn(T)[s] = ApplyFirstValid(R, s)
  BY DEF UpdateTurn
<1> HIDE DEF R
<1>3. PICK i \in Valid(R, s) : UpdateTurn(T)[s] = Apply(s, i)
  BY <1>1, <1>2, TurnTakesEarliest
<1>4. i \in R /\ Apply(s, i) # s
  BY <1>3 DEF Valid
<1> QED BY <1>1, <1>3, <1>4, ApplyEffect

\* Both loops end: what FreshCommitments is for.
LEMMA LoopsEnd ==
  ASSUME Typed, NEW T, T \subseteq Get
  PROVE  /\ RecoveryTurn(T) \in [DidStates -> DidStates]
         /\ RecoveriesLeft \in [DidStates -> Nat]
         /\ \A s \in DidStates : RecoveryTurn(T)[s] # s =>
              RecoveriesLeft[RecoveryTurn(T)[s]] < RecoveriesLeft[s]
         /\ UpdateTurn(T) \in [DidStates -> DidStates]
         /\ UpdatesLeft \in [DidStates -> Nat]
         /\ \A s \in DidStates : UpdateTurn(T)[s] # s =>
              UpdatesLeft[UpdateTurn(T)[s]] < UpdatesLeft[s]
<1>1. \A s \in DidStates : s.recovery \in Nat /\ s.update \in Nat
  BY DEF DidStates
<1>2. \A s \in DidStates :
        /\ Revealing(T \cap RecoverAndDeactivate, s.recovery) \subseteq DOMAIN ledger
        /\ Revealing(T \cap OfType("update"), s.update) \subseteq DOMAIN ledger
  BY DEF Revealing, RecoverAndDeactivate, OfType, Get
<1>3. /\ RecoveryTurn(T) \in [DidStates -> DidStates]
      /\ UpdateTurn(T) \in [DidStates -> DidStates]
  BY <1>2, TurnTakesEarliest DEF RecoveryTurn, UpdateTurn
<1>4. RecoveriesLeft \in [DidStates -> Nat] /\ UpdatesLeft \in [DidStates -> Nat]
  BY <1>1, UnspentIsCounted DEF RecoveriesLeft, UpdatesLeft
<1>5. ASSUME NEW s \in DidStates, RecoveryTurn(T)[s] # s
      PROVE  RecoveriesLeft[RecoveryTurn(T)[s]] < RecoveriesLeft[s]
  <2>1. PICK i \in T : /\ RecoveryTurn(T)[s] = Apply(s, i) /\ Applied(Apply(s, i), s, i)
                       /\ s.recovery # Undefined
                       /\ ledger[i].type \in {"recover", "deactivate"}
    BY <1>5, RecoveryTurnApplies
  <2> DEFINE t == Apply(s, i)
  <2>2. i \in DOMAIN ledger
    BY DEF Get
  <2>3. /\ t \in DidStates /\ ledger[i].reveal = s.recovery
        /\ t.recovery = Undefined \/ s.recovery < t.recovery
    BY <2>1, <2>2, OperationsAreTyped DEF Applied
  <2> HIDE DEF t
  <2>4. Cardinality(Unspent(t.recovery)) < Cardinality(Unspent(s.recovery))
    BY <1>1, <2>1, <2>2, <2>3, FewerUnspent
  <2>5. RecoveryTurn(T)[s] = t
    BY <2>1 DEF t
  <2> QED BY <2>3, <2>4, <2>5 DEF RecoveriesLeft
<1>6. ASSUME NEW s \in DidStates, UpdateTurn(T)[s] # s
      PROVE  UpdatesLeft[UpdateTurn(T)[s]] < UpdatesLeft[s]
  <2>1. PICK i \in T : /\ UpdateTurn(T)[s] = Apply(s, i) /\ Applied(Apply(s, i), s, i)
                       /\ s.update # Undefined /\ ledger[i].type = "update"
    BY <1>6, UpdateTurnApplies
  <2> DEFINE t == Apply(s, i)
  <2>2. i \in DOMAIN ledger
    BY DEF Get
  <2>3. t \in DidStates /\ ledger[i].reveal = s.update /\ s.update < t.update
    BY <2>1, <2>2, OperationsAreTyped DEF Applied
  <2> HIDE DEF t
  <2>4. Cardinality(Unspent(t.update)) < Cardinality(Unspent(s.update))
    BY <1>1, <2>1, <2>2, <2>3, FewerUnspent
  <2>5. UpdateTurn(T)[s] = t
    BY <2>1 DEF t
  <2> QED BY <2>3, <2>4, <2>5 DEF UpdatesLeft
<1> QED BY <1>3, <1>4, <1>5, <1>6

-----------------------------------------------------------------------------
(* The loops of the resolver are runs of these turns                       *)

\* The end of a loop over the operations of T, and what is answered if only those are stored.
RecoveriesOf(T) == CHOOSE f : IsEnd(f, DidStates, RecoveryTurn(T))
UpdatesOf(T) == CHOOSE f : IsEnd(f, DidStates, UpdateTurn(T))
CreatedOf(T) == ApplyFirstValid(T \cap OfType("create"), NoState)
RecoveredOf(T) == RecoveriesOf(T)[CreatedOf(T)]
AnswerOf(T) ==
  IF CreatedOf(T) = NoState THEN NoState
  ELSE IF RecoveredOf(T).recovery = Undefined THEN RecoveredOf(T)
  ELSE UpdatesOf(T)[RecoveredOf(T)]

LEMMA LoopsAreRuns ==
  ASSUME Typed, NEW T, T \subseteq Get
  PROVE  /\ IsEnd(RecoveriesOf(T), DidStates, RecoveryTurn(T))
         /\ IsEnd(UpdatesOf(T), DidStates, UpdateTurn(T))
<1>1. \E f : IsEnd(f, DidStates, RecoveryTurn(T))
  BY LoopsEnd, EndExists
<1>2. \E f : IsEnd(f, DidStates, UpdateTurn(T))
  BY LoopsEnd, EndExists
<1> QED BY <1>1, <1>2 DEF RecoveriesOf, UpdatesOf

LEMMA WithRecoveriesIsRun ==
  ASSUME Typed
  PROVE  WithRecoveries = RecoveriesOf(Get)
<1> DEFINE body(f) ==
      [s \in DidStates |->
         LET t == ApplyFirstValid(Revealing(RecoverAndDeactivate, s.recovery), s)
         IN  IF t = s THEN s ELSE f[t]]
<1>1. Get \cap RecoverAndDeactivate = RecoverAndDeactivate
  BY DEF RecoverAndDeactivate, OfType
<1>2. ASSUME NEW f
      PROVE  body(f) = [s \in DidStates |->
                          IF RecoveryTurn(Get)[s] = s THEN s ELSE f[RecoveryTurn(Get)[s]]]
  BY <1>1 DEF RecoveryTurn
<1>3. ASSUME NEW f
      PROVE  IsEnd(f, DidStates, RecoveryTurn(Get)) <=> f = body(f)
  <2> HIDE DEF body
  <2> QED BY <1>2 DEF IsEnd
<1>4. WithRecoveries = CHOOSE f : f = body(f)
  BY DEF WithRecoveries
<1>5. IsEnd(RecoveriesOf(Get), DidStates, RecoveryTurn(Get))
  BY LoopsAreRuns
<1>6. WithRecoveries = body(WithRecoveries)
  <2> HIDE DEF body
  <2> QED BY <1>3, <1>4, <1>5
<1>7. IsEnd(WithRecoveries, DidStates, RecoveryTurn(Get))
  <2> HIDE DEF body
  <2> QED BY <1>3, <1>6
<1> QED BY <1>5, <1>7, LoopsEnd, EndIsUnique

LEMMA WithUpdatesIsRun ==
  ASSUME Typed
  PROVE  WithUpdates = UpdatesOf(Get)
<1> DEFINE body(f) ==
      [s \in DidStates |->
         LET t == ApplyFirstValid(Revealing(OfType("update"), s.update), s)
         IN  IF t = s THEN s ELSE f[t]]
<1>1. Get \cap OfType("update") = OfType("update")
  BY DEF OfType
<1>2. ASSUME NEW f
      PROVE  body(f) = [s \in DidStates |->
                          IF UpdateTurn(Get)[s] = s THEN s ELSE f[UpdateTurn(Get)[s]]]
  BY <1>1 DEF UpdateTurn
<1>3. ASSUME NEW f
      PROVE  IsEnd(f, DidStates, UpdateTurn(Get)) <=> f = body(f)
  <2> HIDE DEF body
  <2> QED BY <1>2 DEF IsEnd
<1>4. WithUpdates = CHOOSE f : f = body(f)
  BY DEF WithUpdates
<1>5. IsEnd(UpdatesOf(Get), DidStates, UpdateTurn(Get))
  BY LoopsAreRuns
<1>6. WithUpdates = body(WithUpdates)
  <2> HIDE DEF body
  <2> QED BY <1>3, <1>4, <1>5
<1>7. IsEnd(WithUpdates, DidStates, UpdateTurn(Get))
  <2> HIDE DEF body
  <2> QED BY <1>3, <1>6
<1> QED BY <1>5, <1>7, LoopsEnd, EndIsUnique

LEMMA ResolvedIsAnswer ==
  ASSUME Typed
  PROVE  Resolved = AnswerOf(Get)
<1>1. Created = CreatedOf(Get)
  <2>1. Get \cap OfType("create") = OfType("create")
    BY DEF OfType
  <2> QED BY <2>1 DEF Created, CreatedOf
<1>2. WithRecoveries[Created] = RecoveredOf(Get)
  BY <1>1, WithRecoveriesIsRun DEF RecoveredOf
<1> QED BY <1>1, <1>2, WithUpdatesIsRun DEF Resolved, AnswerOf

\* What is true of every run of the two loops.
LEMMA RecoveriesEnd ==
  ASSUME Typed, NEW T, T \subseteq Get, NEW s \in DidStates
  PROVE  /\ RecoveriesOf(T)[s] \in DidStates
         /\ RecoveryTurn(T)[RecoveriesOf(T)[s]] = RecoveriesOf(T)[s]
BY LoopsEnd, LoopsAreRuns, EndIsEnd

LEMMA UpdatesEnd ==
  ASSUME Typed, NEW T, T \subseteq Get, NEW s \in DidStates
  PROVE  /\ UpdatesOf(T)[s] \in DidStates
         /\ UpdateTurn(T)[UpdatesOf(T)[s]] = UpdatesOf(T)[s]
BY LoopsEnd, LoopsAreRuns, EndIsEnd

LEMMA RecoveriesKeep ==
  ASSUME Typed, NEW T, T \subseteq Get, NEW P, P \subseteq DidStates,
         \A s \in P : RecoveryTurn(T)[s] \in P
  PROVE  \A s \in P : RecoveriesOf(T)[s] \in P
BY LoopsEnd, LoopsAreRuns, EndKeeps

LEMMA UpdatesKeep ==
  ASSUME Typed, NEW T, T \subseteq Get, NEW P, P \subseteq DidStates,
         \A s \in P : UpdateTurn(T)[s] \in P
  PROVE  \A s \in P : UpdatesOf(T)[s] \in P
BY LoopsEnd, LoopsAreRuns, EndKeeps

-----------------------------------------------------------------------------
(* The answer applies all it can                                           *)

\* Whether a recover or a deactivate is applied is decided by the recovery commitment.
LEMMA RecoveryDecides ==
  ASSUME Typed, NEW i \in DOMAIN ledger, ledger[i].type \in {"recover", "deactivate"},
         NEW s \in DidStates, s # NoState
  PROVE  Apply(s, i) = s <=> ~ledger[i].signed \/ ledger[i].reveal # s.recovery
<1>1. ASSUME ~ledger[i].signed \/ ledger[i].reveal # s.recovery PROVE Apply(s, i) = s
  BY <1>1 DEF Apply, ApplyRecover, ApplyDeactivate
<1>2. ASSUME ledger[i].signed, ledger[i].reveal = s.recovery PROVE Apply(s, i).last = i /\ Apply(s, i).chain = Append(s.chain, i)
  <2>1. s.recovery \in Nat /\ s.update \in Nat
    BY DEF DidStates
  <2>2. CASE ledger[i].type = "recover"
    <3> DEFINE c == Append(s.chain, i)
               t == [NoState EXCEPT !.recovery = ledger[i].next, !.last = i, !.chain = c]
    <3>1. Apply(s, i) = WithDelta(i, t)
      BY <1>2, <2>2 DEF Apply, ApplyRecover
    <3>2. c \in Seq(Nat) /\ ledger[i].next \in Nat /\ i \in Nat
      BY OperationsAreTyped DEF DidStates
    <3> HIDE DEF c
    <3>3. t \in DidStates /\ t.last = i /\ t.chain = c
      BY <3>2, NoStateIsState DEF DidStates
    <3> HIDE DEF t
    <3> QED BY <3>1, <3>3, DeltaEffect DEF c
  <2>3. CASE ledger[i].type = "deactivate"
    BY <1>2, <2>3 DEF Apply, ApplyDeactivate, DidStates
  <2> QED BY <2>2, <2>3
<1>3. Append(s.chain, i) # s.chain
  <2>1. s.chain \in Seq(Nat) /\ i \in Nat
    BY OperationsAreTyped DEF DidStates
  <2>2. Len(Append(s.chain, i)) = Len(s.chain) + 1 /\ Len(s.chain) \in Nat
    BY <2>1
  <2> QED BY <2>2
<1> QED BY <1>1, <1>2, <1>3

\* What the turns keep: the last operation applied is spent, and a deactivated DID is not updated.
Reached(T) == {s \in DidStates : /\ s # NoState /\ s.last \in T /\ Apply(s, s.last) = s
                                 /\ s.recovery = Undefined => s.update = Undefined}

LEMMA ApplyReaches ==
  ASSUME Typed, NEW T, T \subseteq Get, NEW i \in T, NEW s \in DidStates,
         Applied(Apply(s, i), s, i), ledger[i].type = "update" => s \in Reached(T),
         ledger[i].type = "update" => s.update # Undefined
  PROVE  Apply(s, i) \in Reached(T)
<1> DEFINE t == Apply(s, i)
<1>1. i \in DOMAIN ledger
  BY DEF Get
<1>2. /\ i # 0 /\ NoState.last = 0
      /\ ledger[i].type \in {"create", "update", "recover", "deactivate"}
      /\ ledger[i].reveal \in Nat /\ ledger[i].next \in Nat
      /\ ledger[i].type = "create" => ledger[i].next # Undefined
      /\ ledger[i].type \in {"update", "recover"} => ledger[i].reveal < ledger[i].next
  BY <1>1, OperationsAreTyped, NoStateIsState
<1>3. t \in DidStates /\ t.last = i /\ Apply(t, i) = t
  BY <1>1, AppliedOnce DEF Applied
<1>4. t.recovery = Undefined => t.update = Undefined
  <2>1. CASE ledger[i].type = "create"
    BY <1>2, <2>1 DEF Applied
  <2>2. CASE ledger[i].type = "recover"
    BY <1>2, <2>2 DEF Applied, Undefined
  <2>3. CASE ledger[i].type = "deactivate"
    BY <2>3 DEF Applied
  <2>4. CASE ledger[i].type = "update"
    BY <2>4 DEF Applied, Reached
  <2> QED BY <1>2, <2>1, <2>2, <2>3, <2>4
<1> HIDE DEF t
<1> QED BY <1>2, <1>3, <1>4 DEF Reached, t

LEMMA CreatedIs ==
  ASSUME Typed, NEW T, T \subseteq Get
  PROVE  /\ CreatedOf(T) \in DidStates
         /\ CreatedOf(T) # NoState => CreatedOf(T) \in Reached(T)
         /\ CreatedOf(T) = NoState => \A i \in T : Apply(NoState, i) = NoState
<1> DEFINE C == T \cap OfType("create")
<1>1. C \subseteq DOMAIN ledger /\ C \subseteq T /\ NoState \in DidStates /\ NoState.last = 0
  BY NoStateIsState DEF Get
<1>2. CreatedOf(T) \in DidStates
  BY <1>1, TurnTakesEarliest DEF CreatedOf
<1>3. ASSUME CreatedOf(T) # NoState PROVE CreatedOf(T) \in Reached(T)
  <2>1. Valid(C, NoState) # {}
    BY <1>1, <1>3, TurnTakesEarliest DEF CreatedOf
  <2>2. PICK i \in Valid(C, NoState) : CreatedOf(T) = Apply(NoState, i)
    BY <1>1, <2>1, TurnTakesEarliest DEF CreatedOf
  <2>3. i \in C /\ Apply(NoState, i) # NoState
    BY <2>2 DEF Valid
  <2>4. Applied(Apply(NoState, i), NoState, i) /\ ledger[i].type = "create"
    BY <1>1, <2>3, ApplyEffect DEF OfType
  <2> QED BY <1>1, <2>2, <2>3, <2>4, ApplyReaches
<1>4. ASSUME CreatedOf(T) = NoState, NEW i \in T PROVE Apply(NoState, i) = NoState
  <2>1. Valid(C, NoState) = {}
    BY <1>1, <1>4, TurnTakesEarliest DEF CreatedOf
  <2>2. i \in DOMAIN ledger /\ i # 0
    BY OperationsAreTyped DEF Get
  <2>3. CASE ledger[i].type = "create"
    <3>1. i \in C
      BY <2>3 DEF OfType, Get
    <3>2. Apply(NoState, i).last = NoState.last
      BY <2>1, <3>1 DEF Valid
    <3> QED BY <1>1, <2>2, <3>2, AppliedOnce
  <2>4. CASE ledger[i].type # "create"
    BY <2>2, <2>4, OperationsAreTyped DEF Apply
  <2> QED BY <2>3, <2>4
<1> QED BY <1>2, <1>3, <1>4

LEMMA RecoveryTurnReaches ==
  ASSUME Typed, NEW T, T \subseteq Get, NEW s \in Reached(T)
  PROVE  RecoveryTurn(T)[s] \in Reached(T)
<1>1. s \in DidStates
  BY DEF Reached
<1>2. CASE RecoveryTurn(T)[s] # s
  <2>1. PICK i \in T : /\ RecoveryTurn(T)[s] = Apply(s, i) /\ Applied(Apply(s, i), s, i)
                       /\ ledger[i].type \in {"recover", "deactivate"}
    BY <1>1, <1>2, RecoveryTurnApplies
  <2> QED BY <1>1, <2>1, ApplyReaches
<1> QED BY <1>2

LEMMA UpdateTurnReaches ==
  ASSUME Typed, NEW T, T \subseteq Get, NEW s \in Reached(T)
  PROVE  /\ UpdateTurn(T)[s] \in Reached(T)
         /\ UpdateTurn(T)[s].recovery = s.recovery /\ UpdateTurn(T)[s].chain = s.chain
<1>1. s \in DidStates
  BY DEF Reached
<1>2. CASE UpdateTurn(T)[s] # s
  <2>1. PICK i \in T : /\ UpdateTurn(T)[s] = Apply(s, i) /\ Applied(Apply(s, i), s, i)
                       /\ s.update # Undefined /\ ledger[i].type = "update"
    BY <1>1, <1>2, UpdateTurnApplies
  <2>2. Apply(s, i) \in Reached(T)
    BY <1>1, <2>1, ApplyReaches
  <2> QED BY <2>1, <2>2 DEF Applied
<1> QED BY <1>2

\* The state after the first loop, and what the second loop leaves of it.
LEMMA RecoveredIs ==
  ASSUME Typed, NEW T, T \subseteq Get, CreatedOf(T) # NoState
  PROVE  /\ RecoveredOf(T) \in Reached(T)
         /\ RecoveryTurn(T)[RecoveredOf(T)] = RecoveredOf(T)
<1>1. CreatedOf(T) \in Reached(T) /\ CreatedOf(T) \in DidStates
  BY CreatedIs
<1>2. Reached(T) \subseteq DidStates
  BY DEF Reached
<1> QED BY <1>1, <1>2, RecoveryTurnReaches, RecoveriesKeep, RecoveriesEnd DEF RecoveredOf

LEMMA UpdatedIs ==
  ASSUME Typed, NEW T, T \subseteq Get, NEW r \in Reached(T)
  PROVE  /\ UpdatesOf(T)[r] \in Reached(T)
         /\ UpdateTurn(T)[UpdatesOf(T)[r]] = UpdatesOf(T)[r]
         /\ UpdatesOf(T)[r].recovery = r.recovery /\ UpdatesOf(T)[r].chain = r.chain
<1> DEFINE P == {s \in Reached(T) : s.recovery = r.recovery /\ s.chain = r.chain}
<1>1. P \subseteq DidStates /\ r \in P /\ r \in DidStates
  BY DEF Reached
<1>2. \A s \in P : UpdateTurn(T)[s] \in P
  BY UpdateTurnReaches
<1>3. UpdatesOf(T)[r] \in P
  <2> HIDE DEF P
  <2> QED BY <1>1, <1>2, UpdatesKeep
<1> QED BY <1>1, <1>3, UpdatesEnd

\* When a turn changes nothing, no operation of its kind does.
LEMMA NoRecoveryLeft ==
  ASSUME Typed, NEW T, T \subseteq Get, NEW s \in Reached(T), RecoveryTurn(T)[s] = s,
         NEW i \in T, ledger[i].type \in {"recover", "deactivate"}
  PROVE  Apply(s, i) = s
<1> DEFINE R == Revealing(T \cap RecoverAndDeactivate, s.recovery)
<1>1. /\ s \in DidStates /\ s # NoState /\ i \in DOMAIN ledger
      /\ R \subseteq DOMAIN ledger /\ RecoveryTurn(T)[s] = ApplyFirstValid(R, s)
  BY DEF Reached, Get, Revealing, RecoveryTurn
<1> SUFFICES ASSUME Apply(s, i) # s PROVE FALSE
  OBVIOUS
<1>2. Applied(Apply(s, i), s, i)
  BY <1>1, ApplyEffect
<1>3. i \in R
  <2>1. ledger[i].reveal = s.recovery /\ ledger[i].reveal # Undefined
    BY <1>1, <1>2, OperationsAreTyped DEF Applied
  <2> QED BY <2>1 DEF Revealing, RecoverAndDeactivate, OfType, Get
<1> HIDE DEF R
<1>4. Apply(s, i).last = s.last
  BY <1>1, <1>3, TurnTakesEarliest DEF Valid
<1> QED BY <1>1, <1>4, AppliedOnce DEF Reached

LEMMA NoUpdateLeft ==
  ASSUME Typed, NEW T, T \subseteq Get, NEW s \in Reached(T), UpdateTurn(T)[s] = s,
         NEW i \in T, ledger[i].type = "update"
  PROVE  Apply(s, i) = s
<1> DEFINE R == Revealing(T \cap OfType("update"), s.update)
<1>1. /\ s \in DidStates /\ s # NoState /\ i \in DOMAIN ledger
      /\ R \subseteq DOMAIN ledger /\ UpdateTurn(T)[s] = ApplyFirstValid(R, s)
  BY DEF Reached, Get, Revealing, UpdateTurn
<1> SUFFICES ASSUME Apply(s, i) # s PROVE FALSE
  OBVIOUS
<1>2. Applied(Apply(s, i), s, i)
  BY <1>1, ApplyEffect
<1>3. i \in R
  <2>1. ledger[i].reveal = s.update /\ ledger[i].reveal # Undefined
    BY <1>1, <1>2, OperationsAreTyped DEF Applied
  <2> QED BY <2>1 DEF Revealing, OfType, Get
<1> HIDE DEF R
<1>4. Apply(s, i).last = s.last
  BY <1>1, <1>3, TurnTakesEarliest DEF Valid
<1> QED BY <1>1, <1>4, AppliedOnce DEF Reached

LEMMA NothingLeft ==
  ASSUME Typed, NEW T, T \subseteq Get, NEW i \in T
  PROVE  Apply(AnswerOf(T), i) = AnswerOf(T)
<1> DEFINE r == RecoveredOf(T)
           a == AnswerOf(T)
<1>1. CASE CreatedOf(T) = NoState
  BY <1>1, CreatedIs DEF AnswerOf
<1>2. CASE CreatedOf(T) # NoState
  <2>1. r \in Reached(T) /\ RecoveryTurn(T)[r] = r
    BY <1>2, RecoveredIs
  <2>2. a = IF r.recovery = Undefined THEN r ELSE UpdatesOf(T)[r]
    BY <1>2 DEF AnswerOf
  <2> HIDE DEF r, a
  <2>3. a \in Reached(T) /\ a.recovery = r.recovery
    BY <2>1, <2>2, UpdatedIs
  <2>4. /\ a \in DidStates /\ a # NoState /\ r \in DidStates /\ r # NoState
        /\ a.recovery = Undefined => a.update = Undefined
        /\ i \in DOMAIN ledger
    BY <2>1, <2>3 DEF Reached, Get
  <2>5. CASE ledger[i].type = "create"
    BY <2>4, <2>5 DEF Apply, ApplyCreate, a
  <2>6. CASE ledger[i].type \in {"recover", "deactivate"}
    <3>1. Apply(r, i) = r
      BY <2>1, <2>6, NoRecoveryLeft
    <3>2. Apply(a, i) = a
      BY <2>3, <2>4, <2>6, <3>1, RecoveryDecides
    <3> QED BY <3>2 DEF a
  <2>7. CASE ledger[i].type = "update"
    <3>1. CASE r.recovery = Undefined
      <4>1. ledger[i].reveal # a.update
        BY <2>3, <2>4, <2>7, <3>1, OperationsAreTyped
      <4>2. ~Applied(Apply(a, i), a, i)
        BY <2>7, <4>1 DEF Applied
      <4> QED BY <2>4, <4>2, ApplyEffect DEF a
    <3>2. CASE r.recovery # Undefined
      <4>1. UpdateTurn(T)[a] = a
        BY <2>1, <2>2, <3>2, UpdatedIs
      <4>2. Apply(a, i) = a
        BY <2>3, <2>7, <4>1, NoUpdateLeft
      <4> QED BY <4>2 DEF a
    <3> QED BY <3>1, <3>2
  <2>8. ledger[i].type \in {"create", "update", "recover", "deactivate"}
    BY <2>4, OperationsAreTyped
  <2> QED BY <2>5, <2>6, <2>7, <2>8 DEF a
<1> QED BY <1>1, <1>2

-----------------------------------------------------------------------------
(* The theorems                                                            *)

LEMMA AlwaysTyped == Spec => []Typed
<1>1. Init => Typed
  BY DEF Init, Typed
<1>2. Typed /\ [Next]_vars => Typed'
  <2> SUFFICES ASSUME Typed, [Next]_vars PROVE Typed'
    OBVIOUS
  <2>1. ASSUME NEW o \in Kinds, Anchor(o) PROVE Typed'
    BY <2>1 DEF Typed, Anchor
  <2>2. ASSUME NEW i \in DOMAIN ledger, Store(i) PROVE Typed'
    BY <2>2 DEF Typed, Store
  <2>3. ASSUME NEW i \in DOMAIN ledger, Revert(i - 1) PROVE Typed'
    <3>1. i \in 1 .. Len(ledger)
      BY DEF Typed
    <3>2. i - 1 \in 0 .. Len(ledger) /\ Len(stored) = Len(ledger)
      BY <3>1 DEF Typed
    <3> QED BY <2>3, <3>2 DEF Typed, Revert, Kept
  <2>4. CASE UNCHANGED vars
    BY <2>4 DEF Typed, vars
  <2> QED BY <2>1, <2>2, <2>3, <2>4 DEF Next
<1> QED BY <1>1, <1>2, PTL DEF Spec

\* No operation that is stored could still be applied to the state Resolver.resolve answers:
\* the loops over the commitments do not stop early (core/src/Resolver.ts).
THEOREM AlwaysAppliedAll == Spec => []NothingLeftToApply
<1>1. Typed => NothingLeftToApply
  BY ResolvedIsAnswer, NothingLeft DEF NothingLeftToApply
<1> QED BY <1>1, AlwaysTyped, PTL

-----------------------------------------------------------------------------
(* Histories only grow                                                     *)

LEMMA PrefixOfItself ==
  ASSUME NEW s \in Seq(Nat)
  PROVE  IsPrefix(s, s)
BY DEF IsPrefix

LEMMA PrefixOfNothing ==
  ASSUME NEW s \in Seq(Nat)
  PROVE  IsPrefix(<< >>, s)
<1>1. Len(s) \in Nat /\ SubSeq(s, 1, 0) = << >>
  OBVIOUS
<1> QED BY <1>1 DEF IsPrefix

LEMMA PrefixOfAppend ==
  ASSUME NEW s \in Seq(Nat), NEW t \in Seq(Nat), NEW i \in Nat, IsPrefix(s, t)
  PROVE  IsPrefix(s, Append(t, i)) /\ Append(t, i) # s
<1>1. Len(s) <= Len(t) /\ SubSeq(s, 1, Len(s)) = SubSeq(t, 1, Len(s))
  BY DEF IsPrefix
<1>2. /\ Append(t, i) \in Seq(Nat) /\ Len(Append(t, i)) = Len(t) + 1
      /\ Len(s) \in Nat /\ Len(t) \in Nat
  OBVIOUS
<1>3. SubSeq(Append(t, i), 1, Len(s)) = SubSeq(t, 1, Len(s))
  <2>1. \A j \in 1 .. Len(t) : Append(t, i)[j] = t[j]
    OBVIOUS
  <2> QED BY <1>1, <1>2, <2>1
<1> QED BY <1>1, <1>2, <1>3 DEF IsPrefix

\* A run extends the history of the state it starts from, or stays there.
RecoveriesExtend ==
  \A s \in DidStates :
    RecoveriesOf(Get)[s] \in {t \in DidStates : /\ IsPrefix(s.chain, t.chain)
                                                /\ t.chain = s.chain => t = s}
UpdatesExtend ==
  \A s \in DidStates :
    UpdatesOf(Get)[s] \in {t \in DidStates : /\ IsPrefix(s.updates, t.updates)
                                             /\ t.chain = s.chain}

LEMMA RunsExtend == Typed => RecoveriesExtend /\ UpdatesExtend
<1> SUFFICES ASSUME Typed PROVE RecoveriesExtend /\ UpdatesExtend
  OBVIOUS
<1>1. ASSUME NEW s \in DidStates
      PROVE  RecoveriesOf(Get)[s] \in {t \in DidStates : /\ IsPrefix(s.chain, t.chain)
                                                         /\ t.chain = s.chain => t = s}
  <2> DEFINE P == {t \in DidStates : IsPrefix(s.chain, t.chain) /\ (t.chain = s.chain => t = s)}
  <2>1. s.chain \in Seq(Nat)
    BY DEF DidStates
  <2>2. s \in P /\ P \subseteq DidStates
    BY <2>1, PrefixOfItself
  <2>3. ASSUME NEW t \in P, RecoveryTurn(Get)[t] # t PROVE RecoveryTurn(Get)[t] \in P
    <3>1. PICK i \in Get : /\ RecoveryTurn(Get)[t] = Apply(t, i) /\ Applied(Apply(t, i), t, i)
                           /\ ledger[i].type \in {"recover", "deactivate"}
      BY <2>2, <2>3, RecoveryTurnApplies
    <3>2. Apply(t, i) \in DidStates /\ Apply(t, i).chain = Append(t.chain, i) /\ i \in Nat
      BY <3>1, OperationsAreTyped DEF Applied, Get
    <3>3. t.chain \in Seq(Nat) /\ IsPrefix(s.chain, t.chain)
      BY DEF DidStates
    <3> QED BY <2>1, <3>1, <3>2, <3>3, PrefixOfAppend
  <2>4. \A t \in P : RecoveryTurn(Get)[t] \in P
    BY <2>3
  <2> HIDE DEF P
  <2>5. RecoveriesOf(Get)[s] \in P
    BY <2>2, <2>4, RecoveriesKeep
  <2> QED BY <2>5 DEF P
<1>2. ASSUME NEW s \in DidStates
      PROVE  UpdatesOf(Get)[s] \in {t \in DidStates : /\ IsPrefix(s.updates, t.updates)
                                                      /\ t.chain = s.chain}
  <2> DEFINE P == {t \in DidStates : IsPrefix(s.updates, t.updates) /\ t.chain = s.chain}
  <2>1. s.updates \in Seq(Nat)
    BY DEF DidStates
  <2>2. s \in P /\ P \subseteq DidStates
    BY <2>1, PrefixOfItself
  <2>3. ASSUME NEW t \in P, UpdateTurn(Get)[t] # t PROVE UpdateTurn(Get)[t] \in P
    <3>1. PICK i \in Get : /\ UpdateTurn(Get)[t] = Apply(t, i) /\ Applied(Apply(t, i), t, i)
                           /\ ledger[i].type = "update"
      BY <2>2, <2>3, UpdateTurnApplies
    <3>2. /\ Apply(t, i) \in DidStates /\ Apply(t, i).updates = Append(t.updates, i) /\ i \in Nat
          /\ Apply(t, i).chain = t.chain
      BY <3>1, OperationsAreTyped DEF Applied, Get
    <3>3. t.updates \in Seq(Nat) /\ IsPrefix(s.updates, t.updates)
      BY DEF DidStates
    <3> QED BY <2>1, <3>1, <3>2, <3>3, PrefixOfAppend
  <2>4. \A t \in P : UpdateTurn(Get)[t] \in P
    BY <2>3
  <2> HIDE DEF P
  <2>5. UpdatesOf(Get)[s] \in P
    BY <2>2, <2>4, UpdatesKeep
  <2> QED BY <2>5 DEF P
<1> QED BY <1>1, <1>2 DEF RecoveriesExtend, UpdatesExtend

\* What the proof needs of the state after a step, too.
SameTurn ==
  \A T \in SUBSET DOMAIN ledger, k \in DOMAIN ledger, s \in DidStates :
    (\A i \in T : i < k) /\ ApplyFirstValid(T, s) # s =>
       ApplyFirstValid(T \cup {k}, s) = ApplyFirstValid(T, s)
Runs ==
  /\ RecoveryTurn(Get) \in [DidStates -> DidStates] /\ UpdateTurn(Get) \in [DidStates -> DidStates]
  /\ IsEnd(RecoveriesOf(Get), DidStates, RecoveryTurn(Get))
  /\ IsEnd(UpdatesOf(Get), DidStates, UpdateTurn(Get))
  /\ Resolved = AnswerOf(Get) /\ Resolved \in DidStates

LEMMA AnswerIsState ==
  ASSUME Typed, NEW T, T \subseteq Get
  PROVE  AnswerOf(T) \in DidStates
<1>1. CASE CreatedOf(T) = NoState
  BY <1>1, NoStateIsState DEF AnswerOf
<1>2. CASE CreatedOf(T) # NoState
  <2>1. RecoveredOf(T) \in DidStates
    BY <1>2, RecoveredIs DEF Reached
  <2> QED BY <1>2, <2>1, UpdatesEnd DEF AnswerOf
<1> QED BY <1>1, <1>2

LEMMA RunsAre == Typed => SameTurn /\ Runs
<1> SUFFICES ASSUME Typed PROVE SameTurn /\ Runs
  OBVIOUS
<1>1. SameTurn
  BY TurnWithOneMore DEF SameTurn
<1>2. Runs
  BY LoopsEnd, LoopsAreRuns, ResolvedIsAnswer, AnswerIsState DEF Runs
<1> QED BY <1>1, <1>2

\* Operation k is stored, later than all that were stored.
StoresLater(k) ==
  /\ k \in DOMAIN ledger /\ ledger' = ledger /\ Get' = Get \cup {k}
  /\ \A j \in Get : j < k /\ stored'[j] = stored[j]

LEMMA SameApply ==
  ASSUME NEW k, StoresLater(k), NEW i \in Get
  PROVE  \A s : Apply(s, i)' = Apply(s, i)
<1>1. ledger' = ledger /\ stored'[i] = stored[i]
  BY DEF StoresLater
<1>2. \A s : WithDelta(i, s)' = WithDelta(i, s)
  BY <1>1 DEF WithDelta
<1>3. \A s : ApplyCreate(i, s)' = ApplyCreate(i, s)
  BY <1>1, <1>2 DEF ApplyCreate
<1>4. \A s : ApplyRecover(i, s)' = ApplyRecover(i, s)
  BY <1>1, <1>2 DEF ApplyRecover
<1>5. \A s : ApplyDeactivate(i, s)' = ApplyDeactivate(i, s)
  BY <1>1 DEF ApplyDeactivate
<1>6. \A s : ApplyUpdate(i, s)' = ApplyUpdate(i, s)
  BY <1>1 DEF ApplyUpdate
<1> QED BY <1>1, <1>3, <1>4, <1>5, <1>6 DEF Apply

LEMMA SameFirstValid ==
  ASSUME Typed, NEW k, StoresLater(k), NEW T, T \subseteq Get
  PROVE  \A s : ApplyFirstValid(T, s)' = ApplyFirstValid(T, s)
<1>1. \A i \in T : \A s : Apply(s, i)' = Apply(s, i)
  BY SameApply
<1> SUFFICES ASSUME NEW s PROVE ApplyFirstValid(T, s)' = ApplyFirstValid(T, s)
  OBVIOUS
<1>2. ApplyFirstValid(T, s) = IF Valid(T, s) = {} THEN s ELSE Apply(s, Earliest(Valid(T, s)))
  BY DEF ApplyFirstValid, Valid
<1>3. ApplyFirstValid(T, s)' = IF Valid(T, s)' = {} THEN s ELSE Apply(s, Earliest(Valid(T, s)))'
  BY DEF ApplyFirstValid, Valid
<1>4. Valid(T, s)' = Valid(T, s)
  BY <1>1 DEF Valid
<1>5. PICK e : e = Earliest(Valid(T, s))
  OBVIOUS
<1>6. Valid(T, s) # {} => e \in T
  <2>1. Valid(T, s) \subseteq T /\ T \subseteq Nat
    BY OperationsAreTyped DEF Valid, Get
  <2> QED BY <1>5, <2>1, EarliestIs
<1>7. Apply(s, Earliest(Valid(T, s)))' = Apply(s, e)'
  BY <1>4, <1>5
<1> QED BY <1>1, <1>2, <1>3, <1>4, <1>5, <1>6, <1>7

LEMMA FirstValidStays ==
  ASSUME Typed, Typed', NEW k, StoresLater(k), NEW T, T \subseteq Get, NEW s \in DidStates,
         ApplyFirstValid(T, s) # s, NEW Q, Q \in {T, T \cup {k}}
  PROVE  ApplyFirstValid(Q, s)' = ApplyFirstValid(T, s)
<1>1. ApplyFirstValid(T, s)' = ApplyFirstValid(T, s)
  BY SameFirstValid
<1>2. SameTurn'
  BY RunsAre, PTL
<1>3. /\ T \in SUBSET DOMAIN ledger /\ k \in DOMAIN ledger /\ \A i \in T : i < k
      /\ ledger' = ledger
  BY DEF StoresLater, Get
<1>4. ApplyFirstValid(T \cup {k}, s)' = ApplyFirstValid(T, s)'
  BY <1>1, <1>2, <1>3 DEF SameTurn
<1> QED BY <1>1, <1>4

LEMMA RecoveryTurnStays ==
  ASSUME Typed, Typed', NEW k, StoresLater(k), NEW s \in DidStates, RecoveryTurn(Get)[s] # s
  PROVE  RecoveryTurn(Get)'[s] = RecoveryTurn(Get)[s]
<1>1. PICK T : T = Revealing(Get \cap RecoverAndDeactivate, s.recovery)
  OBVIOUS
<1>2. PICK Q : Q = Revealing(Get \cap RecoverAndDeactivate, s.recovery)'
  OBVIOUS
<1>3. T \subseteq Get /\ Q \in {T, T \cup {k}}
  BY <1>1, <1>2 DEF Revealing, RecoverAndDeactivate, OfType, StoresLater
<1>4. RecoveryTurn(Get)[s] = ApplyFirstValid(T, s)
  BY <1>1 DEF RecoveryTurn
<1>5. RecoveryTurn(Get)'[s] = ApplyFirstValid(Q, s)'
  BY <1>2 DEF RecoveryTurn
<1> QED BY <1>3, <1>4, <1>5, FirstValidStays

LEMMA UpdateTurnStays ==
  ASSUME Typed, Typed', NEW k, StoresLater(k), NEW s \in DidStates, UpdateTurn(Get)[s] # s
  PROVE  UpdateTurn(Get)'[s] = UpdateTurn(Get)[s]
<1>1. PICK T : T = Revealing(Get \cap OfType("update"), s.update)
  OBVIOUS
<1>2. PICK Q : Q = Revealing(Get \cap OfType("update"), s.update)'
  OBVIOUS
<1>3. T \subseteq Get /\ Q \in {T, T \cup {k}}
  BY <1>1, <1>2 DEF Revealing, OfType, StoresLater
<1>4. UpdateTurn(Get)[s] = ApplyFirstValid(T, s)
  BY <1>1 DEF UpdateTurn
<1>5. UpdateTurn(Get)'[s] = ApplyFirstValid(Q, s)'
  BY <1>2 DEF UpdateTurn
<1> QED BY <1>3, <1>4, <1>5, FirstValidStays

LEMMA CreatedStays ==
  ASSUME Typed, Typed', NEW k, StoresLater(k), CreatedOf(Get) # NoState
  PROVE  CreatedOf(Get)' = CreatedOf(Get)
<1>1. PICK T : T = Get \cap OfType("create")
  OBVIOUS
<1>2. PICK Q : Q = (Get \cap OfType("create"))'
  OBVIOUS
<1>3. T \subseteq Get /\ Q \in {T, T \cup {k}}
  BY <1>1, <1>2 DEF OfType, StoresLater
<1>4. CreatedOf(Get) = ApplyFirstValid(T, NoState)
  BY <1>1 DEF CreatedOf
<1>5. CreatedOf(Get)' = ApplyFirstValid(Q, NoState)'
  BY <1>2 DEF CreatedOf
<1> QED BY <1>3, <1>4, <1>5, NoStateIsState, FirstValidStays

\* So each loop takes the steps it took, and perhaps more.
LEMMA LoopsContinue ==
  ASSUME Typed, Typed', NEW k, StoresLater(k)
  PROVE  /\ \A s \in DidStates :
              RecoveriesOf(Get)'[s] = RecoveriesOf(Get)'[RecoveriesOf(Get)[s]]
         /\ \A s \in DidStates : UpdatesOf(Get)'[s] = UpdatesOf(Get)'[UpdatesOf(Get)[s]]
<1>1. Runs /\ Runs'
  BY RunsAre, PTL
<1>2. PICK r : r = RecoveryTurn(Get)'
  OBVIOUS
<1>3. PICK u : u = UpdateTurn(Get)'
  OBVIOUS
<1>4. PICK f : f = RecoveriesOf(Get)'
  OBVIOUS
<1>5. PICK g : g = UpdatesOf(Get)'
  OBVIOUS
<1>6. /\ r \in [DidStates -> DidStates] /\ u \in [DidStates -> DidStates]
      /\ IsEnd(f, DidStates, r) /\ IsEnd(g, DidStates, u)
  BY <1>1, <1>2, <1>3, <1>4, <1>5 DEF Runs
<1>7. \A s \in DidStates : f[s] = f[RecoveriesOf(Get)[s]]
  <2>1. \A s \in DidStates : RecoveryTurn(Get)[s] # s => r[s] = RecoveryTurn(Get)[s]
    BY <1>2, RecoveryTurnStays
  <2>2. /\ RecoveryTurn(Get) \in [DidStates -> DidStates]
        /\ RecoveriesLeft \in [DidStates -> Nat]
        /\ \A s \in DidStates : RecoveryTurn(Get)[s] # s =>
             RecoveriesLeft[RecoveryTurn(Get)[s]] < RecoveriesLeft[s]
    BY LoopsEnd
  <2>3. IsEnd(RecoveriesOf(Get), DidStates, RecoveryTurn(Get))
    BY LoopsAreRuns
  <2> QED BY <1>6, <2>1, <2>2, <2>3, EndContinues
<1>8. \A s \in DidStates : g[s] = g[UpdatesOf(Get)[s]]
  <2>1. \A s \in DidStates : UpdateTurn(Get)[s] # s => u[s] = UpdateTurn(Get)[s]
    BY <1>3, UpdateTurnStays
  <2>2. /\ UpdateTurn(Get) \in [DidStates -> DidStates]
        /\ UpdatesLeft \in [DidStates -> Nat]
        /\ \A s \in DidStates : UpdateTurn(Get)[s] # s =>
             UpdatesLeft[UpdateTurn(Get)[s]] < UpdatesLeft[s]
    BY LoopsEnd
  <2>3. IsEnd(UpdatesOf(Get), DidStates, UpdateTurn(Get))
    BY LoopsAreRuns
  <2> QED BY <1>6, <2>1, <2>2, <2>3, EndContinues
<1> QED BY <1>4, <1>5, <1>7, <1>8

HistoryGrows ==
  /\ IsPrefix(Resolved.chain, Resolved'.chain)
  /\ Resolved.chain = Resolved'.chain => IsPrefix(Resolved.updates, Resolved'.updates)

LEMMA LaterOperationExtends ==
  ASSUME Typed, Typed', NEW k, StoresLater(k)
  PROVE  HistoryGrows
<1>1. /\ Resolved = AnswerOf(Get) /\ Resolved' = AnswerOf(Get)'
      /\ Resolved \in DidStates /\ Resolved' \in DidStates
  <2>1. Runs /\ Runs'
    BY RunsAre, PTL
  <2> QED BY <2>1 DEF Runs
<1>2. CASE CreatedOf(Get) = NoState
  <2>1. Resolved.chain = << >> /\ Resolved.updates = << >>
    BY <1>1, <1>2 DEF AnswerOf, NoState
  <2>2. Resolved'.chain \in Seq(Nat) /\ Resolved'.updates \in Seq(Nat)
    BY <1>1 DEF DidStates
  <2> QED BY <2>1, <2>2, PrefixOfNothing DEF HistoryGrows
<1>3. CASE CreatedOf(Get) # NoState
  <2>1. PICK c : c = CreatedOf(Get)
    OBVIOUS
  <2>2. CreatedOf(Get)' = c /\ c # NoState /\ c \in DidStates
    BY <1>3, <2>1, CreatedStays, CreatedIs
  <2>3. PICK r : r = RecoveredOf(Get)
    OBVIOUS
  <2>4. r = RecoveriesOf(Get)[c] /\ r \in DidStates
    BY <1>3, <2>1, <2>3, RecoveredIs DEF RecoveredOf, Reached
  <2>5. PICK q : q = RecoveredOf(Get)'
    OBVIOUS
  <2>6. q = RecoveriesOf(Get)'[r]
    <3>1. q = RecoveriesOf(Get)'[c]
      BY <2>2, <2>5 DEF RecoveredOf
    <3> QED BY <2>2, <2>4, <3>1, LoopsContinue
  <2>7. RecoveriesExtend' /\ UpdatesExtend /\ UpdatesExtend'
    BY RunsExtend, PTL
  <2>8. q \in DidStates /\ IsPrefix(r.chain, q.chain) /\ (q.chain = r.chain => q = r)
    BY <2>4, <2>6, <2>7 DEF RecoveriesExtend
  <2>9. Resolved = IF r.recovery = Undefined THEN r ELSE UpdatesOf(Get)[r]
    BY <1>1, <1>3, <2>3 DEF AnswerOf
  <2>10. Resolved' = IF q.recovery = Undefined THEN q ELSE UpdatesOf(Get)'[q]
    BY <1>1, <2>2, <2>5 DEF AnswerOf
  <2>11. Resolved.chain = r.chain /\ Resolved'.chain = q.chain
    BY <2>4, <2>7, <2>8, <2>9, <2>10 DEF UpdatesExtend
  <2>12. ASSUME q = r PROVE IsPrefix(Resolved.updates, Resolved'.updates)
    <3>1. CASE r.recovery = Undefined
      <4>1. Resolved = r /\ Resolved' = r /\ r.updates \in Seq(Nat)
        BY <2>4, <2>9, <2>10, <2>12, <3>1 DEF DidStates
      <4> QED BY <4>1, PrefixOfItself
    <3>2. CASE r.recovery # Undefined
      <4>1. Resolved = UpdatesOf(Get)[r] /\ Resolved' = UpdatesOf(Get)'[r]
        BY <2>9, <2>10, <2>12, <3>2
      <4>2. Resolved' = UpdatesOf(Get)'[Resolved]
        BY <2>4, <4>1, LoopsContinue
      <4> QED BY <1>1, <2>7, <4>2 DEF UpdatesExtend
    <3> QED BY <3>1, <3>2
  <2> QED BY <2>8, <2>11, <2>12 DEF HistoryGrows
<1> QED BY <1>2, <1>3

\* An operation anchored later than all that are stored never rewrites what Resolver.resolve
\* answered: what was recovered stays, and the updates too unless it recovers or deactivates
\* (applyFirstValidOperation takes the earliest, and a commitment is spent once).
THEOREM AlwaysFinal == Spec => HistoryIsFinal
<1>1. Typed /\ Typed' /\ [Next]_vars => [OnlyExtends]_vars
  <2> SUFFICES ASSUME Typed, Typed', Next PROVE OnlyExtends
    OBVIOUS
  <2> SUFFICES ASSUME NEW i \in DOMAIN ledger, ledger' = ledger,
                      stored[i] = "none", stored'[i] # "none", \A j \in Get : j < i
               PROVE  HistoryGrows
    BY DEF OnlyExtends, HistoryGrows
  <2>1. ASSUME NEW o \in Kinds, Anchor(o) PROVE FALSE
    <3>1. ledger' = Append(ledger, o) /\ ledger \in Seq(Kinds)
      BY <2>1 DEF Anchor, Typed
    <3>2. Len(ledger') = Len(ledger) + 1 /\ Len(ledger) \in Nat
      BY <3>1
    <3> QED BY <3>2
  <2>2. ASSUME NEW j \in DOMAIN ledger, Revert(j - 1) PROVE FALSE
    <3>1. /\ ledger' = SubSeq(ledger, 1, j - 1) /\ ledger \in Seq(Kinds)
          /\ j \in 1 .. Len(ledger) /\ Len(ledger) \in Nat
      BY <2>2 DEF Revert, Typed
    <3>2. Len(ledger') = j - 1
      BY <3>1
    <3> QED BY <3>1, <3>2
  <2>3. ASSUME NEW j \in DOMAIN ledger, Store(j) PROVE StoresLater(i)
    <3>1. PICK part \in {"core", "whole"} : stored' = [stored EXCEPT ![j] = part]
      BY <2>3 DEF Store
    <3>2. DOMAIN stored = DOMAIN ledger
      BY DEF Typed
    <3>3. j = i /\ stored'[i] = part /\ \A h \in DOMAIN ledger : h # i => stored'[h] = stored[h]
      BY <3>1, <3>2
    <3>4. i \notin Get /\ Get \subseteq DOMAIN ledger
      BY DEF Get
    <3>5. Get' = Get \cup {i}
      BY <3>1, <3>3 DEF Get
    <3> QED BY <3>3, <3>4, <3>5 DEF StoresLater
  <2> QED BY <2>1, <2>2, <2>3, LaterOperationExtends DEF Next
<1> QED BY <1>1, AlwaysTyped, PTL DEF Spec, HistoryIsFinal

-----------------------------------------------------------------------------
(* One more operation, the latest so far                                   *)

Adds(T, n) == T \subseteq Get /\ n \in Get /\ \A i \in T : i < n

LEMMA AddsLast ==
  ASSUME Typed, NEW T, NEW n, Adds(T, n)
  PROVE  n \in DOMAIN ledger /\ n \in Nat \ {0} /\ n \notin T
<1>1. n \in DOMAIN ledger
  BY DEF Adds, Get
<1>2. n \in Nat \ {0}
  BY <1>1, OperationsAreTyped
<1> QED BY <1>1, <1>2 DEF Adds

\* An operation is of no concern to the loop over the other kinds.
LEMMA NotForRecoveries ==
  ASSUME Typed, NEW T, NEW n, Adds(T, n), ledger[n].type \notin {"recover", "deactivate"}
  PROVE  RecoveriesOf(T \cup {n}) = RecoveriesOf(T)
<1>1. (T \cup {n}) \cap RecoverAndDeactivate = T \cap RecoverAndDeactivate
  BY DEF RecoverAndDeactivate, OfType
<1> QED BY <1>1 DEF RecoveriesOf, RecoveryTurn

LEMMA NotForUpdates ==
  ASSUME Typed, NEW T, NEW n, Adds(T, n), ledger[n].type # "update"
  PROVE  UpdatesOf(T \cup {n}) = UpdatesOf(T)
<1>1. (T \cup {n}) \cap OfType("update") = T \cap OfType("update")
  BY DEF OfType
<1> QED BY <1>1 DEF UpdatesOf, UpdateTurn

LEMMA NotForCreation ==
  ASSUME Typed, NEW T, NEW n, Adds(T, n), ledger[n].type # "create"
  PROVE  CreatedOf(T \cup {n}) = CreatedOf(T)
<1>1. (T \cup {n}) \cap OfType("create") = T \cap OfType("create")
  BY DEF OfType
<1> QED BY <1>1 DEF CreatedOf

\* Where the loop without the operation ends, the next turn applies it, if it can be.
LEMMA NextTurn ==
  ASSUME Typed, NEW T, NEW n, Adds(T, n), NEW s \in DidStates, s.last # n,
         NEW R, R \subseteq T, ApplyFirstValid(R, s) = s,
         NEW Q, Q \in {R, R \cup {n}}, Q = R => Apply(s, n) = s
  PROVE  ApplyFirstValid(Q, s) = Apply(s, n)
<1>1. /\ R \subseteq DOMAIN ledger /\ n \in DOMAIN ledger /\ \A i \in R : i < n
  BY DEF Adds, Get
<1>2. CASE Apply(s, n) = s
  BY <1>1, <1>2, TurnWithOneMore
<1>3. CASE Apply(s, n) # s
  <2>1. Apply(s, n).last # s.last
    BY <1>1, <1>3, AppliedOnce
  <2> QED BY <1>1, <1>3, <2>1, TurnWithOneMore
<1> QED BY <1>2, <1>3

LEMMA NextRecovery ==
  ASSUME Typed, NEW T, NEW n, Adds(T, n), ledger[n].type \in {"recover", "deactivate"},
         NEW s \in Reached(T), RecoveryTurn(T)[s] = s
  PROVE  RecoveryTurn(T \cup {n})[s] = Apply(s, n)
<1> DEFINE R == Revealing(T \cap RecoverAndDeactivate, s.recovery)
           Q == Revealing((T \cup {n}) \cap RecoverAndDeactivate, s.recovery)
<1>1. s \in DidStates /\ s.last # n /\ n \in DOMAIN ledger /\ n \notin T
  BY AddsLast DEF Reached
<1>2. R \subseteq T /\ Q \in {R, R \cup {n}} /\ ApplyFirstValid(R, s) = s
  BY <1>1 DEF Revealing, RecoveryTurn
<1>3. Q = R => Apply(s, n) = s
  <2> SUFFICES ASSUME Apply(s, n) # s PROVE n \in Q /\ n \notin R
    OBVIOUS
  <2>1. ledger[n].reveal = s.recovery /\ ledger[n].reveal # Undefined
    BY <1>1, ApplyEffect, OperationsAreTyped DEF Applied
  <2> QED BY <1>1, <2>1 DEF Revealing, RecoverAndDeactivate, OfType, Adds
<1>4. RecoveryTurn(T \cup {n})[s] = ApplyFirstValid(Q, s)
  BY <1>1 DEF RecoveryTurn
<1> HIDE DEF R, Q
<1> QED BY <1>1, <1>2, <1>3, <1>4, NextTurn

LEMMA NextUpdate ==
  ASSUME Typed, NEW T, NEW n, Adds(T, n), ledger[n].type = "update",
         NEW s \in Reached(T), UpdateTurn(T)[s] = s
  PROVE  UpdateTurn(T \cup {n})[s] = Apply(s, n)
<1> DEFINE R == Revealing(T \cap OfType("update"), s.update)
           Q == Revealing((T \cup {n}) \cap OfType("update"), s.update)
<1>1. s \in DidStates /\ s.last # n /\ n \in DOMAIN ledger /\ n \notin T
  BY AddsLast DEF Reached
<1>2. R \subseteq T /\ Q \in {R, R \cup {n}} /\ ApplyFirstValid(R, s) = s
  BY <1>1 DEF Revealing, UpdateTurn
<1>3. Q = R => Apply(s, n) = s
  <2> SUFFICES ASSUME Apply(s, n) # s PROVE n \in Q /\ n \notin R
    OBVIOUS
  <2>1. ledger[n].reveal = s.update /\ ledger[n].reveal # Undefined
    BY <1>1, ApplyEffect, OperationsAreTyped DEF Applied
  <2> QED BY <1>1, <2>1 DEF Revealing, OfType, Adds
<1>4. UpdateTurn(T \cup {n})[s] = ApplyFirstValid(Q, s)
  BY <1>1 DEF UpdateTurn
<1> HIDE DEF R, Q
<1> QED BY <1>1, <1>2, <1>3, <1>4, NextTurn

\* Up to there the loop is the one without it.
LEMMA SameUpToThere ==
  ASSUME Typed, NEW T, NEW n, Adds(T, n), NEW s \in DidStates
  PROVE  /\ RecoveriesOf(T \cup {n})[s] = RecoveriesOf(T \cup {n})[RecoveriesOf(T)[s]]
         /\ UpdatesOf(T \cup {n})[s] = UpdatesOf(T \cup {n})[UpdatesOf(T)[s]]
<1>1. T \subseteq Get /\ T \cup {n} \subseteq Get /\ n \in DOMAIN ledger /\ \A i \in T : i < n
  BY DEF Adds, Get
<1>2. PICK more : more = RecoveryTurn(T \cup {n})
  OBVIOUS
<1>3. PICK more2 : more2 = UpdateTurn(T \cup {n})
  OBVIOUS
<1>4. PICK f : f = RecoveriesOf(T \cup {n})
  OBVIOUS
<1>5. PICK g : g = UpdatesOf(T \cup {n})
  OBVIOUS
<1>6. /\ more \in [DidStates -> DidStates] /\ more2 \in [DidStates -> DidStates]
      /\ IsEnd(f, DidStates, more) /\ IsEnd(g, DidStates, more2)
  BY <1>1, <1>2, <1>3, <1>4, <1>5, LoopsEnd, LoopsAreRuns
<1>7. ASSUME NEW t \in DidStates, RecoveryTurn(T)[t] # t PROVE more[t] = RecoveryTurn(T)[t]
  <2> DEFINE R == Revealing(T \cap RecoverAndDeactivate, t.recovery)
             Q == Revealing((T \cup {n}) \cap RecoverAndDeactivate, t.recovery)
  <2>1. R \subseteq T /\ Q \in {R, R \cup {n}}
    BY DEF Revealing
  <2>2. RecoveryTurn(T)[t] = ApplyFirstValid(R, t) /\ more[t] = ApplyFirstValid(Q, t)
    BY <1>2 DEF RecoveryTurn
  <2> HIDE DEF R, Q
  <2>3. R \subseteq DOMAIN ledger /\ \A i \in R : i < n
    BY <1>1, <2>1 DEF Get
  <2> QED BY <1>1, <1>7, <2>1, <2>2, <2>3, TurnWithOneMore
<1>8. ASSUME NEW t \in DidStates, UpdateTurn(T)[t] # t PROVE more2[t] = UpdateTurn(T)[t]
  <2> DEFINE R == Revealing(T \cap OfType("update"), t.update)
             Q == Revealing((T \cup {n}) \cap OfType("update"), t.update)
  <2>1. R \subseteq T /\ Q \in {R, R \cup {n}}
    BY DEF Revealing
  <2>2. UpdateTurn(T)[t] = ApplyFirstValid(R, t) /\ more2[t] = ApplyFirstValid(Q, t)
    BY <1>3 DEF UpdateTurn
  <2> HIDE DEF R, Q
  <2>3. R \subseteq DOMAIN ledger /\ \A i \in R : i < n
    BY <1>1, <2>1 DEF Get
  <2> QED BY <1>1, <1>8, <2>1, <2>2, <2>3, TurnWithOneMore
<1>9. f[s] = f[RecoveriesOf(T)[s]]
  <2>1. /\ RecoveryTurn(T) \in [DidStates -> DidStates]
        /\ RecoveriesLeft \in [DidStates -> Nat]
        /\ \A t \in DidStates : RecoveryTurn(T)[t] # t =>
             RecoveriesLeft[RecoveryTurn(T)[t]] < RecoveriesLeft[t]
    BY <1>1, LoopsEnd
  <2>2. IsEnd(RecoveriesOf(T), DidStates, RecoveryTurn(T))
    BY <1>1, LoopsAreRuns
  <2> QED BY <1>6, <1>7, <2>1, <2>2, EndContinues
<1>10. g[s] = g[UpdatesOf(T)[s]]
  <2>1. /\ UpdateTurn(T) \in [DidStates -> DidStates]
        /\ UpdatesLeft \in [DidStates -> Nat]
        /\ \A t \in DidStates : UpdateTurn(T)[t] # t =>
             UpdatesLeft[UpdateTurn(T)[t]] < UpdatesLeft[t]
    BY <1>1, LoopsEnd
  <2>2. IsEnd(UpdatesOf(T), DidStates, UpdateTurn(T))
    BY <1>1, LoopsAreRuns
  <2> QED BY <1>6, <1>8, <2>1, <2>2, EndContinues
<1> QED BY <1>4, <1>5, <1>9, <1>10

\* The loops over T end at t where they start there, those over recoveries unless t was
\* reached with an update.
Settled(T, t, type) ==
  /\ t \in DidStates /\ UpdatesOf(T)[t] = t
  /\ type # "update" => RecoveriesOf(T)[t] = t

\* What is committed to last is not revealed yet, so a state just reached is where a loop ends.
LEMMA NothingReveals ==
  ASSUME Typed, ClientsInOrder, NEW T, NEW n, Adds(T, n), NEW s \in DidStates, NEW t,
         Applied(t, s, n)
  PROVE  Settled(T \cup {n}, t, ledger[n].type)
<1> DEFINE R == Revealing((T \cup {n}) \cap RecoverAndDeactivate, t.recovery)
           U == Revealing((T \cup {n}) \cap OfType("update"), t.update)
<1>1. /\ n \in DOMAIN ledger /\ n \in Nat /\ T \cup {n} \subseteq Get /\ t \in DidStates
      /\ \A j \in T \cup {n} : j \in DOMAIN ledger /\ j \in Nat /\ ~(n < j)
  <2>1. T \cup {n} \subseteq Get /\ Get \subseteq DOMAIN ledger /\ t \in DidStates
    BY DEF Adds, Get, Applied
  <2>2. \A j \in DOMAIN ledger : j \in Nat
    BY OperationsAreTyped
  <2> QED BY <2>1, <2>2 DEF Adds
<1>2. ledger[n].type \in {"create", "update", "recover", "deactivate"}
  BY <1>1, OperationsAreTyped
<1>3. U = {}
  <2> SUFFICES ASSUME NEW j \in U PROVE FALSE
    OBVIOUS
  <2>1. /\ j \in T \cup {n} /\ ledger[j].type = "update" /\ ledger[j].reveal = t.update
        /\ t.update # Undefined
    BY DEF Revealing, OfType
  <2> HIDE DEF U
  <2>2. CASE ledger[n].type \in {"create", "recover"}
    <3>1. ledger[n].update = ledger[j].reveal
      BY <2>1, <2>2 DEF Applied
    <3> QED BY <1>1, <2>1, <2>2, <3>1 DEF ClientsInOrder
  <2>3. CASE ledger[n].type = "update"
    <3>1. ledger[n].next = ledger[j].reveal
      BY <2>1, <2>3 DEF Applied
    <3> QED BY <1>1, <2>1, <2>3, <3>1 DEF ClientsInOrder
  <2>4. CASE ledger[n].type = "deactivate"
    BY <2>1, <2>4 DEF Applied
  <2> QED BY <1>2, <2>2, <2>3, <2>4
<1>4. ASSUME ledger[n].type # "update" PROVE R = {}
  <2> SUFFICES ASSUME NEW j \in R PROVE FALSE
    OBVIOUS
  <2>1. /\ j \in T \cup {n} /\ ledger[j].type \in {"recover", "deactivate"}
        /\ ledger[j].reveal = t.recovery /\ t.recovery # Undefined
    BY DEF Revealing, RecoverAndDeactivate, OfType
  <2> HIDE DEF R
  <2>2. CASE ledger[n].type \in {"create", "recover"}
    <3>1. ledger[n].next = ledger[j].reveal
      BY <2>1, <2>2 DEF Applied
    <3> QED BY <1>1, <2>1, <2>2, <3>1 DEF ClientsInOrder
  <2>3. CASE ledger[n].type = "deactivate"
    BY <2>1, <2>3 DEF Applied
  <2> QED BY <1>2, <1>4, <2>2, <2>3
<1>5. UpdatesOf(T \cup {n})[t] = t
  <2>1. UpdateTurn(T \cup {n})[t] = ApplyFirstValid(U, t)
    BY <1>1 DEF UpdateTurn
  <2>2. UpdateTurn(T \cup {n})[t] = t
    BY <1>3, <2>1 DEF ApplyFirstValid
  <2> QED BY <1>1, <2>2, LoopsAreRuns DEF IsEnd
<1>6. ASSUME ledger[n].type # "update" PROVE RecoveriesOf(T \cup {n})[t] = t
  <2>1. RecoveryTurn(T \cup {n})[t] = ApplyFirstValid(R, t)
    BY <1>1 DEF RecoveryTurn
  <2>2. RecoveryTurn(T \cup {n})[t] = t
    BY <1>4, <1>6, <2>1 DEF ApplyFirstValid
  <2> QED BY <1>1, <2>2, LoopsAreRuns DEF IsEnd
<1> QED BY <1>1, <1>5, <1>6 DEF Settled

\* The loops with the operation apply it after all the others, if it can be.
LEMMA RecoveredLast ==
  ASSUME Typed, ClientsInOrder, NEW T, NEW n, Adds(T, n),
         ledger[n].type \in {"recover", "deactivate"}, CreatedOf(T) # NoState
  PROVE  RecoveredOf(T \cup {n}) = Apply(RecoveredOf(T), n)
<1>1. PICK r : r = RecoveredOf(T)
  OBVIOUS
<1>2. PICK c : c = CreatedOf(T)
  OBVIOUS
<1>3. PICK f : f = RecoveriesOf(T \cup {n})
  OBVIOUS
<1>4. T \subseteq Get /\ T \cup {n} \subseteq Get /\ n \in DOMAIN ledger
  BY DEF Adds, Get
<1>5. /\ c \in DidStates /\ r = RecoveriesOf(T)[c] /\ CreatedOf(T \cup {n}) = c
      /\ RecoveredOf(T \cup {n}) = f[c]
  BY <1>1, <1>2, <1>3, <1>4, CreatedIs, NotForCreation DEF RecoveredOf
<1>6. r \in Reached(T) /\ r \in DidStates /\ RecoveryTurn(T)[r] = r
  BY <1>1, <1>4, RecoveredIs DEF Reached
<1>7. f[c] = f[r]
  BY <1>3, <1>5, SameUpToThere
<1>8. RecoveryTurn(T \cup {n})[r] = Apply(r, n)
  BY <1>6, NextRecovery
<1>9. f[r] = IF Apply(r, n) = r THEN r ELSE f[Apply(r, n)]
  BY <1>3, <1>4, <1>6, <1>8, LoopsAreRuns DEF IsEnd
<1>10. ASSUME Apply(r, n) # r PROVE f[Apply(r, n)] = Apply(r, n)
  <2>1. Applied(Apply(r, n), r, n)
    BY <1>4, <1>6, <1>10, ApplyEffect
  <2>2. ledger[n].type # "update"
    OBVIOUS
  <2>3. PICK t : t = Apply(r, n)
    OBVIOUS
  <2>4. RecoveriesOf(T \cup {n})[t] = t
    <3>1. Applied(t, r, n) /\ r \in DidStates
      BY <1>6, <2>1, <2>3
    <3>2. Settled(T \cup {n}, t, ledger[n].type)
      BY <1>6, <3>1, NothingReveals
    <3> QED BY <2>2, <3>2 DEF Settled
  <2> QED BY <1>3, <2>3, <2>4
<1> QED BY <1>1, <1>5, <1>7, <1>9, <1>10

LEMMA UpdatedLast ==
  ASSUME Typed, ClientsInOrder, NEW T, NEW n, Adds(T, n), ledger[n].type = "update",
         NEW r \in Reached(T)
  PROVE  UpdatesOf(T \cup {n})[r] = Apply(UpdatesOf(T)[r], n)
<1>1. PICK a : a = UpdatesOf(T)[r]
  OBVIOUS
<1>2. PICK f : f = UpdatesOf(T \cup {n})
  OBVIOUS
<1>3. T \subseteq Get /\ T \cup {n} \subseteq Get /\ n \in DOMAIN ledger /\ r \in DidStates
  BY DEF Adds, Get, Reached
<1>4. a \in Reached(T) /\ a \in DidStates /\ UpdateTurn(T)[a] = a
  BY <1>1, <1>3, UpdatedIs DEF Reached
<1>5. f[r] = f[a]
  BY <1>1, <1>2, <1>3, SameUpToThere
<1>6. UpdateTurn(T \cup {n})[a] = Apply(a, n)
  BY <1>4, NextUpdate
<1>7. f[a] = IF Apply(a, n) = a THEN a ELSE f[Apply(a, n)]
  BY <1>2, <1>3, <1>4, <1>6, LoopsAreRuns DEF IsEnd
<1>8. ASSUME Apply(a, n) # a PROVE f[Apply(a, n)] = Apply(a, n)
  <2>1. Applied(Apply(a, n), a, n)
    BY <1>3, <1>4, <1>8, ApplyEffect
  <2>2. Settled(T \cup {n}, Apply(a, n), ledger[n].type)
    BY <1>4, <2>1, NothingReveals
  <2> QED BY <1>2, <2>2 DEF Settled
<1> QED BY <1>1, <1>2, <1>5, <1>7, <1>8

LEMMA CreatedLast ==
  ASSUME Typed, NEW T, NEW n, Adds(T, n), ledger[n].type = "create"
  PROVE  CreatedOf(T \cup {n}) = IF CreatedOf(T) # NoState THEN CreatedOf(T) ELSE Apply(NoState, n)
<1> DEFINE C == T \cap OfType("create")
           D == (T \cup {n}) \cap OfType("create")
<1>1. /\ C \subseteq T /\ D = C \cup {n} /\ NoState.last # n
      /\ C \subseteq DOMAIN ledger /\ n \in DOMAIN ledger /\ \A i \in C : i < n
  BY AddsLast, NoStateIsState DEF OfType, Adds, Get
<1>2. CreatedOf(T) = ApplyFirstValid(C, NoState) /\ CreatedOf(T \cup {n}) = ApplyFirstValid(D, NoState)
  BY DEF CreatedOf
<1> HIDE DEF C, D
<1>3. CASE CreatedOf(T) # NoState
  BY <1>1, <1>2, <1>3, NoStateIsState, TurnWithOneMore
<1>4. CASE CreatedOf(T) = NoState
  <2>1. n \notin C
    BY AddsLast DEF C
  <2>2. /\ D \in {C, C \cup {n}} /\ D # C /\ ApplyFirstValid(C, NoState) = NoState
        /\ NoState \in DidStates
    BY <1>1, <1>2, <1>4, <2>1, NoStateIsState
  <2>3. ApplyFirstValid(D, NoState) = Apply(NoState, n)
    BY <1>1, <2>2, NextTurn
  <2> QED BY <1>2, <1>4, <2>3
<1> QED BY <1>3, <1>4

-----------------------------------------------------------------------------
(* The answer is the replay                                                *)

\* A deactivated DID, for good: nothing applies to it.
Closes(s) == s # NoState /\ s.recovery = Undefined /\ s.update = Undefined

Agree(a, b) == a = b \/ (Closes(a) /\ Closes(b) /\ a.chain = b.chain)

LEMMA ClosedIsFinal ==
  ASSUME Typed, NEW n \in DOMAIN ledger, NEW s \in DidStates, Closes(s)
  PROVE  Apply(s, n) = s
<1>1. ~Applied(Apply(s, n), s, n)
  <2>1. ledger[n].type # "create" => ledger[n].reveal # Undefined
    BY OperationsAreTyped
  <2>2. ledger[n].type \in {"create", "update", "recover", "deactivate"}
    BY OperationsAreTyped
  <2>3. CASE ledger[n].type = "create"
    BY <2>3 DEF Applied, Closes
  <2>4. CASE ledger[n].type = "recover"
    BY <2>1, <2>4 DEF Applied, Closes
  <2>5. CASE ledger[n].type = "deactivate"
    BY <2>1, <2>5 DEF Applied, Closes
  <2>6. CASE ledger[n].type = "update"
    BY <2>1, <2>6 DEF Applied, Closes
  <2> QED BY <2>2, <2>3, <2>4, <2>5, <2>6
<1> QED BY <1>1, ApplyEffect

LEMMA NothingOnNoState ==
  ASSUME Typed, NEW n \in DOMAIN ledger, ledger[n].type # "create"
  PROVE  Apply(NoState, n) = NoState
BY OperationsAreTyped DEF Apply

\* What a recover or a deactivate makes of a state depends on its chain and commitment only,
\* but for what a deactivate leaves.
LEMMA RecoveryForgets ==
  ASSUME Typed, NEW n \in DOMAIN ledger, ledger[n].type \in {"recover", "deactivate"},
         NEW r \in DidStates, r # NoState, NEW a \in DidStates, a # NoState,
         a.recovery = r.recovery, a.chain = r.chain, Apply(r, n) # r
  PROVE  Agree(Apply(r, n), Apply(a, n))
<1>1. /\ ledger[n].signed /\ ledger[n].reveal = r.recovery
  BY RecoveryDecides
<1>2. CASE ledger[n].type = "recover"
  <2>1. Apply(r, n) = Apply(a, n)
    BY <1>1, <1>2 DEF Apply, ApplyRecover
  <2> QED BY <2>1 DEF Agree
<1>3. CASE ledger[n].type = "deactivate"
  <2>1. Apply(a, n) # a
    BY <1>1, RecoveryDecides
  <2>2. Applied(Apply(r, n), r, n) /\ Applied(Apply(a, n), a, n)
    BY <2>1, ApplyEffect
  <2>3. n # 0 /\ NoState.last = 0
    BY OperationsAreTyped, NoStateIsState
  <2> QED BY <1>3, <2>2, <2>3 DEF Agree, Closes, Applied
<1> QED BY <1>2, <1>3

LEMMA CreateAddedLast ==
  ASSUME Typed, ClientsInOrder, NEW T, NEW n, Adds(T, n), ledger[n].type = "create",
         NEW b \in DidStates, Agree(AnswerOf(T), b)
  PROVE  Agree(AnswerOf(T \cup {n}), Apply(b, n))
<1>1. T \subseteq Get /\ T \cup {n} \subseteq Get /\ n \in DOMAIN ledger
  BY DEF Adds, Get
<1>2. /\ RecoveriesOf(T \cup {n}) = RecoveriesOf(T) /\ UpdatesOf(T \cup {n}) = UpdatesOf(T)
      /\ CreatedOf(T \cup {n}) = IF CreatedOf(T) # NoState THEN CreatedOf(T) ELSE Apply(NoState, n)
  BY NotForRecoveries, NotForUpdates, CreatedLast
<1>3. CASE CreatedOf(T) # NoState
  <2>1. RecoveredOf(T \cup {n}) = RecoveredOf(T)
    BY <1>2, <1>3 DEF RecoveredOf
  <2>2. AnswerOf(T \cup {n}) = AnswerOf(T)
    BY <1>2, <1>3, <2>1 DEF AnswerOf
  <2>3. AnswerOf(T) # NoState
    <3>1. RecoveredOf(T) \in Reached(T) /\ RecoveredOf(T) # NoState
      BY <1>1, <1>3, RecoveredIs DEF Reached
    <3>2. UpdatesOf(T)[RecoveredOf(T)] # NoState
      BY <1>1, <3>1, UpdatedIs DEF Reached
    <3> QED BY <1>3, <3>1, <3>2 DEF AnswerOf
  <2>4. b # NoState
    BY <2>3 DEF Agree, Closes
  <2>5. Apply(b, n) = b
    BY <2>4 DEF Apply, ApplyCreate
  <2> QED BY <2>2, <2>5
<1>4. CASE CreatedOf(T) = NoState
  <2>1. b = NoState
    BY <1>4 DEF AnswerOf, Agree, Closes
  <2>2. PICK t : t = Apply(NoState, n)
    OBVIOUS
  <2>3. CASE t = NoState
    BY <1>2, <1>4, <2>1, <2>2, <2>3 DEF AnswerOf, Agree
  <2>4. CASE t # NoState
    <3>1. Applied(t, NoState, n)
      BY <1>1, <2>2, <2>4, NoStateIsState, ApplyEffect
    <3>2. Settled(T \cup {n}, t, ledger[n].type)
      BY <3>1, NoStateIsState, NothingReveals
    <3>3. RecoveredOf(T \cup {n}) = t
      BY <1>2, <1>4, <2>2, <3>2 DEF Settled, RecoveredOf
    <3>4. AnswerOf(T \cup {n}) = t
      BY <1>2, <1>4, <2>2, <2>4, <3>2, <3>3 DEF Settled, AnswerOf
    <3> QED BY <2>1, <2>2, <3>4 DEF Agree
  <2> QED BY <2>3, <2>4
<1> QED BY <1>3, <1>4

LEMMA RecoveryAddedLast ==
  ASSUME Typed, ClientsInOrder, NEW T, NEW n, Adds(T, n),
         ledger[n].type \in {"recover", "deactivate"},
         NEW b \in DidStates, Agree(AnswerOf(T), b)
  PROVE  Agree(AnswerOf(T \cup {n}), Apply(b, n))
<1>1. T \subseteq Get /\ T \cup {n} \subseteq Get /\ n \in DOMAIN ledger
  BY DEF Adds, Get
<1>2. UpdatesOf(T \cup {n}) = UpdatesOf(T) /\ CreatedOf(T \cup {n}) = CreatedOf(T)
  BY NotForUpdates, NotForCreation
<1>3. CASE CreatedOf(T) = NoState
  <2>1. b = NoState /\ AnswerOf(T \cup {n}) = NoState
    BY <1>2, <1>3 DEF AnswerOf, Agree, Closes
  <2>2. Apply(b, n) = NoState
    BY <1>1, <2>1, NothingOnNoState
  <2> QED BY <2>1, <2>2 DEF Agree
<1>4. CASE CreatedOf(T) # NoState
  <2>1. PICK r : r = RecoveredOf(T)
    OBVIOUS
  <2>2. PICK a : a = AnswerOf(T)
    OBVIOUS
  <2>3. r \in Reached(T) /\ r \in DidStates /\ r # NoState
    BY <1>1, <1>4, <2>1, RecoveredIs DEF Reached
  <2>4. a = IF r.recovery = Undefined THEN r ELSE UpdatesOf(T)[r]
    BY <1>4, <2>1, <2>2 DEF AnswerOf
  <2>5. a \in Reached(T) /\ a.recovery = r.recovery /\ a.chain = r.chain
    BY <1>1, <2>3, <2>4, UpdatedIs
  <2>6. a \in DidStates /\ a # NoState
    BY <2>5 DEF Reached
  <2>7. PICK t : t = Apply(r, n)
    OBVIOUS
  <2>8. RecoveredOf(T \cup {n}) = t
    BY <1>4, <2>1, <2>7, RecoveredLast
  <2>9. AnswerOf(T \cup {n}) = IF t.recovery = Undefined THEN t ELSE UpdatesOf(T)[t]
    BY <1>2, <1>4, <2>8 DEF AnswerOf
  <2>10. CASE t = r
    <3>1. AnswerOf(T \cup {n}) = a
      BY <2>4, <2>9, <2>10
    <3>2. Apply(b, n) = b
      <4>1. CASE b = a
        BY <1>1, <2>3, <2>5, <2>6, <2>7, <2>10, <4>1, RecoveryDecides
      <4>2. CASE Closes(b)
        BY <1>1, <4>2, ClosedIsFinal
      <4> QED BY <2>2, <4>1, <4>2 DEF Agree
    <3> QED BY <2>2, <3>1, <3>2
  <2>11. CASE t # r
    <3>1. Applied(t, r, n)
      BY <1>1, <2>3, <2>7, <2>11, ApplyEffect
    <3>2. Settled(T \cup {n}, t, ledger[n].type)
      BY <2>3, <3>1, NothingReveals
    <3>3. AnswerOf(T \cup {n}) = t
      BY <1>2, <2>9, <3>2 DEF Settled
    <3>4. r.recovery # Undefined
      BY <1>1, <3>1, OperationsAreTyped DEF Applied
    <3>5. b = a
      BY <2>2, <2>5, <3>4 DEF Agree, Closes
    <3>6. Agree(Apply(r, n), Apply(a, n))
      BY <1>1, <2>3, <2>5, <2>6, <2>7, <2>11, RecoveryForgets
    <3> QED BY <2>7, <3>3, <3>5, <3>6
  <2> QED BY <2>10, <2>11
<1> QED BY <1>3, <1>4

LEMMA UpdateAddedLast ==
  ASSUME Typed, ClientsInOrder, NEW T, NEW n, Adds(T, n), ledger[n].type = "update",
         NEW b \in DidStates, Agree(AnswerOf(T), b)
  PROVE  Agree(AnswerOf(T \cup {n}), Apply(b, n))
<1>1. T \subseteq Get /\ T \cup {n} \subseteq Get /\ n \in DOMAIN ledger
  BY DEF Adds, Get
<1>2. RecoveriesOf(T \cup {n}) = RecoveriesOf(T) /\ CreatedOf(T \cup {n}) = CreatedOf(T)
  BY NotForRecoveries, NotForCreation
<1>3. CASE CreatedOf(T) = NoState
  <2>1. b = NoState /\ AnswerOf(T \cup {n}) = NoState
    BY <1>2, <1>3 DEF AnswerOf, Agree, Closes
  <2>2. Apply(b, n) = NoState
    BY <1>1, <2>1, NothingOnNoState
  <2> QED BY <2>1, <2>2 DEF Agree
<1>4. CASE CreatedOf(T) # NoState
  <2>1. PICK r : r = RecoveredOf(T)
    OBVIOUS
  <2>2. RecoveredOf(T \cup {n}) = r
    BY <1>2, <2>1 DEF RecoveredOf
  <2>3. r \in Reached(T) /\ r \in DidStates /\ r # NoState
        /\ (r.recovery = Undefined => r.update = Undefined)
    BY <1>1, <1>4, <2>1, RecoveredIs DEF Reached
  <2>4. CASE r.recovery = Undefined
    <3>1. AnswerOf(T \cup {n}) = r /\ AnswerOf(T) = r
      BY <1>2, <1>4, <2>1, <2>2, <2>4 DEF AnswerOf
    <3>2. Closes(r)
      BY <2>3, <2>4 DEF Closes
    <3>3. Closes(b)
      BY <3>1, <3>2 DEF Agree
    <3>4. Apply(b, n) = b
      BY <1>1, <3>3, ClosedIsFinal
    <3> QED BY <3>1, <3>4
  <2>5. CASE r.recovery # Undefined
    <3>1. AnswerOf(T) = UpdatesOf(T)[r] /\ AnswerOf(T \cup {n}) = UpdatesOf(T \cup {n})[r]
      BY <1>2, <1>4, <2>1, <2>2, <2>5 DEF AnswerOf
    <3>2. UpdatesOf(T)[r].recovery # Undefined
      BY <1>1, <2>3, <2>5, UpdatedIs
    <3>3. b = UpdatesOf(T)[r]
      BY <3>1, <3>2 DEF Agree, Closes
    <3>4. UpdatesOf(T \cup {n})[r] = Apply(UpdatesOf(T)[r], n)
      BY <2>3, UpdatedLast
    <3> QED BY <3>1, <3>3, <3>4 DEF Agree
  <2> QED BY <2>4, <2>5
<1> QED BY <1>3, <1>4

LEMMA AddedLast ==
  ASSUME Typed, ClientsInOrder, NEW T, NEW n, Adds(T, n),
         NEW b \in DidStates, Agree(AnswerOf(T), b)
  PROVE  Agree(AnswerOf(T \cup {n}), Apply(b, n))
<1>1. ledger[n].type \in {"create", "update", "recover", "deactivate"}
  BY AddsLast, OperationsAreTyped
<1> QED BY <1>1, CreateAddedLast, RecoveryAddedLast, UpdateAddedLast

\* f replays the operations up to m, one by one.
Replays(f, m) ==
  /\ f \in [0 .. m -> DidStates] /\ f[0] = NoState
  /\ \A n \in 1 .. m : f[n] = Replay(f[n - 1], n)

LEMMA ReplayIsState ==
  ASSUME Typed, NEW n \in DOMAIN ledger, NEW s \in DidStates
  PROVE  Replay(s, n) \in DidStates
BY AppliedOnce DEF Replay

LEMMA ReplayExists ==
  ASSUME Typed
  PROVE  \E f : Replays(f, Len(ledger))
<1> DEFINE N == Len(ledger)
           bad == {m \in 0 .. N : ~\E f : Replays(f, m)}
           id == [m \in 0 .. N |-> m]
<1>1. N \in Nat /\ DOMAIN ledger = 1 .. N
  BY DEF Typed
<1>2. ASSUME bad # {} PROVE FALSE
  <2>1. PICK m \in bad : \A k \in bad : m <= k
    <3>1. bad \subseteq 0 .. N /\ id \in [0 .. N -> Nat]
      BY <1>1
    <3>2. PICK m \in bad : \A k \in bad : id[m] <= id[k]
      <4> HIDE DEF bad, id
      <4> QED BY <1>2, <3>1, HasLeast
    <3>3. \A k \in bad : id[k] = k
      BY <3>1
    <3> HIDE DEF bad, id
    <3> QED BY <3>2, <3>3
  <2>2. m \in 0 .. N /\ ~\E f : Replays(f, m)
    OBVIOUS
  <2>3. CASE m = 0
    <3> DEFINE f == [x \in 0 .. 0 |-> NoState]
    <3>1. Replays(f, 0)
      BY NoStateIsState DEF Replays
    <3> QED BY <2>2, <2>3, <3>1
  <2>4. CASE m # 0
    <3>1. m - 1 \in 0 .. N /\ ~(m <= m - 1) /\ m \in 1 .. N
      BY <1>1, <2>2, <2>4
    <3>2. m - 1 \notin bad
      <4> HIDE DEF bad
      <4> QED BY <2>1, <3>1
    <3>3. PICK f : Replays(f, m - 1)
      BY <3>1, <3>2
    <3> DEFINE g == [x \in 0 .. m |-> IF x = m THEN Replay(f[m - 1], m) ELSE f[x]]
    <3>4. f \in [0 .. m - 1 -> DidStates] /\ f[m - 1] \in DidStates
      BY <1>1, <3>1, <3>3 DEF Replays
    <3>5. Replay(f[m - 1], m) \in DidStates
      BY <1>1, <3>1, <3>4, ReplayIsState
    <3>6. g \in [0 .. m -> DidStates]
      BY <1>1, <3>1, <3>4, <3>5
    <3>7. g[0] = NoState /\ g[m] = Replay(g[m - 1], m)
      BY <1>1, <3>1, <3>3 DEF Replays
    <3>8. \A n \in 1 .. m - 1 : g[n] = Replay(g[n - 1], n)
      BY <1>1, <3>1, <3>3 DEF Replays
    <3>9. \A n \in 1 .. m : n = m \/ n \in 1 .. m - 1
      BY <1>1, <3>1
    <3> HIDE DEF g
    <3>10. Replays(g, m)
      BY <3>6, <3>7, <3>8, <3>9 DEF Replays
    <3> QED BY <2>2, <3>10
  <2> QED BY <2>3, <2>4
<1>3. N \in 0 .. N
  BY <1>1
<1> QED BY <1>2, <1>3

LEMMA ReplayedReplays ==
  ASSUME Typed
  PROVE  Replays(ReplayedUpTo, Len(ledger))
<1> DEFINE N == Len(ledger)
           body(f) == [n \in 0 .. N |-> IF n = 0 THEN NoState ELSE Replay(f[n - 1], n)]
<1>1. N \in Nat /\ DOMAIN ledger = 1 .. N
  BY DEF Typed
<1>2. PICK g : Replays(g, N)
  BY ReplayExists
<1>3. g = body(g)
  <2>1. g = [n \in 0 .. N |-> g[n]]
    BY <1>2 DEF Replays
  <2>2. ASSUME NEW n \in 0 .. N PROVE g[n] = IF n = 0 THEN NoState ELSE Replay(g[n - 1], n)
    <3>1. n # 0 => n \in 1 .. N
      BY <1>1
    <3> QED BY <1>2, <3>1 DEF Replays
  <2> QED BY <2>1, <2>2
<1>4. ReplayedUpTo = CHOOSE f : f = body(f)
  BY DEF ReplayedUpTo
<1>5. ReplayedUpTo = body(ReplayedUpTo)
  <2> HIDE DEF body
  <2> QED BY <1>3, <1>4
<1>6. ASSUME NEW f, f = body(f)
      PROVE  /\ f[0] = NoState /\ \A n \in 1 .. N : f[n] = Replay(f[n - 1], n)
             /\ f = [n \in 0 .. N |-> f[n]]
  <2>1. \A n \in 0 .. N : f[n] = IF n = 0 THEN NoState ELSE Replay(f[n - 1], n)
    BY <1>6
  <2>2. 0 \in 0 .. N /\ \A n \in 1 .. N : n \in 0 .. N /\ n # 0
    BY <1>1
  <2>3. f = [n \in 0 .. N |-> f[n]]
    BY <1>6
  <2> HIDE DEF body
  <2> QED BY <2>1, <2>2, <2>3
<1>7. ASSUME NEW f, f = body(f) PROVE \A n \in 0 .. N : f[n] \in DidStates
  <2> DEFINE bad == {n \in 0 .. N : f[n] \notin DidStates}
             id == [n \in 0 .. N |-> n]
  <2>1. ASSUME bad # {} PROVE FALSE
    <3>1. bad \subseteq 0 .. N /\ id \in [0 .. N -> Nat]
      BY <1>1
    <3>2. PICK m \in bad : \A k \in bad : id[m] <= id[k]
      <4> HIDE DEF bad, id, body
      <4> QED BY <2>1, <3>1, HasLeast
    <3>3. m \in 0 .. N /\ f[m] \notin DidStates
      OBVIOUS
    <3>4. m # 0
      <4> HIDE DEF body
      <4> QED BY <1>6, <1>7, <3>3, NoStateIsState
    <3>5. m \in 1 .. N /\ m - 1 \in 0 .. N /\ ~(m <= m - 1)
      BY <1>1, <3>3, <3>4
    <3>6. f[m - 1] \in DidStates
      <4>1. id[m] = m /\ id[m - 1] = m - 1
        BY <3>3, <3>5
      <4>2. m - 1 \notin bad
        <5> HIDE DEF bad, id, body
        <5> QED BY <3>2, <3>5, <4>1
      <4> QED BY <3>5, <4>2
    <3>7. f[m] = Replay(f[m - 1], m)
      <4> HIDE DEF body
      <4> QED BY <1>6, <1>7, <3>5
    <3> QED BY <1>1, <3>3, <3>5, <3>6, <3>7, ReplayIsState
  <2> QED BY <2>1
<1> HIDE DEF body
<1>8. /\ ReplayedUpTo[0] = NoState
      /\ \A n \in 1 .. N : ReplayedUpTo[n] = Replay(ReplayedUpTo[n - 1], n)
      /\ ReplayedUpTo = [n \in 0 .. N |-> ReplayedUpTo[n]]
      /\ \A n \in 0 .. N : ReplayedUpTo[n] \in DidStates
  BY <1>5, <1>6, <1>7
<1> QED BY <1>8 DEF Replays

StoredUpTo(n) == {i \in Get : i <= n}

LEMMA AnswerIsReplay ==
  ASSUME Typed, ClientsInOrder
  PROVE  Agree(Resolved, Replayed)
<1> DEFINE N == Len(ledger)
           f == ReplayedUpTo
           bad == {n \in 0 .. N : ~Agree(AnswerOf(StoredUpTo(n)), f[n])}
           id == [n \in 0 .. N |-> n]
<1>1. N \in Nat /\ DOMAIN ledger = 1 .. N
  BY DEF Typed
<1>2. /\ \A n \in 0 .. N : f[n] \in DidStates
      /\ f[0] = NoState /\ \A n \in 1 .. N : f[n] = Replay(f[n - 1], n)
  BY ReplayedReplays DEF Replays
<1> HIDE DEF f
<1>3. \A i \in Get : i \in 1 .. N
  BY <1>1 DEF Get
<1>4. ASSUME bad # {} PROVE FALSE
  <2>1. PICK m \in bad : \A k \in bad : id[m] <= id[k]
    <3>1. bad \subseteq 0 .. N /\ id \in [0 .. N -> Nat]
      BY <1>1
    <3> HIDE DEF bad, id
    <3> QED BY <1>4, <3>1, HasLeast
  <2>2. m \in 0 .. N /\ ~Agree(AnswerOf(StoredUpTo(m)), f[m])
    OBVIOUS
  <2>3. CASE m = 0
    <3>1. StoredUpTo(0) = {}
      BY <1>1, <1>3 DEF StoredUpTo
    <3>2. CreatedOf({}) = NoState
      BY DEF CreatedOf, ApplyFirstValid
    <3> QED BY <1>2, <2>2, <2>3, <3>1, <3>2 DEF AnswerOf, Agree
  <2>4. CASE m # 0
    <3>1. m \in 1 .. N /\ m - 1 \in 0 .. N /\ ~(m <= m - 1)
      BY <1>1, <2>2, <2>4
    <3>2. Agree(AnswerOf(StoredUpTo(m - 1)), f[m - 1])
      <4>1. id[m] = m /\ id[m - 1] = m - 1
        BY <2>2, <3>1
      <4>2. m - 1 \notin bad
        <5> HIDE DEF bad, id
        <5> QED BY <2>1, <3>1, <4>1
      <4> QED BY <3>1, <4>2
    <3>3. f[m] = Replay(f[m - 1], m) /\ f[m - 1] \in DidStates
      BY <1>2, <3>1
    <3>4. CASE m \notin Get
      <4>1. StoredUpTo(m) = StoredUpTo(m - 1)
        <5>1. \A i \in Get : i <= m <=> i <= m - 1
          BY <1>1, <1>3, <3>1, <3>4
        <5> QED BY <5>1 DEF StoredUpTo
      <4>2. f[m] = f[m - 1]
        BY <1>1, <3>1, <3>3, <3>4 DEF Get, Replay
      <4> QED BY <2>2, <3>2, <4>1, <4>2
    <3>5. CASE m \in Get
      <4>1. StoredUpTo(m) = StoredUpTo(m - 1) \cup {m}
        <5>1. \A i \in Get : i <= m <=> i <= m - 1 \/ i = m
          BY <1>1, <1>3, <3>1
        <5> QED BY <3>5, <5>1 DEF StoredUpTo
      <4>2. f[m] = Apply(f[m - 1], m)
        BY <3>3, <3>5 DEF Get, Replay
      <4>3. Adds(StoredUpTo(m - 1), m)
        <5>1. \A i \in Get : i <= m - 1 => i < m
          BY <1>1, <1>3, <3>1
        <5> QED BY <3>5, <5>1 DEF Adds, StoredUpTo
      <4>4. Agree(AnswerOf(StoredUpTo(m - 1) \cup {m}), Apply(f[m - 1], m))
        BY <3>2, <3>3, <4>3, AddedLast
      <4> QED BY <2>2, <4>1, <4>2, <4>4
    <3> QED BY <3>4, <3>5
  <2> QED BY <2>3, <2>4
<1>5. Agree(AnswerOf(StoredUpTo(N)), f[N])
  <2>1. N \in 0 .. N
    BY <1>1
  <2> QED BY <1>4, <2>1
<1>6. StoredUpTo(N) = Get
  BY <1>1, <1>3 DEF StoredUpTo
<1> QED BY <1>5, <1>6, ResolvedIsAnswer DEF Replayed, f

\* What Resolver.resolve answers by following the commitments is what the stored operations
\* lead to when they are applied one by one as they were anchored, if clients commit before
\* they reveal; of a deactivated DID only the last updates are left out.
THEOREM AlwaysReplaysTheLedger == Spec => []ReplaysTheLedger
<1>1. Typed => ReplaysTheLedger
  BY AnswerIsReplay DEF ReplaysTheLedger, Agree, Closes
<1> QED BY <1>1, AlwaysTyped, PTL

-----------------------------------------------------------------------------
(***************************************************************************)
(* Documents, for every set of deltas and every number of patches.         *)
(***************************************************************************)

-----------------------------------------------------------------------------
(* Documents: what a patch does                                            *)

\* An array of entries with different ids.
Tidy(entries) == IsArray(entries) /\ IdsDiffer(entries)

LEMMA ArrayFacts ==
  ASSUME NEW a, IsArray(a)
  PROVE  /\ a \in Seq(Range(a)) /\ Len(a) \in Nat /\ DOMAIN a = 1 .. Len(a)
         /\ a = [i \in DOMAIN a |-> a[i]] /\ \A i \in DOMAIN a : a[i] \in Range(a)
<1>1. a \in Seq(Range(a))
  BY DEF IsArray
<1>2. a = [i \in DOMAIN a |-> a[i]] /\ Len(a) \in Nat /\ DOMAIN a = 1 .. Len(a)
  BY <1>1
<1> QED BY <1>1, <1>2 DEF Range

LEMMA SeqIsArray ==
  ASSUME NEW S, NEW a \in Seq(S)
  PROVE  IsArray(a)
<1>1. a \in [1 .. Len(a) -> Range(a)] /\ Len(a) \in Nat
  BY DEF Range
<1> QED BY <1>1, SeqDef DEF IsArray

LEMMA ArraysConcatenated ==
  ASSUME NEW a, NEW b, IsArray(a), IsArray(b)
  PROVE  /\ IsArray(a \o b) /\ Len(a \o b) = Len(a) + Len(b)
         /\ DOMAIN (a \o b) = 1 .. Len(a) + Len(b)
         /\ \A i \in DOMAIN a : i \in DOMAIN (a \o b) /\ (a \o b)[i] = a[i]
         /\ \A i \in DOMAIN b : Len(a) + i \in DOMAIN (a \o b) /\ (a \o b)[Len(a) + i] = b[i]
         /\ \A k \in DOMAIN (a \o b) : k \in DOMAIN a \/ k - Len(a) \in DOMAIN b
<1> DEFINE S == Range(a) \cup Range(b)
<1>1. a \in [1 .. Len(a) -> S] /\ Len(a) \in Nat /\ DOMAIN a = 1 .. Len(a)
  <2>1. /\ Len(a) \in Nat /\ DOMAIN a = 1 .. Len(a) /\ a = [i \in DOMAIN a |-> a[i]]
        /\ \A i \in DOMAIN a : a[i] \in Range(a)
    BY ArrayFacts
  <2>2. \A i \in DOMAIN a : a[i] \in S
    BY <2>1
  <2> HIDE DEF S
  <2> QED BY <2>1, <2>2
<1>2. b \in [1 .. Len(b) -> S] /\ Len(b) \in Nat /\ DOMAIN b = 1 .. Len(b)
  <2>1. /\ Len(b) \in Nat /\ DOMAIN b = 1 .. Len(b) /\ b = [i \in DOMAIN b |-> b[i]]
        /\ \A i \in DOMAIN b : b[i] \in Range(b)
    BY ArrayFacts
  <2>2. \A i \in DOMAIN b : b[i] \in S
    BY <2>1
  <2> HIDE DEF S
  <2> QED BY <2>1, <2>2
<1> HIDE DEF S
<1>3. a \in Seq(S) /\ b \in Seq(S)
  BY <1>1, <1>2, SeqDef
<1>4. a \o b \in Seq(S) /\ Len(a \o b) = Len(a) + Len(b)
  BY <1>3
<1>5. IsArray(a \o b)
  BY <1>4, SeqIsArray
<1>6. DOMAIN (a \o b) = 1 .. Len(a) + Len(b)
  BY <1>4
<1>7. ASSUME NEW i \in DOMAIN a
      PROVE  i \in DOMAIN (a \o b) /\ (a \o b)[i] = a[i]
  BY <1>1, <1>2, <1>3, <1>6
<1>8. ASSUME NEW i \in DOMAIN b
      PROVE  Len(a) + i \in DOMAIN (a \o b) /\ (a \o b)[Len(a) + i] = b[i]
  BY <1>1, <1>2, <1>3, <1>6
<1>9. ASSUME NEW k \in DOMAIN (a \o b)
      PROVE  k \in DOMAIN a \/ k - Len(a) \in DOMAIN b
  BY <1>1, <1>2, <1>6
<1> QED BY <1>4, <1>5, <1>6, <1>7, <1>8, <1>9

\* Array.filter keeps different ids different.
LEMMA PickedIsTidy ==
  ASSUME NEW a, IsArray(a), NEW places, places \subseteq DOMAIN a
  PROVE  /\ IsArray(Picked(a, places))
         /\ \A e : e \in Range(Picked(a, places)) <=> \E i \in places : e = a[i]
         /\ (\A i, j \in places : a[i].id = a[j].id => i = j) => IdsDiffer(Picked(a, places))
<1>1. a \in Seq(Range(a)) /\ Len(a) \in Nat /\ DOMAIN a = 1 .. Len(a)
  BY ArrayFacts
<1> DEFINE t == Picked(a, places)
<1>2. /\ t \in Seq(Range(a))
      /\ \A i \in places : \E k \in DOMAIN t : t[k] = a[i]
  BY <1>1, PickedIs
<1>3. PICK place : TakenFrom(place, t, a, places)
  BY <1>1, PickedIs
<1> HIDE DEF t
<1>4. \A k \in DOMAIN t : place[k] \in places /\ t[k] = a[place[k]]
  BY <1>3 DEF TakenFrom
<1>5. \A e : e \in Range(t) <=> \E i \in places : e = a[i]
  BY <1>2, <1>4 DEF Range
<1>6. ASSUME \A i, j \in places : a[i].id = a[j].id => i = j,
             NEW j \in DOMAIN t, NEW k \in DOMAIN t, t[j].id = t[k].id
      PROVE  j = k
  <2>1. place[j] = place[k]
    BY <1>4, <1>6
  <2>2. j \in Int /\ k \in Int /\ place[j] \in Int /\ place[k] \in Int
    BY <1>1, <1>2, <1>4
  <2>3. ~(j < k) /\ ~(k < j)
    BY <1>3, <2>1, <2>2 DEF TakenFrom
  <2> QED BY <2>2, <2>3
<1>7. IsArray(t)
  BY <1>2, SeqIsArray
<1> QED BY <1>5, <1>6, <1>7 DEF IdsDiffer, t

\* No later entry has its id.
IsLast(entries, n) == \A k \in n + 1 .. Len(entries) : entries[k].id # entries[n].id

LEMMA LastWithIs ==
  ASSUME NEW entries, IsArray(entries), NEW i \in DOMAIN entries
  PROVE  \E n \in DOMAIN entries :
           /\ LastWith(entries, entries[i].id) = entries[n]
           /\ entries[n].id = entries[i].id /\ IsLast(entries, n)
<1> DEFINE id == entries[i].id
           B == {n \in DOMAIN entries : entries[n].id = id}
           IsIt(n) == entries[n].id = id /\ \A k \in n + 1 .. Len(entries) : entries[k].id # id
           n == CHOOSE n \in DOMAIN entries : IsIt(n)
<1>1. Len(entries) \in Nat /\ DOMAIN entries = 1 .. Len(entries)
  BY ArrayFacts
<1>2. B \subseteq 0 .. Len(entries) /\ B # {}
  BY <1>1
<1>3. PICK m \in B : \A k \in B : k <= m
  <2> HIDE DEF B
  <2> QED BY <1>1, <1>2, GreatestNumber
<1>4. m \in DOMAIN entries /\ IsIt(m)
  BY <1>1, <1>3
<1>5. n \in DOMAIN entries /\ IsIt(n)
  <2> HIDE DEF IsIt
  <2> QED BY <1>4
<1>6. LastWith(entries, id) = entries[n]
  BY DEF LastWith
<1> HIDE DEF n
<1> QED BY <1>5, <1>6 DEF IsLast

LEMMA LastIsOne ==
  ASSUME NEW entries, IsArray(entries), NEW m \in DOMAIN entries, NEW n \in DOMAIN entries,
         entries[m].id = entries[n].id, IsLast(entries, m), IsLast(entries, n)
  PROVE  m = n
<1>1. DOMAIN entries = 1 .. Len(entries) /\ Len(entries) \in Nat
  BY ArrayFacts
<1> QED BY <1>1 DEF IsLast

\* What adding an array to another one with other ids or the same ones should leave.
MergeHas(e, old, new) == e \in Range(new) \/ (e \in Range(old) /\ e.id \notin IdsOf(new))

LEMMA MapValuesAre ==
  ASSUME NEW all, IsArray(all)
  PROVE  /\ Tidy(MapValues(all))
         /\ \A e : e \in Range(MapValues(all))
                     <=> \E n \in DOMAIN all : e = all[n] /\ IsLast(all, n)
<1> DEFINE places == {i \in DOMAIN all : \A k \in 1 .. i - 1 : all[k].id # all[i].id}
           first == Picked(all, places)
           values == MapValues(all)
<1>1. Len(all) \in Nat /\ DOMAIN all = 1 .. Len(all) /\ all \in Seq(Range(all))
  BY ArrayFacts
<1>2. \A i, j \in places : all[i].id = all[j].id => i = j
  BY <1>1
<1>3. places \subseteq DOMAIN all
  OBVIOUS
<1>4. /\ IsArray(first) /\ IdsDiffer(first)
      /\ \A e : e \in Range(first) <=> \E i \in places : e = all[i]
  <2> HIDE DEF places
  <2> QED BY <1>2, <1>3, PickedIsTidy
<1>5. values = [i \in DOMAIN first |-> LastWith(all, first[i].id)]
  BY DEF MapValues
<1>6. ASSUME NEW n \in DOMAIN all
      PROVE  \E i \in places : all[i].id = all[n].id
  <2> DEFINE B == {m \in DOMAIN all : all[m].id = all[n].id}
  <2>1. B \subseteq Nat /\ B # {}
    BY <1>1
  <2>2. PICK m \in B : \A k \in B : m <= k
    <3> HIDE DEF B
    <3> QED BY <2>1, LeastNumber
  <2>3. m \in places
    BY <1>1, <2>2
  <2> QED BY <2>3
<1> HIDE DEF places, first, values
<1>7. /\ Len(first) \in Nat /\ DOMAIN first = 1 .. Len(first)
      /\ \A i \in DOMAIN first : first[i] \in Range(first)
  BY <1>4, ArrayFacts
<1>8. ASSUME NEW i \in DOMAIN first
      PROVE  \E n \in DOMAIN all : values[i] = all[n] /\ all[n].id = first[i].id /\ IsLast(all, n)
  <2>1. PICK j \in DOMAIN all : first[i] = all[j]
    BY <1>3, <1>4, <1>7
  <2>2. values[i] = LastWith(all, all[j].id)
    BY <1>5, <2>1
  <2>3. PICK n \in DOMAIN all :
          LastWith(all, all[j].id) = all[n] /\ all[n].id = all[j].id /\ IsLast(all, n)
    BY LastWithIs
  <2> QED BY <2>1, <2>2, <2>3
<1>9. DOMAIN values = DOMAIN first
  BY <1>5
<1>10. values \in [1 .. Len(first) -> Range(all)]
  <2>1. ASSUME NEW i \in DOMAIN first PROVE values[i] \in Range(all)
    BY <1>8 DEF Range
  <2> QED BY <1>5, <1>7, <2>1
<1>11. IsArray(values)
  BY <1>7, <1>10, SeqDef, SeqIsArray
<1>12. ASSUME NEW i \in DOMAIN values, NEW j \in DOMAIN values, values[i].id = values[j].id
       PROVE  i = j
  <2>1. first[i].id = first[j].id
    BY <1>8, <1>9, <1>12
  <2> QED BY <1>4, <1>9, <2>1 DEF IdsDiffer
<1>13. ASSUME NEW e \in Range(values)
       PROVE  \E n \in DOMAIN all : e = all[n] /\ IsLast(all, n)
  <2>1. PICK i \in DOMAIN values : e = values[i]
    BY DEF Range
  <2> QED BY <1>8, <1>9, <2>1
<1>14. ASSUME NEW n \in DOMAIN all, IsLast(all, n)
       PROVE  all[n] \in Range(values)
  <2>1. PICK m \in places : all[m].id = all[n].id
    BY <1>6
  <2>2. all[m] \in Range(first)
    BY <1>4
  <2>3. PICK i \in DOMAIN first : first[i] = all[m]
    BY <2>2 DEF Range
  <2>4. PICK k \in DOMAIN all : values[i] = all[k] /\ all[k].id = first[i].id /\ IsLast(all, k)
    BY <1>8
  <2>5. k = n
    BY <1>14, <2>1, <2>3, <2>4, LastIsOne
  <2>6. values[i] = all[n]
    BY <2>4, <2>5
  <2> QED BY <1>9, <2>6 DEF Range
<1> QED
  BY <1>11, <1>12, <1>13, <1>14 DEF Tidy, IdsDiffer, values

LEMMA LastOfBoth ==
  ASSUME NEW old, NEW new, Tidy(old), Tidy(new), NEW e
  PROVE  MergeHas(e, old, new)
           <=> \E n \in DOMAIN (old \o new) : e = (old \o new)[n] /\ IsLast(old \o new, n)
<1> DEFINE all == old \o new
<1>1. /\ Len(old) \in Nat /\ DOMAIN old = 1 .. Len(old)
      /\ Len(new) \in Nat /\ DOMAIN new = 1 .. Len(new)
  BY ArrayFacts DEF Tidy
<1>2. /\ IsArray(all) /\ Len(all) = Len(old) + Len(new) /\ DOMAIN all = 1 .. Len(old) + Len(new)
      /\ \A i \in DOMAIN old : i \in DOMAIN all /\ all[i] = old[i]
      /\ \A i \in DOMAIN new : Len(old) + i \in DOMAIN all /\ all[Len(old) + i] = new[i]
      /\ \A k \in DOMAIN all : k \in DOMAIN old \/ k - Len(old) \in DOMAIN new
  BY ArraysConcatenated DEF Tidy
<1> HIDE DEF all
<1>3. ASSUME NEW i \in DOMAIN new
      PROVE  IsLast(all, Len(old) + i)
  <2> SUFFICES ASSUME NEW k \in Len(old) + i + 1 .. Len(all) PROVE all[k].id # all[Len(old) + i].id
    BY DEF IsLast
  <2>1. k - Len(old) \in DOMAIN new /\ k - Len(old) # i /\ k = Len(old) + (k - Len(old))
    BY <1>1, <1>2
  <2>2. all[k] = new[k - Len(old)]
    BY <1>2, <2>1
  <2>3. new[k - Len(old)].id # new[i].id
    BY <2>1 DEF Tidy, IdsDiffer
  <2> QED BY <1>2, <2>2, <2>3
<1>4. ASSUME NEW i \in DOMAIN old
      PROVE  IsLast(all, i) <=> old[i].id \notin IdsOf(new)
  <2>1. ASSUME IsLast(all, i), NEW k \in DOMAIN new PROVE new[k].id # old[i].id
    <3>1. Len(old) + k \in i + 1 .. Len(all)
      BY <1>1, <1>2
    <3> QED BY <1>2, <2>1, <3>1 DEF IsLast
  <2>2. ASSUME old[i].id \notin IdsOf(new), NEW k \in i + 1 .. Len(all) PROVE all[k].id # all[i].id
    <3>1. k \in DOMAIN all /\ k # i
      BY <1>1, <1>2
    <3>2. CASE k \in DOMAIN old
      BY <1>2, <3>1, <3>2 DEF Tidy, IdsDiffer
    <3>3. CASE k - Len(old) \in DOMAIN new
      <4>1. k = Len(old) + (k - Len(old))
        BY <1>1, <1>2
      <4>2. all[k] = new[k - Len(old)]
        BY <1>2, <3>3, <4>1
      <4> QED BY <1>2, <2>2, <3>3, <4>2 DEF IdsOf
    <3> QED BY <1>2, <3>1, <3>2, <3>3
  <2> QED BY <2>1, <2>2 DEF IsLast, IdsOf
<1>5. ASSUME MergeHas(e, old, new)
      PROVE  \E n \in DOMAIN all : e = all[n] /\ IsLast(all, n)
  <2>1. CASE e \in Range(new)
    <3>1. PICK i \in DOMAIN new : e = new[i]
      BY <2>1 DEF Range
    <3> QED BY <1>2, <1>3, <3>1
  <2>2. CASE e \in Range(old) /\ e.id \notin IdsOf(new)
    <3>1. PICK i \in DOMAIN old : e = old[i]
      BY <2>2 DEF Range
    <3> QED BY <1>2, <1>4, <2>2, <3>1
  <2> QED BY <1>5, <2>1, <2>2 DEF MergeHas
<1>6. ASSUME NEW n \in DOMAIN all, e = all[n], IsLast(all, n)
      PROVE  MergeHas(e, old, new)
  <2>1. CASE n \in DOMAIN old
    BY <1>2, <1>4, <1>6, <2>1 DEF MergeHas, Range
  <2>2. CASE n - Len(old) \in DOMAIN new
    <3>1. n = Len(old) + (n - Len(old))
      BY <1>1, <1>2
    <3>2. e = new[n - Len(old)]
      BY <1>2, <1>6, <2>2, <3>1
    <3> QED BY <2>2, <3>2 DEF MergeHas, Range
  <2> QED BY <1>2, <2>1, <2>2
<1> QED BY <1>5, <1>6 DEF all

LEMMA WithIs ==
  ASSUME NEW document, NEW name, NEW entries
  PROVE  /\ EntriesOf(With(document, name, entries), name) = entries
         /\ \A other : other # name =>
              EntriesOf(With(document, name, entries), other) = EntriesOf(document, other)
BY DEF With, EntriesOf

LEMMA KeysAdded ==
  ASSUME NEW old, NEW new, Tidy(old), Tidy(new)
  PROVE  /\ Tidy(MapValues(old \o new))
         /\ \A e : e \in Range(MapValues(old \o new)) <=> MergeHas(e, old, new)
<1>1. IsArray(old \o new)
  BY ArraysConcatenated DEF Tidy
<1>2. \A e : MergeHas(e, old, new)
               <=> \E n \in DOMAIN (old \o new) : e = (old \o new)[n] /\ IsLast(old \o new, n)
  BY LastOfBoth
<1> QED BY <1>1, <1>2, MapValuesAre

LEMMA ServicesAdded ==
  ASSUME NEW old, NEW new, Tidy(old), Tidy(new)
  PROVE  /\ Tidy(ReplacedOrPushed(old, new))
         /\ \A e : e \in Range(ReplacedOrPushed(old, new)) <=> MergeHas(e, old, new)
<1> DEFINE replaced == [i \in DOMAIN old |-> IF old[i].id \in IdsOf(new)
                                             THEN LastWith(new, old[i].id) ELSE old[i]]
           places == {i \in DOMAIN new : new[i].id \notin IdsOf(old)}
           pushed == Picked(new, places)
           all == ReplacedOrPushed(old, new)
<1>1. /\ Len(old) \in Nat /\ DOMAIN old = 1 .. Len(old)
      /\ Len(new) \in Nat /\ DOMAIN new = 1 .. Len(new)
  BY ArrayFacts DEF Tidy
<1>2. /\ IsArray(pushed) /\ IdsDiffer(pushed)
      /\ \A e : e \in Range(pushed) <=> \E i \in places : e = new[i]
  <2>1. \A i, j \in places : new[i].id = new[j].id => i = j
    BY DEF Tidy, IdsDiffer
  <2>2. places \subseteq DOMAIN new
    OBVIOUS
  <2> HIDE DEF places
  <2> QED BY <2>1, <2>2, PickedIsTidy DEF Tidy
<1>3. all = replaced \o pushed
  BY DEF ReplacedOrPushed
<1>4. ASSUME NEW n \in DOMAIN new
      PROVE  LastWith(new, new[n].id) = new[n]
  <2>1. PICK k \in DOMAIN new : LastWith(new, new[n].id) = new[k] /\ new[k].id = new[n].id
    BY LastWithIs DEF Tidy
  <2> QED BY <2>1 DEF Tidy, IdsDiffer
<1>5. ASSUME NEW i \in DOMAIN old
      PROVE  /\ replaced[i].id = old[i].id
             /\ old[i].id \notin IdsOf(new) => replaced[i] = old[i]
             /\ old[i].id \in IdsOf(new) => \E n \in DOMAIN new : replaced[i] = new[n]
  <2>1. CASE old[i].id \notin IdsOf(new)
    BY <2>1
  <2>2. CASE old[i].id \in IdsOf(new)
    <3>1. PICK n \in DOMAIN new : new[n].id = old[i].id
      BY <2>2 DEF IdsOf
    <3> QED BY <1>4, <2>2, <3>1
  <2> QED BY <2>1, <2>2
<1>6. DOMAIN replaced = DOMAIN old
  OBVIOUS
<1> HIDE DEF replaced, pushed, places, all
<1>7. IsArray(replaced)
  <2>1. replaced = [i \in 1 .. Len(old) |-> replaced[i]]
    BY <1>1 DEF replaced
  <2>2. \A i \in 1 .. Len(old) : replaced[i] \in Range(replaced)
    BY <1>1, <1>6 DEF Range
  <2>3. replaced \in [1 .. Len(old) -> Range(replaced)]
    BY <2>1, <2>2
  <2> QED BY <1>1, <2>3, SeqDef, SeqIsArray
<1>8. /\ IsArray(all)
      /\ \A i \in DOMAIN replaced : i \in DOMAIN all /\ all[i] = replaced[i]
      /\ \A i \in DOMAIN pushed :
           Len(replaced) + i \in DOMAIN all /\ all[Len(replaced) + i] = pushed[i]
      /\ \A k \in DOMAIN all : k \in DOMAIN replaced \/ k - Len(replaced) \in DOMAIN pushed
      /\ DOMAIN all = 1 .. Len(replaced) + Len(pushed)
  BY <1>2, <1>3, <1>7, ArraysConcatenated
<1>9. Len(replaced) \in Nat /\ Len(pushed) \in Nat /\ DOMAIN pushed = 1 .. Len(pushed)
  BY <1>2, <1>7, ArrayFacts
<1>10. ASSUME NEW k \in DOMAIN all
       PROVE  \/ k \in DOMAIN old /\ all[k].id = old[k].id /\ all[k] = replaced[k]
              \/ /\ k - Len(replaced) \in DOMAIN pushed /\ all[k] = pushed[k - Len(replaced)]
                 /\ all[k].id \notin IdsOf(old) /\ all[k] \in Range(new)
  <2>1. CASE k \in DOMAIN replaced
    BY <1>5, <1>6, <1>8, <2>1
  <2>2. CASE k - Len(replaced) \in DOMAIN pushed
    <3>1. k = Len(replaced) + (k - Len(replaced))
      BY <1>8, <1>9
    <3>2. all[k] = pushed[k - Len(replaced)]
      BY <1>8, <2>2, <3>1
    <3>3. all[k] \in Range(pushed)
      BY <2>2, <3>2 DEF Range
    <3>4. PICK i \in places : all[k] = new[i]
      BY <1>2, <3>3
    <3> QED BY <2>2, <3>2, <3>4 DEF places, Range
  <2> QED BY <1>8, <2>1, <2>2
<1>11. IdsDiffer(all)
  <2> SUFFICES ASSUME NEW j \in DOMAIN all, NEW k \in DOMAIN all, all[j].id = all[k].id
               PROVE  j = k
    BY DEF IdsDiffer
  <2>1. CASE j \in DOMAIN old /\ all[j].id = old[j].id /\ k \in DOMAIN old /\ all[k].id = old[k].id
    BY <2>1 DEF Tidy, IdsDiffer
  <2>2. CASE /\ j - Len(replaced) \in DOMAIN pushed /\ all[j] = pushed[j - Len(replaced)]
             /\ k - Len(replaced) \in DOMAIN pushed /\ all[k] = pushed[k - Len(replaced)]
    <3>1. j - Len(replaced) = k - Len(replaced)
      BY <1>2, <2>2 DEF IdsDiffer
    <3> QED BY <1>8, <1>9, <3>1
  <2>3. CASE j \in DOMAIN old /\ all[j].id = old[j].id /\ all[k].id \notin IdsOf(old)
    BY <2>3 DEF IdsOf
  <2>4. CASE k \in DOMAIN old /\ all[k].id = old[k].id /\ all[j].id \notin IdsOf(old)
    BY <2>4 DEF IdsOf
  <2> QED BY <1>10, <2>1, <2>2, <2>3, <2>4
<1>12. ASSUME NEW e \in Range(all)
       PROVE  MergeHas(e, old, new)
  <2>1. PICK k \in DOMAIN all : e = all[k]
    BY DEF Range
  <2>2. CASE k \in DOMAIN old /\ all[k] = replaced[k]
    BY <1>5, <2>1, <2>2 DEF MergeHas, Range
  <2>3. CASE all[k] \in Range(new)
    BY <2>1, <2>3 DEF MergeHas
  <2> QED BY <1>10, <2>2, <2>3
<1>13. ASSUME NEW e, MergeHas(e, old, new)
       PROVE  e \in Range(all)
  <2>1. CASE e \in Range(old) /\ e.id \notin IdsOf(new)
    <3>1. PICK i \in DOMAIN old : e = old[i]
      BY <2>1 DEF Range
    <3>2. all[i] = e /\ i \in DOMAIN all
      BY <1>5, <1>6, <1>8, <2>1, <3>1
    <3> QED BY <3>2 DEF Range
  <2>2. CASE e \in Range(new)
    <3>1. PICK n \in DOMAIN new : e = new[n]
      BY <2>2 DEF Range
    <3>2. CASE new[n].id \in IdsOf(old)
      <4>1. PICK i \in DOMAIN old : old[i].id = new[n].id
        BY <3>2 DEF IdsOf
      <4>2. old[i].id \in IdsOf(new)
        BY <4>1 DEF IdsOf
      <4>3. replaced[i] = new[n]
        BY <1>4, <4>1, <4>2 DEF replaced
      <4>4. i \in DOMAIN all /\ all[i] = e
        BY <1>6, <1>8, <3>1, <4>3
      <4> QED BY <4>4 DEF Range
    <3>3. CASE new[n].id \notin IdsOf(old)
      <4>1. e \in Range(pushed)
        BY <1>2, <3>1, <3>3 DEF places
      <4>2. PICK i \in DOMAIN pushed : e = pushed[i]
        BY <4>1 DEF Range
      <4> QED BY <1>8, <4>2 DEF Range
    <3> QED BY <3>2, <3>3
  <2> QED BY <1>13, <2>1, <2>2 DEF MergeHas
<1> QED
  BY <1>8, <1>11, <1>12, <1>13 DEF Tidy, all

\* A valid patch keeps the ids of a document different.
TidyDocument(document) == \A name \in Entries : Tidy(EntriesOf(document, name))

\* An entry is there after a patch if the patch names it or has nothing to do with it.
Sets(patch, document, name, e) ==
  e \in Named(patch, name)
    \/ (e \in Range(EntriesOf(document, name)) /\ ~Overrides(patch, name, e.id))

LEMMA ValidIsTidy ==
  ASSUME NEW entries, ValidPublicKeys(entries) \/ ValidServices(entries)
  PROVE  Tidy(entries)
BY DEF ValidPublicKeys, ValidServices, Tidy

LEMMA EmptyIsTidy == Tidy(<< >>) /\ Range(<< >>) = {}
<1>1. << >> \in Seq({})
  OBVIOUS
<1>2. IsArray(<< >>)
  BY <1>1, SeqIsArray
<1> QED BY <1>2 DEF Tidy, IdsDiffer, Range

LEMMA EntriesRemoved ==
  ASSUME NEW document, TidyDocument(document), NEW name \in Entries, NEW ids
  PROVE  /\ Tidy(EntriesOf(RemoveEntries(document, name, ids), name))
         /\ \A e : e \in Range(EntriesOf(RemoveEntries(document, name, ids), name))
                     <=> e \in Range(EntriesOf(document, name)) /\ e.id \notin ids
         /\ \A other : other # name =>
              EntriesOf(RemoveEntries(document, name, ids), other) = EntriesOf(document, other)
<1> DEFINE old == EntriesOf(document, name)
           places == {i \in DOMAIN old : old[i].id \notin ids}
<1>1. Tidy(old)
  BY DEF TidyDocument
<1>2. CASE name \in DOMAIN document
  <2>1. RemoveEntries(document, name, ids) = With(document, name, Picked(old, places))
    BY <1>2 DEF RemoveEntries
  <2>2. \A i, j \in places : old[i].id = old[j].id => i = j
    BY <1>1 DEF Tidy, IdsDiffer
  <2>3. /\ IsArray(Picked(old, places)) /\ IdsDiffer(Picked(old, places))
        /\ \A e : e \in Range(Picked(old, places)) <=> \E i \in places : e = old[i]
    <3>1. places \subseteq DOMAIN old /\ IsArray(old)
      BY <1>1 DEF Tidy
    <3> HIDE DEF places, old
    <3> QED BY <2>2, <3>1, PickedIsTidy
  <2>4. \A e : (\E i \in places : e = old[i]) <=> e \in Range(old) /\ e.id \notin ids
    <3> HIDE DEF old
    <3> QED BY DEF Range
  <2>5. /\ EntriesOf(With(document, name, Picked(old, places)), name) = Picked(old, places)
        /\ \A other : other # name =>
             EntriesOf(With(document, name, Picked(old, places)), other)
               = EntriesOf(document, other)
    <3> HIDE DEF places, old
    <3> QED BY WithIs
  <2> HIDE DEF places
  <2> QED BY <2>1, <2>3, <2>4, <2>5 DEF Tidy
<1>3. CASE name \notin DOMAIN document
  <2>1. RemoveEntries(document, name, ids) = document /\ EntriesOf(document, name) = << >>
    BY <1>3 DEF RemoveEntries, EntriesOf
  <2> QED BY <2>1, EmptyIsTidy
<1> QED BY <1>2, <1>3

LEMMA PatchEffect ==
  ASSUME NEW document, TidyDocument(document), NEW patch, ValidPatch(patch), NEW name \in Entries
  PROVE  /\ Tidy(EntriesOf(ApplyPatch(document, patch), name))
         /\ \A e : e \in Range(EntriesOf(ApplyPatch(document, patch), name))
                     <=> Sets(patch, document, name, e)
<1> DEFINE old == EntriesOf(document, name)
           result == EntriesOf(ApplyPatch(document, patch), name)
           Goal == Tidy(result) /\ \A e : e \in Range(result) <=> Sets(patch, document, name, e)
<1> SUFFICES Goal
  OBVIOUS
<1>1. Tidy(old) /\ name \in {"publicKeys", "services"}
  BY DEF TidyDocument, Entries
<1>2. CASE patch.action = "replace" /\ ValidDocument(patch.document)
  <2>1. result = EntriesOf(patch.document, name)
    BY <1>2 DEF ApplyPatch
  <2>2. CASE name \in DOMAIN patch.document
    <3>1. result = patch.document[name]
      BY <2>1, <2>2 DEF EntriesOf
    <3>2. Tidy(result)
      BY <1>1, <1>2, <2>2, <3>1, ValidIsTidy DEF ValidDocument
    <3>3. Named(patch, name) = Range(patch.document[name])
      BY <1>2, <2>2 DEF Named
    <3>4. \A e : Sets(patch, document, name, e) <=> e \in Named(patch, name)
      BY <1>2 DEF Sets, Overrides
    <3> HIDE DEF result
    <3> QED BY <3>1, <3>2, <3>3, <3>4
  <2>3. CASE name \notin DOMAIN patch.document
    <3>1. result = << >>
      BY <2>1, <2>3 DEF EntriesOf
    <3>2. Named(patch, name) = {}
      BY <1>2, <2>3 DEF Named
    <3>3. \A e : ~Sets(patch, document, name, e)
      BY <1>2, <3>2 DEF Sets, Overrides
    <3> HIDE DEF result
    <3> QED BY <3>1, <3>3, EmptyIsTidy
  <2> QED BY <2>2, <2>3
<1>3. ASSUME Named(patch, name) = {}, \A id : ~Overrides(patch, name, id), result = old
      PROVE  Goal
  <2>1. \A e : Sets(patch, document, name, e) <=> e \in Range(old)
    BY <1>3 DEF Sets
  <2> HIDE DEF result, old
  <2> QED BY <1>1, <1>3, <2>1
<1>4. CASE patch.action = "add-public-keys" /\ ValidPublicKeys(patch.publicKeys)
  <2> DEFINE new == patch.publicKeys
             keys == EntriesOf(document, "publicKeys")
  <2>1. ApplyPatch(document, patch) = With(document, "publicKeys", MapValues(keys \o new))
    BY <1>4 DEF ApplyPatch, AddPublicKeys
  <2>2. CASE name = "publicKeys"
    <3>1. result = MapValues(old \o new)
      BY <2>1, <2>2, WithIs
    <3>2. Tidy(new)
      BY <1>4, ValidIsTidy
    <3>3. Tidy(result) /\ \A e : e \in Range(result) <=> MergeHas(e, old, new)
      <4> HIDE DEF result, old, new
      <4> QED BY <1>1, <3>1, <3>2, KeysAdded
    <3>4. Named(patch, name) = Range(new)
      BY <1>4, <2>2 DEF Named
    <3>5. \A id : Overrides(patch, name, id) <=> id \in IdsOf(new)
      BY <1>4, <3>4 DEF Overrides, IdsOf, Range
    <3>6. \A e : Sets(patch, document, name, e) <=> MergeHas(e, old, new)
      BY <3>4, <3>5 DEF Sets, MergeHas
    <3> HIDE DEF result
    <3> QED BY <3>3, <3>6
  <2>3. CASE name # "publicKeys"
    <3>1. result = old
      BY <2>1, <2>3, WithIs
    <3>2. Named(patch, name) = {}
      BY <1>4, <2>3 DEF Named
    <3>3. \A id : ~Overrides(patch, name, id)
      BY <1>4, <3>2 DEF Overrides
    <3> QED BY <1>3, <3>1, <3>2, <3>3
  <2> QED BY <2>2, <2>3
<1>5. CASE patch.action = "add-services" /\ ValidServices(patch.services)
  <2> DEFINE new == patch.services
             services == EntriesOf(document, "services")
  <2>1. ApplyPatch(document, patch) = With(document, "services", ReplacedOrPushed(services, new))
    BY <1>5 DEF ApplyPatch, AddServices
  <2>2. CASE name = "services"
    <3>1. result = ReplacedOrPushed(old, new)
      BY <2>1, <2>2, WithIs
    <3>2. Tidy(new)
      BY <1>5, ValidIsTidy
    <3>3. Tidy(result) /\ \A e : e \in Range(result) <=> MergeHas(e, old, new)
      <4> HIDE DEF result, old, new
      <4> QED BY <1>1, <3>1, <3>2, ServicesAdded
    <3>4. Named(patch, name) = Range(new)
      BY <1>5, <2>2 DEF Named
    <3>5. \A id : Overrides(patch, name, id) <=> id \in IdsOf(new)
      BY <1>5, <3>4 DEF Overrides, IdsOf, Range
    <3>6. \A e : Sets(patch, document, name, e) <=> MergeHas(e, old, new)
      BY <3>4, <3>5 DEF Sets, MergeHas
    <3> HIDE DEF result
    <3> QED BY <3>3, <3>6
  <2>3. CASE name # "services"
    <3>1. result = old
      BY <2>1, <2>3, WithIs
    <3>2. Named(patch, name) = {}
      BY <1>5, <2>3 DEF Named
    <3>3. \A id : ~Overrides(patch, name, id)
      BY <1>5, <3>2 DEF Overrides
    <3> QED BY <1>3, <3>1, <3>2, <3>3
  <2> QED BY <2>2, <2>3
<1>6. ASSUME NEW of \in Entries,
             ApplyPatch(document, patch) = RemoveEntries(document, of, patch.ids),
             Named(patch, name) = {},
             \A id : Overrides(patch, name, id) <=> name = of /\ id \in patch.ids
      PROVE  Goal
  <2>1. CASE name = of
    <3>1. /\ Tidy(result)
          /\ \A e : e \in Range(result) <=> e \in Range(old) /\ e.id \notin patch.ids
      BY <1>6, <2>1, EntriesRemoved
    <3>2. \A e : Sets(patch, document, name, e) <=> e \in Range(old) /\ e.id \notin patch.ids
      BY <1>6, <2>1 DEF Sets
    <3> HIDE DEF result
    <3> QED BY <3>1, <3>2
  <2>2. CASE name # of
    <3>1. result = old
      BY <1>6, <2>2, EntriesRemoved
    <3> QED BY <1>3, <1>6, <2>2, <3>1
  <2> QED BY <2>1, <2>2
<1>7. CASE patch.action = "remove-public-keys"
  <2>1. ApplyPatch(document, patch) = RemoveEntries(document, "publicKeys", patch.ids)
    BY <1>7 DEF ApplyPatch
  <2>2. Named(patch, name) = {}
    BY <1>7 DEF Named
  <2>3. \A id : Overrides(patch, name, id) <=> name = "publicKeys" /\ id \in patch.ids
    BY <1>7, <2>2 DEF Overrides
  <2>4. "publicKeys" \in Entries
    BY DEF Entries
  <2> QED BY <1>6, <2>1, <2>2, <2>3, <2>4
<1>8. CASE patch.action = "remove-services"
  <2>1. ApplyPatch(document, patch) = RemoveEntries(document, "services", patch.ids)
    BY <1>8 DEF ApplyPatch
  <2>2. Named(patch, name) = {}
    BY <1>8 DEF Named
  <2>3. \A id : Overrides(patch, name, id) <=> name = "services" /\ id \in patch.ids
    BY <1>8, <2>2 DEF Overrides
  <2>4. "services" \in Entries
    BY DEF Entries
  <2> QED BY <1>6, <2>1, <2>2, <2>3, <2>4
<1> QED
  <2> HIDE DEF Goal
  <2> QED BY <1>2, <1>4, <1>5, <1>7, <1>8 DEF ValidPatch

-----------------------------------------------------------------------------
(* Documents: what a delta does                                            *)

NumberedTo(f, m) == f = [n \in 0 .. m |-> f[n]]

\* f has the document after each of the first m patches.
Patches(f, document, delta, m) ==
  f = [n \in 0 .. m |-> IF n = 0 THEN document ELSE ApplyPatch(f[n - 1], delta[n])]

LEMMA PatchesAre ==
  ASSUME NEW f, NEW document, NEW delta, NEW m \in Nat
  PROVE  Patches(f, document, delta, m)
           <=> /\ NumberedTo(f, m) /\ f[0] = document
               /\ \A n \in 1 .. m : f[n] = ApplyPatch(f[n - 1], delta[n])
<1> DEFINE step(n) == IF n = 0 THEN document ELSE ApplyPatch(f[n - 1], delta[n])
<1>1. /\ 0 \in 0 .. m /\ \A n \in 1 .. m : n \in 0 .. m /\ n # 0
      /\ \A n \in 0 .. m : n = 0 \/ n \in 1 .. m
  OBVIOUS
<1>2. Patches(f, document, delta, m) <=> f = [n \in 0 .. m |-> step(n)]
  BY DEF Patches
<1>3. step(0) = document /\ \A n \in 1 .. m : step(n) = ApplyPatch(f[n - 1], delta[n])
  BY <1>1
<1> HIDE DEF step
<1>4. ASSUME f = [n \in 0 .. m |-> step(n)]
      PROVE  /\ NumberedTo(f, m) /\ f[0] = document
             /\ \A n \in 1 .. m : f[n] = ApplyPatch(f[n - 1], delta[n])
  <2>1. \A n \in 0 .. m : f[n] = step(n)
    BY <1>4
  <2>2. NumberedTo(f, m)
    BY <1>4 DEF NumberedTo
  <2> QED BY <1>1, <1>3, <2>1, <2>2
<1>5. ASSUME NumberedTo(f, m), f[0] = document,
             \A n \in 1 .. m : f[n] = ApplyPatch(f[n - 1], delta[n])
      PROVE  f = [n \in 0 .. m |-> step(n)]
  <2>1. \A n \in 0 .. m : f[n] = step(n)
    BY <1>1, <1>3, <1>5
  <2> QED BY <1>5, <2>1 DEF NumberedTo
<1> QED BY <1>2, <1>4, <1>5

LEMMA PatchesExist ==
  ASSUME NEW document, NEW delta, NEW m \in Nat
  PROVE  \E f : Patches(f, document, delta, m)
<1> DEFINE G == {n \in 0 .. m : \E f : Patches(f, document, delta, n)}
<1>1. 0 \in G
  <2> DEFINE f == [n \in 0 .. 0 |-> document]
  <2>1. NumberedTo(f, 0) /\ f[0] = document /\ 1 .. 0 = {}
    BY DEF NumberedTo
  <2> HIDE DEF f
  <2>2. Patches(f, document, delta, 0)
    BY <2>1, PatchesAre
  <2> QED BY <2>2
<1>2. ASSUME NEW n \in 1 .. m, n - 1 \in G
      PROVE  n \in G
  <2>1. n \in Nat /\ n - 1 \in Nat /\ n \in 0 .. m
    OBVIOUS
  <2>2. PICK f : Patches(f, document, delta, n - 1)
    BY <1>2
  <2>3. /\ NumberedTo(f, n - 1) /\ f[0] = document
        /\ \A k \in 1 .. n - 1 : f[k] = ApplyPatch(f[k - 1], delta[k])
    BY <2>1, <2>2, PatchesAre
  <2> DEFINE g == [k \in 0 .. n |-> IF k = n THEN ApplyPatch(f[n - 1], delta[n]) ELSE f[k]]
  <2>4. NumberedTo(g, n) /\ g[0] = document
    BY <2>1, <2>3 DEF NumberedTo
  <2>5. ASSUME NEW k \in 1 .. n PROVE g[k] = ApplyPatch(g[k - 1], delta[k])
    <3>1. k \in 0 .. n /\ k - 1 \in 0 .. n /\ k - 1 # n /\ g[k - 1] = f[k - 1]
      BY <2>1
    <3>2. CASE k = n
      BY <3>1, <3>2
    <3>3. CASE k # n
      <4>1. k \in 1 .. n - 1
        BY <2>1, <3>3
      <4> QED BY <2>3, <3>1, <3>3, <4>1
    <3> QED BY <3>2, <3>3
  <2> HIDE DEF g, G
  <2>6. \A k \in 1 .. n : g[k] = ApplyPatch(g[k - 1], delta[k])
    BY <2>5
  <2>7. n \in Nat
    BY <2>1
  <2>8. Patches(g, document, delta, n)
    BY <2>4, <2>6, <2>7, PatchesAre
  <2> QED BY <2>1, <2>8 DEF G
<1> HIDE DEF G
<1>3. 0 .. m \subseteq G
  BY <1>1, <1>2, StepByStep
<1>4. m \in 0 .. m
  OBVIOUS
<1>5. m \in G
  BY <1>3, <1>4
<1> QED BY <1>5 DEF G

LEMMA ApplyPatchesIs ==
  ASSUME NEW document, NEW delta, IsArray(delta)
  PROVE  \E f : Patches(f, document, delta, Len(delta))
                  /\ ApplyPatches(document, delta) = f[Len(delta)]
<1> DEFINE m == Len(delta)
           after == CHOOSE f : Patches(f, document, delta, m)
<1>1. m \in Nat
  BY ArrayFacts
<1>2. \E f : Patches(f, document, delta, m)
  <2> HIDE DEF m
  <2> QED BY <1>1, PatchesExist
<1>3. Patches(after, document, delta, m)
  <2> HIDE DEF m
  <2> QED BY <1>2
<1>4. ApplyPatches(document, delta) = after[m]
  BY DEF ApplyPatches, Patches
<1> QED BY <1>3, <1>4

\* An entry that one of the first m patches names and no later one of them overrides.
Lasts(e, patches, name, m) ==
  \E i \in 1 .. m :
    e \in Named(patches[i], name) /\ \A k \in i + 1 .. m : ~Overrides(patches[k], name, e.id)

LEMMA LastsLonger ==
  ASSUME NEW e, NEW patches, NEW name, NEW m \in Nat \ {0}
  PROVE  Lasts(e, patches, name, m)
           <=> \/ e \in Named(patches[m], name)
               \/ Lasts(e, patches, name, m - 1) /\ ~Overrides(patches[m], name, e.id)
<1>1. ASSUME NEW i \in 1 .. m, e \in Named(patches[i], name),
             \A k \in i + 1 .. m : ~Overrides(patches[k], name, e.id)
      PROVE  \/ e \in Named(patches[m], name)
             \/ Lasts(e, patches, name, m - 1) /\ ~Overrides(patches[m], name, e.id)
  <2>1. CASE i = m
    BY <1>1, <2>1
  <2>2. CASE i # m
    <3>1. i \in 1 .. m - 1 /\ m \in i + 1 .. m /\ \A k \in i + 1 .. m - 1 : k \in i + 1 .. m
      BY <2>2
    <3> QED BY <1>1, <3>1 DEF Lasts
  <2> QED BY <2>1, <2>2
<1>2. ASSUME e \in Named(patches[m], name)
      PROVE  Lasts(e, patches, name, m)
  <2>1. m \in 1 .. m /\ m + 1 .. m = {}
    OBVIOUS
  <2> QED BY <1>2, <2>1 DEF Lasts
<1>3. ASSUME Lasts(e, patches, name, m - 1), ~Overrides(patches[m], name, e.id)
      PROVE  Lasts(e, patches, name, m)
  <2>1. PICK i \in 1 .. m - 1 :
          /\ e \in Named(patches[i], name)
          /\ \A k \in i + 1 .. m - 1 : ~Overrides(patches[k], name, e.id)
    BY <1>3 DEF Lasts
  <2>2. i \in 1 .. m /\ \A k \in i + 1 .. m : k = m \/ k \in i + 1 .. m - 1
    OBVIOUS
  <2>3. \A k \in i + 1 .. m : ~Overrides(patches[k], name, e.id)
    BY <1>3, <2>1, <2>2
  <2> QED BY <2>1, <2>2, <2>3 DEF Lasts
<1>4. ASSUME Lasts(e, patches, name, m)
      PROVE  \/ e \in Named(patches[m], name)
             \/ Lasts(e, patches, name, m - 1) /\ ~Overrides(patches[m], name, e.id)
  <2>1. PICK i \in 1 .. m :
          e \in Named(patches[i], name) /\ \A k \in i + 1 .. m : ~Overrides(patches[k], name, e.id)
    BY <1>4 DEF Lasts
  <2> QED BY <1>1, <2>1
<1> QED BY <1>2, <1>3, <1>4

LEMMA EmptyDocument ==
  TidyDocument(<< >>) /\ \A name : EntriesOf(<< >>, name) = << >>
<1>1. \A name : EntriesOf(<< >>, name) = << >>
  <2>1. DOMAIN << >> = {}
    OBVIOUS
  <2> QED BY <2>1 DEF EntriesOf
<1> QED BY <1>1, EmptyIsTidy DEF TidyDocument

\* Induction over the patches: the document has what they set and no later one of them did.
LEMMA PatchesEffect ==
  ASSUME NEW delta, ValidDelta(delta)
  PROVE  /\ TidyDocument(ApplyPatches(<< >>, delta))
         /\ \A name \in Entries :
              Range(EntriesOf(ApplyPatches(<< >>, delta), name)) = Lasting(delta, name)
<1>1. /\ Len(delta) \in Nat /\ DOMAIN delta = 1 .. Len(delta)
      /\ \A n \in 1 .. Len(delta) : ValidPatch(delta[n])
  BY ArrayFacts DEF ValidDelta
<1>2. PICK f : Patches(f, << >>, delta, Len(delta)) /\ ApplyPatches(<< >>, delta) = f[Len(delta)]
  BY ApplyPatchesIs DEF ValidDelta
<1>3. f[0] = << >> /\ \A n \in 1 .. Len(delta) : f[n] = ApplyPatch(f[n - 1], delta[n])
  BY <1>1, <1>2, PatchesAre
<1> DEFINE Good(n) == /\ TidyDocument(f[n])
                      /\ \A name \in Entries : \A e :
                           e \in Range(EntriesOf(f[n], name)) <=> Lasts(e, delta, name, n)
           G == {n \in 0 .. Len(delta) : Good(n)}
<1>4. 0 \in G
  <2>1. \A name, e : ~Lasts(e, delta, name, 0)
    BY DEF Lasts
  <2>2. \A name, e : e \notin Range(EntriesOf(f[0], name))
    BY <1>3, EmptyDocument, EmptyIsTidy
  <2>3. TidyDocument(f[0])
    BY <1>3, EmptyDocument
  <2> QED BY <1>1, <2>1, <2>2, <2>3
<1>5. ASSUME NEW n \in 1 .. Len(delta), n - 1 \in G
      PROVE  n \in G
  <2>1. n \in Nat \ {0} /\ n \in 0 .. Len(delta)
    BY <1>1
  <2>2. Good(n - 1)
    BY <1>5
  <2>3. f[n] = ApplyPatch(f[n - 1], delta[n]) /\ ValidPatch(delta[n])
    BY <1>1, <1>3
  <2>4. ASSUME NEW name \in Entries
        PROVE  /\ Tidy(EntriesOf(f[n], name))
               /\ \A e : e \in Range(EntriesOf(f[n], name)) <=> Lasts(e, delta, name, n)
    <3>1. /\ Tidy(EntriesOf(f[n], name))
          /\ \A e : e \in Range(EntriesOf(f[n], name)) <=> Sets(delta[n], f[n - 1], name, e)
      BY <2>2, <2>3, PatchEffect
    <3>2. ASSUME NEW e
          PROVE  Sets(delta[n], f[n - 1], name, e) <=> Lasts(e, delta, name, n)
      <4>1. e \in Range(EntriesOf(f[n - 1], name)) <=> Lasts(e, delta, name, n - 1)
        BY <2>2
      <4>2. Lasts(e, delta, name, n)
              <=> \/ e \in Named(delta[n], name)
                  \/ Lasts(e, delta, name, n - 1) /\ ~Overrides(delta[n], name, e.id)
        BY <2>1, LastsLonger
      <4> QED BY <4>1, <4>2 DEF Sets
    <3> QED BY <3>1, <3>2
  <2>5. Good(n)
    BY <2>4 DEF TidyDocument
  <2> QED BY <2>1, <2>5
<1>6. Good(Len(delta))
  <2>1. 0 .. Len(delta) \subseteq G
    <3> HIDE DEF G
    <3> QED BY <1>1, <1>4, <1>5, StepByStep
  <2> QED BY <1>1, <2>1
<1>7. ASSUME NEW name, NEW e
      PROVE  e \in Lasting(delta, name) <=> Lasts(e, delta, name, Len(delta))
  BY <1>1 DEF Lasting, Lasts
<1>8. ASSUME NEW name \in Entries
      PROVE  Range(EntriesOf(ApplyPatches(<< >>, delta), name)) = Lasting(delta, name)
  <2>1. \A e : e \in Range(EntriesOf(ApplyPatches(<< >>, delta), name))
                 <=> e \in Lasting(delta, name)
    BY <1>2, <1>6, <1>7
  <2> QED BY <2>1
<1> QED BY <1>2, <1>6, <1>8

\* Patches applied after others are applied as if they were all of one delta.
LEMMA PatchesContinue ==
  ASSUME NEW document, NEW first, NEW second, IsArray(first), IsArray(second)
  PROVE  ApplyPatches(ApplyPatches(document, first), second)
           = ApplyPatches(document, first \o second)
<1> DEFINE all == first \o second
           m == Len(first)
           n == Len(second)
           between == ApplyPatches(document, first)
<1>1. /\ m \in Nat /\ DOMAIN first = 1 .. m /\ n \in Nat /\ DOMAIN second = 1 .. n
  BY ArrayFacts
<1>2. /\ IsArray(all) /\ Len(all) = m + n
      /\ \A i \in 1 .. m : all[i] = first[i]
      /\ \A i \in 1 .. n : all[m + i] = second[i]
  BY <1>1, ArraysConcatenated
<1> HIDE DEF all, m, n, between
<1>3. PICK f : Patches(f, document, first, m) /\ between = f[m]
  BY ApplyPatchesIs DEF m, between
<1>4. PICK g : Patches(g, between, second, n) /\ ApplyPatches(between, second) = g[n]
  BY ApplyPatchesIs DEF n
<1>5. PICK h : Patches(h, document, all, m + n) /\ ApplyPatches(document, all) = h[m + n]
  BY <1>2, ApplyPatchesIs
<1>6. f[0] = document /\ \A i \in 1 .. m : f[i] = ApplyPatch(f[i - 1], first[i])
  BY <1>1, <1>3, PatchesAre
<1>7. g[0] = between /\ \A i \in 1 .. n : g[i] = ApplyPatch(g[i - 1], second[i])
  BY <1>1, <1>4, PatchesAre
<1>8. h[0] = document /\ \A i \in 1 .. m + n : h[i] = ApplyPatch(h[i - 1], all[i])
  <2>1. m + n \in Nat
    BY <1>1
  <2> QED BY <1>5, <2>1, PatchesAre
<1>9. h[m] = between
  <2> DEFINE G == {i \in 0 .. m : h[i] = f[i]}
  <2>1. 0 \in G
    BY <1>1, <1>6, <1>8
  <2>2. ASSUME NEW i \in 1 .. m, i - 1 \in G PROVE i \in G
    <3>1. i \in 1 .. m + n /\ i \in 0 .. m
      BY <1>1
    <3>2. h[i] = ApplyPatch(f[i - 1], first[i])
      BY <1>2, <1>8, <2>2, <3>1
    <3> QED BY <1>6, <3>1, <3>2
  <2>3. 0 .. m \subseteq G
    <3> HIDE DEF G
    <3> QED BY <1>1, <2>1, <2>2, StepByStep
  <2> QED BY <1>1, <1>3, <2>3
<1>10. h[m + n] = g[n]
  <2> DEFINE G == {i \in 0 .. n : h[m + i] = g[i]}
  <2>1. 0 \in G
    BY <1>1, <1>7, <1>9
  <2>2. ASSUME NEW i \in 1 .. n, i - 1 \in G PROVE i \in G
    <3>1. m + i \in 1 .. m + n /\ i \in 0 .. n /\ (m + i) - 1 = m + (i - 1)
      BY <1>1
    <3>2. h[m + i] = ApplyPatch(h[m + (i - 1)], all[m + i])
      BY <1>8, <3>1
    <3>3. h[m + i] = ApplyPatch(g[i - 1], second[i])
      BY <1>2, <2>2, <3>2
    <3> QED BY <1>7, <3>1, <3>3
  <2>3. 0 .. n \subseteq G
    <3> HIDE DEF G
    <3> QED BY <1>1, <2>1, <2>2, StepByStep
  <2> QED BY <1>1, <2>3
<1> QED BY <1>4, <1>5, <1>10 DEF between, all

LEMMA NoPatches == ValidDelta(<< >>) /\ ApplyPatches(<< >>, << >>) = << >>
<1>1. IsArray(<< >>) /\ Len(<< >>) = 0
  BY EmptyIsTidy DEF Tidy
<1>2. PICK f : Patches(f, << >>, << >>, 0) /\ ApplyPatches(<< >>, << >>) = f[0]
  BY <1>1, ApplyPatchesIs
<1>3. f[0] = << >>
  BY <1>2, PatchesAre
<1> QED BY <1>1, <1>2, <1>3 DEF ValidDelta

LEMMA ValidTogether ==
  ASSUME NEW first, NEW second, ValidDelta(first), ValidDelta(second)
  PROVE  ValidDelta(first \o second)
<1>1. /\ IsArray(first \o second)
      /\ \A i \in DOMAIN first : (first \o second)[i] = first[i]
      /\ \A i \in DOMAIN second : (first \o second)[Len(first) + i] = second[i]
      /\ \A k \in DOMAIN (first \o second) : k \in DOMAIN first \/ k - Len(first) \in DOMAIN second
      /\ DOMAIN (first \o second) = 1 .. Len(first) + Len(second)
  BY ArraysConcatenated DEF ValidDelta
<1>2. Len(first) \in Nat /\ Len(second) \in Nat
  BY ArrayFacts DEF ValidDelta
<1>3. ASSUME NEW k \in DOMAIN (first \o second)
      PROVE  ValidPatch((first \o second)[k])
  <2>1. k = Len(first) + (k - Len(first))
    BY <1>1, <1>2
  <2> QED BY <1>1, <2>1 DEF ValidDelta
<1> QED BY <1>1, <1>3 DEF ValidDelta

-----------------------------------------------------------------------------
(* Documents: the invariant                                                *)

\* A node has answered for the create request only what it makes of a valid delta.
AnswerIsOfCreate ==
  answer # NotFound =>
    ValidDelta(create.delta) /\ answer = External(CreatedState(create), "short", FALSE)

\* The document of a DID that is not deactivated is made of the patches of the log, which are
\* none as long as it cannot be updated.
StateIsOfLog ==
  /\ ValidDelta(log)
  /\ state = [document |-> state.document, recoverable |-> state.recoverable,
              updatable |-> state.updatable]
  /\ state.updatable => state.recoverable
  /\ state.recoverable => state.document = ApplyPatches(<< >>, log)
  /\ state.recoverable /\ ~state.updatable => log = << >>

DocumentsInv == create.matches \in BOOLEAN /\ AnswerIsOfCreate /\ StateIsOfLog

LEMMA StartsEmpty == DocumentsInit => DocumentsInv
BY NoPatches DEF DocumentsInit, DocumentsInv, AnswerIsOfCreate, StateIsOfLog, Unknown

\* A create or a recovery starts a log of its own.
LEMMA FromEmptyIsOfLog ==
  ASSUME NEW delta, NEW usable \in BOOLEAN, usable => ValidDelta(delta),
         state' = FromEmpty(delta, usable), log' = IF usable THEN delta ELSE << >>
  PROVE  StateIsOfLog'
<1>1. CASE usable
  BY <1>1 DEF FromEmpty, StateIsOfLog
<1>2. CASE ~usable
  BY <1>2, NoPatches DEF FromEmpty, StateIsOfLog
<1> QED BY <1>1, <1>2

LEMMA StepsKeepInv ==
  ASSUME DocumentsInv, [DocumentsNext]_documentsVars
  PROVE  DocumentsInv'
<1>1. CASE CreateRequest
  BY <1>1 DEF CreateRequest, DocumentsInv, AnswerIsOfCreate, StateIsOfLog, CreatedState
<1>2. CASE AnchorCreate
  <2>1. StateIsOfLog'
    BY <1>2, FromEmptyIsOfLog DEF AnchorCreate, CreatedState, DocumentsInv
  <2> QED BY <1>2, <2>1 DEF AnchorCreate, DocumentsInv, AnswerIsOfCreate, CreatedState
<1>3. ASSUME NEW delta, NEW matches \in BOOLEAN, NEW arrives \in BOOLEAN,
             Update(delta, matches, arrives)
      PROVE  DocumentsInv'
  <2>1. ValidDelta(delta) /\ state.updatable /\ log' = log \o delta
        /\ state' = UpdatedState(state, delta)
    BY <1>3 DEF Update, IsUsable
  <2>2. /\ ValidDelta(log) /\ state.recoverable /\ state.document = ApplyPatches(<< >>, log)
        /\ state = [document |-> state.document, recoverable |-> state.recoverable,
                    updatable |-> state.updatable]
    BY <2>1 DEF DocumentsInv, StateIsOfLog
  <2>3. ApplyPatches(state.document, delta) = ApplyPatches(<< >>, log \o delta)
    BY <2>1, <2>2, PatchesContinue DEF ValidDelta
  <2>4. ValidDelta(log \o delta)
    BY <2>1, <2>2, ValidTogether
  <2>5. state' = [document |-> ApplyPatches(state.document, delta),
                  recoverable |-> state.recoverable, updatable |-> state.updatable]
    BY <2>1, <2>2 DEF UpdatedState
  <2>6. StateIsOfLog'
    BY <2>1, <2>2, <2>3, <2>4, <2>5 DEF StateIsOfLog
  <2> QED BY <1>3, <2>6 DEF Update, DocumentsInv, AnswerIsOfCreate, CreatedState
<1>4. ASSUME NEW delta, NEW matches \in BOOLEAN, NEW arrives \in BOOLEAN,
             Recover(delta, matches, arrives)
      PROVE  DocumentsInv'
  <2> DEFINE usable == IsUsable(delta, matches, arrives)
  <2>1. usable \in BOOLEAN /\ (usable => ValidDelta(delta))
    BY DEF IsUsable
  <2>2. state' = FromEmpty(delta, usable) /\ log' = IF usable THEN delta ELSE << >>
    BY <1>4 DEF Recover
  <2> HIDE DEF usable
  <2>3. StateIsOfLog'
    BY <2>1, <2>2, FromEmptyIsOfLog
  <2> QED BY <1>4, <2>3 DEF Recover, DocumentsInv, AnswerIsOfCreate, CreatedState
<1>5. CASE Deactivate
  <2>1. state' = [document |-> state.document, recoverable |-> FALSE, updatable |-> FALSE]
    BY <1>5 DEF Deactivate, DeactivatedState, DocumentsInv, StateIsOfLog
  <2>2. state'.document = state.document /\ ~state'.recoverable /\ ~state'.updatable
    BY <2>1
  <2>3. StateIsOfLog'
    BY <1>5, <2>1, <2>2 DEF Deactivate, DocumentsInv, StateIsOfLog
  <2> QED BY <1>5, <2>3 DEF Deactivate, DocumentsInv, AnswerIsOfCreate, CreatedState
<1>6. CASE UNCHANGED documentsVars
  BY <1>6 DEF documentsVars, DocumentsInv, AnswerIsOfCreate, StateIsOfLog, CreatedState
<1> QED BY <1>1, <1>2, <1>3, <1>4, <1>5, <1>6 DEF DocumentsNext

LEMMA AlwaysDocumentsInv == DocumentsSpec => []DocumentsInv
<1>1. DocumentsInit => DocumentsInv
  BY StartsEmpty
<1>2. DocumentsInv /\ [DocumentsNext]_documentsVars => DocumentsInv'
  BY StepsKeepInv
<1> QED BY <1>1, <1>2, PTL DEF DocumentsSpec

-----------------------------------------------------------------------------
(* Documents: what is shown                                                *)

\* The keys as the client sees them.
Methods(keys) == [i \in DOMAIN keys |-> [id |-> keys[i].id, value |-> keys[i].value]]

LEMMA ExternalIs ==
  ASSUME NEW s, NEW form, NEW published, s.recoverable
  PROVE  /\ External(s, form, published).verificationMethod =
              Methods(EntriesOf(s.document, "publicKeys"))
         /\ External(s, form, published).service = EntriesOf(s.document, "services")
         /\ \A p \in Purposes :
              External(s, form, published).relationships[p] =
                References(EntriesOf(s.document, "publicKeys"), p)
         /\ External(s, form, published).updatable = s.updatable
BY DEF External, Methods

LEMMA DeactivatedIs ==
  ASSUME NEW s, NEW form, NEW published, ~s.recoverable
  PROVE  /\ External(s, form, published).verificationMethod = << >>
         /\ External(s, form, published).service = << >>
         /\ \A p \in Purposes : External(s, form, published).relationships[p] = << >>
BY DEF External, Deactivated

\* What makes a state worth showing.
Showable(s) ==
  s.recoverable => TidyDocument(s.document) /\ (~s.updatable => s.document = << >>)

LEMMA ShownAre ==
  ASSUME DocumentsInv, NEW document \in Shown
  PROVE  \E s, form, published : Showable(s) /\ document = External(s, form, published)
<1>1. ASSUME known
      PROVE  Showable(state)
  BY PatchesEffect, NoPatches DEF DocumentsInv, StateIsOfLog, Showable
<1>2. ASSUME ValidDelta(create.delta)
      PROVE  Showable(CreatedState(create))
  BY <1>2, PatchesEffect, EmptyDocument DEF DocumentsInv, Showable, CreatedState, FromEmpty
<1>3. CASE document = ResolveShort
  <2>1. known /\ document = External(state, "short", TRUE)
    BY <1>3 DEF ResolveShort, Shown
  <2> QED BY <1>1, <2>1
<1>4. CASE document = ResolveLong
  <2>1. CASE known /\ LongFormParses
    <3>1. document = External(state, "long", TRUE)
      BY <1>4, <2>1 DEF ResolveLong
    <3> QED BY <1>1, <2>1, <3>1
  <2>2. CASE ~known /\ LongFormParses
    <3>1. document = External(CreatedState(create), "long", FALSE)
      BY <1>4, <2>2 DEF ResolveLong
    <3> QED BY <1>2, <2>2, <3>1 DEF LongFormParses
  <2>3. CASE ~LongFormParses
    BY <1>4, <2>3 DEF ResolveLong, Shown
  <2> QED BY <2>1, <2>2, <2>3
<1>5. CASE document = answer
  <2>1. ValidDelta(create.delta) /\ document = External(CreatedState(create), "short", FALSE)
    BY <1>5 DEF DocumentsInv, AnswerIsOfCreate, Shown
  <2> QED BY <1>2, <2>1
<1> QED BY <1>3, <1>4, <1>5 DEF Shown

LEMMA ReferencesAre ==
  ASSUME NEW keys, Tidy(keys), NEW p
  PROVE  /\ IsInjective(References(keys, p))
         /\ \A x : x \in Range(References(keys, p))
                     <=> \E key \in Range(keys) : p \in Range(key.purposes) /\ x = key.id
<1> DEFINE places == {i \in DOMAIN keys : p \in Range(keys[i].purposes)}
           with == Picked(keys, places)
           refs == References(keys, p)
<1>1. refs = [i \in DOMAIN with |-> with[i].id]
  BY DEF References
<1>2. IdsDiffer(with) /\ \A e : e \in Range(with) <=> \E i \in places : e = keys[i]
  <2>1. \A i, j \in places : keys[i].id = keys[j].id => i = j
    BY DEF Tidy, IdsDiffer
  <2>2. places \subseteq DOMAIN keys
    OBVIOUS
  <2> HIDE DEF places
  <2> QED BY <2>1, <2>2, PickedIsTidy DEF Tidy
<1>3. \A key : (\E i \in places : key = keys[i])
                 <=> key \in Range(keys) /\ p \in Range(key.purposes)
  BY DEF Range
<1> HIDE DEF with, refs, places
<1>4. IsInjective(refs)
  BY <1>1, <1>2 DEF IdsDiffer, IsInjective
<1>5. ASSUME NEW x
      PROVE  x \in Range(refs) <=> \E key \in Range(with) : x = key.id
  BY <1>1 DEF Range
<1> QED BY <1>2, <1>3, <1>4, <1>5 DEF refs

\* No two keys and no two services of a document a node answers with have the same id, and no
\* key is referred to twice for one purpose, whatever patches were accepted.
THEOREM AlwaysUnambiguousIds == DocumentsSpec => []UnambiguousIds
<1>1. DocumentsInv => UnambiguousIds
  <2> SUFFICES ASSUME DocumentsInv, NEW document \in Shown
               PROVE  /\ IdsDiffer(document.verificationMethod) /\ IdsDiffer(document.service)
                      /\ \A p \in Purposes : IsInjective(document.relationships[p])
    BY DEF UnambiguousIds, IdsDiffer
  <2>1. PICK s, form, published : Showable(s) /\ document = External(s, form, published)
    BY ShownAre
  <2>2. CASE s.recoverable
    <3> DEFINE keys == EntriesOf(s.document, "publicKeys")
    <3>1. Tidy(keys) /\ Tidy(EntriesOf(s.document, "services"))
      BY <2>1, <2>2 DEF Showable, TidyDocument, Entries
    <3>2. /\ document.verificationMethod = Methods(keys)
          /\ document.service = EntriesOf(s.document, "services")
          /\ \A p \in Purposes : document.relationships[p] = References(keys, p)
      BY <2>1, <2>2, ExternalIs
    <3> HIDE DEF keys
    <3>3. IdsDiffer(document.verificationMethod)
      BY <3>1, <3>2 DEF Tidy, IdsDiffer, Methods
    <3> QED BY <3>1, <3>2, <3>3, ReferencesAre DEF Tidy
  <2>3. CASE ~s.recoverable
    <3>1. /\ document.verificationMethod = << >> /\ document.service = << >>
          /\ \A p \in Purposes : document.relationships[p] = << >>
      BY <2>1, <2>3, DeactivatedIs
    <3>2. IdsDiffer(<< >>) /\ IsInjective(<< >>)
      BY EmptyIsTidy DEF Tidy, IsInjective
    <3> QED BY <3>1, <3>2
  <2> QED BY <2>2, <2>3
<1> QED BY <1>1, AlwaysDocumentsInv, PTL

\* The document of a DID that is not deactivated has exactly the keys and services that a
\* patch since the create or the last recovery set and no later one overrode.
THEOREM AlwaysShowsThePatches == DocumentsSpec => []ShowsThePatches
<1>1. DocumentsInv => ShowsThePatches
  <2> SUFFICES ASSUME DocumentsInv, known, state.recoverable
               PROVE  /\ Range(ResolveShort.verificationMethod)
                           = {[id |-> key.id, value |-> key.value] :
                                key \in Lasting(log, "publicKeys")}
                      /\ Range(ResolveShort.service) = Lasting(log, "services")
                      /\ \A p \in Purposes :
                           Range(ResolveShort.relationships[p]) =
                             {key.id : key \in {k \in Lasting(log, "publicKeys") :
                                                  p \in Range(k.purposes)}}
    BY DEF ShowsThePatches
  <2> DEFINE keys == EntriesOf(state.document, "publicKeys")
             services == EntriesOf(state.document, "services")
             lasting == Lasting(log, "publicKeys")
  <2>1. ResolveShort = External(state, "short", TRUE)
    BY DEF ResolveShort
  <2>2. /\ ResolveShort.verificationMethod = Methods(keys)
        /\ ResolveShort.service = services
        /\ \A p \in Purposes : ResolveShort.relationships[p] = References(keys, p)
    <3>0. PICK published : ResolveShort = External(state, "short", published)
      BY <2>1
    <3> DEFINE document == External(state, "short", published)
    <3>1. /\ document.verificationMethod = Methods(keys) /\ document.service = services
          /\ \A p \in Purposes : document.relationships[p] = References(keys, p)
      BY ExternalIs
    <3> HIDE DEF document, keys, services
    <3> QED BY <3>0, <3>1 DEF document
  <2>3. /\ Tidy(keys) /\ Range(keys) = lasting /\ Range(services) = Lasting(log, "services")
    <3>1. ValidDelta(log) /\ state.document = ApplyPatches(<< >>, log)
      BY DEF DocumentsInv, StateIsOfLog
    <3>2. "publicKeys" \in Entries /\ "services" \in Entries
      BY DEF Entries
    <3> QED BY <3>1, <3>2, PatchesEffect DEF TidyDocument
  <2> HIDE DEF keys, services, lasting
  <2>4. Range(ResolveShort.verificationMethod)
          = {[id |-> key.id, value |-> key.value] : key \in Range(keys)}
    BY <2>2 DEF Range, Methods
  <2>5. ASSUME NEW p \in Purposes
        PROVE  Range(ResolveShort.relationships[p])
                 = {key.id : key \in {k \in lasting : p \in Range(k.purposes)}}
    <3>1. \A x : x \in Range(References(keys, p))
                   <=> \E key \in Range(keys) : p \in Range(key.purposes) /\ x = key.id
      BY <2>3, ReferencesAre
    <3>2. \A x : x \in Range(References(keys, p))
                   <=> x \in {key.id : key \in {k \in lasting : p \in Range(k.purposes)}}
      BY <2>3, <3>1
    <3>3. Range(References(keys, p)) = {key.id : key \in {k \in lasting : p \in Range(k.purposes)}}
      BY <3>2
    <3> QED BY <2>2, <3>3
  <2> QED BY <2>2, <2>3, <2>4, <2>5 DEF lasting
<1> QED BY <1>1, AlwaysDocumentsInv, PTL

\* The long form of a DID shows what its short form shows once the DID is anchored, and
\* before that what the node answered the create request with; and the short form shows that
\* answer as long as only the create has been applied.
THEOREM AlwaysFormsAgree == DocumentsSpec => []FormsAgree
<1>1. DocumentsInv => FormsAgree
  <2> SUFFICES ASSUME DocumentsInv PROVE FormsAgree
    OBVIOUS
  <2>1. ASSUME NEW s, NEW form, NEW to, NEW before, NEW after
        PROVE  SameContent(External(s, form, before), External(s, to, after))
    BY DEF SameContent, External, Deactivated
  <2>2. ASSUME known, ResolveLong # NotFound
        PROVE  SameContent(ResolveShort, ResolveLong)
    <3>1. ResolveLong = External(state, "long", TRUE)
      BY <2>2 DEF ResolveLong
    <3> QED BY <2>1, <2>2, <3>1 DEF ResolveShort
  <2>3. ASSUME ~known, answer # NotFound
        PROVE  SameContent(answer, ResolveLong)
    <3>1. LongFormParses /\ answer = External(CreatedState(create), "short", FALSE)
      BY <2>3 DEF DocumentsInv, AnswerIsOfCreate, LongFormParses
    <3>2. ResolveLong = External(CreatedState(create), "long", FALSE)
      BY <2>3, <3>1 DEF ResolveLong
    <3> QED BY <2>1, <3>1, <3>2
  <2>4. ASSUME known, answer # NotFound, create.matches, state.updatable, log = create.delta
        PROVE  SameContent(answer, ResolveShort)
    <3>1. answer = External(CreatedState(create), "short", FALSE)
      BY <2>4 DEF DocumentsInv, AnswerIsOfCreate
    <3>2. CreatedState(create) = [document |-> ApplyPatches(<< >>, create.delta),
                                  recoverable |-> TRUE, updatable |-> TRUE]
      BY <2>4 DEF CreatedState, FromEmpty
    <3>3. /\ state = [document |-> state.document, recoverable |-> state.recoverable,
                      updatable |-> state.updatable]
          /\ state.recoverable /\ state.document = ApplyPatches(<< >>, create.delta)
      BY <2>4 DEF DocumentsInv, StateIsOfLog
    <3>4. /\ EntriesOf(state.document, "publicKeys")
               = EntriesOf(CreatedState(create).document, "publicKeys")
          /\ EntriesOf(state.document, "services")
               = EntriesOf(CreatedState(create).document, "services")
      BY <3>2, <3>3
    <3>5. ResolveShort = External(state, "short", TRUE)
      BY <2>4 DEF ResolveShort
    <3> QED
      BY <2>4, <3>1, <3>2, <3>3, <3>4, <3>5 DEF SameContent, External
  <2> QED BY <2>2, <2>3, <2>4 DEF FormsAgree
<1> QED BY <1>1, AlwaysDocumentsInv, PTL

\* A DID that can no longer be updated shows nothing.
THEOREM AlwaysShownCanBeUpdated == DocumentsSpec => []ShownCanBeUpdated
<1>1. DocumentsInv => ShownCanBeUpdated
  <2> SUFFICES ASSUME DocumentsInv, NEW document \in Shown, ~document.updatable
               PROVE  document.verificationMethod = << >> /\ document.service = << >>
    BY DEF ShownCanBeUpdated
  <2>1. PICK s, form, published : Showable(s) /\ document = External(s, form, published)
    BY ShownAre
  <2>2. CASE s.recoverable
    <3>1. s.document = << >>
      BY <2>1, <2>2, ExternalIs DEF Showable
    <3>2. EntriesOf(s.document, "publicKeys") = << >> /\ EntriesOf(s.document, "services") = << >>
      BY <3>1, EmptyDocument
    <3>3. document.verificationMethod = Methods(<< >>) /\ document.service = << >>
      BY <2>1, <2>2, <3>2, ExternalIs
    <3>4. Methods(<< >>) = << >>
      BY DEF Methods
    <3> QED BY <3>3, <3>4
  <2>3. CASE ~s.recoverable
    BY <2>1, <2>3, DeactivatedIs
  <2> QED BY <2>2, <2>3
<1> QED BY <1>1, AlwaysDocumentsInv, PTL
==============================================================================
