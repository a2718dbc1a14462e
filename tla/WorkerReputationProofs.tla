------------------------ MODULE WorkerReputationProofs ------------------------
(***************************************************************************)
(* The Worker's loops against the sets of Reputation, for any receipts,    *)
(* jobs and successions.  A loop is a fold over a list that is in the      *)
(* order of completedAt.  So what the loop has made of the receipts in     *)
(* front of it can be said of the set of those receipts; that is right at  *)
(* the start, every round keeps it right, and no other function does the   *)
(* same at every round.                                                    *)
(***************************************************************************)
EXTENDS WorkerReputation, FiniteSetTheorems, WellFoundedInduction, TLAPS

-----------------------------------------------------------------------------
(* Least and greatest elements, and what is in order. *)

LEMMA LeastOf ==
    ASSUME NEW S \in SUBSET Nat, S # {}
    PROVE  \E i \in S : \A j \in S : i <= j
<1>1. PICK i \in S : \A j \in S : ~ (<<j, i>> \in OpToRel(<, Nat))
  BY NatLessThanWellFounded, WFMin
<1>2. \A j \in S : ~ (j < i)
  BY <1>1 DEF OpToRel
<1> QED
  BY <1>2

\* The greatest element of a set of numbers up to n.
LEMMA GreatestOf ==
    ASSUME NEW n \in Nat, NEW S \in SUBSET (1 .. n), S # {}
    PROVE  Max(S) \in S /\ \A j \in S : j <= Max(S)
<1>1. PICK T : T = {n - j : j \in S}
  OBVIOUS
<1>2. T \in SUBSET Nat /\ T # {}
  <2>1. \A j \in S : n - j \in Nat
    OBVIOUS
  <2> QED
    BY <1>1, <2>1
<1>3. PICK t \in T : \A u \in T : t <= u
  BY <1>2, LeastOf
<1>4. PICK i \in S : t = n - i
  BY <1>1, <1>3
<1>5. \A j \in S : j <= i
  <2>1. ASSUME NEW j \in S PROVE j <= i
    <3>1. n - i <= n - j /\ i \in Nat /\ j \in Nat
      BY <1>1, <1>3, <1>4
    <3> QED
      BY <3>1
  <2> QED
    BY <2>1
<1>6. \E x \in S : \A y \in S : x >= y
  BY <1>5
<1>7. Max(S) \in S /\ \A y \in S : Max(S) >= y
  BY <1>6 DEF Max
<1> QED
  BY <1>7

IsAscending(l, N, S) ==
    /\ l \in [1 .. N -> S]
    /\ \A m, n \in 1 .. N : m < n => l[m] < l[n]

LEMMA AscendingExists ==
    ASSUME NEW n \in Nat, NEW S \in SUBSET (1 .. n)
    PROVE  IsFiniteSet(S) /\ \E l : IsAscending(l, Cardinality(S), S)
<1>0. ASSUME NEW T \in SUBSET (1 .. n) PROVE IsFiniteSet(T) /\ Cardinality(T) \in Nat
  <2>1. IsFiniteSet(1 .. n)
    BY FS_Interval
  <2>2. IsFiniteSet(T)
    BY <2>1, FS_Subset
  <2> QED
    BY <2>2, FS_CardinalityType
<1> DEFINE Bad(k, T) == Cardinality(T) = k /\ \A l : ~IsAscending(l, k, T)
           D == {k \in Nat : \E T \in SUBSET (1 .. n) : Bad(k, T)}
<1>1. ASSUME D # {} PROVE FALSE
  <2>1. PICK k \in D : \A j \in D : k <= j
    <3>1. D \in SUBSET Nat
      OBVIOUS
    <3> HIDE DEF D
    <3> QED
      BY <1>1, <3>1, LeastOf
  <2>2. PICK T \in SUBSET (1 .. n) : Bad(k, T)
    BY <2>1
  <2>3. k \in Nat
    BY <2>1
  <2>4. T # {}
    <3>1. ASSUME T = {} PROVE FALSE
      <4>1. k = 0
        BY <2>2, <3>1, FS_EmptySet
      <4>2. PICK l : l = [j \in 1 .. 0 |-> 0]
        OBVIOUS
      <4>3. IsAscending(l, 0, T)
        BY <4>2 DEF IsAscending
      <4> QED
        BY <2>2, <4>1, <4>3
    <3> QED
      BY <3>1
  <2>5. PICK m \in T : \A j \in T : j <= m
    BY <2>4, GreatestOf
  <2>6. PICK U \in SUBSET (1 .. n) : U = T \ {m}
    OBVIOUS
  <2>7. Cardinality(U) = k - 1 /\ k - 1 \in Nat
    <3>1. Cardinality(U) = k - 1
      BY <1>0, <2>2, <2>5, <2>6, FS_RemoveElement
    <3> QED
      BY <1>0, <3>1
  <2>8. PICK l : IsAscending(l, k - 1, U)
    <3>1. ASSUME \A l : ~IsAscending(l, k - 1, U) PROVE FALSE
      <4>1. Bad(k - 1, U)
        BY <2>7, <3>1
      <4>2. k - 1 \in D
        BY <2>7, <4>1
      <4> QED
        BY <2>1, <2>3, <4>2
    <3> QED
      BY <3>1
  <2>9. PICK w : w = [j \in 1 .. k |-> IF j = k THEN m ELSE l[j]]
    OBVIOUS
  <2>10. \A j \in 1 .. k - 1 : l[j] \in U
    BY <2>8 DEF IsAscending
  <2>11. w \in [1 .. k -> T]
    <3>1. ASSUME NEW j \in 1 .. k PROVE w[j] \in T
      <4>1. j = k \/ j \in 1 .. k - 1
        BY <2>3
      <4> QED
        BY <2>5, <2>6, <2>9, <2>10, <4>1
    <3> QED
      BY <2>9, <3>1
  <2>12. ASSUME NEW a \in 1 .. k, NEW b \in 1 .. k, a < b PROVE w[a] < w[b]
    <3>1. a \in 1 .. k - 1 /\ a # k /\ w[a] = l[a] /\ l[a] \in U
      BY <2>3, <2>9, <2>10, <2>12
    <3>2. CASE b = k
      <4>1. w[b] = m /\ l[a] # m /\ l[a] <= m
        BY <2>5, <2>6, <2>9, <3>1, <3>2
      <4>2. \A j \in T : j \in Nat
        OBVIOUS
      <4>3. l[a] \in Nat /\ m \in Nat
        BY <2>6, <3>1, <4>2
      <4> QED
        BY <3>1, <4>1, <4>3
    <3>3. CASE b # k
      <4>1. b \in 1 .. k - 1 /\ w[b] = l[b]
        BY <2>3, <2>9, <3>3
      <4> QED
        BY <2>8, <2>12, <3>1, <4>1 DEF IsAscending
    <3> QED
      BY <3>2, <3>3
  <2>13. IsAscending(w, k, T)
    BY <2>11, <2>12 DEF IsAscending
  <2> QED
    BY <2>2, <2>13
<1>2. ~Bad(Cardinality(S), S)
  BY <1>0, <1>1
<1> QED
  BY <1>0, <1>2

\* What the list is: everything in the set, once, in order.
IsList(l, N, S) == IsAscending(l, N, S) /\ S = {l[k] : k \in 1 .. N}

LEMMA EarliestFirstIs ==
    ASSUME NEW n \in Nat, NEW S \in SUBSET (1 .. n)
    PROVE  /\ IsFiniteSet(S) /\ Cardinality(S) \in Nat
           /\ IsList(EarliestFirst(S), Cardinality(S), S)
<1>1. IsFiniteSet(S) /\ \E l : IsAscending(l, Cardinality(S), S)
  BY AscendingExists
<1>2. PICK N \in Nat : N = Cardinality(S)
  BY <1>1, FS_CardinalityType
<1>3. PICK l : l = EarliestFirst(S)
  OBVIOUS
<1>4. \E w \in [1 .. N -> S] : \A a, b \in DOMAIN w : a < b => w[a] < w[b]
  <2>1. PICK w : IsAscending(w, N, S)
    BY <1>1, <1>2
  <2>2. w \in [1 .. N -> S] /\ DOMAIN w = 1 .. N
    BY <2>1 DEF IsAscending
  <2> QED
    BY <2>1, <2>2 DEF IsAscending
<1>5. l \in [1 .. N -> S] /\ \A a, b \in DOMAIN l : a < b => l[a] < l[b]
  BY <1>2, <1>3, <1>4 DEF EarliestFirst
<1>6. IsAscending(l, N, S)
  BY <1>5 DEF IsAscending
<1>7. l \in Injection(1 .. N, S)
  <2>1. ASSUME NEW a \in 1 .. N, NEW b \in 1 .. N, l[a] = l[b] PROVE a = b
    <3>1. a < b \/ b < a \/ a = b
      OBVIOUS
    <3>2. l[a] \in Nat /\ l[b] \in Nat
      <4>1. l[a] \in S /\ l[b] \in S
        BY <1>5
      <4>2. \A i \in S : i \in Nat
        OBVIOUS
      <4> QED
        BY <4>1, <4>2
    <3>3. ~(l[a] < l[b]) /\ ~(l[b] < l[a])
      BY <2>1, <3>2
    <3> QED
      BY <1>6, <3>1, <3>3 DEF IsAscending
  <2> QED
    BY <1>5, <2>1 DEF Injection, IsInjective
<1>8. Cardinality(1 .. N) = N
  BY FS_Interval
<1>9. l \in Surjection(1 .. N, S)
  BY <1>1, <1>2, <1>7, <1>8, FS_Injection
<1>10. S = {l[k] : k \in 1 .. N}
  BY <1>5, <1>9 DEF Surjection
<1> QED
  BY <1>1, <1>2, <1>3, <1>6, <1>10 DEF IsList

-----------------------------------------------------------------------------
(* Folds. *)

Picks(pick, S) == \A s \in SUBSET S : s # {} => pick[s] \in s

Over(g, S) == g = [s \in SUBSET S |-> g[s]]

SameSteps(g, h, pick, S) ==
    /\ g[{}] = h[{}]
    /\ \A s \in SUBSET S : s # {} /\ g[s \ {pick[s]}] = h[s \ {pick[s]}] => g[s] = h[s]

\* Two functions that do the same with the rest of a set agree.
LEMMA FoldsAgree ==
    ASSUME NEW S, IsFiniteSet(S), NEW pick, Picks(pick, S),
           NEW g, NEW h, Over(g, S), Over(h, S), SameSteps(g, h, pick, S)
    PROVE  g = h
<1> DEFINE D == {k \in Nat : \E s \in SUBSET S : Cardinality(s) = k /\ g[s] # h[s]}
<1>0. ASSUME NEW s \in SUBSET S PROVE IsFiniteSet(s) /\ Cardinality(s) \in Nat
  BY FS_Subset, FS_CardinalityType
<1>1. ASSUME D # {} PROVE FALSE
  <2>1. PICK k \in D : \A j \in D : k <= j
    <3>1. D \in SUBSET Nat
      OBVIOUS
    <3> HIDE DEF D
    <3> QED
      BY <1>1, <3>1, LeastOf
  <2>2. PICK s \in SUBSET S : Cardinality(s) = k /\ g[s] # h[s]
    BY <2>1
  <2>3. s # {} /\ pick[s] \in s
    BY <2>2 DEF SameSteps, Picks
  <2>4. PICK t \in SUBSET S : t = s \ {pick[s]}
    OBVIOUS
  <2>5. Cardinality(t) = k - 1
    BY <1>0, <2>2, <2>3, <2>4, FS_RemoveElement
  <2>6. k \in Nat /\ Cardinality(t) \in Nat
    BY <1>0, <2>1
  <2>7. ~(k <= Cardinality(t))
    BY <2>5, <2>6
  <2>8. g[t] = h[t]
    BY <2>1, <2>6, <2>7
  <2> QED
    BY <2>2, <2>3, <2>4, <2>8 DEF SameSteps
<1>2. \A s \in SUBSET S : g[s] = h[s]
  BY <1>0, <1>1
<1> QED
  BY <1>2 DEF Over

\* What a loop has come past.
Taken(l, s) == {l[k] : k \in s}

\* The last of s that a loop comes to, and those before it.
Latest(l, s) == l[Max(s)]
Before(l, s) == Taken(l, s \ {Max(s)})

InFront(l, s, S) ==
    /\ Latest(l, s) \in S /\ Before(l, s) \in SUBSET S
    /\ Taken(l, s) = Before(l, s) \cup {Latest(l, s)}
    /\ \A j \in Before(l, s) : j < Latest(l, s)

LEMMA IsInFront ==
    ASSUME NEW N \in Nat, NEW n \in Nat, NEW S \in SUBSET (1 .. n), NEW l, IsList(l, N, S),
           NEW s \in SUBSET (1 .. N), s # {}
    PROVE  Max(s) \in s /\ InFront(l, s, S)
<1>0. PICK m, t : m = Max(s) /\ t = s \ {m}
  OBVIOUS
<1>1. m \in s /\ \A j \in s : j <= m
  BY <1>0, GreatestOf
<1>2. Taken(l, s) = Taken(l, t) \cup {l[m]}
  BY <1>0, <1>1 DEF Taken
<1>3. \A k \in 1 .. N : l[k] \in S
  BY DEF IsList, IsAscending
<1>4. ASSUME NEW k \in t PROVE l[k] < l[m]
  <2>1. k \in 1 .. N /\ m \in 1 .. N /\ k <= m /\ k # m
    BY <1>0, <1>1
  <2>2. k < m
    BY <2>1
  <2> QED
    BY <2>1, <2>2 DEF IsList, IsAscending
<1>5. l[m] \in S /\ Taken(l, t) \in SUBSET S /\ \A j \in Taken(l, t) : j < l[m]
  BY <1>0, <1>1, <1>3, <1>4 DEF Taken
<1> QED
  BY <1>0, <1>1, <1>2, <1>5 DEF InFront, Latest, Before

\* A loop that keeps up with W.
KeepsUp(g, W, l, N) ==
    /\ g[{}] = W[{}]
    /\ \A s \in SUBSET (1 .. N) :
            s # {} /\ g[s \ {Max(s)}] = W[Before(l, s)] => g[s] = W[Taken(l, s)]

LEMMA Walk ==
    ASSUME NEW N \in Nat, NEW l, NEW W, NEW g, Over(g, 1 .. N), KeepsUp(g, W, l, N)
    PROVE  g = [s \in SUBSET (1 .. N) |-> W[Taken(l, s)]]
<1>1. PICK h : h = [s \in SUBSET (1 .. N) |-> W[Taken(l, s)]]
  OBVIOUS
<1>2. PICK pick : pick = [s \in SUBSET (1 .. N) |-> Max(s)]
  OBVIOUS
<1>3. Picks(pick, 1 .. N)
  BY <1>2, GreatestOf DEF Picks
<1>4. IsFiniteSet(1 .. N)
  BY FS_Interval
<1>5. Over(h, 1 .. N)
  BY <1>1 DEF Over
<1>6. g[{}] = h[{}]
  <2>1. Taken(l, {}) = {}
    BY DEF Taken
  <2> QED
    BY <1>1, <2>1 DEF KeepsUp
<1>7. ASSUME NEW s \in SUBSET (1 .. N), s # {}, g[s \ {pick[s]}] = h[s \ {pick[s]}]
      PROVE  g[s] = h[s]
  <2>1. h[s] = W[Taken(l, s)] /\ h[s \ {Max(s)}] = W[Before(l, s)] /\ pick[s] = Max(s)
    BY <1>1, <1>2 DEF Before
  <2> QED
    BY <1>7, <2>1 DEF KeepsUp
<1>8. SameSteps(g, h, pick, 1 .. N)
  BY <1>6, <1>7 DEF SameSteps
<1>9. g = h
  BY <1>3, <1>4, <1>5, <1>8, FoldsAgree
<1> QED
  BY <1>1, <1>9

-----------------------------------------------------------------------------
(* How many receipts there are with each counterparty. *)

CountsOf(self, R) ==
    [c \in {Counterparty(i, self) : i \in R} |->
        Cardinality({i \in R : Counterparty(i, self) = c})]

LEMMA CountOne ==
    ASSUME NEW self, NEW R, IsFiniteSet(R), NEW i, i \notin R
    PROVE  CountsOf(self, R \cup {i}) =
               Put(CountsOf(self, R), Counterparty(i, self),
                   Count(CountsOf(self, R), Counterparty(i, self)) + 1)
<1>1. PICK c : c = Counterparty(i, self)
  OBVIOUS
<1>2. PICK P : P = [j \in R |-> Counterparty(j, self)]
  OBVIOUS
<1> DEFINE Of(d) == {j \in R : P[j] = d}
           More(d) == {j \in R \cup {i} : Counterparty(j, self) = d}
<1>3. CountsOf(self, R) = [d \in {P[j] : j \in R} |-> Cardinality(Of(d))]
  <2>1. {Counterparty(j, self) : j \in R} = {P[j] : j \in R}
    BY <1>2
  <2>2. \A d : {j \in R : Counterparty(j, self) = d} = Of(d)
    BY <1>2
  <2> QED
    BY <2>1, <2>2 DEF CountsOf
<1>4. {Counterparty(j, self) : j \in R \cup {i}} = {P[j] : j \in R} \cup {c}
  BY <1>1, <1>2
<1>5. \A d : IsFiniteSet(Of(d))
  BY FS_Subset
<1>6. More(c) = Of(c) \cup {i} /\ \A d : d # c => More(d) = Of(d)
  BY <1>1, <1>2
<1>7. Cardinality(More(c)) = Cardinality(Of(c)) + 1
  <2>1. i \notin Of(c)
    OBVIOUS
  <2> HIDE DEF Of
  <2>2. Cardinality(Of(c) \cup {i}) = Cardinality(Of(c)) + 1
    BY <1>5, <2>1, FS_AddElement
  <2> QED
    BY <1>6, <2>2
<1>8. CountsOf(self, R \cup {i}) = [d \in {P[j] : j \in R} \cup {c} |-> Cardinality(More(d))]
  BY <1>4 DEF CountsOf
<1>9. c \notin {P[j] : j \in R} => Cardinality(Of(c)) = 0
  <2>1. c \notin {P[j] : j \in R} => Of(c) = {}
    OBVIOUS
  <2> QED
    BY <2>1, FS_EmptySet
<1>10. Count(CountsOf(self, R), c) = Cardinality(Of(c))
  <2> HIDE DEF Of
  <2> QED
    BY <1>3, <1>9 DEF Count
<1>11. Put(CountsOf(self, R), c, Count(CountsOf(self, R), c) + 1) =
           [d \in {P[j] : j \in R} \cup {c} |->
                IF d = c THEN Cardinality(Of(c)) + 1 ELSE Cardinality(Of(d))]
  <2> HIDE DEF Of
  <2> QED
    BY <1>3, <1>10 DEF Put
<1>12. [d \in {P[j] : j \in R} \cup {c} |-> Cardinality(More(d))] =
           [d \in {P[j] : j \in R} \cup {c} |->
                IF d = c THEN Cardinality(Of(c)) + 1 ELSE Cardinality(Of(d))]
  <2> HIDE DEF Of, More
  <2> QED
    BY <1>6, <1>7
<1> QED
  BY <1>1, <1>8, <1>11, <1>12

LEMMA PairCountsAre ==
    ASSUME NEW N \in Nat, NEW n \in Nat, NEW S \in SUBSET (1 .. n), NEW l, IsList(l, N, S),
           NEW self
    PROVE  PairCounts(self, l) = CountsOf(self, S)
<1>1. PICK q : q = [k \in DOMAIN l |-> Counterparty(l[k], self)]
  OBVIOUS
<1>2. DOMAIN l = 1 .. N /\ DOMAIN q = 1 .. N /\ IsAscending(l, N, S)
  BY <1>1 DEF IsList, IsAscending
<1>3. PICK W : W = [R \in SUBSET S |-> CountsOf(self, R)]
  OBVIOUS
<1> DEFINE Step(counts, c) == Put(counts, c, Count(counts, c) + 1)
           Folded(g) == g = [s \in SUBSET (1 .. N) |->
                               IF s = {} THEN EmptyMap
                               ELSE Step(g[s \ {Max(s)}], q[Max(s)])]
<1>4. ASSUME NEW s \in SUBSET (1 .. N), s # {}
      PROVE  W[Taken(l, s)] = Step(W[Before(l, s)], q[Max(s)])
  <2>1. Max(s) \in 1 .. N /\ InFront(l, s, S)
    BY <1>4, IsInFront
  <2>2. PICK i, R : i = Latest(l, s) /\ R = Before(l, s)
    OBVIOUS
  <2>3. i \in S /\ R \in SUBSET S /\ Taken(l, s) = R \cup {i} /\ i \notin R
    <3>1. i \in S /\ R \in SUBSET S /\ Taken(l, s) = R \cup {i} /\ \A j \in R : j < i
      BY <2>1, <2>2 DEF InFront
    <3>2. i \in Nat
      BY <3>1
    <3> QED
      BY <3>1, <3>2
  <2>4. IsFiniteSet(R)
    BY <2>3, EarliestFirstIs, FS_Subset
  <2>5. CountsOf(self, R \cup {i}) = Step(CountsOf(self, R), Counterparty(i, self))
    BY <2>3, <2>4, CountOne
  <2>6. q[Max(s)] = Counterparty(i, self)
    BY <1>1, <1>2, <2>1, <2>2 DEF Latest
  <2>7. W[R \cup {i}] = CountsOf(self, R \cup {i}) /\ W[R] = CountsOf(self, R)
    BY <1>3, <2>3
  <2> HIDE DEF Step
  <2> QED
    BY <2>2, <2>3, <2>5, <2>6, <2>7
<1>5. W[{}] = EmptyMap
  BY <1>3 DEF CountsOf, EmptyMap
<1>6. PICK w : w = [s \in SUBSET (1 .. N) |-> W[Taken(l, s)]]
  OBVIOUS
<1>7. w[{}] = W[{}] /\ w[1 .. N] = W[S]
  <2>1. Taken(l, {}) = {} /\ Taken(l, 1 .. N) = S
    BY DEF Taken, IsList
  <2> QED
    BY <1>6, <2>1
<1>8. Folded(w)
  <2>1. ASSUME NEW s \in SUBSET (1 .. N), s # {}
        PROVE  w[s] = Step(w[s \ {Max(s)}], q[Max(s)])
    <3>1. w[s] = W[Taken(l, s)] /\ w[s \ {Max(s)}] = W[Before(l, s)]
      BY <1>6 DEF Before
    <3> QED
      BY <1>4, <2>1, <3>1
  <2> HIDE DEF Step
  <2> QED
    BY <1>5, <1>6, <1>7, <2>1
<1>9. ASSUME NEW g, Folded(g) PROVE g = w
  <2>1. Over(g, 1 .. N) /\ g[{}] = W[{}]
    BY <1>5, <1>9 DEF Over
  <2>2. ASSUME NEW s \in SUBSET (1 .. N), s # {}, g[s \ {Max(s)}] = W[Before(l, s)]
        PROVE  g[s] = W[Taken(l, s)]
    <3>1. g[s] = Step(g[s \ {Max(s)}], q[Max(s)])
      BY <1>9, <2>2
    <3> HIDE DEF Step
    <3> QED
      BY <1>4, <2>2, <3>1
  <2>3. KeepsUp(g, W, l, N)
    BY <2>1, <2>2 DEF KeepsUp
  <2> QED
    BY <1>6, <2>1, <2>3, Walk
<1>10. (CHOOSE g : Folded(g)) = w
  <2> HIDE DEF Folded
  <2> QED
    BY <1>8, <1>9
<1>11. PairCounts(self, l) = (CHOOSE g : Folded(g))[DOMAIN q]
  BY <1>1, <1>2 DEF PairCounts, FoldLeft, MapThenFoldSet
<1> QED
  BY <1>2, <1>3, <1>7, <1>10, <1>11

-----------------------------------------------------------------------------
(* The lists, and what is read off them. *)

\* Receipts are numbered; nothing else of the registry's state matters here.
Numbered == \E n \in Nat : DOMAIN receipts = 1 .. n

\* The list of what counts has the receipts of Reputation's set.
LEMMA ListIs ==
    ASSUME Numbered, NEW x
    PROVE  /\ \E n \in Nat : Finalized(x) \in SUBSET (1 .. n)
           /\ IsFiniteSet(Finalized(x)) /\ Cardinality(Finalized(x)) \in Nat
           /\ IsList(FinalizedList(LineageOf(x)), Cardinality(Finalized(x)), Finalized(x))
<1>1. PICK n \in Nat : DOMAIN receipts = 1 .. n
  BY DEF Numbered
<1>2. Finalized(x) \in SUBSET (1 .. n)
  BY <1>1 DEF Finalized, LineageReceipts
<1>3. LineageReceiptMap(LineageOf(x)) = LineageReceipts(x)
  BY DEF LineageReceiptMap, ListByAgent, LineageReceipts
<1>4. FinalizedList(LineageOf(x)) = EarliestFirst(Finalized(x))
  BY <1>3 DEF FinalizedList, Finalized
<1> QED
  BY <1>2, <1>4, EarliestFirstIs

LEMMA ListFacts ==
    ASSUME NEW N \in Nat, NEW S, NEW l, IsList(l, N, S)
    PROVE  DOMAIN l = 1 .. N /\ Len(l) = N /\ ToSet(l) = S
<1>1. l \in [1 .. N -> S] /\ S = {l[k] : k \in 1 .. N}
  BY DEF IsList, IsAscending
<1>2. l \in Seq(S) /\ Len(l) = N
  BY <1>1
<1> QED
  BY <1>1, <1>2 DEF ToSet

\* baseTrust reads the same receipts.
LEMMA TrustIs == ASSUME Numbered, NEW c PROVE ToSet(FinalizedList(LineageOf(c))) = BaseTrust(c)
BY ListIs, ListFacts DEF BaseTrust

LEMMA PeersAre ==
    ASSUME NEW x, NEW peers, peers = Peers(x)
    PROVE  /\ DOMAIN peers = Finalized(x)
           /\ \A i \in Finalized(x) : peers[i] = Counterparty(i, LineageOf(x))
BY DEF Peers, OtherParty, Counterparty

LEMMA PairCountsOfPeers ==
    ASSUME Numbered, NEW x, NEW peers, peers = Peers(x), NEW l, l = FinalizedList(LineageOf(x))
    PROVE  /\ DOMAIN PairCounts(LineageOf(x), l) = Range(peers)
           /\ \A c \in Range(peers) :
                PairCounts(LineageOf(x), l)[c] = Cardinality(PairReceipts(peers, c))
<1>0. PICK S : S = Finalized(x)
  OBVIOUS
<1>1. PICK N \in Nat : S = Finalized(x) /\ N = Cardinality(S)
  BY <1>0, ListIs
<1>2. PICK n \in Nat : S \in SUBSET (1 .. n)
  BY <1>1, ListIs
<1>3. IsList(l, N, S)
  BY <1>1, ListIs
<1>4. PairCounts(LineageOf(x), l) = CountsOf(LineageOf(x), S)
  BY <1>2, <1>3, PairCountsAre
<1>5. DOMAIN peers = S /\ \A i \in S : peers[i] = Counterparty(i, LineageOf(x))
  BY <1>1, PeersAre
<1>6. {Counterparty(i, LineageOf(x)) : i \in S} = Range(peers)
  BY <1>5 DEF Range
<1>7. \A c : {i \in S : Counterparty(i, LineageOf(x)) = c} = PairReceipts(peers, c)
  BY <1>5 DEF PairReceipts
<1> QED
  BY <1>4, <1>6, <1>7 DEF CountsOf

LEMMA CapIs ==
    ASSUME Numbered, NEW x, NEW peers, peers = Peers(x), NEW l, l = FinalizedList(LineageOf(x)),
           NEW cap, cap = CounterpartyWeightCap(l, PairCounts(LineageOf(x), l))
    PROVE  /\ Len(l) >= 3 <=> PastColdStart(peers)
           /\ Len(l) = Cardinality(DOMAIN peers) /\ Len(l) \in Nat
           /\ ~PastColdStart(peers) => DOMAIN cap = {}
           /\ PastColdStart(peers) =>
                /\ DOMAIN cap = Range(peers)
                /\ \A c \in Range(peers) : cap[c] = WeightCap(peers, c)
<1>0. PICK S : S = Finalized(x)
  OBVIOUS
<1>1. PICK N \in Nat : S = Finalized(x) /\ N = Cardinality(S)
  BY <1>0, ListIs
<1>2. Len(l) = N /\ IsFiniteSet(S)
  BY <1>1, ListIs, ListFacts
<1>3. DOMAIN peers = S
  BY <1>1, PeersAre
<1>4. PICK counts : counts = PairCounts(LineageOf(x), l)
  OBVIOUS
<1>5. /\ DOMAIN counts = Range(peers)
      /\ \A c \in Range(peers) : counts[c] = Cardinality(PairReceipts(peers, c))
  BY <1>4, PairCountsOfPeers
<1>6. ASSUME NEW c \in Range(peers)
      PROVE  N - counts[c] = Cardinality(S \ PairReceipts(peers, c))
  <2>1. PICK P : P = PairReceipts(peers, c)
    OBVIOUS
  <2>2. S \cap P = P
    BY <1>3, <2>1 DEF PairReceipts
  <2>3. Cardinality(S \ P) = Cardinality(S) - Cardinality(S \cap P)
    BY <1>2, FS_Difference
  <2> QED
    BY <1>1, <1>5, <2>1, <2>2, <2>3
<1>7. Len(l) >= 3 <=> PastColdStart(peers)
  BY <1>1, <1>2, <1>3 DEF PastColdStart
<1>8. CASE ~PastColdStart(peers)
  <2>1. cap = EmptyMap
    BY <1>2, <1>7, <1>8 DEF CounterpartyWeightCap
  <2> QED
    BY <1>1, <1>2, <1>3, <1>7, <1>8, <2>1 DEF EmptyMap
<1>9. CASE PastColdStart(peers)
  <2>1. cap = [c \in Range(peers) |->
                IF N - counts[c] = 0 THEN 0 ELSE (3 * (N - counts[c]) - 1) \div 2]
    BY <1>2, <1>4, <1>5, <1>7, <1>9 DEF CounterpartyWeightCap, OtherCount
  <2>2. ASSUME NEW c \in Range(peers) PROVE cap[c] = WeightCap(peers, c)
    <3>1. PICK others : others = Cardinality(S \ PairReceipts(peers, c))
      OBVIOUS
    <3>2. cap[c] = IF others = 0 THEN 0 ELSE (3 * others - 1) \div 2
      BY <1>6, <2>1, <3>1
    <3> QED
      BY <1>3, <3>1, <3>2 DEF WeightCap
  <2> QED
    BY <1>1, <1>2, <1>3, <1>7, <1>9, <2>1, <2>2
<1> QED
  BY <1>8, <1>9

-----------------------------------------------------------------------------
(* Who is anchored. *)

AnchoredIn(self, excludeIds, R) == \E i \in R : Counterparty(i, self) \notin excludeIds

LEMMA AnchoredAre ==
    ASSUME Numbered, NEW c, NEW excludeIds
    PROVE  IsAnchored(c, excludeIds) <=> IsAnchoredCounterparty(c, excludeIds)
<1>0. PICK S : S = Finalized(c)
  OBVIOUS
<1>1. PICK N \in Nat : S = Finalized(c) /\ N = Cardinality(S)
  BY <1>0, ListIs
<1>2. PICK n \in Nat : S \in SUBSET (1 .. n)
  BY <1>1, ListIs
<1>3. PICK self, l : self = LineageOf(c) /\ l = FinalizedList(self)
  OBVIOUS
<1>4. IsList(l, N, S) /\ DOMAIN l = 1 .. N
  BY <1>1, <1>3, ListIs, ListFacts
<1>5. PICK W : W = [R \in SUBSET S |-> AnchoredIn(self, excludeIds, R)]
  OBVIOUS
<1> DEFINE Step(found, i) == found \/ Counterparty(i, self) \notin excludeIds
           Folded(g) == g = [s \in SUBSET (1 .. N) |->
                               IF s = {} THEN FALSE ELSE Step(g[s \ {Max(s)}], l[Max(s)])]
<1>6. ASSUME NEW s \in SUBSET (1 .. N), s # {}
      PROVE  W[Taken(l, s)] = Step(W[Before(l, s)], l[Max(s)])
  <2>1. InFront(l, s, S)
    BY <1>2, <1>4, <1>6, IsInFront
  <2>2. PICK i, R : i = Latest(l, s) /\ R = Before(l, s)
    OBVIOUS
  <2>3. i \in S /\ R \in SUBSET S /\ Taken(l, s) = R \cup {i}
    BY <2>1, <2>2 DEF InFront
  <2>4. AnchoredIn(self, excludeIds, R \cup {i}) = Step(AnchoredIn(self, excludeIds, R), i)
    BY DEF AnchoredIn
  <2>5. /\ W[R \cup {i}] = AnchoredIn(self, excludeIds, R \cup {i})
        /\ W[R] = AnchoredIn(self, excludeIds, R)
    BY <1>5, <2>3
  <2> QED
    BY <2>2, <2>3, <2>4, <2>5 DEF Latest
<1>7. W[{}] = FALSE
  BY <1>5 DEF AnchoredIn
<1>8. PICK w : w = [s \in SUBSET (1 .. N) |-> W[Taken(l, s)]]
  OBVIOUS
<1>9. w[{}] = W[{}] /\ w[1 .. N] = W[S]
  <2>1. Taken(l, {}) = {} /\ Taken(l, 1 .. N) = S
    BY <1>4 DEF Taken, IsList
  <2> QED
    BY <1>8, <2>1
<1>10. Folded(w)
  <2>1. ASSUME NEW s \in SUBSET (1 .. N), s # {}
        PROVE  w[s] = Step(w[s \ {Max(s)}], l[Max(s)])
    <3>1. w[s] = W[Taken(l, s)] /\ w[s \ {Max(s)}] = W[Before(l, s)]
      BY <1>8 DEF Before
    <3> QED
      BY <1>6, <2>1, <3>1
  <2> HIDE DEF Step
  <2> QED
    BY <1>7, <1>8, <1>9, <2>1
<1>11. ASSUME NEW g, Folded(g) PROVE g = w
  <2>1. Over(g, 1 .. N) /\ g[{}] = W[{}]
    BY <1>7, <1>11 DEF Over
  <2>2. ASSUME NEW s \in SUBSET (1 .. N), s # {}, g[s \ {Max(s)}] = W[Before(l, s)]
        PROVE  g[s] = W[Taken(l, s)]
    <3>1. g[s] = Step(g[s \ {Max(s)}], l[Max(s)])
      BY <1>11, <2>2
    <3> HIDE DEF Step
    <3> QED
      BY <1>6, <2>2, <3>1
  <2>3. KeepsUp(g, W, l, N)
    BY <2>1, <2>2 DEF KeepsUp
  <2> QED
    BY <1>8, <2>1, <2>3, Walk
<1>12. (CHOOSE g : Folded(g)) = w
  <2> HIDE DEF Folded
  <2> QED
    BY <1>10, <1>11
<1>13. IsAnchored(c, excludeIds) = (CHOOSE g : Folded(g))[DOMAIN l]
  <2>1. IsAnchored(c, excludeIds) = FoldLeft(LAMBDA found, i : Step(found, i), FALSE, l)
    BY <1>3 DEF IsAnchored
  <2> HIDE DEF Step
  <2>2. FoldLeft(LAMBDA found, i : Step(found, i), FALSE, l) = (CHOOSE g : Folded(g))[DOMAIN l]
    BY <1>4 DEF FoldLeft, MapThenFoldSet
  <2> QED
    BY <2>1, <2>2, Zenon
<1>14. IsAnchored(c, excludeIds) = AnchoredIn(self, excludeIds, S)
  BY <1>4, <1>5, <1>9, <1>12, <1>13
<1> QED
  BY <1>1, <1>3, <1>14 DEF AnchoredIn, IsAnchoredCounterparty, OtherParty, Counterparty

LEMMA UnanchoredAre ==
    ASSUME Numbered, NEW x, NEW peers, peers = Peers(x), NEW l, l = FinalizedList(LineageOf(x))
    PROVE  UnanchoredSet(x, LineageOf(x), l, PairCounts(LineageOf(x), l)) = Unanchored(x, peers)
<1>1. PICK counts : counts = PairCounts(LineageOf(x), l)
  OBVIOUS
<1>2. DOMAIN counts = Range(peers)
  BY <1>1, PairCountsOfPeers
<1>3. /\ Len(l) >= 3 <=> PastColdStart(peers)
      /\ Len(l) \in Nat
  BY CapIs
<1>4. LineageOf(x) \cup {HeadOf(x)} \cup DOMAIN counts = ExcludeIds(x, peers)
  BY <1>2 DEF ExcludeIds
<1>5. PICK E : E = ExcludeIds(x, peers)
  OBVIOUS
<1>6. UnanchoredSet(x, LineageOf(x), l, counts) =
          IF Len(l) < 3 THEN {} ELSE {c \in Range(peers) : ~IsAnchored(c, E)}
  BY <1>2, <1>4, <1>5 DEF UnanchoredSet
<1>7. Unanchored(x, peers) =
          {c \in Range(peers) : PastColdStart(peers) /\ ~IsAnchoredCounterparty(c, E)}
  BY <1>5 DEF Unanchored
<1>8. \A c : IsAnchored(c, E) <=> IsAnchoredCounterparty(c, E)
  BY AnchoredAre
<1> QED
  BY <1>1, <1>3, <1>6, <1>7, <1>8

-----------------------------------------------------------------------------
(* The main loop: what it holds of the receipts R that it has come past. *)

\* How many receipts of c may weigh: all of them below three receipts.
PairLimit(peers, unanchored, c) ==
    IF ~PastColdStart(peers) THEN Cardinality(DOMAIN peers)
    ELSE IF c \in unanchored THEN 0 ELSE WeightCap(peers, c)

PairsIn(peers, R, c) == {j \in R : peers[j] = c}

EarlierIn(peers, R, i) == {j \in R : peers[j] = peers[i] /\ j < i}

PeersIn(peers, R) == {peers[j] : j \in R}

Lesser(a, b) == IF a < b THEN a ELSE b

CachedOf(peers, R) == [c \in PeersIn(peers, R) |-> BaseTrust(c)]

CountedOf(peers, unanchored, R) ==
    [c \in {d \in PeersIn(peers, R) : PairLimit(peers, unanchored, d) > 0} |->
        Lesser(Cardinality(PairsIn(peers, R, c)), PairLimit(peers, unanchored, c))]

FullWeight(peers, c) ==
    [pairCount |-> Cardinality(PairReceipts(peers, c)), trust |-> BaseTrust(c)]

WeightIn(peers, unanchored, R, i) ==
    IF Cardinality(EarlierIn(peers, R, i)) < PairLimit(peers, unanchored, peers[i])
    THEN FullWeight(peers, peers[i])
    ELSE Zero

WeightsOf(peers, unanchored, R) == [i \in R |-> WeightIn(peers, unanchored, R, i)]

StateOf(self, peers, unanchored, R) ==
    [trustCache |-> CachedOf(peers, R),
     counted |-> CountedOf(peers, unanchored, R),
     weights |-> WeightsOf(peers, unanchored, R),
     asProvider |-> {i \in R : receipts[i].b \in self}]

LEMMA HalfOf == \A k \in Nat : k \div 2 \in Nat
OBVIOUS

LEMMA LimitNat ==
    ASSUME NEW peers, IsFiniteSet(DOMAIN peers), NEW unanchored, NEW c
    PROVE  PairLimit(peers, unanchored, c) \in Nat
<1>1. Cardinality(DOMAIN peers) \in Nat
  BY FS_CardinalityType
<1>2. WeightCap(peers, c) \in Nat
  <2>1. PICK others : others = Cardinality(DOMAIN peers \ PairReceipts(peers, c))
    OBVIOUS
  <2>2. others \in Nat
    BY <2>1, FS_Subset, FS_CardinalityType
  <2>3. others # 0 => 3 * others - 1 \in Nat
    BY <2>2
  <2>4. others # 0 => (3 * others - 1) \div 2 \in Nat
    BY <2>3, HalfOf
  <2> QED
    BY <2>1, <2>4 DEF WeightCap
<1> QED
  BY <1>1, <1>2 DEF PairLimit

\* A receipt with c behind those of R.
LEMMA NextPair ==
    ASSUME NEW peers, NEW R, IsFiniteSet(R), NEW i, i \notin R, NEW c
    PROVE  /\ IsFiniteSet(PairsIn(peers, R, c)) /\ Cardinality(PairsIn(peers, R, c)) \in Nat
           /\ Cardinality(PairsIn(peers, R \cup {i}, c)) =
                  IF c = peers[i] THEN Cardinality(PairsIn(peers, R, c)) + 1
                                  ELSE Cardinality(PairsIn(peers, R, c))
           /\ c \notin PeersIn(peers, R) => Cardinality(PairsIn(peers, R, c)) = 0
<1>1. PICK P : P = PairsIn(peers, R, c)
  OBVIOUS
<1>2. P \in SUBSET R /\ i \notin P
  BY <1>1 DEF PairsIn
<1>3. IsFiniteSet(P) /\ Cardinality(P) \in Nat
  BY <1>2, FS_Subset, FS_CardinalityType
<1>4. PairsIn(peers, R \cup {i}, c) = IF c = peers[i] THEN P \cup {i} ELSE P
  BY <1>1 DEF PairsIn
<1>5. Cardinality(P \cup {i}) = Cardinality(P) + 1
  BY <1>2, <1>3, FS_AddElement
<1>6. c \notin PeersIn(peers, R) => P = {}
  BY <1>1 DEF PairsIn, PeersIn
<1> QED
  BY <1>1, <1>3, <1>4, <1>5, <1>6, FS_EmptySet

\* The receipts before i are those of R with its counterparty.
LEMMA EarlierPairs ==
    ASSUME NEW peers, NEW R, NEW i \in Nat, \A j \in R : j \in Nat /\ j < i
    PROVE  /\ EarlierIn(peers, R \cup {i}, i) = PairsIn(peers, R, peers[i])
           /\ \A j \in R : EarlierIn(peers, R \cup {i}, j) = EarlierIn(peers, R, j)
<1>1. ~(i < i)
  OBVIOUS
<1>2. \A j \in R : ~(i < j)
  OBVIOUS
<1> QED
  BY <1>1, <1>2 DEF EarlierIn, PairsIn

\* The counter as the loop reads it, before its first entry too.
LEMMA CountedSoFar ==
    ASSUME NEW peers, NEW unanchored, NEW R, IsFiniteSet(R), NEW i, i \notin R,
           NEW limit \in Nat, limit = PairLimit(peers, unanchored, peers[i]),
           NEW k \in Nat, k = Cardinality(PairsIn(peers, R, peers[i]))
    PROVE  Count(CountedOf(peers, unanchored, R), peers[i]) = Lesser(k, limit)
<1>1. PICK c : c = peers[i]
  OBVIOUS
<1>2. c \notin PeersIn(peers, R) => k = 0
  BY <1>1, NextPair
<1>3. c \in PeersIn(peers, R) /\ limit > 0 =>
          /\ c \in DOMAIN CountedOf(peers, unanchored, R)
          /\ CountedOf(peers, unanchored, R)[c] = Lesser(k, limit)
  BY <1>1 DEF CountedOf
<1>4. ~(c \in PeersIn(peers, R) /\ limit > 0) => c \notin DOMAIN CountedOf(peers, unanchored, R)
  BY <1>1 DEF CountedOf
<1>5. ~(c \in PeersIn(peers, R) /\ limit > 0) => Lesser(k, limit) = 0
  BY <1>2 DEF Lesser
<1> QED
  BY <1>1, <1>3, <1>4, <1>5 DEF Count

\* The counter after one more receipt.
LEMMA CountedNext ==
    ASSUME NEW peers, IsFiniteSet(DOMAIN peers), NEW unanchored, NEW R, IsFiniteSet(R),
           NEW i, i \notin R,
           NEW limit \in Nat, limit = PairLimit(peers, unanchored, peers[i]),
           NEW k \in Nat, k = Cardinality(PairsIn(peers, R, peers[i]))
    PROVE  CountedOf(peers, unanchored, R \cup {i}) =
               IF k < limit THEN Put(CountedOf(peers, unanchored, R), peers[i], k + 1)
                            ELSE CountedOf(peers, unanchored, R)
<1>1. PICK c, D, E : /\ c = peers[i]
                     /\ D = {d \in PeersIn(peers, R) : PairLimit(peers, unanchored, d) > 0}
                     /\ E = {d \in PeersIn(peers, R \cup {i}) : PairLimit(peers, unanchored, d) > 0}
  OBVIOUS
<1>2. PeersIn(peers, R \cup {i}) = PeersIn(peers, R) \cup {c}
  BY <1>1 DEF PeersIn
<1>3. E = IF limit > 0 THEN D \cup {c} ELSE D
  BY <1>1, <1>2
<1> DEFINE old(d) == Lesser(Cardinality(PairsIn(peers, R, d)), PairLimit(peers, unanchored, d))
           new(d) == Lesser(Cardinality(PairsIn(peers, R \cup {i}, d)),
                            PairLimit(peers, unanchored, d))
<1>4. \A d : d # c => new(d) = old(d)
  BY <1>1, NextPair
<1>5. old(c) = Lesser(k, limit) /\ new(c) = Lesser(k + 1, limit)
  BY <1>1, NextPair
<1>6. /\ CountedOf(peers, unanchored, R) = [d \in D |-> old(d)]
      /\ CountedOf(peers, unanchored, R \cup {i}) = [d \in E |-> new(d)]
  BY <1>1 DEF CountedOf
<1> HIDE DEF old, new
<1>7. CASE k < limit
  <2>1. E = D \cup {c} /\ new(c) = k + 1
    BY <1>3, <1>5, <1>7 DEF Lesser
  <2>2. Put([d \in D |-> old(d)], c, k + 1) =
            [d \in D \cup {c} |-> IF d = c THEN k + 1 ELSE old(d)]
    BY DEF Put
  <2>3. [d \in E |-> new(d)] = [d \in D \cup {c} |-> IF d = c THEN k + 1 ELSE old(d)]
    BY <1>4, <2>1
  <2> QED
    BY <1>1, <1>6, <1>7, <2>2, <2>3
<1>8. CASE ~(k < limit)
  <2>1. new(c) = old(c)
    BY <1>5, <1>8 DEF Lesser
  <2>2. limit > 0 => c \in D
    <3>1. ASSUME limit > 0, c \notin PeersIn(peers, R) PROVE FALSE
      <4>1. Cardinality(PairsIn(peers, R, c)) = 0
        BY <3>1, NextPair
      <4>2. k = 0
        BY <1>1, <4>1
      <4> QED
        BY <1>8, <3>1, <4>2
    <3> QED
      BY <1>1, <3>1
  <2>3. E = D
    BY <1>3, <2>2
  <2>4. [d \in E |-> new(d)] = [d \in D |-> old(d)]
    BY <1>4, <2>1, <2>3
  <2> QED
    BY <1>6, <1>8, <2>4
<1> QED
  BY <1>7, <1>8

\* The receipts of R come before i.
AllBefore(R, i) == i \in Nat /\ \A j \in R : j \in Nat /\ j < i

\* One receipt more is within its limit.
Within(peers, unanchored, R, i) ==
    Cardinality(PairsIn(peers, R, peers[i])) < PairLimit(peers, unanchored, peers[i])

\* The weights after one more receipt: those before it keep theirs.
LEMMA WeightsNext ==
    ASSUME NEW peers, NEW unanchored, NEW R, NEW i, AllBefore(R, i)
    PROVE  WeightsOf(peers, unanchored, R \cup {i}) =
               Put(WeightsOf(peers, unanchored, R), i,
                   IF Within(peers, unanchored, R, i) THEN FullWeight(peers, peers[i]) ELSE Zero)
<1>1. i \in Nat /\ i \notin R /\ \A j \in R : j \in Nat /\ j < i
  BY DEF AllBefore
<1>2. WeightIn(peers, unanchored, R \cup {i}, i) =
          IF Within(peers, unanchored, R, i) THEN FullWeight(peers, peers[i]) ELSE Zero
  <2>1. EarlierIn(peers, R \cup {i}, i) = PairsIn(peers, R, peers[i])
    BY <1>1, EarlierPairs
  <2> QED
    BY <2>1 DEF WeightIn, Within
<1>3. ASSUME NEW j \in R
      PROVE  WeightIn(peers, unanchored, R \cup {i}, j) = WeightIn(peers, unanchored, R, j)
  <2>1. EarlierIn(peers, R \cup {i}, j) = EarlierIn(peers, R, j)
    <3>1. ~(i < j)
      BY <1>1
    <3> QED
      BY <3>1 DEF EarlierIn
  <2> QED
    BY <2>1 DEF WeightIn
<1> QED
  BY <1>1, <1>2, <1>3 DEF Put, WeightsOf

LEMMA CacheNext ==
    ASSUME Numbered, NEW peers, NEW R, NEW i
    PROVE  /\ CachedBaseTrust(CachedOf(peers, R), peers[i]) = CachedOf(peers, R \cup {i})
           /\ CachedOf(peers, R \cup {i})[peers[i]] = BaseTrust(peers[i])
<1>1. PICK c : c = peers[i]
  OBVIOUS
<1>2. PeersIn(peers, R \cup {i}) = PeersIn(peers, R) \cup {c}
  BY <1>1 DEF PeersIn
<1>3. ToSet(FinalizedList(LineageOf(c))) = BaseTrust(c)
  BY TrustIs
<1>4. CASE c \in PeersIn(peers, R)
  <2>1. PeersIn(peers, R \cup {i}) = PeersIn(peers, R)
    BY <1>2, <1>4
  <2> QED
    BY <1>1, <1>4, <2>1 DEF CachedBaseTrust, CachedOf
<1>5. CASE c \notin PeersIn(peers, R)
  <2>1. CachedBaseTrust(CachedOf(peers, R), c) = Put(CachedOf(peers, R), c, BaseTrust(c))
    BY <1>3, <1>5 DEF CachedBaseTrust, CachedOf
  <2>2. Put(CachedOf(peers, R), c, BaseTrust(c)) = CachedOf(peers, R \cup {i})
    BY <1>2, <1>5 DEF Put, CachedOf
  <2> QED
    BY <1>1, <1>2, <2>1, <2>2 DEF CachedOf
<1> QED
  BY <1>4, <1>5

\* What the loop knows before it starts.
Prepared(x, peers, l, counts, cap, unanchored) ==
    /\ peers = Peers(x)
    /\ l = FinalizedList(LineageOf(x))
    /\ counts = PairCounts(LineageOf(x), l)
    /\ cap = CounterpartyWeightCap(l, counts)
    /\ unanchored = Unanchored(x, peers)

\* A receipt is over the cap, or unanchored, when no more of its pair may weigh.
LEMMA OverIs ==
    ASSUME Numbered, NEW x, NEW peers, NEW l, NEW counts, NEW cap, NEW unanchored,
           Prepared(x, peers, l, counts, cap, unanchored),
           NEW R \in SUBSET Finalized(x), NEW i \in Finalized(x), i \notin R,
           NEW limit \in Nat, limit = PairLimit(peers, unanchored, peers[i]),
           NEW k \in Nat, k = Cardinality(PairsIn(peers, R, peers[i])),
           NEW sofar, sofar = Lesser(k, limit)
    PROVE  (peers[i] \in DOMAIN cap /\ sofar >= cap[peers[i]]) \/ peers[i] \in unanchored
               <=> ~(k < limit)
<1>1. PICK c : c = peers[i]
  OBVIOUS
<1>2. DOMAIN peers = Finalized(x) /\ IsFiniteSet(Finalized(x))
  BY PeersAre, ListIs DEF Prepared
<1>3. c \in Range(peers)
  BY <1>1, <1>2 DEF Range
<1>4. CASE ~PastColdStart(peers)
  <2>1. DOMAIN cap = {} /\ unanchored = {}
    BY <1>4, CapIs DEF Prepared, Unanchored
  <2>2. limit = Cardinality(Finalized(x))
    BY <1>2, <1>4 DEF PairLimit
  <2>3. k < limit
    <3>1. PICK P : P = PairsIn(peers, R, peers[i])
      OBVIOUS
    <3>2. PICK Q : Q = P \cup {i}
      OBVIOUS
    <3>3. P \in SUBSET Finalized(x) /\ i \notin P /\ Q \in SUBSET Finalized(x)
      BY <3>1, <3>2 DEF PairsIn
    <3>4. IsFiniteSet(P) /\ Cardinality(Q) <= Cardinality(Finalized(x))
      BY <1>2, <3>3, FS_Subset
    <3>5. Cardinality(Q) = k + 1
      BY <3>1, <3>2, <3>3, <3>4, FS_AddElement
    <3> QED
      BY <2>2, <3>4, <3>5
  <2> QED
    BY <2>1, <2>3
<1>5. CASE PastColdStart(peers)
  <2>1. c \in DOMAIN cap /\ cap[c] = WeightCap(peers, c)
    BY <1>3, <1>5, CapIs DEF Prepared
  <2>2. limit = IF c \in unanchored THEN 0 ELSE cap[c]
    BY <1>1, <1>5, <2>1 DEF PairLimit
  <2> QED
    BY <1>1, <2>1, <2>2 DEF Lesser
<1> QED
  BY <1>4, <1>5

LEMMA WeighOne ==
    ASSUME Numbered, NEW x, NEW peers, NEW l, NEW counts, NEW cap, NEW unanchored,
           Prepared(x, peers, l, counts, cap, unanchored),
           NEW R \in SUBSET Finalized(x), NEW i \in Finalized(x), \A j \in R : j < i
    PROVE  WeighReceipt(LineageOf(x), counts, cap, unanchored,
                        StateOf(LineageOf(x), peers, unanchored, R), i) =
               StateOf(LineageOf(x), peers, unanchored, R \cup {i})
<1>1. PICK self, state, c : /\ self = LineageOf(x) /\ c = peers[i]
                            /\ state = StateOf(self, peers, unanchored, R)
  OBVIOUS
<1>2. /\ DOMAIN peers = Finalized(x) /\ IsFiniteSet(Finalized(x)) /\ IsFiniteSet(R)
      /\ c = Counterparty(i, self) /\ c \in Range(peers)
  <2>1. peers = Peers(x)
    BY DEF Prepared
  <2>2. DOMAIN peers = Finalized(x) /\ c = Counterparty(i, self)
    BY <1>1, <2>1, PeersAre
  <2>3. IsFiniteSet(Finalized(x)) /\ IsFiniteSet(R)
    BY ListIs, FS_Subset
  <2> QED
    BY <1>1, <2>2, <2>3 DEF Range
<1>3. i \in Nat /\ \A j \in R : j \in Nat /\ j < i
  <2>1. PICK n \in Nat : Finalized(x) \in SUBSET (1 .. n)
    BY ListIs
  <2>2. \A j \in Finalized(x) : j \in Nat
    BY <2>1
  <2> QED
    BY <2>2
<1>4. i \notin R
  BY <1>3
<1>5. PICK limit \in Nat : limit = PairLimit(peers, unanchored, peers[i])
  BY <1>2, LimitNat
<1>6. PICK k \in Nat : k = Cardinality(PairsIn(peers, R, peers[i]))
  BY <1>2, <1>4, NextPair
<1>7. PICK sofar : sofar = Lesser(k, limit)
  OBVIOUS
<1>8. PICK over : over = ((c \in DOMAIN cap /\ sofar >= cap[c]) \/ c \in unanchored)
  OBVIOUS
<1>9. over <=> ~(k < limit)
  <2>1. (peers[i] \in DOMAIN cap /\ sofar >= cap[peers[i]]) \/ peers[i] \in unanchored
            <=> ~(k < limit)
    BY <1>4, <1>5, <1>6, <1>7, OverIs
  <2> QED
    BY <1>1, <1>8, <2>1
<1>10. PICK full : full = FullWeight(peers, c)
  OBVIOUS
<1>11. PICK cache : cache = CachedOf(peers, R \cup {i})
  OBVIOUS
<1>12. CachedBaseTrust(state.trustCache, c) = cache /\ cache[c] = BaseTrust(c)
  BY <1>1, <1>11, CacheNext DEF StateOf
<1>13. Count(state.counted, c) = sofar
  <2>1. Count(CountedOf(peers, unanchored, R), peers[i]) = Lesser(k, limit)
    BY <1>2, <1>4, <1>5, <1>6, CountedSoFar
  <2>2. state.counted = CountedOf(peers, unanchored, R)
    BY <1>1 DEF StateOf
  <2> QED
    BY <1>1, <1>7, <2>1, <2>2
<1>14. counts[c] = Cardinality(PairReceipts(peers, c))
  BY <1>2, PairCountsOfPeers DEF Prepared
<1>15. WeighReceipt(self, counts, cap, unanchored, state, i) =
          [trustCache |-> cache,
           counted |-> IF over THEN state.counted ELSE Put(state.counted, c, sofar + 1),
           weights |-> Put(state.weights, i, IF over THEN Zero ELSE full),
           asProvider |-> IF receipts[i].b \in self THEN state.asProvider \cup {i}
                                                    ELSE state.asProvider]
  BY <1>2, <1>8, <1>10, <1>12, <1>13, <1>14 DEF WeighReceipt, FullWeight
<1>16. (IF over THEN state.counted ELSE Put(state.counted, c, sofar + 1)) =
           CountedOf(peers, unanchored, R \cup {i})
  <2>1. state.counted = CountedOf(peers, unanchored, R)
    BY <1>1 DEF StateOf
  <2>2. k < limit => sofar + 1 = k + 1
    BY <1>7 DEF Lesser
  <2>3. CountedOf(peers, unanchored, R \cup {i}) =
            IF k < limit THEN Put(CountedOf(peers, unanchored, R), peers[i], k + 1)
                         ELSE CountedOf(peers, unanchored, R)
    BY <1>2, <1>4, <1>5, <1>6, CountedNext
  <2>4. CASE k < limit
    <3>1. ~over
      BY <1>9, <2>4
    <3>2. CountedOf(peers, unanchored, R \cup {i}) =
              Put(CountedOf(peers, unanchored, R), peers[i], k + 1)
      BY <2>3, <2>4
    <3>3. (IF over THEN state.counted ELSE Put(state.counted, c, sofar + 1)) =
              Put(state.counted, c, sofar + 1)
      BY <3>1
    <3> QED
      BY <1>1, <2>1, <2>2, <2>4, <3>2, <3>3
  <2>5. CASE ~(k < limit)
    <3>1. over
      BY <1>9, <2>5
    <3> QED
      BY <2>1, <2>3, <2>5, <3>1
  <2> QED
    BY <2>4, <2>5
<1>17. Put(state.weights, i, IF over THEN Zero ELSE full) =
           WeightsOf(peers, unanchored, R \cup {i})
  <2>1. state.weights = WeightsOf(peers, unanchored, R)
    BY <1>1 DEF StateOf
  <2>2. Within(peers, unanchored, R, i) <=> ~over
    BY <1>5, <1>6, <1>9 DEF Within
  <2>3. AllBefore(R, i)
    BY <1>3 DEF AllBefore
  <2>4. WeightsOf(peers, unanchored, R \cup {i}) =
            Put(WeightsOf(peers, unanchored, R), i,
                IF Within(peers, unanchored, R, i) THEN FullWeight(peers, peers[i]) ELSE Zero)
    BY <2>3, WeightsNext
  <2>5. (IF over THEN Zero ELSE full) =
            IF Within(peers, unanchored, R, i) THEN FullWeight(peers, peers[i]) ELSE Zero
    BY <1>1, <1>10, <2>2
  <2> QED
    BY <2>1, <2>4, <2>5
<1>18. (IF receipts[i].b \in self THEN state.asProvider \cup {i} ELSE state.asProvider) =
           {j \in R \cup {i} : receipts[j].b \in self}
  <2>1. state.asProvider = {j \in R : receipts[j].b \in self}
    BY <1>1 DEF StateOf
  <2> QED
    BY <2>1
<1> QED
  BY <1>1, <1>11, <1>15, <1>16, <1>17, <1>18 DEF StateOf

\* The whole list: what the loop holds at its end.
LEMMA WeighAllIs ==
    ASSUME Numbered, NEW x, NEW peers, NEW l, NEW counts, NEW cap, NEW unanchored,
           Prepared(x, peers, l, counts, cap, unanchored)
    PROVE  WeighAll(LineageOf(x), counts, cap, unanchored, l) =
               StateOf(LineageOf(x), peers, unanchored, Finalized(x))
<1>0. PICK self, S : self = LineageOf(x) /\ S = Finalized(x)
  OBVIOUS
<1>1. PICK N \in Nat : N = Cardinality(S)
  BY <1>0, ListIs
<1>2. PICK n \in Nat : S \in SUBSET (1 .. n)
  BY <1>0, ListIs
<1>3. IsList(l, N, S)
  BY <1>0, <1>1, ListIs DEF Prepared
<1>4. DOMAIN l = 1 .. N
  BY <1>3 DEF IsList, IsAscending
<1>5. PICK W : W = [R \in SUBSET S |-> StateOf(self, peers, unanchored, R)]
  OBVIOUS
<1>6. PICK base : base = [trustCache |-> EmptyMap, counted |-> EmptyMap, weights |-> EmptyMap,
                          asProvider |-> {}]
  OBVIOUS
<1> DEFINE Step(state, i) == WeighReceipt(self, counts, cap, unanchored, state, i)
           Folded(g) == g = [s \in SUBSET (1 .. N) |->
                               IF s = {} THEN base
                               ELSE Step(g[s \ {Max(s)}], l[Max(s)])]
<1>7. ASSUME NEW s \in SUBSET (1 .. N), s # {}
      PROVE  W[Taken(l, s)] = Step(W[Before(l, s)], l[Max(s)])
  <2>1. Max(s) \in 1 .. N /\ InFront(l, s, S)
    BY <1>2, <1>3, <1>7, IsInFront
  <2>2. PICK i, R : i = Latest(l, s) /\ R = Before(l, s)
    OBVIOUS
  <2>3. i \in S /\ R \in SUBSET S /\ Taken(l, s) = R \cup {i} /\ \A j \in R : j < i
    BY <2>1, <2>2 DEF InFront
  <2>4. Step(StateOf(self, peers, unanchored, R), i) =
            StateOf(self, peers, unanchored, R \cup {i})
    BY <1>0, <2>3, WeighOne
  <2>5. W[R \cup {i}] = StateOf(self, peers, unanchored, R \cup {i})
        /\ W[R] = StateOf(self, peers, unanchored, R)
    BY <1>5, <2>3
  <2> HIDE DEF Step
  <2> QED
    BY <2>2, <2>3, <2>4, <2>5 DEF Latest
<1>8. W[{}] = base
  <2>1. PeersIn(peers, {}) = {}
    BY DEF PeersIn
  <2>2. StateOf(self, peers, unanchored, {}) = base
    BY <1>6, <2>1 DEF StateOf, CachedOf, CountedOf, WeightsOf, EmptyMap
  <2> QED
    BY <1>5, <2>2
<1>9. PICK w : w = [s \in SUBSET (1 .. N) |-> W[Taken(l, s)]]
  OBVIOUS
<1>10. w[{}] = W[{}] /\ w[1 .. N] = W[S]
  <2>1. Taken(l, {}) = {} /\ Taken(l, 1 .. N) = S
    BY <1>3 DEF Taken, IsList
  <2> QED
    BY <1>9, <2>1
<1>11. Folded(w)
  <2>1. ASSUME NEW s \in SUBSET (1 .. N), s # {}
        PROVE  w[s] = Step(w[s \ {Max(s)}], l[Max(s)])
    <3>1. w[s] = W[Taken(l, s)] /\ w[s \ {Max(s)}] = W[Before(l, s)]
      BY <1>9 DEF Before
    <3> HIDE DEF Step
    <3> QED
      BY <1>7, <2>1, <3>1
  <2> HIDE DEF Step
  <2> QED
    BY <1>8, <1>9, <1>10, <2>1
<1>12. ASSUME NEW g, Folded(g) PROVE g = w
  <2>1. Over(g, 1 .. N) /\ g[{}] = W[{}]
    BY <1>8, <1>12 DEF Over
  <2>2. ASSUME NEW s \in SUBSET (1 .. N), s # {}, g[s \ {Max(s)}] = W[Before(l, s)]
        PROVE  g[s] = W[Taken(l, s)]
    <3>1. g[s] = Step(g[s \ {Max(s)}], l[Max(s)])
      BY <1>12, <2>2
    <3> HIDE DEF Step
    <3> QED
      BY <1>7, <2>2, <3>1
  <2>3. KeepsUp(g, W, l, N)
    BY <2>1, <2>2 DEF KeepsUp
  <2> QED
    BY <1>9, <2>1, <2>3, Walk
<1>13. (CHOOSE g : Folded(g)) = w
  <2> HIDE DEF Folded
  <2> QED
    BY <1>11, <1>12
<1>14. WeighAll(self, counts, cap, unanchored, l) = (CHOOSE g : Folded(g))[DOMAIN l]
  <2>1. WeighAll(self, counts, cap, unanchored, l) =
            FoldLeft(LAMBDA state, i : Step(state, i), base, l)
    BY <1>6 DEF WeighAll
  <2> HIDE DEF Step
  <2>2. FoldLeft(LAMBDA state, i : Step(state, i), base, l) = (CHOOSE g : Folded(g))[DOMAIN l]
    BY <1>4 DEF FoldLeft, MapThenFoldSet
  <2> QED
    BY <2>1, <2>2, Zenon
<1>15. WeighAll(self, counts, cap, unanchored, l) = W[S]
  BY <1>4, <1>10, <1>13, <1>14
<1> QED
  BY <1>0, <1>5, <1>15

-----------------------------------------------------------------------------
(* The flags: a sum over counterparties is a number of receipts. *)

With(peers, T) == {i \in DOMAIN peers : peers[i] \in T}

LEMMA SumIs ==
    ASSUME NEW peers, IsFiniteSet(DOMAIN peers), NEW T \in SUBSET Range(peers), NEW counts,
           \A c \in Range(peers) : counts[c] = Cardinality(PairReceipts(peers, c))
    PROVE  FoldFunctionOnSet(+, 0, counts, T) = Cardinality(With(peers, T))
<1>1. IsFiniteSet(T)
  <2>1. IsFiniteSet(Range(peers))
    <3>1. PICK f : f = [i \in DOMAIN peers |-> peers[i]]
      OBVIOUS
    <3>2. f \in Surjection(DOMAIN peers, Range(peers))
      BY <3>1 DEF Surjection, Range
    <3> QED
      BY <3>2, FS_Surjection
  <2> QED
    BY <2>1, FS_Subset
<1>2. PICK pick : pick = [s \in SUBSET T |-> CHOOSE c \in s : TRUE]
  OBVIOUS
<1>3. Picks(pick, T)
  BY <1>2 DEF Picks
<1> DEFINE Folded(g) == g = [s \in SUBSET T |->
                               IF s = {} THEN 0
                               ELSE counts[CHOOSE c \in s : TRUE]
                                        + g[s \ {CHOOSE c \in s : TRUE}]]
<1>4. PICK w : w = [s \in SUBSET T |-> Cardinality(With(peers, s))]
  OBVIOUS
<1>5. ASSUME NEW s \in SUBSET T, s # {}, NEW c \in s
      PROVE  w[s] = counts[c] + w[s \ {c}]
  <2>1. PICK P, Q : P = PairReceipts(peers, c) /\ Q = With(peers, s \ {c})
    OBVIOUS
  <2>2. With(peers, s) = P \cup Q /\ P \cap Q = {}
    BY <2>1 DEF With, PairReceipts
  <2>3. IsFiniteSet(P) /\ IsFiniteSet(Q)
    BY <2>1, FS_Subset DEF With, PairReceipts
  <2>4. Cardinality(P) \in Nat /\ Cardinality(Q) \in Nat
    BY <2>3, FS_CardinalityType
  <2>5. Cardinality(P \cup Q) = Cardinality(P) + Cardinality(Q)
    <3>1. Cardinality(P \cup Q) = Cardinality(P) + Cardinality(Q) - Cardinality(P \cap Q)
      BY <2>3, FS_Union
    <3>2. Cardinality(P \cap Q) = 0
      BY <2>2, FS_EmptySet
    <3> QED
      BY <2>4, <3>1, <3>2
  <2>6. counts[c] = Cardinality(P)
    BY <1>5, <2>1
  <2>7. w[s] = Cardinality(P \cup Q) /\ w[s \ {c}] = Cardinality(Q)
    BY <1>4, <2>1, <2>2
  <2> QED
    BY <2>5, <2>6, <2>7
<1>6. w[{}] = 0
  <2>1. With(peers, {}) = {}
    BY DEF With
  <2> QED
    BY <1>4, <2>1, FS_EmptySet
<1>7. Folded(w)
  <2>1. ASSUME NEW s \in SUBSET T, s # {}
        PROVE  w[s] = counts[CHOOSE c \in s : TRUE] + w[s \ {CHOOSE c \in s : TRUE}]
    <3>1. PICK d : d = CHOOSE c \in s : TRUE
      OBVIOUS
    <3>2. d \in s
      BY <2>1, <3>1
    <3> QED
      BY <1>5, <2>1, <3>1, <3>2
  <2> QED
    BY <1>4, <1>6, <2>1
<1>8. ASSUME NEW g, Folded(g) PROVE g = w
  <2>1. Over(g, T) /\ Over(w, T)
    BY <1>4, <1>8 DEF Over
  <2>2. g[{}] = w[{}]
    BY <1>6, <1>8
  <2>3. ASSUME NEW s \in SUBSET T, s # {}, g[s \ {pick[s]}] = w[s \ {pick[s]}]
        PROVE  g[s] = w[s]
    <3>1. pick[s] = CHOOSE c \in s : TRUE
      BY <1>2
    <3>2. g[s] = counts[pick[s]] + g[s \ {pick[s]}]
      BY <1>8, <2>3, <3>1
    <3>3. w[s] = counts[pick[s]] + w[s \ {pick[s]}]
      BY <1>3, <1>5, <2>3 DEF Picks
    <3> QED
      BY <2>3, <3>2, <3>3
  <2>4. SameSteps(g, w, pick, T)
    BY <2>2, <2>3 DEF SameSteps
  <2> HIDE DEF Folded
  <2> QED
    BY <1>1, <1>3, <2>1, <2>4, FoldsAgree
<1>9. (CHOOSE g : Folded(g)) = w
  <2> HIDE DEF Folded
  <2> QED
    BY <1>7, <1>8
<1>10. FoldFunctionOnSet(+, 0, counts, T) = (CHOOSE g : Folded(g))[T]
  BY DEF FoldFunctionOnSet, MapThenFoldSet
<1> QED
  BY <1>4, <1>9, <1>10

LEMMA VolumeIs ==
    ASSUME Numbered, NEW x, NEW peers, NEW l, NEW counts, NEW cap, NEW unanchored,
           Prepared(x, peers, l, counts, cap, unanchored)
    PROVE  /\ UnanchoredVolume(l, counts, unanchored) =
                  MostOf({i \in DOMAIN peers : peers[i] \in unanchored}, peers)
           /\ Concentrated(l, counts) = {c \in Range(peers) : MostOf(PairReceipts(peers, c), peers)}
<1>1. PICK N : N = Len(l)
  OBVIOUS
<1>2. N = Cardinality(DOMAIN peers) /\ (N >= 3 <=> PastColdStart(peers))
  BY <1>1, CapIs DEF Prepared
<1>3. /\ DOMAIN counts = Range(peers)
      /\ \A c \in Range(peers) : counts[c] = Cardinality(PairReceipts(peers, c))
  BY PairCountsOfPeers DEF Prepared
<1>4. IsFiniteSet(DOMAIN peers)
  BY PeersAre, ListIs DEF Prepared
<1>5. unanchored \in SUBSET Range(peers)
  BY DEF Prepared, Unanchored
<1>6. FoldFunctionOnSet(+, 0, counts, unanchored) = Cardinality(With(peers, unanchored))
  BY <1>3, <1>4, <1>5, SumIs
<1>7. UnanchoredVolume(l, counts, unanchored) =
          (N >= 3 /\ 5 * FoldFunctionOnSet(+, 0, counts, unanchored) > 3 * N)
  BY <1>1 DEF UnanchoredVolume
<1>8. MostOf({i \in DOMAIN peers : peers[i] \in unanchored}, peers) =
          (N >= 3 /\ 5 * Cardinality(With(peers, unanchored)) > 3 * N)
  BY <1>2 DEF MostOf, With
<1>9. Concentrated(l, counts) = {c \in Range(peers) : N >= 3 /\ 5 * counts[c] > 3 * N}
  BY <1>1, <1>3 DEF Concentrated
<1>10. ASSUME NEW c \in Range(peers)
       PROVE  MostOf(PairReceipts(peers, c), peers) <=> N >= 3 /\ 5 * counts[c] > 3 * N
  BY <1>2, <1>3 DEF MostOf
<1>11. Concentrated(l, counts) = {c \in Range(peers) : MostOf(PairReceipts(peers, c), peers)}
  BY <1>9, <1>10
<1> QED
  BY <1>6, <1>7, <1>8, <1>11, Zenon

\* The reports weigh what their posters' receipts lend, cached or not.
LEMMA ReportsAre ==
    ASSUME Numbered, NEW x, NEW peers, NEW R
    PROVE  ReportWeights(x, CachedOf(peers, R)) = [p \in ReportingPosters(x) |-> BaseTrust(p)]
<1>1. {PosterHead(j) : j \in NonPerformanceReports(x)} = ReportingPosters(x)
  BY DEF PosterHead, ReportingPosters
<1>2. ASSUME NEW p PROVE CachedBaseTrust(CachedOf(peers, R), p)[p] = BaseTrust(p)
  <2>1. p \in PeersIn(peers, R) => CachedBaseTrust(CachedOf(peers, R), p)[p] = BaseTrust(p)
    BY DEF CachedBaseTrust, CachedOf
  <2>2. ToSet(FinalizedList(LineageOf(p))) = BaseTrust(p)
    BY TrustIs
  <2>3. p \notin PeersIn(peers, R) =>
            CachedBaseTrust(CachedOf(peers, R), p) = Put(CachedOf(peers, R), p, BaseTrust(p))
    BY <2>2 DEF CachedBaseTrust, CachedOf
  <2>4. Put(CachedOf(peers, R), p, BaseTrust(p))[p] = BaseTrust(p)
    BY DEF Put
  <2> QED
    BY <2>1, <2>3, <2>4
<1> QED
  BY <1>1, <1>2 DEF ReportWeights

\* At the end of the list, the limits say of each receipt what Weighted says.
LEMMA WeightsAre ==
    ASSUME Numbered, NEW x, NEW peers, peers = Peers(x), NEW unanchored,
           NEW i \in Finalized(x)
    PROVE  WeightIn(peers, unanchored, Finalized(x), i) =
               IF Weighted(peers, unanchored, i) THEN FullWeight(peers, peers[i]) ELSE Zero
<1>1. PICK S : S = Finalized(x)
  OBVIOUS
<1>2. DOMAIN peers = S /\ IsFiniteSet(S)
  BY <1>1, PeersAre, ListIs
<1>3. PICK E : E = EarlierIn(peers, S, i)
  OBVIOUS
<1>4. E = {j \in PairReceipts(peers, peers[i]) : j < i}
  BY <1>2, <1>3 DEF EarlierIn, PairReceipts
<1>5. IsFiniteSet(E) /\ Cardinality(E) \in Nat /\ Cardinality(S) \in Nat
  BY <1>2, <1>3, FS_Subset, FS_CardinalityType DEF EarlierIn
<1>6. Cardinality(E) < PairLimit(peers, unanchored, peers[i]) <=> Weighted(peers, unanchored, i)
  <2>1. CASE ~PastColdStart(peers)
    <3>1. i \notin E
      <4>1. PICK n \in Nat : Finalized(x) \in SUBSET (1 .. n)
        BY ListIs
      <4>2. i \in Nat
        BY <4>1
      <4>3. ~(i < i)
        BY <4>2
      <4> QED
        BY <1>4, <4>3
    <3>2. E \cup {i} \in SUBSET S
      BY <1>1, <1>3 DEF EarlierIn
    <3>3. Cardinality(E \cup {i}) = Cardinality(E) + 1
      BY <1>5, <3>1, FS_AddElement
    <3>4. Cardinality(E \cup {i}) <= Cardinality(S)
      BY <1>2, <3>2, FS_Subset
    <3>5. Cardinality(E) < Cardinality(S)
      BY <1>5, <3>3, <3>4
    <3> QED
      BY <1>2, <2>1, <3>5 DEF PairLimit, Weighted
  <2>2. CASE PastColdStart(peers)
    <3>1. Weighted(peers, unanchored, i) <=>
              peers[i] \notin unanchored /\ Cardinality(E) < WeightCap(peers, peers[i])
      BY <1>4, <2>2 DEF Weighted
    <3>2. PairLimit(peers, unanchored, peers[i]) =
              IF peers[i] \in unanchored THEN 0 ELSE WeightCap(peers, peers[i])
      BY <2>2 DEF PairLimit
    <3> QED
      BY <1>5, <3>1, <3>2
  <2> QED
    BY <2>1, <2>2
<1> QED
  BY <1>1, <1>3, <1>6 DEF WeightIn

LEMMA LoopsAgree == ASSUME Numbered, NEW x PROVE LoopResult(x) \in SetResult(x)
<1>1. PICK self, l, peers, unanchored :
          /\ self = LineageOf(x) /\ l = FinalizedList(self)
          /\ peers = Peers(x) /\ unanchored = Unanchored(x, peers)
  OBVIOUS
<1>2. PICK counts : counts = PairCounts(self, l)
  OBVIOUS
<1>3. PICK cap : cap = CounterpartyWeightCap(l, counts)
  OBVIOUS
<1>4. UnanchoredSet(x, self, l, counts) = unanchored
  BY <1>1, <1>2, UnanchoredAre
<1>5. Prepared(x, peers, l, counts, cap, unanchored)
  BY <1>1, <1>2, <1>3 DEF Prepared
<1>6. PICK S, end : S = Finalized(x) /\ end = WeighAll(self, counts, cap, unanchored, l)
  OBVIOUS
<1>7. end = StateOf(self, peers, unanchored, S)
  BY <1>1, <1>5, <1>6, WeighAllIs
<1>8. DOMAIN peers = S
  BY <1>1, <1>6, PeersAre
<1>9. end.weights = FromSets(x, peers, unanchored).weights
  <2>1. end.weights = [i \in S |-> WeightIn(peers, unanchored, S, i)]
    BY <1>7 DEF StateOf, WeightsOf
  <2>2. FromSets(x, peers, unanchored).weights =
            [i \in S |-> IF Weighted(peers, unanchored, i) THEN FullWeight(peers, peers[i])
                                                           ELSE Zero]
    BY <1>8 DEF FromSets, FullWeight
  <2>3. \A i \in S : WeightIn(peers, unanchored, S, i) =
            IF Weighted(peers, unanchored, i) THEN FullWeight(peers, peers[i]) ELSE Zero
    BY <1>1, <1>6, WeightsAre
  <2> QED
    BY <2>1, <2>2, <2>3
<1>10. end.asProvider = {i \in DOMAIN peers : receipts[i].b \in LineageOf(x)}
  BY <1>1, <1>7, <1>8 DEF StateOf
<1>11. ReportWeights(x, end.trustCache) = [p \in ReportingPosters(x) |-> BaseTrust(p)]
  <2>1. end.trustCache = CachedOf(peers, S)
    BY <1>7 DEF StateOf
  <2> QED
    BY <2>1, ReportsAre
<1>12. /\ UnanchoredVolume(l, counts, unanchored) =
              MostOf({i \in DOMAIN peers : peers[i] \in unanchored}, peers)
       /\ Concentrated(l, counts) = {c \in Range(peers) : MostOf(PairReceipts(peers, c), peers)}
  BY <1>5, VolumeIs
<1>13. LoopResult(x) = [weights |-> end.weights,
                        asProvider |-> end.asProvider,
                        reports |-> ReportWeights(x, end.trustCache),
                        concentrated |-> Concentrated(l, counts),
                        unanchoredVolume |-> UnanchoredVolume(l, counts, unanchored)]
  BY <1>1, <1>2, <1>3, <1>4, <1>6 DEF LoopResult
<1>14. FromSets(x, peers, unanchored) =
           [weights |-> FromSets(x, peers, unanchored).weights,
            asProvider |-> {i \in DOMAIN peers : receipts[i].b \in LineageOf(x)},
            reports |-> [p \in ReportingPosters(x) |-> BaseTrust(p)],
            concentrated |-> {c \in Range(peers) : MostOf(PairReceipts(peers, c), peers)},
            unanchoredVolume |->
                MostOf({i \in DOMAIN peers : peers[i] \in unanchored}, peers)]
  BY DEF FromSets
<1>15. LoopResult(x) = FromSets(x, peers, unanchored)
  BY <1>9, <1>10, <1>11, <1>12, <1>13, <1>14
<1> QED
  BY <1>1, <1>15 DEF SetResult

-----------------------------------------------------------------------------
(* Receipts stay numbered. *)

Row == [a : Agent, b : Agent, status : {"draft", "finalized", "disputed"}]

ScoreInv == receipts \in Seq(Row)

LEMMA ScoreInit == Init => ScoreInv
BY DEF Init, ScoreInv

LEMMA ScoreNext == ASSUME ScoreInv, [Next]_vars PROVE ScoreInv'
<1>1. CASE UNCHANGED vars
  BY <1>1 DEF vars, ScoreInv
<1>2. ASSUME NEW a \in Agent, NEW b \in Agent, CreateDraft(a, b) PROVE ScoreInv'
  BY <1>2 DEF CreateDraft, ScoreInv, Row
<1>3. ASSUME NEW i \in DOMAIN receipts, NEW from, NEW to \in {"finalized", "disputed"},
             SetStatus(i, from, to)
      PROVE  ScoreInv'
  <2>0. PICK old, r : old = receipts[i] /\ r = [old EXCEPT !.status = to]
    OBVIOUS
  <2>1. r = [receipts[i] EXCEPT !.status = to] /\ old \in Row
    BY <2>0 DEF ScoreInv
  <2>2. r \in Row
    BY <2>0, <2>1 DEF Row
  <2>3. receipts' = [receipts EXCEPT ![i] = r]
    BY <1>3, <2>1 DEF SetStatus
  <2>4. receipts \in Seq(Row) /\ i \in DOMAIN receipts
    BY DEF ScoreInv
  <2> QED
    BY <2>2, <2>3, <2>4 DEF ScoreInv
<1>4. ASSUME NEW i \in DOMAIN receipts, Countersign(i) \/ OpenDispute(i) \/ DisputeEnds(i)
      PROVE  ScoreInv'
  BY <1>3, <1>4 DEF Countersign, OpenDispute, DisputeEnds
<1>5. CASE UNCHANGED receipts
  BY <1>5 DEF ScoreInv
<1> QED
  BY <1>1, <1>2, <1>4, <1>5
     DEF Next, RegisterAgent, ActivateSuccession, AcceptOffer, ReportNonPerformance

LEMMA ScoreAgrees == ScoreInv => RuntimesAgree
<1>1. ScoreInv => Numbered
  BY DEF ScoreInv, Numbered
<1> QED
  BY <1>1, LoopsAgree DEF RuntimesAgree
=============================================================================
