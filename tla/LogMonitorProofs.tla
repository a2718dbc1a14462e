--------------------------- MODULE LogMonitorProofs ---------------------------
(***************************************************************************)
(* The tree hashes and proofs of MerkleTree, for logs of any length: the    *)
(* audit paths that are computed are accepted, the consistency proofs that  *)
(* are computed are accepted, and what is accepted shows that one log      *)
(* extends the other.  From these, the monitor: no head gets into its file *)
(* that does not extend the one before, and it fails only if the table was *)
(* tampered with.                                                          *)
(*                                                                         *)
(* The recursive functions of MerkleTree are first told as facts about     *)
(* ranges s .. e-1 of leaves and their halves; every induction is by the   *)
(* least counterexample.                                                   *)
(***************************************************************************)
EXTENDS LogMonitor, SequenceTheorems, WellFoundedInduction, TLAPS

-----------------------------------------------------------------------------
(* Powers of two, and where a range is split. *)

\* Every set of numbers has a least one: what is shown by induction is shown by it.
LEMMA LeastNat ==
    ASSUME NEW S \in SUBSET Nat, S # {}
    PROVE  \E i \in S : \A j \in S : i <= j
<1>1. PICK i \in S : \A j \in S : ~ (<<j, i>> \in OpToRel(<, Nat))
  BY NatLessThanWellFounded, WFMin
<1>2. \A j \in S : ~ (j < i)
  BY <1>1 DEF OpToRel
<1> QED
  BY <1>2

\* The powers of two: 1, and the double of each.
Powers ==
    {k \in Nat : \A S \in SUBSET Nat : 1 \in S /\ (\A j \in S : 2 * j \in S) => k \in S}

\* The powers of two are numbers from 1 on, closed under doubling.
LEMMA PowersDouble ==
    /\ 1 \in Powers
    /\ \A p \in Powers : 2 * p \in Powers /\ p \in Nat /\ p >= 1
<1>1. 1 \in Powers
  BY DEF Powers
<1>2. ASSUME NEW p \in Powers PROVE 2 * p \in Powers /\ p \in Nat /\ p >= 1
  <2>1. p \in Nat /\ 2 * p \in Nat
    BY DEF Powers
  <2>2. \A S \in SUBSET Nat : 1 \in S /\ (\A j \in S : 2 * j \in S) => 2 * p \in S
    BY DEF Powers
  <2>3. 2 * p \in Powers
    BY <2>1, <2>2 DEF Powers
  <2>4. p >= 1
    <3>1. PICK S : S = {k \in Nat : k >= 1}
      OBVIOUS
    <3>2. S \in SUBSET Nat /\ 1 \in S /\ \A j \in S : 2 * j \in S
      BY <3>1
    <3>3. p \in S
      BY <3>2 DEF Powers
    <3> QED
      BY <3>1, <3>3
  <2> QED
    BY <2>1, <2>3, <2>4
<1> QED
  BY <1>1, <1>2

\* Below every n > 1 there is a largest power of two.
LEMMA PowerBelow ==
    ASSUME NEW n \in Nat, n > 1
    PROVE  \E p \in Powers : p < n /\ n <= 2 * p
<1> DEFINE D == {l \in Nat : l > 1 /\ ~ \E p \in Powers : p < l /\ l <= 2 * p}
<1>1. ASSUME D # {} PROVE FALSE
  <2>1. PICK l \in D : \A j \in D : l <= j
    <3>1. D \in SUBSET Nat
      OBVIOUS
    <3> HIDE DEF D
    <3> QED
      BY <1>1, <3>1, LeastNat
  <2>2. l # 2
    BY <2>1, PowersDouble
  <2>3. PICK h \in Nat : 2 * h = l \/ 2 * h = l + 1
    <3>1. (l + 1) \div 2 \in Nat /\ (2 * ((l + 1) \div 2) = l \/ 2 * ((l + 1) \div 2) = l + 1)
      BY <2>1
    <3> QED
      BY <3>1
  <2>4. h < l /\ h > 1
    BY <2>1, <2>2, <2>3
  <2>5. h \notin D
    BY <2>1, <2>4
  <2>6. PICK p \in Powers : p < h /\ h <= 2 * p
    BY <2>4, <2>5
  <2>7. 2 * p \in Powers /\ p \in Nat
    BY PowersDouble
  <2>8. 2 * p < l /\ l <= 2 * (2 * p)
    BY <2>1, <2>3, <2>6, <2>7
  <2> QED
    BY <2>1, <2>7, <2>8
<1> QED
  BY <1>1

\* The loop of SplitPoint from t on.
Doubles(n, t, d) == d = [k \in t .. n |-> IF k * 2 < n THEN d[k * 2] ELSE k]

\* The function that splitPoint computes by doubling exists.
LEMMA DoublesExist ==
    ASSUME NEW n \in Nat, n >= 1
    PROVE  \E d : Doubles(n, 1, d)
<1> DEFINE D == {j \in 0 .. n - 1 : ~ \E d : Doubles(n, n - j, d)}
<1>1. ASSUME D # {} PROVE FALSE
  <2>1. PICK j \in D : \A i \in D : j <= i
    <3>1. D \in SUBSET Nat
      OBVIOUS
    <3> HIDE DEF D
    <3> QED
      BY <1>1, <3>1, LeastNat
  <2>2. j # 0
    <3>1. PICK d : d = [k \in n - 0 .. n |-> k]
      OBVIOUS
    <3>2. \A k \in n - 0 .. n : k = n /\ ~(k * 2 < n)
      OBVIOUS
    <3>3. Doubles(n, n - 0, d)
      BY <3>1, <3>2 DEF Doubles
    <3> QED
      BY <2>1, <3>3
  <2>3. j - 1 \in 0 .. n - 1 /\ j - 1 \notin D
    BY <2>1, <2>2
  <2>4. PICK t \in Nat : t = n - j /\ t + 1 = n - (j - 1) /\ t >= 1
    BY <2>1, <2>3
  <2>5. PICK d : Doubles(n, t + 1, d)
    BY <2>3, <2>4
  <2>6. PICK e : e = [k \in t .. n |-> IF k * 2 < n THEN d[k * 2] ELSE k]
    OBVIOUS
  <2>7. ASSUME NEW k \in t .. n PROVE e[k] = IF k * 2 < n THEN e[k * 2] ELSE k
    <3>1. CASE k * 2 < n
      <4>1. PICK x \in t + 1 .. n : x = k * 2
        BY <2>4, <3>1
      <4>2. d[x] = IF x * 2 < n THEN d[x * 2] ELSE x
        BY <2>5 DEF Doubles
      <4>3. x \in t .. n
        BY <2>4, <4>1
      <4>4. e[x] = IF x * 2 < n THEN d[x * 2] ELSE x
        BY <2>6, <4>3
      <4> QED
        BY <2>6, <3>1, <4>1, <4>2, <4>4
    <3>2. CASE ~(k * 2 < n)
      BY <2>6, <3>2
    <3> QED
      BY <3>1, <3>2
  <2>8. Doubles(n, t, e)
    <3>1. e = [k \in t .. n |-> IF k * 2 < n THEN e[k * 2] ELSE k]
      BY <2>6, <2>7
    <3> QED
      BY <3>1 DEF Doubles
  <2> QED
    BY <2>1, <2>4, <2>8
<1>2. n - 1 \in 0 .. n - 1 /\ n - (n - 1) = 1
  OBVIOUS
<1> QED
  BY <1>1, <1>2

\* What the loop comes to, in terms of powers.
LEMMA SplitIs ==
    ASSUME NEW n \in Nat, NEW p \in Powers, p < n, n <= 2 * p
    PROVE  SplitPoint(n) = p
<1>1. p \in Nat /\ p >= 1 /\ n > 1
  BY PowersDouble
<1>2. PICK c : Doubles(n, 1, c)
  BY <1>1, DoublesExist
<1>3. PICK d : Doubles(n, 1, d) /\ SplitPoint(n) = d[1]
  <2>1. c = [k \in 1 .. n |-> IF k * 2 < n THEN c[k * 2] ELSE k]
    BY <1>2 DEF Doubles
  <2>2. PICK d : /\ d = [k \in 1 .. n |-> IF k * 2 < n THEN d[k * 2] ELSE k]
                 /\ SplitPoint(n) = d[1]
    BY <2>1 DEF SplitPoint
  <2> QED
    BY <2>2 DEF Doubles
<1>4. \A k \in 1 .. n : d[k] = IF k * 2 < n THEN d[k * 2] ELSE k
  BY <1>3 DEF Doubles
<1>5. PICK S : S = {k \in Nat : k >= 1 /\ (k < n => d[k] = d[1])}
  OBVIOUS
<1>6. S \in SUBSET Nat /\ 1 \in S
  BY <1>5
<1>7. ASSUME NEW k \in S PROVE 2 * k \in S
  <2>1. k \in Nat /\ k >= 1 /\ (k < n => d[k] = d[1])
    BY <1>5
  <2>2. 2 * k \in Nat /\ 2 * k >= 1 /\ k * 2 = 2 * k
    BY <2>1
  <2>3. CASE 2 * k < n
    <3>1. k \in 1 .. n /\ k < n
      BY <2>1, <2>3
    <3>2. d[k] = d[2 * k]
      BY <1>4, <2>2, <2>3, <3>1
    <3> QED
      BY <1>5, <2>1, <2>2, <3>1, <3>2
  <2>4. CASE ~(2 * k < n)
    BY <1>5, <2>2, <2>4
  <2> QED
    BY <2>3, <2>4
<1>8. p \in S
  BY <1>6, <1>7 DEF Powers
<1>9. d[p] = d[1]
  BY <1>5, <1>8
<1>10. p \in 1 .. n /\ ~(p * 2 < n)
  BY <1>1
<1>11. d[p] = p
  BY <1>4, <1>10
<1> QED
  BY <1>3, <1>9, <1>11

\* A range is split into two that are not empty (splitPoint).
LEMMA SplitWithin ==
    ASSUME NEW n \in Nat, n > 1
    PROVE  /\ SplitPoint(n) \in Powers /\ SplitPoint(n) \in 1 .. n - 1
           /\ n - SplitPoint(n) \in 1 .. n - 1
<1>1. PICK p \in Powers : p < n /\ n <= 2 * p
  BY PowerBelow
<1>2. SplitPoint(n) = p /\ p \in Nat /\ p >= 1
  BY <1>1, SplitIs, PowersDouble
<1> QED
  BY <1>1, <1>2
-----------------------------------------------------------------------------
(* Hashes of ranges. *)

\* Subtrees, of the ranges of at most N leaves.
Hashed(A, N, h) ==
    h = [n \in 1 .. N |->
            [s \in 0 .. Len(A) - n |->
                IF n = 1 THEN LeafHash(A[s + 1])
                ELSE NodeHash(h[SplitPoint(n)][s], h[n - SplitPoint(n)][s + SplitPoint(n)])]]

\* The hash function of Subtrees exists.
LEMMA HashedExist ==
    ASSUME NEW A, NEW N \in Nat
    PROVE  \E h : Hashed(A, N, h)
<1> DEFINE D == {j \in Nat : ~ \E h : Hashed(A, j, h)}
<1>1. ASSUME D # {} PROVE FALSE
  <2>1. PICK j \in D : \A i \in D : j <= i
    <3>1. D \in SUBSET Nat
      OBVIOUS
    <3> HIDE DEF D
    <3> QED
      BY <1>1, <3>1, LeastNat
  <2>2. j # 0
    <3>1. PICK h : h = [n \in 1 .. 0 |-> n]
      OBVIOUS
    <3>2. Hashed(A, 0, h)
      BY <3>1 DEF Hashed
    <3> QED
      BY <2>1, <3>2
  <2>3. j - 1 \in Nat /\ j - 1 \notin D
    BY <2>1, <2>2
  <2>4. PICK h : Hashed(A, j - 1, h)
    BY <2>3
  <2>5. PICK e : e = [n \in 1 .. j |->
                        [s \in 0 .. Len(A) - n |->
                            IF n = 1 THEN LeafHash(A[s + 1])
                            ELSE NodeHash(h[SplitPoint(n)][s],
                                          h[n - SplitPoint(n)][s + SplitPoint(n)])]]
    OBVIOUS
  <2>6. \A n \in 1 .. j - 1 : e[n] = h[n]
    <3>1. \A n \in 1 .. j - 1 : n \in 1 .. j
      BY <2>1
    <3> QED
      BY <2>4, <2>5, <3>1 DEF Hashed
  <2>7. ASSUME NEW n \in 1 .. j, n # 1
        PROVE  SplitPoint(n) \in 1 .. j - 1 /\ n - SplitPoint(n) \in 1 .. j - 1
    <3>1. n \in Nat /\ n > 1
      BY <2>7
    <3>2. SplitPoint(n) \in 1 .. n - 1 /\ n - SplitPoint(n) \in 1 .. n - 1
      BY <3>1, SplitWithin
    <3> QED
      BY <2>1, <3>1, <3>2
  <2>8. ASSUME NEW n \in 1 .. j, n # 1
        PROVE  e[SplitPoint(n)] = h[SplitPoint(n)] /\ e[n - SplitPoint(n)] = h[n - SplitPoint(n)]
    BY <2>6, <2>7, <2>8
  <2>9. Hashed(A, j, e)
    BY <2>5, <2>8 DEF Hashed
  <2> QED
    BY <2>1, <2>9
<1> QED
  BY <1>1

\* The range s .. e - 1 is split at u.
Halves(s, u, e) ==
    /\ s \in Nat /\ u \in Nat /\ e \in Nat
    /\ s < u /\ u < e /\ u - s = SplitPoint(e - s)

\* Every range of more than one leaf has its halves.
LEMMA HalvesExist ==
    ASSUME NEW s \in Nat, NEW e \in Nat, s + 1 < e
    PROVE  \E u \in Nat : Halves(s, u, e)
<1>1. PICK n \in Nat : n = e - s /\ n > 1
  OBVIOUS
<1>2. PICK k \in 1 .. n - 1 : k = SplitPoint(n)
  BY <1>1, SplitWithin
<1>3. PICK u \in Nat : u = s + k
  BY <1>2
<1>4. s < u /\ u < e /\ u - s = k
  BY <1>1, <1>2, <1>3
<1> QED
  BY <1>1, <1>2, <1>4 DEF Halves

\* A full left half with what is left of its width is split between the two.
LEMMA HalvesAt ==
    ASSUME NEW p \in Powers, NEW s \in Nat, NEW u \in Nat, NEW e \in Nat,
           u = s + p, u < e, e <= u + p
    PROVE  Halves(s, u, e)
<1>1. p \in Nat /\ p >= 1
  BY PowersDouble
<1>2. PICK n \in Nat : n = e - s /\ p < n /\ n <= 2 * p
  BY <1>1
<1>3. SplitPoint(n) = p
  BY <1>2, SplitIs
<1>4. s < u /\ u - s = p
  BY <1>1
<1> QED
  BY <1>2, <1>3, <1>4 DEF Halves

\* What holds of single leaves, and of a range if it holds of its halves.
LEMMA OfRanges ==
    ASSUME NEW N \in Nat, NEW R,
           \A s, e \in Nat : e = s + 1 /\ e <= N => <<s, e>> \in R,
           \A s, u, e \in Nat :
              Halves(s, u, e) /\ e <= N /\ <<s, u>> \in R /\ <<u, e>> \in R => <<s, e>> \in R
    PROVE  \A s, e \in Nat : s < e /\ e <= N => <<s, e>> \in R
<1> DEFINE D == {l \in Nat : l >= 1 /\ \E s, e \in Nat :
                    e = s + l /\ e <= N /\ ~ <<s, e>> \in R}
<1>1. ASSUME D # {} PROVE FALSE
  <2>1. PICK l \in D : \A j \in D : l <= j
    <3>1. D \in SUBSET Nat
      OBVIOUS
    <3> HIDE DEF D
    <3> QED
      BY <1>1, <3>1, LeastNat
  <2>2. PICK s \in Nat, e \in Nat : l \in Nat /\ l >= 1 /\ e = s + l /\ e <= N /\ ~ <<s, e>> \in R
    BY <2>1
  <2>3. s + 1 < e
    BY <2>2
  <2>4. PICK u \in Nat : Halves(s, u, e)
    BY <2>3, HalvesExist
  <2>5. s < u /\ u < e
    BY <2>4 DEF Halves
  <2>6. ASSUME NEW a \in Nat, NEW b \in Nat, a < b, b <= N, b - a < l PROVE <<a, b>> \in R
    <3>1. b - a \in Nat /\ b - a >= 1 /\ ~(l <= b - a) /\ b = a + (b - a)
      BY <2>2, <2>6
    <3>2. b - a \notin D
      BY <2>1, <3>1
    <3> QED
      BY <2>6, <3>1, <3>2
  <2>7. u - s < l /\ e - u < l /\ u <= N
    BY <2>2, <2>5
  <2>8. <<s, u>> \in R /\ <<u, e>> \in R
    BY <2>2, <2>5, <2>6, <2>7
  <2> QED
    BY <2>2, <2>4, <2>8
<1>2. ASSUME NEW s \in Nat, NEW e \in Nat, s < e, e <= N PROVE <<s, e>> \in R
  <2>1. e - s \in Nat /\ e - s >= 1 /\ e = s + (e - s)
    BY <1>2
  <2>2. e - s \notin D
    BY <1>1
  <2> QED
    BY <1>2, <2>1, <2>2
<1> QED
  BY <1>2

\* An entry of a function over ranges.
At(h, s, e) == h[e - s][s]

\* The hash of a range from those of its halves (subtreeHash).
HashRanges(A, N) ==
    /\ \A s \in Nat, e \in Nat : e = s + 1 /\ e <= N =>
         SubtreeHash(A, s, e) = LeafHash(A[e])
    /\ \A s \in Nat, u \in Nat, e \in Nat : Halves(s, u, e) /\ e <= N =>
         SubtreeHash(A, s, e) = NodeHash(SubtreeHash(A, s, u), SubtreeHash(A, u, e))

\* The hash of a range is that of its leaf, or of its halves (subtreeHash).
LEMMA HashIs ==
    ASSUME NEW A, NEW N \in Nat, N = Len(A)
    PROVE  HashRanges(A, N)
<1>1. PICK g : Hashed(A, N, g)
  BY HashedExist
<1>2. Hashed(A, N, Subtrees(A))
  BY <1>1 DEF Hashed, Subtrees
<1>3. PICK h : h = Subtrees(A) /\ Hashed(A, N, h)
  BY <1>2
<1>4. \A x, y : SubtreeHash(A, x, y) = h[y - x][x]
  BY <1>3 DEF SubtreeHash
<1>5. ASSUME NEW s \in Nat, NEW e \in Nat, e = s + 1, e <= N
      PROVE  SubtreeHash(A, s, e) = LeafHash(A[e])
  <2>1. 1 \in 1 .. N /\ s \in 0 .. N - 1 /\ e - s = 1
    BY <1>5
  <2>2. h[1] = [t \in 0 .. N - 1 |-> LeafHash(A[t + 1])]
    BY <1>3, <2>1 DEF Hashed
  <2> QED
    BY <1>4, <1>5, <2>1, <2>2
<1>6. ASSUME NEW s \in Nat, NEW u \in Nat, NEW e \in Nat, Halves(s, u, e), e <= N
      PROVE  SubtreeHash(A, s, e) = NodeHash(SubtreeHash(A, s, u), SubtreeHash(A, u, e))
  <2>1. PICK n \in Nat, k \in Nat : n = e - s /\ k = u - s /\ k = SplitPoint(n) /\ n > 1
    BY <1>6 DEF Halves
  <2>2. n \in 1 .. N /\ s \in 0 .. N - n /\ n # 1
    BY <1>6, <2>1
  <2>3. h[n] = [t \in 0 .. N - n |-> NodeHash(h[k][t], h[n - k][t + k])]
    BY <1>3, <2>1, <2>2, ZenonT(30) DEF Hashed
  <2>4. h[n][s] = NodeHash(h[k][s], h[n - k][s + k])
    BY <2>2, <2>3
  <2>5. n - k = e - u /\ s + k = u
    BY <2>1
  <2> QED
    BY <1>4, <2>1, <2>4, <2>5
<1> QED
  BY <1>5, <1>6 DEF HashRanges

\* Hashes are terms: a node is known by its halves, a leaf by its entry.
LEMMA HashesApart ==
    ASSUME NEW a, NEW b, NEW c, NEW d
    PROVE  /\ NodeHash(a, b) = NodeHash(c, d) <=> a = c /\ b = d
           /\ LeafHash(a) = LeafHash(c) <=> a = c
BY DEF NodeHash, LeafHash

\* Hashes of the same range are equal just if the leaves are.
LEMMA SameHash ==
    ASSUME NEW A, Len(A) \in Nat, NEW B, Len(B) \in Nat, NEW N \in Nat, N <= Len(A), N <= Len(B),
           NEW s \in Nat, NEW e \in Nat, s < e, e <= N
    PROVE  SubtreeHash(A, s, e) = SubtreeHash(B, s, e) <=> \A i \in s + 1 .. e : A[i] = B[i]
<1> DEFINE Same(t, f) == SubtreeHash(A, t, f) = SubtreeHash(B, t, f) <=>
                             \A i \in t + 1 .. f : A[i] = B[i]
<1>1. PICK R : R = {r \in Nat \X Nat : Same(r[1], r[2])}
  OBVIOUS
<1>2. \A t, f \in Nat : <<t, f>> \in R <=> Same(t, f)
  BY <1>1
<1>3. PICK a \in Nat, b \in Nat : a = Len(A) /\ b = Len(B) /\ N <= a /\ N <= b
  OBVIOUS
<1>0. HashRanges(A, a) /\ HashRanges(B, b)
  BY <1>3, HashIs
<1>4. ASSUME NEW t \in Nat, NEW f \in Nat, f = t + 1, f <= N PROVE <<t, f>> \in R
  <2>1. f <= a /\ f <= b
    BY <1>3, <1>4
  <2>2. SubtreeHash(A, t, f) = LeafHash(A[f]) /\ SubtreeHash(B, t, f) = LeafHash(B[f])
    BY <1>0, <1>4, <2>1 DEF HashRanges
  <2>3. (\A i \in t + 1 .. f : A[i] = B[i]) <=> A[f] = B[f]
    BY <1>4
  <2>4. LeafHash(A[f]) = LeafHash(B[f]) <=> A[f] = B[f]
    BY HashesApart
  <2> QED
    BY <1>2, <2>2, <2>3, <2>4
<1>5. ASSUME NEW t \in Nat, NEW u \in Nat, NEW f \in Nat,
             Halves(t, u, f), f <= N, <<t, u>> \in R, <<u, f>> \in R
      PROVE  <<t, f>> \in R
  <2>1. f <= a /\ f <= b
    BY <1>3, <1>5
  <2>2. /\ SubtreeHash(A, t, f) = NodeHash(SubtreeHash(A, t, u), SubtreeHash(A, u, f))
        /\ SubtreeHash(B, t, f) = NodeHash(SubtreeHash(B, t, u), SubtreeHash(B, u, f))
    BY <1>0, <1>5, <2>1 DEF HashRanges
  <2>3. Same(t, u) /\ Same(u, f)
    BY <1>2, <1>5
  <2>4. (\A i \in t + 1 .. f : A[i] = B[i]) <=>
          (\A i \in t + 1 .. u : A[i] = B[i]) /\ (\A i \in u + 1 .. f : A[i] = B[i])
    <3>1. t + 1 .. f = (t + 1 .. u) \cup (u + 1 .. f)
      BY <1>5 DEF Halves
    <3> QED
      BY <3>1
  <2>5. SubtreeHash(A, t, f) = SubtreeHash(B, t, f) <=>
            /\ SubtreeHash(A, t, u) = SubtreeHash(B, t, u)
            /\ SubtreeHash(A, u, f) = SubtreeHash(B, u, f)
    BY <2>2, HashesApart
  <2>6. Same(t, f)
    BY <2>3, <2>4, <2>5
  <2> QED
    BY <1>2, <2>6
<1>6. \A t, f \in Nat : t < f /\ f <= N => <<t, f>> \in R
  <2> HIDE DEF Same
  <2>1. \A t, f \in Nat : f = t + 1 /\ f <= N => <<t, f>> \in R
    BY <1>4
  <2>2. \A t, u, f \in Nat : Halves(t, u, f) /\ f <= N /\ <<t, u>> \in R /\ <<u, f>> \in R
                               => <<t, f>> \in R
    BY <1>5
  <2> QED
    BY <2>1, <2>2, OfRanges
<1> QED
  BY <1>2, <1>6
-----------------------------------------------------------------------------
(* Inclusion. *)

\* A list, of whatever elements.
IsList(p) == \E S : p \in Seq(S)

\* What a list has: a length and that domain.
LEMMA Lists ==
    ASSUME NEW p, IsList(p)
    PROVE  Len(p) \in Nat /\ DOMAIN p = 1 .. Len(p)
BY DEF IsList

\* Append under a name that the provers leave folded.
More(p, x) == Append(p, x)

\* A list with one more element.
LEMMA ListAppend ==
    ASSUME NEW p, IsList(p), NEW x
    PROVE  /\ IsList(More(p, x))
           /\ Len(More(p, x)) = Len(p) + 1 /\ More(p, x)[Len(p) + 1] = x
           /\ \A i \in 1 .. Len(p) : More(p, x)[i] = p[i]
<1>1. PICK S : p \in Seq(S)
  BY DEF IsList
<1>2. Append(p, x) \in Seq(S \cup {x})
  BY <1>1
<1> QED
  BY <1>1, <1>2 DEF IsList, More

\* p is where q starts.
IsStart(p, q) ==
    IsList(p) /\ IsList(q) /\ Len(p) <= Len(q) /\ \A i \in 1 .. Len(p) : q[i] = p[i]

\* What starts with p and x starts with p, and has x next.
LEMMA StartAppend ==
    ASSUME NEW p, IsList(p), NEW q, NEW x, IsStart(More(p, x), q)
    PROVE  IsStart(p, q) /\ Len(p) < Len(q) /\ q[Len(p) + 1] = x
<1>1. /\ Len(p) \in Nat /\ Len(q) \in Nat
      /\ Len(More(p, x)) = Len(p) + 1 /\ More(p, x)[Len(p) + 1] = x
      /\ \A i \in 1 .. Len(p) : More(p, x)[i] = p[i]
  BY Lists, ListAppend DEF IsStart
<1>2. Len(p) < Len(q) /\ \A i \in 1 .. Len(p) + 1 : q[i] = More(p, x)[i]
  BY <1>1 DEF IsStart
<1>3. Len(p) + 1 \in 1 .. Len(p) + 1 /\ \A i \in 1 .. Len(p) : i \in 1 .. Len(p) + 1
  BY <1>1
<1> QED
  BY <1>1, <1>2, <1>3 DEF IsStart

\* Paths, of the ranges of at most N leaves.
Pathed(A, m, N, h) ==
    h = [n \in 1 .. N |->
            [s \in 0 .. Len(A) - n |->
                IF n = 1 THEN <<>>
                ELSE IF m - s < SplitPoint(n)
                THEN Append(h[SplitPoint(n)][s], SubtreeHash(A, s + SplitPoint(n), s + n))
                ELSE Append(h[n - SplitPoint(n)][s + SplitPoint(n)],
                            SubtreeHash(A, s, s + SplitPoint(n)))]]

\* The function of Paths exists.
LEMMA PathedExist ==
    ASSUME NEW A, NEW m, NEW N \in Nat
    PROVE  \E h : Pathed(A, m, N, h)
<1> DEFINE D == {j \in Nat : ~ \E h : Pathed(A, m, j, h)}
<1>1. ASSUME D # {} PROVE FALSE
  <2>1. PICK j \in D : \A i \in D : j <= i
    <3>1. D \in SUBSET Nat
      OBVIOUS
    <3> HIDE DEF D
    <3> QED
      BY <1>1, <3>1, LeastNat
  <2>2. j # 0
    <3>1. PICK h : h = [n \in 1 .. 0 |-> n]
      OBVIOUS
    <3>2. Pathed(A, m, 0, h)
      BY <3>1 DEF Pathed
    <3> QED
      BY <2>1, <3>2
  <2>3. j - 1 \in Nat /\ j - 1 \notin D
    BY <2>1, <2>2
  <2>4. PICK h : Pathed(A, m, j - 1, h)
    BY <2>3
  <2>5. PICK e : e = [n \in 1 .. j |->
                        [s \in 0 .. Len(A) - n |->
                            IF n = 1 THEN <<>>
                            ELSE IF m - s < SplitPoint(n)
                            THEN Append(h[SplitPoint(n)][s], SubtreeHash(A, s + SplitPoint(n), s + n))
                            ELSE Append(h[n - SplitPoint(n)][s + SplitPoint(n)],
                                        SubtreeHash(A, s, s + SplitPoint(n)))]]
    OBVIOUS
  <2>6. \A n \in 1 .. j - 1 : e[n] = h[n]
    <3>1. \A n \in 1 .. j - 1 : n \in 1 .. j
      BY <2>1
    <3> QED
      BY <2>4, <2>5, <3>1 DEF Pathed
  <2>7. ASSUME NEW n \in 1 .. j, n # 1
        PROVE  /\ e[SplitPoint(n)] = h[SplitPoint(n)]
               /\ e[n - SplitPoint(n)] = h[n - SplitPoint(n)]
    <3>1. n \in Nat /\ n > 1
      BY <2>7
    <3>2. SplitPoint(n) \in 1 .. n - 1 /\ n - SplitPoint(n) \in 1 .. n - 1
      BY <3>1, SplitWithin
    <3>3. SplitPoint(n) \in 1 .. j - 1 /\ n - SplitPoint(n) \in 1 .. j - 1
      BY <2>1, <3>1, <3>2
    <3> QED
      BY <2>6, <3>3
  <2>8. Pathed(A, m, j, e)
    BY <2>5, <2>7 DEF Pathed
  <2> QED
    BY <2>1, <2>8
<1> QED
  BY <1>1

\* VerifyPaths, of the ranges of at most N leaves.
Verified(leaf, m, size, proof, N, h) ==
    h = [n \in 1 .. N |->
            [s \in 0 .. size - n |->
                IF n = 1 THEN [hash |-> leaf, next |-> 0]
                ELSE VerifyStep(m - s < SplitPoint(n),
                                IF m - s < SplitPoint(n) THEN h[SplitPoint(n)][s]
                                ELSE h[n - SplitPoint(n)][s + SplitPoint(n)], proof)]]

\* The function of VerifyPaths exists.
LEMMA VerifiedExist ==
    ASSUME NEW leaf, NEW m, NEW size, NEW proof, NEW N \in Nat
    PROVE  \E h : Verified(leaf, m, size, proof, N, h)
<1> DEFINE D == {j \in Nat : ~ \E h : Verified(leaf, m, size, proof, j, h)}
<1>1. ASSUME D # {} PROVE FALSE
  <2>1. PICK j \in D : \A i \in D : j <= i
    <3>1. D \in SUBSET Nat
      OBVIOUS
    <3> HIDE DEF D
    <3> QED
      BY <1>1, <3>1, LeastNat
  <2>2. j # 0
    <3>1. PICK h : h = [n \in 1 .. 0 |-> n]
      OBVIOUS
    <3>2. Verified(leaf, m, size, proof, 0, h)
      BY <3>1 DEF Verified
    <3> QED
      BY <2>1, <3>2
  <2>3. j - 1 \in Nat /\ j - 1 \notin D
    BY <2>1, <2>2
  <2>4. PICK h : Verified(leaf, m, size, proof, j - 1, h)
    BY <2>3
  <2>5. PICK e : e = [n \in 1 .. j |->
                        [s \in 0 .. size - n |->
                            IF n = 1 THEN [hash |-> leaf, next |-> 0]
                            ELSE VerifyStep(m - s < SplitPoint(n),
                                            IF m - s < SplitPoint(n) THEN h[SplitPoint(n)][s]
                                            ELSE h[n - SplitPoint(n)][s + SplitPoint(n)], proof)]]
    OBVIOUS
  <2>6. \A n \in 1 .. j - 1 : e[n] = h[n]
    <3>1. \A n \in 1 .. j - 1 : n \in 1 .. j
      BY <2>1
    <3> QED
      BY <2>4, <2>5, <3>1 DEF Verified
  <2>7. ASSUME NEW n \in 1 .. j, n # 1
        PROVE  /\ e[SplitPoint(n)] = h[SplitPoint(n)]
               /\ e[n - SplitPoint(n)] = h[n - SplitPoint(n)]
    <3>1. n \in Nat /\ n > 1
      BY <2>7
    <3>2. SplitPoint(n) \in 1 .. n - 1 /\ n - SplitPoint(n) \in 1 .. n - 1
      BY <3>1, SplitWithin
    <3>3. SplitPoint(n) \in 1 .. j - 1 /\ n - SplitPoint(n) \in 1 .. j - 1
      BY <2>1, <3>1, <3>2
    <3> QED
      BY <2>6, <3>3
  <2>8. Verified(leaf, m, size, proof, j, e)
    BY <2>5, <2>7 DEF Verified
  <2> QED
    BY <2>1, <2>8
<1> QED
  BY <1>1

\* SubProofs, of the ranges of at most N leaves.
Subbed(A, m, N, h) ==
    h = [n \in 1 .. N |->
            [s \in {s \in 0 .. Len(A) - n : s < m /\ m <= s + n} |->
                IF m - s = n
                THEN IF s = 0 THEN <<>> ELSE <<SubtreeHash(A, s, s + n)>>
                ELSE IF m - s <= SplitPoint(n)
                THEN Append(h[SplitPoint(n)][s], SubtreeHash(A, s + SplitPoint(n), s + n))
                ELSE Append(h[n - SplitPoint(n)][s + SplitPoint(n)],
                            SubtreeHash(A, s, s + SplitPoint(n)))]]

\* The function of SubProofs exists.
LEMMA SubbedExist ==
    ASSUME NEW A, Len(A) \in Nat, NEW m \in Nat, NEW N \in Nat
    PROVE  \E h : Subbed(A, m, N, h)
<1> DEFINE D == {j \in Nat : ~ \E h : Subbed(A, m, j, h)}
<1>1. ASSUME D # {} PROVE FALSE
  <2>1. PICK j \in D : \A i \in D : j <= i
    <3>1. D \in SUBSET Nat
      OBVIOUS
    <3> HIDE DEF D
    <3> QED
      BY <1>1, <3>1, LeastNat
  <2>2. j # 0
    <3>1. PICK h : h = [n \in 1 .. 0 |-> n]
      OBVIOUS
    <3>2. Subbed(A, m, 0, h)
      BY <3>1 DEF Subbed
    <3> QED
      BY <2>1, <3>2
  <2>3. j - 1 \in Nat /\ j - 1 \notin D
    BY <2>1, <2>2
  <2>4. PICK h : Subbed(A, m, j - 1, h)
    BY <2>3
  <2>5. PICK e : e = [n \in 1 .. j |->
                        [s \in {s \in 0 .. Len(A) - n : s < m /\ m <= s + n} |->
                            IF m - s = n
                            THEN IF s = 0 THEN <<>> ELSE <<SubtreeHash(A, s, s + n)>>
                            ELSE IF m - s <= SplitPoint(n)
                            THEN Append(h[SplitPoint(n)][s], SubtreeHash(A, s + SplitPoint(n), s + n))
                            ELSE Append(h[n - SplitPoint(n)][s + SplitPoint(n)],
                                        SubtreeHash(A, s, s + SplitPoint(n)))]]
    OBVIOUS
  <2>6. \A n \in 1 .. j - 1 : e[n] = h[n]
    <3>1. \A n \in 1 .. j - 1 : n \in 1 .. j
      BY <2>1
    <3> QED
      BY <2>4, <2>5, <3>1 DEF Subbed
  <2>7. ASSUME NEW n \in 1 .. j, n # 1
        PROVE  /\ e[SplitPoint(n)] = h[SplitPoint(n)]
               /\ e[n - SplitPoint(n)] = h[n - SplitPoint(n)]
    <3>1. n \in Nat /\ n > 1
      BY <2>7
    <3>2. SplitPoint(n) \in 1 .. n - 1 /\ n - SplitPoint(n) \in 1 .. n - 1
      BY <3>1, SplitWithin
    <3>3. SplitPoint(n) \in 1 .. j - 1 /\ n - SplitPoint(n) \in 1 .. j - 1
      BY <2>1, <3>1, <3>2
    <3> QED
      BY <2>6, <3>3
  <2>9. \A n \in 1 .. j : \A s \in {s \in 0 .. Len(A) - n : s < m /\ m <= s + n} :
           m - s # n => /\ e[SplitPoint(n)] = h[SplitPoint(n)]
                        /\ e[n - SplitPoint(n)] = h[n - SplitPoint(n)]
    <3>1. \A n \in 1 .. j : \A s \in {s \in 0 .. Len(A) - n : s < m /\ m <= s + n} :
             m - s # n => n # 1
      OBVIOUS
    <3> QED
      BY <2>7, <3>1
  <2>8. Subbed(A, m, j, e)
    BY <2>5, <2>9, ZenonT(30) DEF Subbed
  <2> QED
    BY <2>1, <2>8
<1> QED
  BY <1>1

-----------------------------------------------------------------------------
(* The same functions in terms of ranges. *)

\* The audit path of a range from that of the half leaf m is in.
PathRanges(A, m, N, h) ==
    /\ \A s \in Nat, e \in Nat : e = s + 1 /\ e <= N => At(h, s, e) = <<>>
    /\ \A s \in Nat, u \in Nat, e \in Nat : Halves(s, u, e) /\ e <= N =>
         /\ m < u => At(h, s, e) = More(At(h, s, u), SubtreeHash(A, u, e))
         /\ ~(m < u) => At(h, s, e) = More(At(h, u, e), SubtreeHash(A, s, u))

\* VerifyStep, for a leaf in the left half and for one in the right half.
LeftStep(inner, proof) == VerifyStep(TRUE, inner, proof)
RightStep(inner, proof) == VerifyStep(FALSE, inner, proof)

\* The check of a range from that of the half leaf m is in.
CheckRanges(leaf, m, N, proof, h) ==
    /\ \A s \in Nat, e \in Nat : e = s + 1 /\ e <= N =>
         At(h, s, e) = [hash |-> leaf, next |-> 0]
    /\ \A s \in Nat, u \in Nat, e \in Nat : Halves(s, u, e) /\ e <= N =>
         /\ m < u => At(h, s, e) = LeftStep(At(h, s, u), proof)
         /\ ~(m < u) => At(h, s, e) = RightStep(At(h, u, e), proof)

\* The consistency proof of a range from that of the half leaf m - 1 is in.
SubRanges(A, m, N, h) ==
    /\ \A s \in Nat : s < m /\ m <= N =>
         At(h, s, m) = IF s = 0 THEN <<>> ELSE <<SubtreeHash(A, s, m)>>
    /\ \A s \in Nat, u \in Nat, e \in Nat : Halves(s, u, e) /\ e <= N /\ s < m /\ m < e =>
         /\ m <= u => At(h, s, e) = More(At(h, s, u), SubtreeHash(A, u, e))
         /\ ~(m <= u) => At(h, s, e) = More(At(h, u, e), SubtreeHash(A, s, u))

\* Paths in terms of ranges (pathRec).
LEMMA PathsAre ==
    ASSUME NEW A, NEW N \in Nat, N = Len(A), NEW m \in Nat
    PROVE  PathRanges(A, m, N, Paths(A, m))
<1>0. PICK h : h = Paths(A, m)
  OBVIOUS
<1>1. PICK g : Pathed(A, m, N, g)
  BY PathedExist
<1>2. Pathed(A, m, N, h)
  BY <1>0, <1>1 DEF Pathed, Paths
<1>3. ASSUME NEW s \in Nat, NEW e \in Nat, e = s + 1, e <= N
      PROVE  At(h, s, e) = <<>>
  <2>1. 1 \in 1 .. N /\ s \in 0 .. N - 1 /\ e - s = 1
    BY <1>3
  <2>2. h[1] = [t \in 0 .. N - 1 |-> <<>>]
    BY <1>2, <2>1 DEF Pathed
  <2> QED
    BY <2>1, <2>2 DEF At
<1>4. ASSUME NEW s \in Nat, NEW u \in Nat, NEW e \in Nat, Halves(s, u, e), e <= N
      PROVE  /\ m < u => At(h, s, e) = More(At(h, s, u), SubtreeHash(A, u, e))
             /\ ~(m < u) => At(h, s, e) = More(At(h, u, e), SubtreeHash(A, s, u))
  <2>1. PICK n \in Nat, k \in Nat : n = e - s /\ k = u - s /\ k = SplitPoint(n) /\ n > 1
    BY <1>4 DEF Halves
  <2>2. n \in 1 .. N /\ s \in 0 .. N - n /\ n # 1
    BY <1>4, <2>1
  <2>3. h[n] = [t \in 0 .. N - n |->
                    IF n = 1 THEN <<>>
                    ELSE IF m - t < SplitPoint(n)
                    THEN More(h[SplitPoint(n)][t], SubtreeHash(A, t + SplitPoint(n), t + n))
                    ELSE More(h[n - SplitPoint(n)][t + SplitPoint(n)],
                              SubtreeHash(A, t, t + SplitPoint(n)))]
    BY <1>2, <2>2 DEF Pathed, More
  <2>4. h[n][s] = IF m - s < k THEN More(h[k][s], SubtreeHash(A, s + k, s + n))
                  ELSE More(h[n - k][s + k], SubtreeHash(A, s, s + k))
    BY <2>1, <2>2, <2>3
  <2>5. n - k = e - u /\ s + k = u /\ s + n = e /\ (m - s < k <=> m < u)
    BY <2>1
  <2> QED
    BY <2>1, <2>4, <2>5 DEF At
<1> QED
  BY <1>0, <1>3, <1>4 DEF PathRanges

\* VerifyPaths in terms of ranges (verifyPathRec).
LEMMA VerifyPathsAre ==
    ASSUME NEW leaf, NEW m \in Nat, NEW N \in Nat, NEW proof
    PROVE  CheckRanges(leaf, m, N, proof, VerifyPaths(leaf, m, N, proof))
<1>0. PICK h : h = VerifyPaths(leaf, m, N, proof)
  OBVIOUS
<1>1. PICK g : Verified(leaf, m, N, proof, N, g)
  BY VerifiedExist
<1>2. Verified(leaf, m, N, proof, N, h)
  BY <1>0, <1>1 DEF Verified, VerifyPaths
<1>3. ASSUME NEW s \in Nat, NEW e \in Nat, e = s + 1, e <= N
      PROVE  At(h, s, e) = [hash |-> leaf, next |-> 0]
  <2>1. 1 \in 1 .. N /\ s \in 0 .. N - 1 /\ e - s = 1
    BY <1>3
  <2>2. h[1] = [t \in 0 .. N - 1 |-> [hash |-> leaf, next |-> 0]]
    BY <1>2, <2>1 DEF Verified
  <2> QED
    BY <2>1, <2>2 DEF At
<1>4. ASSUME NEW s \in Nat, NEW u \in Nat, NEW e \in Nat, Halves(s, u, e), e <= N
      PROVE  /\ m < u => At(h, s, e) = LeftStep(At(h, s, u), proof)
             /\ ~(m < u) => At(h, s, e) = RightStep(At(h, u, e), proof)
  <2>1. PICK n \in Nat, k \in Nat : n = e - s /\ k = u - s /\ k = SplitPoint(n) /\ n > 1
    BY <1>4 DEF Halves
  <2>2. n \in 1 .. N /\ s \in 0 .. N - n /\ n # 1
    BY <1>4, <2>1
  <2>3. h[n] = [t \in 0 .. N - n |->
                    IF n = 1 THEN [hash |-> leaf, next |-> 0]
                    ELSE VerifyStep(m - t < SplitPoint(n),
                                    IF m - t < SplitPoint(n) THEN h[SplitPoint(n)][t]
                                    ELSE h[n - SplitPoint(n)][t + SplitPoint(n)], proof)]
    BY <1>2, <2>2 DEF Verified
  <2>4. h[n][s] = VerifyStep(m - s < k, IF m - s < k THEN h[k][s] ELSE h[n - k][s + k], proof)
    BY <2>1, <2>2, <2>3
  <2>5. n - k = e - u /\ s + k = u /\ s + n = e /\ (m - s < k <=> m < u)
    BY <2>1
  <2>6. CASE m < u
    <3>1. (m - s < k) = TRUE
      BY <2>5, <2>6
    <3>2. h[n][s] = LeftStep(h[k][s], proof)
      BY <2>4, <3>1 DEF LeftStep, RightStep
    <3> QED
      BY <2>1, <2>6, <3>2 DEF At
  <2>7. CASE ~(m < u)
    <3>1. (m - s < k) = FALSE
      BY <2>5, <2>7
    <3>2. h[n][s] = RightStep(h[n - k][s + k], proof)
      BY <2>4, <3>1 DEF LeftStep, RightStep
    <3> QED
      BY <2>1, <2>5, <2>7, <3>2 DEF At
  <2> QED
    BY <2>6, <2>7
<1> QED
  BY <1>0, <1>3, <1>4 DEF CheckRanges

\* SubProofs in terms of ranges (subProof).
LEMMA SubProofsAre ==
    ASSUME NEW A, NEW N \in Nat, N = Len(A), NEW m \in Nat
    PROVE  SubRanges(A, m, N, SubProofs(A, m))
<1>0. PICK h : h = SubProofs(A, m)
  OBVIOUS
<1>1. PICK g : Subbed(A, m, N, g)
  BY SubbedExist
<1>2. Subbed(A, m, N, h)
  BY <1>0, <1>1 DEF Subbed, SubProofs
<1>3. ASSUME NEW s \in Nat, s < m, m <= N
      PROVE  At(h, s, m) = IF s = 0 THEN <<>> ELSE <<SubtreeHash(A, s, m)>>
  <2>1. PICK n \in Nat : n = m - s /\ n \in 1 .. N /\ s + n = m /\ s \in 0 .. N - n
    BY <1>3
  <2>2. h[n] = [t \in {t \in 0 .. N - n : t < m /\ m <= t + n} |->
                    IF m - t = n
                    THEN IF t = 0 THEN <<>> ELSE <<SubtreeHash(A, t, t + n)>>
                    ELSE IF m - t <= SplitPoint(n)
                    THEN More(h[SplitPoint(n)][t], SubtreeHash(A, t + SplitPoint(n), t + n))
                    ELSE More(h[n - SplitPoint(n)][t + SplitPoint(n)],
                              SubtreeHash(A, t, t + SplitPoint(n)))]
    <3>1. n \in 1 .. N
      BY <2>1
    <3> QED
      BY <1>2, <3>1 DEF Subbed, More
  <2>3. s \in {t \in 0 .. N - n : t < m /\ m <= t + n}
    BY <1>3, <2>1
  <2>4. h[n][s] = IF s = 0 THEN <<>> ELSE <<SubtreeHash(A, s, s + n)>>
    BY <2>1, <2>2, <2>3
  <2> QED
    BY <2>1, <2>4 DEF At
<1>4. ASSUME NEW s \in Nat, NEW u \in Nat, NEW e \in Nat, Halves(s, u, e), e <= N, s < m, m < e
      PROVE  /\ m <= u => At(h, s, e) = More(At(h, s, u), SubtreeHash(A, u, e))
             /\ ~(m <= u) => At(h, s, e) = More(At(h, u, e), SubtreeHash(A, s, u))
  <2>1. PICK n \in Nat, k \in Nat : n = e - s /\ k = u - s /\ k = SplitPoint(n) /\ n > 1
    BY <1>4 DEF Halves
  <2>2. n \in 1 .. N /\ s \in 0 .. N - n /\ n # 1 /\ m - s # n
    BY <1>4, <2>1
  <2>3. h[n] = [t \in {t \in 0 .. N - n : t < m /\ m <= t + n} |->
                    IF m - t = n
                    THEN IF t = 0 THEN <<>> ELSE <<SubtreeHash(A, t, t + n)>>
                    ELSE IF m - t <= SplitPoint(n)
                    THEN More(h[SplitPoint(n)][t], SubtreeHash(A, t + SplitPoint(n), t + n))
                    ELSE More(h[n - SplitPoint(n)][t + SplitPoint(n)],
                              SubtreeHash(A, t, t + SplitPoint(n)))]
    BY <1>2, <2>2 DEF Subbed, More
  <2>6. s \in {t \in 0 .. N - n : t < m /\ m <= t + n}
    BY <1>4, <2>1, <2>2
  <2>4. h[n][s] = IF m - s <= k THEN More(h[k][s], SubtreeHash(A, s + k, s + n))
                  ELSE More(h[n - k][s + k], SubtreeHash(A, s, s + k))
    BY <2>1, <2>2, <2>3, <2>6
  <2>5. n - k = e - u /\ s + k = u /\ s + n = e /\ (m - s <= k <=> m <= u)
    BY <2>1
  <2> QED
    BY <2>1, <2>4, <2>5 DEF At
<1> QED
  BY <1>0, <1>3, <1>4 DEF SubRanges
\* The root is the hash of all the leaves.
LEMMA RootIs ==
    ASSUME NEW A, NEW N \in Nat, N = Len(A), N >= 1, A # <<>>
    PROVE  RootHash(A) = SubtreeHash(A, 0, N)
BY DEF RootHash

\* leaf is the hash of leaf m.
IsLeaf(A, m, leaf) == leaf = LeafHash(A[m + 1])

\* Where the audit path of a range is the start of proof q, the check so far yields
\* the hash of that range.
PathsChecked(A, m, N, h, q, v) ==
    \A s, e \in Nat : s <= m /\ m < e /\ e <= N =>
        /\ IsList(At(h, s, e))
        /\ IsStart(At(h, s, e), q) =>
             At(v, s, e) = [hash |-> SubtreeHash(A, s, e), next |-> Len(At(h, s, e))]

\* The check of an audit path up to a range gives the hash of the range.
LEMMA PathVerifies ==
    ASSUME NEW A, NEW N \in Nat, HashRanges(A, N), NEW m \in Nat, NEW h, PathRanges(A, m, N, h),
           NEW leaf, IsLeaf(A, m, leaf), NEW q, NEW v, CheckRanges(leaf, m, N, q, v)
    PROVE  PathsChecked(A, m, N, h, q, v)
<1> DEFINE Holds(s, e) ==
             s <= m /\ m < e =>
               /\ IsList(At(h, s, e))
               /\ IsStart(At(h, s, e), q) =>
                    At(v, s, e) = [hash |-> SubtreeHash(A, s, e), next |-> Len(At(h, s, e))]
<1>1. PICK R : R = {r \in Nat \X Nat : Holds(r[1], r[2])}
  OBVIOUS
<1>2. \A s, e \in Nat : <<s, e>> \in R <=> Holds(s, e)
  BY <1>1
<1>3. ASSUME NEW s \in Nat, NEW e \in Nat, e = s + 1, e <= N PROVE Holds(s, e)
  <2>1. At(h, s, e) = <<>>
    BY <1>3 DEF PathRanges
  <2>2. At(v, s, e) = [hash |-> leaf, next |-> 0]
    BY <1>3 DEF CheckRanges
  <2>3. SubtreeHash(A, s, e) = LeafHash(A[e])
    BY <1>3 DEF HashRanges
  <2>4. s <= m /\ m < e => e = m + 1
    BY <1>3
  <2>5. IsList(<<>>) /\ Len(<<>>) = 0
    BY DEF IsList
  <2> QED
    BY <2>1, <2>2, <2>3, <2>4, <2>5 DEF IsLeaf
<1>4. ASSUME NEW s \in Nat, NEW u \in Nat, NEW e \in Nat,
             Halves(s, u, e), e <= N, Holds(s, u), Holds(u, e)
      PROVE  Holds(s, e)
  <2>0. s < u /\ u < e
    BY <1>4 DEF Halves
  <2>1. SubtreeHash(A, s, e) = NodeHash(SubtreeHash(A, s, u), SubtreeHash(A, u, e))
    BY <1>4 DEF HashRanges
  <2>2. /\ m < u => At(h, s, e) = More(At(h, s, u), SubtreeHash(A, u, e))
        /\ ~(m < u) => At(h, s, e) = More(At(h, u, e), SubtreeHash(A, s, u))
    BY <1>4 DEF PathRanges
  <2>3. /\ m < u => At(v, s, e) = LeftStep(At(v, s, u), q)
        /\ ~(m < u) => At(v, s, e) = RightStep(At(v, u, e), q)
    BY <1>4 DEF CheckRanges
  <2>4. ASSUME s <= m, m < u PROVE Holds(s, e)
    <3>1. PICK p, x : p = At(h, s, u) /\ x = SubtreeHash(A, u, e) /\ At(h, s, e) = More(p, x)
      BY <2>2, <2>4
    <3>2. IsList(p) /\ IsList(At(h, s, e))
      BY <1>4, <2>4, <3>1, ListAppend
    <3>3. ASSUME IsStart(At(h, s, e), q)
          PROVE  At(v, s, e) = [hash |-> SubtreeHash(A, s, e), next |-> Len(At(h, s, e))]
      <4>1. IsStart(p, q) /\ Len(p) < Len(q) /\ q[Len(p) + 1] = x
        BY <3>1, <3>2, <3>3, StartAppend
      <4>2. PICK w : w = At(v, s, u) /\ w = [hash |-> SubtreeHash(A, s, u), next |-> Len(p)]
        BY <1>4, <2>4, <3>1, <4>1
      <4>3. Len(p) \in Nat /\ Len(q) \in Nat /\ Len(At(h, s, e)) = Len(p) + 1
        BY <3>1, <3>2, <4>1, Lists, ListAppend DEF IsStart
      <4>4. w.next = Len(p) /\ w.hash = SubtreeHash(A, s, u)
        BY <4>2
      <4>5. w # NoResult /\ ~(w.next >= Len(q))
        BY <4>1, <4>3, <4>4 DEF NoResult
      <4>6. At(v, s, e) = LeftStep(w, q)
        BY <2>3, <2>4, <4>2
      <4> QED
        BY <2>1, <3>1, <4>1, <4>3, <4>4, <4>5, <4>6 DEF VerifyStep, LeftStep, RightStep
    <3> QED
      BY <3>2, <3>3
  <2>5. ASSUME ~(m < u), m < e PROVE Holds(s, e)
    <3>1. PICK p, x : p = At(h, u, e) /\ x = SubtreeHash(A, s, u) /\ At(h, s, e) = More(p, x)
      BY <2>2, <2>5
    <3>2. IsList(p) /\ IsList(At(h, s, e))
      BY <1>4, <2>5, <3>1, ListAppend
    <3>3. ASSUME IsStart(At(h, s, e), q)
          PROVE  At(v, s, e) = [hash |-> SubtreeHash(A, s, e), next |-> Len(At(h, s, e))]
      <4>1. IsStart(p, q) /\ Len(p) < Len(q) /\ q[Len(p) + 1] = x
        BY <3>1, <3>2, <3>3, StartAppend
      <4>2. PICK w : w = At(v, u, e) /\ w = [hash |-> SubtreeHash(A, u, e), next |-> Len(p)]
        BY <1>4, <2>5, <3>1, <4>1
      <4>3. Len(p) \in Nat /\ Len(q) \in Nat /\ Len(At(h, s, e)) = Len(p) + 1
        BY <3>1, <3>2, <4>1, Lists, ListAppend DEF IsStart
      <4>4. w.next = Len(p) /\ w.hash = SubtreeHash(A, u, e)
        BY <4>2
      <4>5. w # NoResult /\ ~(w.next >= Len(q))
        BY <4>1, <4>3, <4>4 DEF NoResult
      <4>6. At(v, s, e) = RightStep(w, q)
        BY <2>3, <2>5, <4>2
      <4> QED
        BY <2>1, <3>1, <4>1, <4>3, <4>4, <4>5, <4>6 DEF VerifyStep, LeftStep, RightStep
    <3> QED
      BY <3>2, <3>3
  <2> QED
    BY <2>4, <2>5
<1>5. \A s, e \in Nat : s < e /\ e <= N => <<s, e>> \in R
  <2> HIDE DEF Holds
  <2>1. \A s, e \in Nat : e = s + 1 /\ e <= N => <<s, e>> \in R
    BY <1>2, <1>3
  <2>2. \A s, u, e \in Nat : Halves(s, u, e) /\ e <= N /\ <<s, u>> \in R /\ <<u, e>> \in R
                               => <<s, e>> \in R
    BY <1>2, <1>4
  <2> QED
    BY <2>1, <2>2, OfRanges
<1>6. ASSUME NEW s \in Nat, NEW e \in Nat, s <= m, m < e, e <= N PROVE Holds(s, e)
  <2>1. s < e
    BY <1>6
  <2> HIDE DEF Holds
  <2> QED
    BY <1>2, <1>5, <1>6, <2>1
<1> QED
  BY <1>6 DEF PathsChecked

\* Every audit path that inclusionProof computes of a tree is accepted by
\* verifyInclusion from whoever has the root of the tree.
THEOREM InclusionComplete ==
    ASSUME NEW A, NEW N \in Nat, N = Len(A), A # <<>>, NEW m \in Nat, m < N
    PROVE  VerifyInclusion(LeafHash(A[m + 1]), m, N, InclusionProof(A, m), RootHash(A))
<1>1. PICK h, leaf, q : /\ h = Paths(A, m) /\ IsLeaf(A, m, leaf)
                        /\ q = InclusionProof(A, m)
  BY DEF IsLeaf
<1>2. q = At(h, 0, N)
  <2>1. N - 0 = N
    OBVIOUS
  <2> QED
    BY <1>1, <2>1 DEF InclusionProof, At
<1>3. PICK v : v = VerifyPaths(leaf, m, N, q) /\ CheckRanges(leaf, m, N, q, v)
  BY VerifyPathsAre
<1>11. HashRanges(A, N) /\ PathRanges(A, m, N, h)
  BY <1>1, HashIs, PathsAre
<1>4. PathsChecked(A, m, N, h, q, v)
  BY <1>1, <1>3, <1>11, PathVerifies
<1>5. 0 \in Nat /\ 0 <= m /\ N <= N
  OBVIOUS
<1>6. IsList(q)
  BY <1>2, <1>4, <1>5 DEF PathsChecked
<1>7. IsStart(q, q) /\ Len(q) \in Nat
  BY <1>6, Lists DEF IsStart
<1>8. At(v, 0, N) = [hash |-> SubtreeHash(A, 0, N), next |-> Len(q)]
  BY <1>2, <1>4, <1>5, <1>7 DEF PathsChecked
<1>9. PICK r : /\ r = v[N][0] /\ r.hash = RootHash(A) /\ r.next = Len(q)
  <2>1. At(v, 0, N) = v[N][0]
    <3>1. N - 0 = N
      OBVIOUS
    <3> QED
      BY <3>1 DEF At
  <2>2. N >= 1
    OBVIOUS
  <2> QED
    BY <1>8, <2>1, <2>2, RootIs
<1>10. r # NoResult
  BY <1>7, <1>9 DEF NoResult
<1> QED
  BY <1>1, <1>3, <1>9, <1>10 DEF VerifyInclusion, IsLeaf
-----------------------------------------------------------------------------
(* Consistency: the levels of the tree. *)

\* Halves of numbers.
LEMMA Halved ==
    ASSUME NEW f \in Nat
    PROVE  /\ f \div 2 \in Nat /\ f \div 2 <= f /\ (f > 0 => f \div 2 < f)
           /\ f % 2 = 0 \/ f % 2 = 1
           /\ f % 2 = 0 => f = 2 * (f \div 2)
           /\ f % 2 = 1 => f = 2 * (f \div 2) + 1 /\ f > 0
OBVIOUS

\* Halving the index doubles the width.
LEMMA HalvedTimes ==
    ASSUME NEW f \in Nat, NEW p \in Nat
    PROVE  /\ f % 2 = 0 => f * p = (f \div 2) * (2 * p)
           /\ f % 2 = 1 => f * p = (f \div 2) * (2 * p) + p
<1>1. PICK h \in Nat : h = f \div 2
  BY Halved
<1>2. ASSUME f % 2 = 0 PROVE f * p = h * (2 * p)
  <2>1. f = 2 * h
    BY <1>1, <1>2, Halved
  <2>2. (2 * h) * p = h * (2 * p)
    OBVIOUS
  <2> QED
    BY <2>1, <2>2
<1>3. ASSUME f % 2 = 1 PROVE f * p = h * (2 * p) + p
  <2>1. f = 2 * h + 1
    BY <1>1, <1>3, Halved
  <2>2. (2 * h + 1) * p = h * (2 * p) + p
    OBVIOUS
  <2> QED
    BY <2>1, <2>2
<1> QED
  BY <1>1, <1>2, <1>3

\* An index below another starts at least a width before it.
LEMMA TimesMonotone ==
    ASSUME NEW f \in Nat, NEW g \in Nat, f < g, NEW p \in Nat
    PROVE  f * p + p <= g * p
<1>1. PICK d \in Nat : g = f + 1 + d
  <2>1. g - f - 1 \in Nat /\ g = f + 1 + (g - f - 1)
    OBVIOUS
  <2> QED
    BY <2>1
<1>2. (f + 1 + d) * p = f * p + p + d * p
  OBVIOUS
<1>3. d * p \in Nat /\ f * p \in Nat
  OBVIOUS
<1>4. g * p = (f * p + p) + d * p
  BY <1>1, <1>2
<1>5. PICK x \in Nat, y \in Nat : x = f * p + p /\ y = d * p
  BY <1>3
<1> QED
  BY <1>4, <1>5

\* Index f at the level of width p is the range from s with leaf m - 1 in it, and
\* index g the last one of a tree of n leaves.
Node(m, n, p, f, g, s) ==
    /\ p \in Powers /\ f \in Nat /\ g \in Nat /\ s \in Nat
    /\ s = f * p /\ s < m /\ m <= s + p
    /\ g * p < n /\ n <= g * p + p

\* Where the range of leaf m - 1 lies in the tree of n leaves, told from the indices.
LEMMA NodeFacts ==
    ASSUME NEW m \in Nat, NEW n \in Nat, m < n, NEW p, NEW f, NEW g, NEW s, Node(m, n, p, f, g, s)
    PROVE  /\ f <= g
           /\ f < g => s + p < n
           /\ f = g => n <= s + p
           /\ f = 0 => s = 0
           /\ f > 0 => p <= s
<1>1. p \in Nat /\ p >= 1 /\ f \in Nat /\ g \in Nat /\ s \in Nat
  BY PowersDouble DEF Node
<1>2. PICK x \in Nat, y \in Nat : x = f * p /\ y = g * p
  BY <1>1
<1>3. s = x /\ s < m /\ m <= s + p /\ y < n /\ n <= y + p
  BY <1>2 DEF Node
<1>4. ASSUME g < f PROVE FALSE
  <2>1. y + p <= x
    BY <1>1, <1>2, <1>4, TimesMonotone
  <2> QED
    BY <1>1, <1>3, <2>1
<1>5. ASSUME f < g PROVE s + p < n
  <2>1. x + p <= y
    BY <1>1, <1>2, <1>5, TimesMonotone
  <2> QED
    BY <1>1, <1>3, <2>1
<1>6. ASSUME f = g PROVE n <= s + p
  BY <1>2, <1>3, <1>6
<1>7. ASSUME f = 0 PROVE s = 0
  <2>1. 0 * p = 0
    BY <1>1
  <2> QED
    BY <1>2, <1>3, <1>7, <2>1
<1>8. ASSUME f > 0 PROVE p <= s
  <2>1. 0 * p = 0
    BY <1>1
  <2>2. 0 * p + p <= x
    BY <1>1, <1>2, <1>8, TimesMonotone
  <2> QED
    BY <1>1, <1>3, <2>1, <2>2
<1> QED
  BY <1>1, <1>4, <1>5, <1>6, <1>7, <1>8

\* From a level to the next one: of an even index the same range grows to the
\* right, of an odd one it is the right half.
LEMMA NodeUp ==
    ASSUME NEW m \in Nat, NEW n \in Nat, NEW p, NEW f, NEW g, NEW s, Node(m, n, p, f, g, s)
    PROVE  /\ f % 2 = 0 => Node(m, n, 2 * p, f \div 2, g \div 2, s)
           /\ f % 2 = 1 => Node(m, n, 2 * p, f \div 2, g \div 2, s - p)
<1>1. p \in Nat /\ p >= 1 /\ f \in Nat /\ g \in Nat /\ s \in Nat /\ p \in Powers
      /\ 2 * p \in Powers /\ 2 * p \in Nat
  BY PowersDouble DEF Node
<1>2. PICK h \in Nat, k \in Nat, w \in Nat : h = f \div 2 /\ k = g \div 2 /\ w = 2 * p
  BY <1>1, Halved
<1>3. PICK x \in Nat, y \in Nat : x = h * w /\ y = k * w
  OBVIOUS
<1>4. s = f * p /\ s < m /\ m <= s + p /\ g * p < n /\ n <= g * p + p
  BY DEF Node
<1>5. /\ f % 2 = 0 => s = x
      /\ f % 2 = 1 => s = x + p
  BY <1>1, <1>2, <1>3, <1>4, HalvedTimes
<1>6. g * p = y \/ g * p = y + p
  BY <1>1, <1>2, <1>3, Halved, HalvedTimes
<1>7. y < n /\ n <= y + w
  BY <1>1, <1>2, <1>4, <1>6
<1>8. ASSUME f % 2 = 0 PROVE Node(m, n, w, h, k, s)
  <2>1. s = x /\ m <= s + w
    BY <1>1, <1>2, <1>4, <1>5, <1>8
  <2> QED
    BY <1>1, <1>2, <1>3, <1>4, <1>7, <2>1 DEF Node
<1>9. ASSUME f % 2 = 1 PROVE Node(m, n, w, h, k, s - p)
  <2>1. s - p = x /\ s - p < m /\ m <= (s - p) + w
    BY <1>1, <1>2, <1>4, <1>5, <1>9
  <2> QED
    BY <1>1, <1>2, <1>3, <1>7, <2>1 DEF Node
<1> QED
  BY <1>2, <1>8, <1>9
\* WhileOdd and WhileEven.
OddLoop(N, M, h) ==
    h = [f \in 0 .. N |-> [s \in 0 .. M |->
            IF f % 2 = 1 THEN h[f \div 2][s \div 2] ELSE <<f, s>>]]

EvenLoop(N, M, h) ==
    h = [f \in 0 .. N |-> [s \in 0 .. M |->
            IF f % 2 = 0 /\ f # 0 THEN h[f \div 2][s \div 2] ELSE <<f, s>>]]

\* The functions that the two loops compute exist.
LEMMA OddLoopExist ==
    ASSUME NEW N \in Nat, NEW M \in Nat
    PROVE  \E h : OddLoop(N, M, h)
<1> DEFINE D == {j \in Nat : ~ \E h : OddLoop(j, M, h)}
<1>1. ASSUME D # {} PROVE FALSE
  <2>1. PICK j \in D : \A i \in D : j <= i
    <3>1. D \in SUBSET Nat
      OBVIOUS
    <3> HIDE DEF D
    <3> QED
      BY <1>1, <3>1, LeastNat
  <2>2. j # 0
    <3>1. PICK h : h = [f \in 0 .. 0 |-> [s \in 0 .. M |-> <<f, s>>]]
      OBVIOUS
    <3>2. \A f \in 0 .. 0 : f % 2 # 1
      OBVIOUS
    <3>3. OddLoop(0, M, h)
      BY <3>1, <3>2 DEF OddLoop
    <3> QED
      BY <2>1, <3>3
  <2>3. j - 1 \in Nat /\ j - 1 \notin D
    BY <2>1, <2>2
  <2>4. PICK h : OddLoop(j - 1, M, h)
    BY <2>3
  <2>5. PICK e : e = [f \in 0 .. j |-> [s \in 0 .. M |->
                        IF f % 2 = 1 THEN h[f \div 2][s \div 2] ELSE <<f, s>>]]
    OBVIOUS
  <2>6. \A f \in 0 .. j - 1 : e[f] = h[f]
    <3>1. \A f \in 0 .. j - 1 : f \in 0 .. j
      BY <2>1
    <3> QED
      BY <2>4, <2>5, <3>1 DEF OddLoop
  <2>7. ASSUME NEW f \in 0 .. j, f % 2 = 1 PROVE e[f \div 2] = h[f \div 2]
    <3>1. f \div 2 \in 0 .. j - 1
      BY <2>1, <2>7, Halved
    <3> QED
      BY <2>6, <3>1
  <2>8. OddLoop(j, M, e)
    BY <2>5, <2>7 DEF OddLoop
  <2> QED
    BY <2>1, <2>8
<1> QED
  BY <1>1

\* The other loop.
LEMMA EvenLoopExist ==
    ASSUME NEW N \in Nat, NEW M \in Nat
    PROVE  \E h : EvenLoop(N, M, h)
<1> DEFINE D == {j \in Nat : ~ \E h : EvenLoop(j, M, h)}
<1>1. ASSUME D # {} PROVE FALSE
  <2>1. PICK j \in D : \A i \in D : j <= i
    <3>1. D \in SUBSET Nat
      OBVIOUS
    <3> HIDE DEF D
    <3> QED
      BY <1>1, <3>1, LeastNat
  <2>2. j # 0
    <3>1. PICK h : h = [f \in 0 .. 0 |-> [s \in 0 .. M |-> <<f, s>>]]
      OBVIOUS
    <3>2. \A f \in 0 .. 0 : f = 0
      OBVIOUS
    <3>3. EvenLoop(0, M, h)
      BY <3>1, <3>2 DEF EvenLoop
    <3> QED
      BY <2>1, <3>3
  <2>3. j - 1 \in Nat /\ j - 1 \notin D
    BY <2>1, <2>2
  <2>4. PICK h : EvenLoop(j - 1, M, h)
    BY <2>3
  <2>5. PICK e : e = [f \in 0 .. j |-> [s \in 0 .. M |->
                        IF f % 2 = 0 /\ f # 0 THEN h[f \div 2][s \div 2] ELSE <<f, s>>]]
    OBVIOUS
  <2>6. \A f \in 0 .. j - 1 : e[f] = h[f]
    <3>1. \A f \in 0 .. j - 1 : f \in 0 .. j
      BY <2>1
    <3> QED
      BY <2>4, <2>5, <3>1 DEF EvenLoop
  <2>7. ASSUME NEW f \in 0 .. j, f % 2 = 0, f # 0 PROVE e[f \div 2] = h[f \div 2]
    <3>1. f \div 2 \in 0 .. j - 1
      BY <2>1, <2>7, Halved
    <3> QED
      BY <2>6, <3>1
  <2>8. EvenLoop(j, M, e)
    BY <2>5, <2>7 DEF EvenLoop
  <2> QED
    BY <2>1, <2>8
<1> QED
  BY <1>1

\* A function of two arguments under a name that the provers leave folded.
Cell(h, f, s) == h[f][s]

OddCells(N, M, h) ==
    \A f, s \in Nat : f <= N /\ s <= M =>
        /\ f % 2 = 0 => Cell(h, f, s) = <<f, s>>
        /\ \A a, b \in Nat : f % 2 = 1 /\ a = f \div 2 /\ b = s \div 2 =>
              Cell(h, f, s) = Cell(h, a, b)

EvenCells(N, M, h) ==
    \A f, s \in Nat : f <= N /\ s <= M =>
        /\ f % 2 = 1 => Cell(h, f, s) = <<f, s>>
        /\ \A a, b \in Nat : f > 0 /\ f % 2 = 0 /\ a = f \div 2 /\ b = s \div 2 =>
              Cell(h, f, s) = Cell(h, a, b)

\* WhileOdd one step at a time.
LEMMA OddHalving ==
    ASSUME NEW N \in Nat, NEW M \in Nat
    PROVE  \E h : OddCells(N, M, h) /\ WhileOdd(N, M) = Cell(h, N, M)
<1>1. PICK g : OddLoop(N, M, g)
  BY OddLoopExist
<1>2. PICK h : OddLoop(N, M, h) /\ WhileOdd(N, M) = h[N][M]
  BY <1>1 DEF OddLoop, WhileOdd
<1>3. ASSUME NEW f \in Nat, NEW s \in Nat, f <= N, s <= M
      PROVE  /\ (f % 2 = 1) => h[f][s] = h[f \div 2][s \div 2]
             /\ ~(f % 2 = 1) => h[f][s] = <<f, s>>
  <2>1. f \in 0 .. N /\ s \in 0 .. M
    BY <1>3
  <2>2. h[f] = [t \in 0 .. M |-> IF f % 2 = 1 THEN h[f \div 2][t \div 2] ELSE <<f, t>>]
    BY <1>2, <2>1 DEF OddLoop
  <2> QED
    BY <2>1, <2>2
<1>4. ASSUME NEW f \in Nat, NEW s \in Nat, f <= N, s <= M
      PROVE  /\ f % 2 = 0 => Cell(h, f, s) = <<f, s>>
             /\ \A a, b \in Nat : f % 2 = 1 /\ a = f \div 2 /\ b = s \div 2 =>
                   Cell(h, f, s) = Cell(h, a, b)
  <2>0. /\ f % 2 = 0 => ~(f % 2 = 1)
        /\ f % 2 = 1 => f % 2 = 1
    BY <1>4
  <2>1. f % 2 = 0 => h[f][s] = <<f, s>>
    BY <1>3, <1>4, <2>0
  <2>2. f % 2 = 1 => h[f][s] = h[f \div 2][s \div 2]
    BY <1>3, <1>4, <2>0
  <2> QED
    BY <2>1, <2>2 DEF Cell
<1>5. OddCells(N, M, h)
  BY <1>4 DEF OddCells
<1> QED
  BY <1>2, <1>5 DEF Cell

\* WhileEven one step at a time.
LEMMA EvenHalving ==
    ASSUME NEW N \in Nat, NEW M \in Nat
    PROVE  \E h : EvenCells(N, M, h) /\ WhileEven(N, M) = Cell(h, N, M)
<1>1. PICK g : EvenLoop(N, M, g)
  BY EvenLoopExist
<1>2. PICK h : EvenLoop(N, M, h) /\ WhileEven(N, M) = h[N][M]
  BY <1>1 DEF EvenLoop, WhileEven
<1>3. ASSUME NEW f \in Nat, NEW s \in Nat, f <= N, s <= M
      PROVE  /\ (f % 2 = 0 /\ f # 0) => h[f][s] = h[f \div 2][s \div 2]
             /\ ~(f % 2 = 0 /\ f # 0) => h[f][s] = <<f, s>>
  <2>1. f \in 0 .. N /\ s \in 0 .. M
    BY <1>3
  <2>2. h[f] = [t \in 0 .. M |-> IF f % 2 = 0 /\ f # 0 THEN h[f \div 2][t \div 2] ELSE <<f, t>>]
    BY <1>2, <2>1 DEF EvenLoop
  <2> QED
    BY <2>1, <2>2
<1>4. ASSUME NEW f \in Nat, NEW s \in Nat, f <= N, s <= M
      PROVE  /\ f % 2 = 1 => Cell(h, f, s) = <<f, s>>
             /\ \A a, b \in Nat : f > 0 /\ f % 2 = 0 /\ a = f \div 2 /\ b = s \div 2 =>
                   Cell(h, f, s) = Cell(h, a, b)
  <2>0. /\ f % 2 = 1 => ~(f % 2 = 0 /\ f # 0)
        /\ f > 0 /\ f % 2 = 0 => f % 2 = 0 /\ f # 0
    BY <1>4
  <2>1. f % 2 = 1 => h[f][s] = <<f, s>>
    BY <1>3, <1>4, <2>0
  <2>2. f > 0 /\ f % 2 = 0 => h[f][s] = h[f \div 2][s \div 2]
    BY <1>3, <1>4, <2>0
  <2> QED
    BY <2>1, <2>2 DEF Cell
<1>5. EvenCells(N, M, h)
  BY <1>4 DEF EvenCells
<1> QED
  BY <1>2, <1>5 DEF Cell
\* Where verifyConsistency starts: the largest range that ends at leaf m - 1 and
\* is one of the tree of n leaves too.
LEMMA BaseIs ==
    ASSUME NEW m \in Nat, NEW n \in Nat, m > 0, m < n
    PROVE  \E p, f, g, s : /\ WhileOdd(m - 1, n - 1) = <<f, g>>
                           /\ Node(m, n, p, f, g, s) /\ s + p = m /\ f % 2 = 0
<1>1. PICK N \in Nat, M \in Nat : N = m - 1 /\ M = n - 1
  OBVIOUS
<1>2. PICK h : OddCells(N, M, h) /\ WhileOdd(N, M) = Cell(h, N, M)
  BY OddHalving
<1> DEFINE Ends(f, g) == \E p, a, b, s : /\ Cell(h, f, g) = <<a, b>>
                                         /\ Node(m, n, p, a, b, s) /\ s + p = m /\ a % 2 = 0
<1> DEFINE D == {f \in Nat : f <= N /\ \E g \in Nat : \E p, s :
                    g <= M /\ Node(m, n, p, f, g, s) /\ s + p = m /\ ~Ends(f, g)}
<1>3. ASSUME D # {} PROVE FALSE
  <2>1. PICK f \in D : \A j \in D : f <= j
    <3>1. D \in SUBSET Nat
      OBVIOUS
    <3> HIDE DEF D
    <3> QED
      BY <1>3, <3>1, LeastNat
  <2>0. PICK g \in Nat : /\ f \in Nat /\ f <= N /\ g <= M
                         /\ \E p, s : Node(m, n, p, f, g, s) /\ s + p = m /\ ~Ends(f, g)
    BY <2>1
  <2>2. PICK p, s : /\ f \in Nat /\ f <= N /\ g <= M
                    /\ Node(m, n, p, f, g, s) /\ s + p = m /\ ~Ends(f, g)
    BY <2>0
  <2>3. p \in Nat /\ p >= 1 /\ s \in Nat
    BY <2>2, PowersDouble DEF Node
  <2>4. CASE f % 2 = 0
    <3>1. Cell(h, f, g) = <<f, g>>
      BY <1>2, <2>2, <2>4 DEF OddCells
    <3> QED
      BY <2>2, <2>4, <3>1
  <2>5. CASE f % 2 = 1
    <3>1. PICK a \in Nat, b \in Nat : a = f \div 2 /\ b = g \div 2 /\ a < f /\ b <= g
      BY <2>2, <2>5, Halved
    <3>2. Cell(h, f, g) = Cell(h, a, b)
      BY <1>2, <2>2, <2>5, <3>1 DEF OddCells
    <3>3. Node(m, n, 2 * p, a, b, s - p) /\ (s - p) + 2 * p = m
      <4>1. Node(m, n, 2 * p, a, b, s - p)
        BY <2>2, <2>5, <3>1, NodeUp
      <4> QED
        BY <2>2, <2>3, <4>1
    <3>4. ~Ends(a, b)
      BY <2>2, <3>2
    <3>5. a <= N /\ b <= M /\ ~(f <= a)
      BY <1>1, <2>2, <3>1
    <3>6. a \in D
      <4> HIDE DEF Ends
      <4> QED
        BY <3>1, <3>3, <3>4, <3>5
    <3> QED
      BY <2>1, <3>5, <3>6
  <2> QED
    BY <2>2, <2>4, <2>5, Halved
<1>4. Node(m, n, 1, N, M, N) /\ N + 1 = m
  <2>1. N * 1 = N /\ M * 1 = M
    OBVIOUS
  <2> QED
    BY <1>1, <2>1, PowersDouble DEF Node
<1>5. Ends(N, M)
  <2> HIDE DEF Ends
  <2>1. N \in Nat /\ N <= N /\ M \in Nat /\ M <= M /\ N \notin D
    BY <1>3
  <2> QED
    BY <1>4, <2>1
<1> QED
  BY <1>1, <1>2, <1>5

\* Over the levels at which the range is the last one and a left half.
Odded(m, n, p, f, g, s, q, a, b) ==
    /\ WhileEven(f, g) = <<a, b>>
    /\ Node(m, n, q, a, b, s) /\ a % 2 = 1 /\ b <= g
    /\ a = b \/ (a = f /\ b = g /\ q = p)
    /\ a = b => f = g

\* The loop over even indices ends at a right half (verifyConsistency).
LEMMA LeftHalves ==
    ASSUME NEW m \in Nat, NEW n \in Nat, m < n, NEW p, NEW f, NEW g, NEW s,
           Node(m, n, p, f, g, s), f > 0, f = g \/ f % 2 = 1
    PROVE  \E q, a, b : Odded(m, n, p, f, g, s, q, a, b)
<1>1. f \in Nat /\ g \in Nat
  BY DEF Node
<1>2. PICK h : EvenCells(f, g, h) /\ WhileEven(f, g) = Cell(h, f, g)
  BY <1>1, EvenHalving
<1>3. CASE f % 2 = 1
  <2>1. Cell(h, f, g) = <<f, g>>
    BY <1>1, <1>2, <1>3 DEF EvenCells
  <2>2. Odded(m, n, p, f, g, s, p, f, g)
    <3>0. WhileEven(f, g) = <<f, g>>
      BY <1>2, <2>1
    <3>1. WhileEven(f, g) = <<f, g>> /\ g <= g
      BY <1>1, <3>0
    <3> QED
      BY <1>3, <3>1 DEF Odded
  <2> QED
    BY <2>2
<1>4. CASE f = g
  <2> DEFINE Ends(x) == \E q, a : /\ Cell(h, x, x) = <<a, a>>
                                  /\ Node(m, n, q, a, a, s) /\ a % 2 = 1 /\ a <= x
  <2> DEFINE D == {x \in Nat : x > 0 /\ x <= f /\ (\E q : Node(m, n, q, x, x, s)) /\ ~Ends(x)}
  <2>1. ASSUME D # {} PROVE FALSE
    <3>1. PICK x \in D : \A j \in D : x <= j
      <4>1. D \in SUBSET Nat
        OBVIOUS
      <4> HIDE DEF D
      <4> QED
        BY <2>1, <4>1, LeastNat
    <3>2. PICK q : x \in Nat /\ x > 0 /\ x <= f /\ Node(m, n, q, x, x, s) /\ ~Ends(x)
      BY <3>1
    <3>3. CASE x % 2 = 1
      <4>1. Cell(h, x, x) = <<x, x>>
        BY <1>1, <1>2, <1>4, <3>2, <3>3 DEF EvenCells
      <4> QED
        BY <3>2, <3>3, <4>1
    <3>4. CASE x % 2 = 0
      <4>1. PICK a \in Nat : a = x \div 2 /\ a < x /\ a > 0
        BY <3>2, <3>4, Halved
      <4>2. Cell(h, x, x) = Cell(h, a, a)
        BY <1>1, <1>2, <1>4, <3>2, <3>4, <4>1 DEF EvenCells
      <4>3. Node(m, n, 2 * q, a, a, s)
        BY <3>2, <3>4, <4>1, NodeUp
      <4>4. ~Ends(a)
        <5>1. ASSUME Ends(a) PROVE Ends(x)
          <6>1. PICK r, b : /\ Cell(h, a, a) = <<b, b>>
                            /\ Node(m, n, r, b, b, s) /\ b % 2 = 1 /\ b <= a
            BY <5>1
          <6>2. b <= x
            <7>1. b \in Nat
              BY <6>1 DEF Node
            <7> QED
              BY <3>2, <4>1, <6>1, <7>1
          <6> QED
            BY <4>2, <6>1, <6>2
        <5> QED
          BY <3>2, <5>1
      <4>5. a <= f /\ ~(x <= a)
        BY <1>1, <3>2, <4>1
      <4>6. a \in D
        <5> HIDE DEF Ends
        <5> QED
          BY <4>1, <4>3, <4>4, <4>5
      <4> QED
        BY <3>1, <4>5, <4>6
    <3> QED
      BY <3>2, <3>3, <3>4, Halved
  <2>2. Ends(f)
    <3> HIDE DEF Ends
    <3>1. f <= f /\ Node(m, n, p, f, f, s)
      BY <1>1, <1>4
    <3> QED
      BY <1>1, <2>1, <3>1
  <2>3. PICK q, a : /\ Cell(h, f, f) = <<a, a>>
                    /\ Node(m, n, q, a, a, s) /\ a % 2 = 1 /\ a <= f
    BY <2>2
  <2>4. Odded(m, n, p, f, g, s, q, a, a)
    BY <1>2, <1>4, <2>3 DEF Odded
  <2> QED
    BY <2>4
<1> QED
  BY <1>3, <1>4

\* The range, as far as the tree goes: its end is e.
Within(m, n, p, f, g, s, e) ==
    Node(m, n, p, f, g, s) /\ e \in Nat /\ e = IF s + p <= n THEN s + p ELSE n

\* One entry of a proof that is a left sibling.
LEMMA RaiseLeft ==
    ASSUME NEW m \in Nat, NEW n \in Nat, m < n, NEW p, NEW f, NEW g, NEW s, NEW e,
           Within(m, n, p, f, g, s, e), g > 0, LeftSibling(f, g)
    PROVE  \E q, a, b, c, d, t : /\ WhileEven(f, g) = <<a, b>>
                                 /\ c = a \div 2 /\ d = b \div 2 /\ d < g
                                 /\ Within(m, n, q, c, d, t, e)
                                 /\ Halves(t, s, e) /\ Halves(t, s, m)
<1>1. Node(m, n, p, f, g, s) /\ f \in Nat /\ g \in Nat /\ s \in Nat /\ p \in Nat
      /\ e \in Nat /\ e = (IF s + p <= n THEN s + p ELSE n) /\ s < m
  BY PowersDouble DEF Within, Node
<1>2. f > 0 /\ (f = g \/ f % 2 = 1)
  BY <1>1 DEF LeftSibling
<1>3. PICK q, a, b : /\ WhileEven(f, g) = <<a, b>>
                     /\ Node(m, n, q, a, b, s) /\ a % 2 = 1 /\ b <= g
                     /\ a = b \/ (a = f /\ b = g /\ q = p)
                     /\ a = b => f = g
  <2>1. \E q, a, b : Odded(m, n, p, f, g, s, q, a, b)
    BY <1>1, <1>2, LeftHalves
  <2> QED
    BY <2>1 DEF Odded
<1>4. a \in Nat /\ b \in Nat /\ q \in Nat /\ q >= 1 /\ q \in Powers /\ m <= s + q
  BY <1>3, PowersDouble DEF Node
<1>5. e = (IF s + q <= n THEN s + q ELSE n)
  <2>1. CASE a = b
    <3>1. n <= s + p /\ n <= s + q
      BY <1>1, <1>3, <2>1, NodeFacts
    <3> QED
      BY <1>1, <1>4, <3>1
  <2>2. CASE a # b
    BY <1>1, <1>3, <2>2
  <2> QED
    BY <2>1, <2>2
<1>6. a <= b /\ q <= s
  <2>1. a > 0
    BY <1>3, <1>4, Halved
  <2> QED
    BY <1>3, <2>1, NodeFacts
<1>7. PICK c \in Nat, d \in Nat, t \in Nat : c = a \div 2 /\ d = b \div 2 /\ t = s - q /\ d < g
  <2>1. b > 0
    BY <1>3, <1>4, <1>6, Halved
  <2>2. b \div 2 < g /\ b \div 2 \in Nat /\ a \div 2 \in Nat
    BY <1>1, <1>3, <1>4, <2>1, Halved
  <2> QED
    BY <1>1, <1>4, <1>6, <2>2
<1>8. Within(m, n, 2 * q, c, d, t, e)
  <2>1. Node(m, n, 2 * q, c, d, t)
    BY <1>3, <1>7, NodeUp
  <2>2. t + 2 * q = s + q
    BY <1>1, <1>4, <1>7
  <2> QED
    BY <1>1, <1>5, <2>1, <2>2 DEF Within
<1>9. s = t + q
  BY <1>1, <1>4, <1>7
<1>10. Halves(t, s, e) /\ Halves(t, s, m)
  <2>1. s < e /\ e <= s + q
    BY <1>1, <1>4, <1>5
  <2> QED
    BY <1>1, <1>4, <1>9, <2>1, HalvesAt
<1> QED
  BY <1>3, <1>7, <1>8, <1>10

\* One that is a right sibling.
LEMMA RaiseRight ==
    ASSUME NEW m \in Nat, NEW n \in Nat, m < n, NEW p, NEW f, NEW g, NEW s, NEW e,
           Within(m, n, p, f, g, s, e), g > 0, ~LeftSibling(f, g)
    PROVE  \E q, c, d, x : /\ c = f \div 2 /\ d = g \div 2 /\ d < g
                           /\ Within(m, n, q, c, d, s, x)
                           /\ Halves(s, e, x) /\ m <= e /\ x <= n
<1>1. Node(m, n, p, f, g, s) /\ f \in Nat /\ g \in Nat /\ s \in Nat /\ p \in Nat /\ p >= 1
      /\ p \in Powers /\ e \in Nat /\ e = (IF s + p <= n THEN s + p ELSE n) /\ s < m /\ m <= s + p
  BY PowersDouble DEF Within, Node
<1>2. f % 2 = 0 /\ f < g
  <2>1. f # g /\ f % 2 = 0
    BY <1>1, Halved DEF LeftSibling
  <2>2. f <= g
    BY <1>1, NodeFacts
  <2> QED
    BY <1>1, <2>1, <2>2
<1>3. s + p < n /\ e = s + p
  BY <1>1, <1>2, NodeFacts
<1>4. PICK c \in Nat, d \in Nat : c = f \div 2 /\ d = g \div 2 /\ d < g
  BY <1>1, Halved
<1>5. PICK x \in Nat : x = IF s + 2 * p <= n THEN s + 2 * p ELSE n
  BY <1>1
<1>6. Within(m, n, 2 * p, c, d, s, x)
  BY <1>1, <1>2, <1>4, <1>5, NodeUp DEF Within
<1>7. e < x /\ x <= e + p /\ x <= n /\ m <= e
  BY <1>1, <1>3, <1>5
<1>8. Halves(s, e, x)
  BY <1>1, <1>3, <1>7, HalvesAt
<1> QED
  BY <1>4, <1>6, <1>7, <1>8
-----------------------------------------------------------------------------
(* Consistency: the climb. *)

ClimbStart(fn, sn, seed, first) == [fn |-> fn, sn |-> sn, next |-> first, old |-> seed, new |-> seed]

\* Climb, up to entry N.
ClimbLoop(fn, sn, seed, proof, first, N, h) ==
    h = [i \in first - 1 .. N |->
            IF i = first - 1 THEN ClimbStart(fn, sn, seed, first)
            ELSE ClimbStep(h[i - 1], proof[i])]

\* The function of Climb exists.
LEMMA ClimbLoopExist ==
    ASSUME NEW fn, NEW sn, NEW seed, NEW proof, NEW first \in Nat, NEW N \in Nat, N >= first - 1,
           first >= 1
    PROVE  \E h : ClimbLoop(fn, sn, seed, proof, first, N, h)
<1> DEFINE D == {j \in Nat : j >= first - 1 /\ ~ \E h : ClimbLoop(fn, sn, seed, proof, first, j, h)}
<1>1. ASSUME D # {} PROVE FALSE
  <2>1. PICK j \in D : \A i \in D : j <= i
    <3>1. D \in SUBSET Nat
      OBVIOUS
    <3> HIDE DEF D
    <3> QED
      BY <1>1, <3>1, LeastNat
  <2>2. j # first - 1
    <3>1. PICK h : h = [i \in first - 1 .. first - 1 |-> ClimbStart(fn, sn, seed, first)]
      OBVIOUS
    <3>2. \A i \in first - 1 .. first - 1 : i = first - 1
      OBVIOUS
    <3>3. ClimbLoop(fn, sn, seed, proof, first, first - 1, h)
      BY <3>1, <3>2 DEF ClimbLoop
    <3> QED
      BY <2>1, <3>3
  <2>3. j - 1 \in Nat /\ j - 1 >= first - 1 /\ j - 1 \notin D
    BY <2>1, <2>2
  <2>4. PICK h : ClimbLoop(fn, sn, seed, proof, first, j - 1, h)
    BY <2>3
  <2>5. PICK e : e = [i \in first - 1 .. j |->
                        IF i = first - 1 THEN ClimbStart(fn, sn, seed, first)
                        ELSE ClimbStep(h[i - 1], proof[i])]
    OBVIOUS
  <2>6. \A i \in first - 1 .. j - 1 : e[i] = h[i]
    <3>1. \A i \in first - 1 .. j - 1 : i \in first - 1 .. j
      BY <2>1
    <3> QED
      BY <2>4, <2>5, <3>1 DEF ClimbLoop
  <2>7. ASSUME NEW i \in first - 1 .. j, i # first - 1 PROVE e[i - 1] = h[i - 1]
    <3>1. i - 1 \in first - 1 .. j - 1
      BY <2>1, <2>7
    <3> QED
      BY <2>6, <3>1
  <2>8. ClimbLoop(fn, sn, seed, proof, first, j, e)
    BY <2>5, <2>7 DEF ClimbLoop
  <2> QED
    BY <2>1, <2>8
<1> QED
  BY <1>1

\* Climb one entry at a time.
Climbs(fn, sn, seed, proof, first, N, h) ==
    /\ \A i \in Nat : i + 1 = first => h[i] = ClimbStart(fn, sn, seed, first)
    /\ \A i, j \in Nat : first <= j /\ j = i + 1 /\ j <= N => h[j] = ClimbStep(h[i], proof[j])

\* Climb is that climb.
LEMMA ClimbIs ==
    ASSUME NEW fn, NEW sn, NEW seed, NEW proof, NEW first \in Nat, first >= 1,
           NEW N \in Nat, N = Len(proof), first <= N + 1
    PROVE  \E h : /\ Climbs(fn, sn, seed, proof, first, N, h)
                  /\ Climb(fn, sn, seed, proof, first)[N] = h[N]
<1>1. N >= first - 1
  OBVIOUS
<1>2. PICK g : ClimbLoop(fn, sn, seed, proof, first, N, g)
  BY <1>1, ClimbLoopExist
<1>3. PICK h : ClimbLoop(fn, sn, seed, proof, first, N, h) /\ Climb(fn, sn, seed, proof, first) = h
  BY <1>2 DEF ClimbLoop, ClimbStart, Climb
<1>4. ASSUME NEW i \in Nat, i + 1 = first PROVE h[i] = ClimbStart(fn, sn, seed, first)
  <2>1. i \in first - 1 .. N /\ i = first - 1
    BY <1>1, <1>4
  <2> QED
    BY <1>3, <2>1 DEF ClimbLoop
<1>5. ASSUME NEW i \in Nat, NEW j \in Nat, first <= j, j = i + 1, j <= N
      PROVE  h[j] = ClimbStep(h[i], proof[j])
  <2>1. j \in first - 1 .. N /\ j # first - 1 /\ j - 1 = i
    BY <1>1, <1>5
  <2>2. h[j] = ClimbStep(h[j - 1], proof[j])
    BY <1>3, <2>1 DEF ClimbLoop
  <2> QED
    BY <2>1, <2>2
<1> QED
  BY <1>3, <1>4, <1>5 DEF Climbs

\* What one entry of a proof does (ClimbStep), field by field.
LEMMA ClimbsUp ==
    ASSUME NEW at, NEW x
    PROVE  /\ at.sn = 0 => ClimbStep(at, x) = at
           /\ at.sn # 0 => ClimbStep(at, x).next = at.next + 1
           /\ at.sn # 0 /\ LeftSibling(at.fn, at.sn) =>
                /\ ClimbStep(at, x).fn = WhileEven(at.fn, at.sn)[1] \div 2
                /\ ClimbStep(at, x).sn = WhileEven(at.fn, at.sn)[2] \div 2
                /\ ClimbStep(at, x).old = NodeHash(x, at.old)
                /\ ClimbStep(at, x).new = NodeHash(x, at.new)
           /\ at.sn # 0 /\ ~LeftSibling(at.fn, at.sn) =>
                /\ ClimbStep(at, x).fn = at.fn \div 2
                /\ ClimbStep(at, x).sn = at.sn \div 2
                /\ ClimbStep(at, x).old = at.old
                /\ ClimbStep(at, x).new = NodeHash(at.new, x)
BY DEF ClimbStep

\* The range that a range is raised to by an entry of a proof.
Raised(m, n, f, g, s, e, c, d, t, z) ==
    \/ /\ LeftSibling(f, g) /\ Halves(t, s, z) /\ Halves(t, s, m) /\ z = e
       /\ c = WhileEven(f, g)[1] \div 2 /\ d = WhileEven(f, g)[2] \div 2
    \/ /\ ~LeftSibling(f, g) /\ Halves(s, e, z) /\ t = s /\ m <= e
       /\ c = f \div 2 /\ d = g \div 2

\* Below the top, each entry of a proof raises the range to a larger one.
LEMMA Raise ==
    ASSUME NEW m \in Nat, NEW n \in Nat, m < n, NEW p, NEW f, NEW g, NEW s, NEW e,
           Within(m, n, p, f, g, s, e), g # 0
    PROVE  \E q, c, d, t, z : /\ Within(m, n, q, c, d, t, z) /\ z <= n /\ d < g
                              /\ Raised(m, n, f, g, s, e, c, d, t, z)
<1>1. f \in Nat /\ g \in Nat /\ g > 0 /\ e <= n /\ s \in Nat /\ p \in Nat
  BY PowersDouble DEF Within, Node
<1>2. CASE LeftSibling(f, g)
  <2>1. PICK q, a, b, c, d, t : /\ WhileEven(f, g) = <<a, b>>
                                 /\ c = a \div 2 /\ d = b \div 2 /\ d < g
                                 /\ Within(m, n, q, c, d, t, e)
                                 /\ Halves(t, s, e) /\ Halves(t, s, m)
    BY <1>1, <1>2, RaiseLeft
  <2>2. Raised(m, n, f, g, s, e, c, d, t, e)
    BY <1>2, <2>1 DEF Raised
  <2> QED
    BY <1>1, <2>1, <2>2
<1>3. CASE ~LeftSibling(f, g)
  <2>1. PICK q, c, d, z : /\ c = f \div 2 /\ d = g \div 2 /\ d < g
                           /\ Within(m, n, q, c, d, s, z)
                           /\ Halves(s, e, z) /\ m <= e /\ z <= n
    BY <1>1, <1>3, RaiseRight
  <2>2. Raised(m, n, f, g, s, e, c, d, s, z)
    BY <1>3, <2>1 DEF Raised
  <2> QED
    BY <2>1, <2>2
<1> QED
  BY <1>2, <1>3
-----------------------------------------------------------------------------
(* Consistency: what an accepted proof shows. *)

\* The entries are used up to i, and the two hashes are those of the trees.
SoundAt(A, B, m, n, at, i) ==
    /\ at.next = i + 1
    /\ \A p, s, e : Within(m, n, p, at.fn, at.sn, s, e) =>
         /\ at.old = SubtreeHash(A, s, m) /\ at.new = SubtreeHash(B, s, e)
         /\ \A j \in 1 .. s : A[j] = B[j]

\* If the two hashes are those of the trees after an entry, they were so before it.
LEMMA SoundDown ==
    ASSUME NEW A, NEW B, NEW m \in Nat, NEW n \in Nat, m = Len(A), n = Len(B), m < n,
           NEW at, NEW x, NEW i \in Nat, NEW j \in Nat, j = i + 1, at.next \in Nat, at.next <= j,
           SoundAt(A, B, m, n, ClimbStep(at, x), j)
    PROVE  SoundAt(A, B, m, n, at, i)
<1>1. PICK up : up = ClimbStep(at, x) /\ SoundAt(A, B, m, n, up, j)
  OBVIOUS
<1>2. at.sn # 0 /\ up.next = at.next + 1
  <2>1. at.sn # 0
    <3>1. at.sn = 0 => up = at
      BY <1>1, ClimbsUp
    <3> QED
      BY <1>1, <3>1 DEF SoundAt
  <2> QED
    BY <1>1, <2>1, ClimbsUp
<1>3. at.next = i + 1
  BY <1>1, <1>2 DEF SoundAt
<1>4. HashRanges(A, m) /\ HashRanges(B, n)
  BY HashIs
<1>5. ASSUME NEW p, NEW s, NEW e, Within(m, n, p, at.fn, at.sn, s, e)
      PROVE  /\ at.old = SubtreeHash(A, s, m) /\ at.new = SubtreeHash(B, s, e)
             /\ \A k \in 1 .. s : A[k] = B[k]
  <2>0. s \in Nat /\ s < m /\ e \in Nat
    BY <1>5 DEF Within, Node
  <2>1. PICK f, g : f = at.fn /\ g = at.sn
    OBVIOUS
  <2>2. PICK q, c, d, t, z : /\ Within(m, n, q, c, d, t, z) /\ z <= n /\ d < g
                             /\ Raised(m, n, f, g, s, e, c, d, t, z)
    BY <1>2, <1>5, <2>1, Raise
  <2>3. t \in Nat /\ z \in Nat
    BY <2>2 DEF Within, Node
  <2>4. up.fn = c /\ up.sn = d
    <3>1. CASE LeftSibling(f, g)
      BY <1>1, <1>2, <2>1, <2>2, <3>1, ClimbsUp DEF Raised
    <3>2. CASE ~LeftSibling(f, g)
      BY <1>1, <1>2, <2>1, <2>2, <3>2, ClimbsUp DEF Raised
    <3> QED
      BY <3>1, <3>2
  <2>5. /\ up.old = SubtreeHash(A, t, m) /\ up.new = SubtreeHash(B, t, z)
        /\ \A k \in 1 .. t : A[k] = B[k]
    BY <1>1, <2>2, <2>4 DEF SoundAt
  <2>6. CASE LeftSibling(f, g)
    <3>1. Halves(t, s, e) /\ Halves(t, s, m) /\ z = e /\ t < s
      BY <2>2, <2>6 DEF Raised, Halves
    <3>2. up.old = NodeHash(x, at.old) /\ up.new = NodeHash(x, at.new)
      BY <1>1, <1>2, <2>1, <2>6, ClimbsUp
    <3>3. SubtreeHash(A, t, m) = NodeHash(SubtreeHash(A, t, s), SubtreeHash(A, s, m))
      BY <1>4, <2>0, <2>3, <3>1 DEF HashRanges
    <3>4. SubtreeHash(B, t, e) = NodeHash(SubtreeHash(B, t, s), SubtreeHash(B, s, e))
      BY <1>4, <2>0, <2>2, <2>3, <3>1 DEF HashRanges
    <3>5. x = SubtreeHash(A, t, s) /\ at.old = SubtreeHash(A, s, m)
      <4>1. NodeHash(x, at.old) = NodeHash(SubtreeHash(A, t, s), SubtreeHash(A, s, m))
        BY <2>5, <3>2, <3>3
      <4> QED
        BY <4>1, HashesApart
    <3>6. x = SubtreeHash(B, t, s) /\ at.new = SubtreeHash(B, s, e)
      <4>1. NodeHash(x, at.new) = NodeHash(SubtreeHash(B, t, s), SubtreeHash(B, s, e))
        BY <2>5, <3>1, <3>2, <3>4
      <4> QED
        BY <4>1, HashesApart
    <3>7. \A k \in t + 1 .. s : A[k] = B[k]
      <4>1. s <= m /\ m <= Len(A) /\ m <= Len(B) /\ Len(A) \in Nat /\ Len(B) \in Nat
        BY <2>0
      <4>2. SubtreeHash(A, t, s) = SubtreeHash(B, t, s)
        BY <3>5, <3>6
      <4> QED
        BY <2>0, <2>3, <3>1, <4>1, <4>2, SameHash
    <3>8. \A k \in 1 .. s : A[k] = B[k]
      <4>1. 1 .. s = (1 .. t) \cup (t + 1 .. s)
        BY <2>0, <2>3, <3>1
      <4> QED
        BY <2>5, <3>7, <4>1
    <3> QED
      BY <3>5, <3>6, <3>8
  <2>7. CASE ~LeftSibling(f, g)
    <3>1. Halves(s, e, z) /\ t = s
      BY <2>2, <2>7 DEF Raised
    <3>2. up.old = at.old /\ up.new = NodeHash(at.new, x)
      BY <1>1, <1>2, <2>1, <2>7, ClimbsUp
    <3>3. SubtreeHash(B, s, z) = NodeHash(SubtreeHash(B, s, e), SubtreeHash(B, e, z))
      BY <1>4, <2>0, <2>2, <2>3, <3>1 DEF HashRanges
    <3>4. at.new = SubtreeHash(B, s, e)
      BY <2>5, <3>1, <3>2, <3>3, HashesApart
    <3> QED
      BY <2>5, <3>1, <3>2, <3>4
  <2> QED
    BY <2>6, <2>7
<1> QED
  BY <1>3, <1>5 DEF SoundAt

\* At the top, the hashes are the roots.
LEMMA SoundTop ==
    ASSUME NEW A, NEW B, NEW m \in Nat, NEW n \in Nat, m = Len(A), n = Len(B), m > 0, m < n,
           A # <<>>, B # <<>>, NEW at, NEW i \in Nat, at.next = i + 1, at.sn = 0,
           at.old = RootHash(A), at.new = RootHash(B)
    PROVE  SoundAt(A, B, m, n, at, i)
<1>1. RootHash(A) = SubtreeHash(A, 0, m) /\ RootHash(B) = SubtreeHash(B, 0, n)
  BY RootIs
<1>2. ASSUME NEW p, NEW s, NEW e, Within(m, n, p, at.fn, at.sn, s, e)
      PROVE  s = 0 /\ e = n
  <2>1. PICK f, g : f = at.fn /\ g = 0 /\ Node(m, n, p, f, g, s)
                    /\ e = IF s + p <= n THEN s + p ELSE n
    BY <1>2 DEF Within
  <2>2. f \in Nat /\ s \in Nat /\ p \in Nat
    BY <2>1, PowersDouble DEF Node
  <2>3. f <= g /\ (f = g => n <= s + p) /\ (f = 0 => s = 0)
    BY <2>1, NodeFacts
  <2> QED
    BY <2>1, <2>2, <2>3
<1> QED
  BY <1>1, <1>2 DEF SoundAt
\* No entry is used twice.
LEMMA ClimbCounts ==
    ASSUME NEW fn, NEW sn, NEW seed, NEW proof, NEW first \in Nat, first >= 1,
           NEW N \in Nat, first <= N + 1, NEW h, Climbs(fn, sn, seed, proof, first, N, h)
    PROVE  \A i \in Nat : first <= i + 1 /\ i <= N => h[i].next \in Nat /\ h[i].next <= i + 1
<1> DEFINE Counts(i) == h[i].next \in Nat /\ h[i].next <= i + 1
<1> DEFINE D == {i \in Nat : first <= i + 1 /\ i <= N /\ ~Counts(i)}
<1>1. ASSUME D # {} PROVE FALSE
  <2>1. PICK j \in D : \A i \in D : j <= i
    <3>1. D \in SUBSET Nat
      OBVIOUS
    <3> HIDE DEF D
    <3> QED
      BY <1>1, <3>1, LeastNat
  <2>2. j \in Nat /\ first <= j + 1 /\ j <= N /\ ~Counts(j)
    BY <2>1
  <2>3. CASE j + 1 = first
    <3>1. h[j] = ClimbStart(fn, sn, seed, first)
      BY <2>2, <2>3 DEF Climbs
    <3>2. h[j].next = first
      BY <3>1 DEF ClimbStart
    <3> QED
      BY <2>2, <2>3, <3>2
  <2>4. CASE j + 1 # first
    <3>1. PICK i \in Nat : j = i + 1
      <4>1. j - 1 \in Nat /\ j = (j - 1) + 1
        BY <2>2, <2>4
      <4> QED
        BY <4>1
    <3>2. first <= j /\ first <= i + 1 /\ i <= N /\ ~(j <= i)
      BY <2>2, <2>4, <3>1
    <3>3. i \notin D
      BY <2>1, <3>2
    <3>4. Counts(i)
      <4> HIDE DEF Counts
      <4> QED
        BY <3>1, <3>2, <3>3
    <3>5. PICK at : at = h[i] /\ h[j] = ClimbStep(at, proof[j])
      BY <2>2, <3>1, <3>2 DEF Climbs
    <3>6. h[j].next = at.next \/ h[j].next = at.next + 1
      BY <3>5, ClimbsUp
    <3> QED
      BY <2>2, <3>1, <3>4, <3>5, <3>6
  <2> QED
    BY <2>3, <2>4
<1> HIDE DEF Counts
<1>2. \A i \in Nat : first <= i + 1 /\ i <= N => Counts(i)
  BY <1>1
<1> QED
  BY <1>2 DEF Counts

\* The climb of an accepted proof, back to where it starts.
LEMMA SoundClimb ==
    ASSUME NEW A, NEW B, NEW m \in Nat, NEW n \in Nat, m = Len(A), n = Len(B), m < n,
           NEW fn, NEW sn, NEW seed, NEW proof, NEW first \in Nat, first >= 1,
           NEW N \in Nat, first <= N + 1, NEW h, Climbs(fn, sn, seed, proof, first, N, h),
           SoundAt(A, B, m, n, h[N], N)
    PROVE  \A i \in Nat : first <= i + 1 /\ i <= N => SoundAt(A, B, m, n, h[i], i)
<1> DEFINE D == {k \in Nat : k <= N /\ \E i \in Nat :
                    k + i = N /\ first <= i + 1 /\ ~SoundAt(A, B, m, n, h[i], i)}
<1>1. ASSUME D # {} PROVE FALSE
  <2>1. PICK k \in D : \A l \in D : k <= l
    <3>1. D \in SUBSET Nat
      OBVIOUS
    <3> HIDE DEF D
    <3> QED
      BY <1>1, <3>1, LeastNat
  <2>2. PICK i \in Nat : /\ k \in Nat /\ k <= N
                         /\ k + i = N /\ first <= i + 1 /\ ~SoundAt(A, B, m, n, h[i], i)
    BY <2>1
  <2>3. i # N
    BY <2>2
  <2>4. PICK j \in Nat, l \in Nat : j = i + 1 /\ k = l + 1
    <3>1. i + 1 \in Nat /\ k - 1 \in Nat /\ k = (k - 1) + 1
      BY <2>2, <2>3
    <3> QED
      BY <3>1
  <2>5. l + j = N /\ first <= j + 1 /\ first <= j /\ j <= N /\ l <= N /\ ~(k <= l) /\ i <= N
    BY <2>2, <2>4
  <2>6. l \notin D
    BY <2>1, <2>5
  <2>7. SoundAt(A, B, m, n, h[j], j)
    BY <2>5, <2>6
  <2> HIDE DEF D
  <2>8. PICK at, x : at = h[i] /\ x = proof[j] /\ h[j] = ClimbStep(at, x)
    BY <2>4, <2>5 DEF Climbs
  <2>9. at.next \in Nat /\ at.next <= j
    BY <2>2, <2>4, <2>5, <2>8, ClimbCounts
  <2>10. SoundAt(A, B, m, n, at, i)
    BY <2>4, <2>7, <2>8, <2>9, SoundDown
  <2> QED
    BY <2>2, <2>8, <2>10
<1>2. ASSUME NEW i \in Nat, first <= i + 1, i <= N PROVE SoundAt(A, B, m, n, h[i], i)
  <2>1. N - i \in Nat /\ N - i <= N /\ (N - i) + i = N
    BY <1>2
  <2>2. N - i \notin D
    BY <1>1
  <2> HIDE DEF D
  <2>3. \A k \in Nat : k \notin D => ~(k <= N /\ \E l \in Nat :
             k + l = N /\ first <= l + 1 /\ ~SoundAt(A, B, m, n, h[l], l))
    BY DEF D
  <2> QED
    BY <1>2, <2>1, <2>2, <2>3
<1> QED
  BY <1>2

\* A sequence is empty iff its length is 0.
LEMMA EmptyList ==
    ASSUME NEW S, NEW A \in Seq(S)
    PROVE  Len(A) = 0 <=> A = <<>>
OBVIOUS

\* A sequence with a length above 0 is not empty.
LEMMA NonEmpty ==
    ASSUME NEW S, NEW A \in Seq(S), NEW N \in Nat, N = Len(A), N > 0
    PROVE  A # <<>> /\ N >= 1
OBVIOUS

\* verifyConsistency accepts two roots, whatever list it is given as a proof, only
\* if the second is of a log that extends the log of the first.
THEOREM ConsistencySound ==
    ASSUME NEW S, NEW A \in Seq(S), NEW B \in Seq(S), NEW proof, IsList(proof),
           VerifyConsistency(Len(A), RootHash(A), Len(B), RootHash(B), proof)
    PROVE  Len(A) <= Len(B) /\ \A i \in 1 .. Len(A) : A[i] = B[i]
<1>1. PICK m \in Nat, n \in Nat, N \in Nat : m = Len(A) /\ n = Len(B) /\ N = Len(proof)
  BY Lists
<1>2. m <= n
  BY <1>1 DEF VerifyConsistency
<1>3. CASE m = 0
  BY <1>1, <1>2, <1>3
<1>4. CASE m > 0 /\ m = n
  <2>1. RootHash(A) = RootHash(B)
    BY <1>1, <1>4 DEF VerifyConsistency
  <2>2. RootHash(A) = SubtreeHash(A, 0, m) /\ RootHash(B) = SubtreeHash(B, 0, m)
    <3>1. m = Len(B)
      BY <1>1, <1>4
    <3>2. A # <<>> /\ B # <<>> /\ m >= 1
      BY <1>1, <1>4, <3>1, NonEmpty
    <3> QED
      BY <1>1, <3>1, <3>2, RootIs
  <2>3. \A i \in 0 + 1 .. m : A[i] = B[i]
    <3>1. 0 \in Nat /\ 0 < m /\ m <= m /\ m <= Len(A) /\ m <= Len(B)
      BY <1>1, <1>4
    <3>2. SubtreeHash(A, 0, m) = SubtreeHash(B, 0, m)
      BY <2>1, <2>2
    <3> QED
      BY <1>1, <3>1, <3>2, SameHash
  <2> QED
    BY <1>1, <1>2, <2>3
<1>5. CASE m > 0 /\ m < n
  <2>1. PICK p, f, g, s : /\ WhileOdd(m - 1, n - 1) = <<f, g>>
                          /\ Node(m, n, p, f, g, s) /\ s + p = m /\ f % 2 = 0
    BY <1>5, BaseIs
  <2>2. f \in Nat /\ s \in Nat /\ p \in Nat
    BY <2>1, PowersDouble DEF Node
  <2>3. proof # <<>>
    BY <1>1, <1>5 DEF VerifyConsistency
  <2>4. N >= 1
    BY <1>1, <2>3 DEF IsList
  <2>19. PICK seed : seed = IF f > 0 THEN proof[1] ELSE RootHash(A)
    OBVIOUS
  <2>5. PICK first \in 1 .. 2 : first = IF f > 0 THEN 2 ELSE 1
    OBVIOUS
  <2>6. PICK end : /\ end = Climb(f, g, seed, proof, first)[N] /\ end.sn = 0
                   /\ RootsAgree(end, proof, RootHash(A), RootHash(B))
    BY <1>1, <1>5, <2>1, <2>3, <2>5, <2>19 DEF VerifyConsistency
  <2>7. first \in Nat /\ first >= 1 /\ first <= N + 1
    BY <2>4, <2>5
  <2>8. PICK h : Climbs(f, g, seed, proof, first, N, h) /\ end = h[N]
    BY <1>1, <2>6, <2>7, ClimbIs
  <2>9. end.next = N + 1 /\ end.old = RootHash(A) /\ end.new = RootHash(B)
    BY <1>1, <2>6 DEF RootsAgree
  <2>10. A # <<>> /\ B # <<>>
    BY <1>1, <1>5, NonEmpty
  <2>11. SoundAt(A, B, m, n, h[N], N)
    BY <1>1, <1>5, <2>6, <2>8, <2>9, <2>10, SoundTop
  <2>12. PICK i \in Nat : i + 1 = first
    <3>1. first - 1 \in Nat /\ (first - 1) + 1 = first
      BY <2>5
    <3> QED
      BY <3>1
  <2>13. SoundAt(A, B, m, n, h[i], i)
    <3>1. first <= i + 1 /\ i <= N
      BY <2>7, <2>12
    <3> QED
      BY <1>1, <1>5, <2>7, <2>8, <2>11, <3>1, SoundClimb
  <2>14. h[i] = ClimbStart(f, g, seed, first)
    BY <2>8, <2>12 DEF Climbs
  <2>15. Within(m, n, p, f, g, s, m)
    BY <1>5, <2>1, <2>2 DEF Within
  <2>16. /\ seed = SubtreeHash(A, s, m) /\ seed = SubtreeHash(B, s, m)
         /\ \A k \in 1 .. s : A[k] = B[k]
    BY <2>13, <2>14, <2>15 DEF SoundAt, ClimbStart
  <2>17. \A k \in s + 1 .. m : A[k] = B[k]
    <3>1. s < m /\ m <= m /\ m <= Len(A) /\ m <= Len(B) /\ Len(A) \in Nat /\ Len(B) \in Nat
      BY <1>1, <1>5, <2>1 DEF Node
    <3>2. SubtreeHash(A, s, m) = SubtreeHash(B, s, m)
      BY <2>16
    <3> QED
      BY <2>2, <3>1, <3>2, SameHash
  <2>18. 1 .. m = (1 .. s) \cup (s + 1 .. m)
    <3>1. s < m
      BY <2>1 DEF Node
    <3> QED
      BY <2>2, <3>1
  <2> QED
    BY <1>1, <1>2, <2>16, <2>17, <2>18
<1> QED
  BY <1>2, <1>3, <1>4, <1>5
-----------------------------------------------------------------------------
(* Consistency: the proof that is served is accepted. *)

\* Every proof of a range is a list.
SubLists(m, N, h) == \A s, e \in Nat : s < m /\ m <= e /\ e <= N => IsList(At(h, s, e))

\* SubProofs yields lists.
LEMMA SubProofLists ==
    ASSUME NEW B, NEW N \in Nat, NEW m \in Nat, NEW h, SubRanges(B, m, N, h)
    PROVE  SubLists(m, N, h)
<1>0. \A x : IsList(<<>>) /\ IsList(<<x>>)
  <2>1. \A x : <<>> \in Seq({x}) /\ <<x>> \in Seq({x})
    OBVIOUS
  <2> QED
    BY <2>1 DEF IsList
<1> DEFINE Holds(s, e) == s < m /\ m <= e => IsList(At(h, s, e))
<1>1. PICK R : R = {r \in Nat \X Nat : Holds(r[1], r[2])}
  OBVIOUS
<1>2. \A s, e \in Nat : <<s, e>> \in R <=> Holds(s, e)
  BY <1>1
<1>3. ASSUME NEW s \in Nat, m <= N, s < m PROVE IsList(At(h, s, m))
  <2>1. At(h, s, m) = <<>> \/ At(h, s, m) = <<SubtreeHash(B, s, m)>>
    BY <1>3 DEF SubRanges
  <2> QED
    BY <1>0, <2>1
<1>4. ASSUME NEW s \in Nat, NEW e \in Nat, e = s + 1, e <= N PROVE Holds(s, e)
  <2>1. s < m /\ m <= e => e = m /\ m <= N
    BY <1>4
  <2> QED
    BY <1>3, <2>1
<1>5. ASSUME NEW s \in Nat, NEW u \in Nat, NEW e \in Nat,
             Halves(s, u, e), e <= N, Holds(s, u), Holds(u, e), s < m, m <= e
      PROVE  IsList(At(h, s, e))
  <2>1. CASE m = e
    BY <1>3, <1>5, <2>1
  <2>2. CASE m # e /\ m <= u
    <3>1. At(h, s, e) = More(At(h, s, u), SubtreeHash(B, u, e))
      BY <1>5, <2>2 DEF SubRanges
    <3>2. IsList(At(h, s, u))
      BY <1>5, <2>2
    <3> QED
      BY <3>1, <3>2, ListAppend
  <2>3. CASE m # e /\ ~(m <= u)
    <3>1. At(h, s, e) = More(At(h, u, e), SubtreeHash(B, s, u))
      BY <1>5, <2>3 DEF SubRanges
    <3>2. IsList(At(h, u, e))
      BY <1>5, <2>3
    <3> QED
      BY <3>1, <3>2, ListAppend
  <2> QED
    BY <2>1, <2>2, <2>3
<1>6. ASSUME NEW s \in Nat, NEW u \in Nat, NEW e \in Nat,
             Halves(s, u, e), e <= N, Holds(s, u), Holds(u, e)
      PROVE  Holds(s, e)
  BY <1>5, <1>6
<1>7. \A s, e \in Nat : s < e /\ e <= N => <<s, e>> \in R
  <2> HIDE DEF Holds
  <2>1. \A s, e \in Nat : e = s + 1 /\ e <= N => <<s, e>> \in R
    BY <1>2, <1>4
  <2>2. \A s, u, e \in Nat : Halves(s, u, e) /\ e <= N /\ <<s, u>> \in R /\ <<u, e>> \in R
                               => <<s, e>> \in R
    BY <1>2, <1>6
  <2> QED
    BY <2>1, <2>2, OfRanges
<1>8. ASSUME NEW s \in Nat, NEW e \in Nat, s < m, m <= e, e <= N PROVE IsList(At(h, s, e))
  <2>1. s < e
    BY <1>8
  <2> QED
    BY <1>2, <1>7, <1>8, <2>1
<1> QED
  BY <1>8 DEF SubLists

\* The next entry is the sibling that the range is raised by.
Follows(B, m, n, h, f, g, s, e, c, t, z) ==
    LET q == At(h, 0, n)
        k == Len(At(h, s, e))
    IN /\ k < Len(q) /\ Len(At(h, t, z)) = k + 1
       /\ LeftSibling(f, g) => q[k + 1] = SubtreeHash(B, t, s)
       /\ ~LeftSibling(f, g) => q[k + 1] = SubtreeHash(B, e, z)

\* If the proof of the range above is where the whole proof starts, so is the one of
\* the range itself, and the entry after it is the sibling.
LEMMA RaisedStarts ==
    ASSUME NEW B, NEW m \in Nat, NEW n \in Nat, m < n, NEW h, SubRanges(B, m, n, h), SubLists(m, n, h),
           NEW p, NEW f, NEW g, NEW s, NEW e, Within(m, n, p, f, g, s, e), m < e \/ f % 2 = 0,
           NEW c, NEW d, NEW t, NEW z, NEW r, Within(m, n, r, c, d, t, z), z <= n,
           Raised(m, n, f, g, s, e, c, d, t, z)
    PROVE  /\ m < z
           /\ IsStart(At(h, t, z), At(h, 0, n)) =>
                IsStart(At(h, s, e), At(h, 0, n)) /\ Follows(B, m, n, h, f, g, s, e, c, t, z)
<1>1. /\ f \in Nat /\ g \in Nat /\ s \in Nat /\ p \in Nat /\ p >= 1 /\ e \in Nat /\ s < m /\ m <= s + p
      /\ e = (IF s + p <= n THEN s + p ELSE n) /\ Node(m, n, p, f, g, s)
      /\ t \in Nat /\ z \in Nat
  BY PowersDouble DEF Within, Node
<1>2. m <= e /\ e <= n
  BY <1>1
<1>3. IsList(At(h, s, e))
  BY <1>1, <1>2 DEF SubLists
<1>4. CASE LeftSibling(f, g)
  <2>1. Halves(t, s, e) /\ z = e /\ t < s
    BY <1>4 DEF Raised, Halves
  <2>2. m < e
    <3>1. ASSUME m = e, f % 2 = 0 PROVE FALSE
      <4>1. f = g
        BY <1>1, <1>4, <3>1, Halved DEF LeftSibling
      <4>2. n <= s + p
        BY <1>1, <4>1, NodeFacts
      <4> QED
        BY <1>1, <3>1, <4>2
    <3> QED
      BY <1>1, <1>2, <3>1
  <2>3. PICK a, x : a = At(h, s, e) /\ x = SubtreeHash(B, t, s) /\ At(h, t, z) = More(a, x)
    <3>1. t < m /\ ~(m <= s)
      BY <1>1, <2>1
    <3>2. At(h, t, e) = More(At(h, s, e), SubtreeHash(B, t, s))
      BY <1>1, <1>2, <2>1, <2>2, <3>1 DEF SubRanges
    <3> QED
      BY <2>1, <3>2
  <2>4. ASSUME NEW q, q = At(h, 0, n), IsStart(At(h, t, z), q)
        PROVE  /\ IsStart(a, q) /\ Len(a) < Len(q) /\ q[Len(a) + 1] = x
               /\ Len(At(h, t, z)) = Len(a) + 1
    BY <1>3, <2>3, <2>4, StartAppend, ListAppend
  <2> QED
    BY <1>4, <2>1, <2>2, <2>3, <2>4 DEF Follows
<1>5. CASE ~LeftSibling(f, g)
  <2>1. Halves(s, e, z) /\ t = s /\ e < z
    BY <1>5 DEF Raised, Halves
  <2>2. m < z
    BY <1>1, <1>2, <2>1
  <2>3. PICK a, x : a = At(h, s, e) /\ x = SubtreeHash(B, e, z) /\ At(h, t, z) = More(a, x)
    <3>2. At(h, s, z) = More(At(h, s, e), SubtreeHash(B, e, z))
      BY <1>1, <1>2, <2>1, <2>2 DEF SubRanges
    <3> QED
      BY <2>1, <3>2
  <2>4. ASSUME NEW q, q = At(h, 0, n), IsStart(At(h, t, z), q)
        PROVE  /\ IsStart(a, q) /\ Len(a) < Len(q) /\ q[Len(a) + 1] = x
               /\ Len(At(h, t, z)) = Len(a) + 1
    BY <1>3, <2>3, <2>4, StartAppend, ListAppend
  <2> QED
    BY <1>5, <2>1, <2>2, <2>3, <2>4 DEF Follows
<1> QED
  BY <1>4, <1>5
\* Every range on the way from the top is one whose proof the whole proof starts with.
LEMMA AllStart ==
    ASSUME NEW B, NEW m \in Nat, NEW n \in Nat, m < n, NEW h, SubRanges(B, m, n, h), SubLists(m, n, h)
    PROVE  \A g \in Nat : \A p, f, s, e :
               Within(m, n, p, f, g, s, e) /\ (m < e \/ f % 2 = 0) =>
                   IsStart(At(h, s, e), At(h, 0, n))
<1> DEFINE Fine(g) == \A p, f, s, e :
               Within(m, n, p, f, g, s, e) /\ (m < e \/ f % 2 = 0) =>
                   IsStart(At(h, s, e), At(h, 0, n))
<1> DEFINE D == {g \in Nat : ~Fine(g)}
<1>1. ASSUME D # {} PROVE FALSE
  <2>1. PICK g \in D : \A j \in D : g <= j
    <3>1. D \in SUBSET Nat
      OBVIOUS
    <3> HIDE DEF D
    <3> QED
      BY <1>1, <3>1, LeastNat
  <2>2. g \in Nat /\ ~Fine(g)
    BY <2>1
  <2>3. PICK p, f, s, e : /\ Within(m, n, p, f, g, s, e) /\ (m < e \/ f % 2 = 0)
                          /\ ~IsStart(At(h, s, e), At(h, 0, n))
    BY <2>2
  <2>4. ASSUME g = 0 PROVE FALSE
    <3>1. Node(m, n, p, f, g, s) /\ e = (IF s + p <= n THEN s + p ELSE n)
          /\ f \in Nat /\ s \in Nat /\ p \in Nat /\ s < m
      BY <2>3, PowersDouble DEF Within, Node
    <3>2. s = 0 /\ e = n
      <4>1. f <= g /\ (f = g => n <= s + p) /\ (f = 0 => s = 0)
        BY <3>1, NodeFacts
      <4> QED
        BY <2>4, <3>1, <4>1
    <3>3. IsList(At(h, 0, n))
      <4>1. 0 \in Nat /\ 0 < m /\ m <= n /\ n <= n
        BY <3>1
      <4> QED
        BY <4>1 DEF SubLists
    <3>4. IsStart(At(h, 0, n), At(h, 0, n))
      BY <3>3, Lists DEF IsStart
    <3> QED
      BY <2>3, <3>2, <3>4
  <2>5. PICK r, c, d, t, z : /\ Within(m, n, r, c, d, t, z) /\ z <= n /\ d < g
                             /\ Raised(m, n, f, g, s, e, c, d, t, z)
    BY <2>3, <2>4, Raise
  <2>6. m < z
    BY <2>3, <2>5, RaisedStarts
  <2>7. d \in Nat /\ ~(g <= d)
    BY <2>2, <2>5 DEF Within, Node
  <2>8. Fine(d)
    <3> HIDE DEF Fine
    <3> QED
      BY <2>1, <2>7
  <2>9. IsStart(At(h, t, z), At(h, 0, n))
    BY <2>5, <2>6, <2>8
  <2> QED
    BY <2>3, <2>5, <2>9, RaisedStarts, ZenonT(30)
<1> HIDE DEF Fine
<1>2. \A g \in Nat : Fine(g)
  BY <1>1
<1> QED
  BY <1>2 DEF Fine

\* As many entries are used as the proof of the range has, and the hashes are the
\* range's.
Reached(B, m, n, h, at, i) ==
    /\ at.next = i + 1 /\ at.sn \in Nat
    /\ \E p, s, e : /\ Within(m, n, p, at.fn, at.sn, s, e) /\ (m < e \/ at.fn % 2 = 0)
                    /\ i = Len(At(h, s, e))
                    /\ at.old = SubtreeHash(B, s, m) /\ at.new = SubtreeHash(B, s, e)

\* Below the top there is a next entry, and it leads to the range above.
LEMMA ReachUp ==
    ASSUME NEW B, NEW m \in Nat, NEW n \in Nat, m < n, n = Len(B), NEW h,
           SubRanges(B, m, n, h), SubLists(m, n, h),
           NEW at, NEW i \in Nat, Reached(B, m, n, h, at, i), at.sn # 0,
           NEW q, q = At(h, 0, n)
    PROVE  i < Len(q) /\ Reached(B, m, n, h, ClimbStep(at, q[i + 1]), i + 1)
<1>1. PICK f, g, p, s, e :
          /\ f = at.fn /\ g = at.sn
          /\ Within(m, n, p, f, g, s, e) /\ (m < e \/ f % 2 = 0)
          /\ i = Len(At(h, s, e))
          /\ at.old = SubtreeHash(B, s, m) /\ at.new = SubtreeHash(B, s, e)
  BY DEF Reached
<1>2. g # 0 /\ at.next = i + 1
  BY <1>1 DEF Reached
<1>3. PICK r, c, d, t, z : /\ Within(m, n, r, c, d, t, z) /\ z <= n /\ d < g
                           /\ Raised(m, n, f, g, s, e, c, d, t, z)
  BY <1>1, <1>2, Raise
<1>4. m < z
  BY <1>1, <1>3, RaisedStarts
<1>5. d \in Nat /\ t \in Nat /\ z \in Nat /\ s \in Nat /\ e \in Nat /\ s < m
  BY <1>1, <1>3 DEF Within, Node
<1>6. IsStart(At(h, t, z), At(h, 0, n))
  BY <1>3, <1>4, <1>5, AllStart
<1>7. Follows(B, m, n, h, f, g, s, e, c, t, z)
  BY <1>1, <1>3, <1>6, RaisedStarts
<1>8. PICK x, up : x = q[i + 1] /\ up = ClimbStep(at, x)
  OBVIOUS
<1>9. /\ i < Len(q) /\ Len(At(h, t, z)) = i + 1
      /\ LeftSibling(f, g) => x = SubtreeHash(B, t, s)
      /\ ~LeftSibling(f, g) => x = SubtreeHash(B, e, z)
  BY <1>1, <1>7, <1>8 DEF Follows
<1>10. HashRanges(B, n)
  BY HashIs
<1>11. up.next = (i + 1) + 1
  BY <1>1, <1>2, <1>8, ClimbsUp
<1>12. up.fn = c /\ up.sn = d
  <2>1. CASE LeftSibling(f, g)
    BY <1>1, <1>2, <1>3, <1>8, <2>1, ClimbsUp DEF Raised
  <2>2. CASE ~LeftSibling(f, g)
    BY <1>1, <1>2, <1>3, <1>8, <2>2, ClimbsUp DEF Raised
  <2> QED
    BY <2>1, <2>2
<1>13. up.old = SubtreeHash(B, t, m) /\ up.new = SubtreeHash(B, t, z)
  <2>1. CASE LeftSibling(f, g)
    <3>1. Halves(t, s, e) /\ Halves(t, s, m) /\ z = e
      BY <1>3, <2>1 DEF Raised
    <3>2. up.old = NodeHash(x, at.old) /\ up.new = NodeHash(x, at.new)
      BY <1>1, <1>2, <1>8, <2>1, ClimbsUp
    <3>3. SubtreeHash(B, t, m) = NodeHash(SubtreeHash(B, t, s), SubtreeHash(B, s, m))
      BY <1>5, <1>10, <3>1 DEF HashRanges
    <3>4. SubtreeHash(B, t, e) = NodeHash(SubtreeHash(B, t, s), SubtreeHash(B, s, e))
      BY <1>3, <1>5, <1>10, <3>1 DEF HashRanges
    <3> QED
      BY <1>1, <1>9, <2>1, <3>1, <3>2, <3>3, <3>4
  <2>2. CASE ~LeftSibling(f, g)
    <3>1. Halves(s, e, z) /\ t = s
      BY <1>3, <2>2 DEF Raised
    <3>2. up.old = at.old /\ up.new = NodeHash(at.new, x)
      BY <1>1, <1>2, <1>8, <2>2, ClimbsUp
    <3>3. SubtreeHash(B, s, z) = NodeHash(SubtreeHash(B, s, e), SubtreeHash(B, e, z))
      BY <1>3, <1>5, <1>10, <3>1 DEF HashRanges
    <3> QED
      BY <1>1, <1>9, <2>2, <3>1, <3>2, <3>3
  <2> QED
    BY <2>1, <2>2
<1>14. Reached(B, m, n, h, up, i + 1)
  <2>1. Within(m, n, r, up.fn, up.sn, t, z) /\ up.sn \in Nat
    BY <1>3, <1>5, <1>12
  <2> QED
    BY <1>4, <1>9, <1>11, <1>13, <2>1 DEF Reached
<1> QED
  BY <1>8, <1>9, <1>14
\* At the top all the entries are used, and the hashes are those of the trees.
Top(B, m, n, h, at, i) ==
    at.sn = 0 => /\ i = Len(At(h, 0, n))
                 /\ at.old = SubtreeHash(B, 0, m) /\ at.new = SubtreeHash(B, 0, n)

\* Where the climb is at the top.
LEMMA ReachTop ==
    ASSUME NEW B, NEW m \in Nat, NEW n \in Nat, m < n, NEW h, NEW at, NEW i \in Nat,
           Reached(B, m, n, h, at, i)
    PROVE  Top(B, m, n, h, at, i)
<1> SUFFICES ASSUME at.sn = 0
             PROVE  /\ i = Len(At(h, 0, n))
                    /\ at.old = SubtreeHash(B, 0, m) /\ at.new = SubtreeHash(B, 0, n)
  BY DEF Top
<1>1. PICK f, p, s, e : /\ Within(m, n, p, f, 0, s, e) /\ i = Len(At(h, s, e))
                        /\ at.old = SubtreeHash(B, s, m) /\ at.new = SubtreeHash(B, s, e)
  BY DEF Reached
<1>2. Node(m, n, p, f, 0, s) /\ e = (IF s + p <= n THEN s + p ELSE n)
      /\ f \in Nat /\ s \in Nat /\ p \in Nat /\ s < m
  BY <1>1, PowersDouble DEF Within, Node
<1>3. f <= 0 /\ (f = 0 => n <= s + p) /\ (f = 0 => s = 0)
  BY <1>2, NodeFacts
<1>4. s = 0 /\ e = n
  BY <1>2, <1>3
<1> QED
  BY <1>1, <1>4

\* The climb of the proof that is served, entry by entry.
LEMMA ReachAll ==
    ASSUME NEW B, NEW m \in Nat, NEW n \in Nat, m < n, n = Len(B), NEW h,
           SubRanges(B, m, n, h), SubLists(m, n, h), NEW q, q = At(h, 0, n),
           NEW fn, NEW sn, NEW seed, NEW first \in Nat, first >= 1,
           NEW N \in Nat, N = Len(q), NEW c, Climbs(fn, sn, seed, q, first, N, c),
           \A i \in Nat : i + 1 = first => Reached(B, m, n, h, c[i], i)
    PROVE  \A i \in Nat : first <= i + 1 /\ i <= N => Reached(B, m, n, h, c[i], i)
<1> DEFINE D == {i \in Nat : first <= i + 1 /\ i <= N /\ ~Reached(B, m, n, h, c[i], i)}
<1>1. ASSUME D # {} PROVE FALSE
  <2>1. PICK j \in D : \A i \in D : j <= i
    <3>1. D \in SUBSET Nat
      OBVIOUS
    <3> HIDE DEF D
    <3> QED
      BY <1>1, <3>1, LeastNat
  <2>2. j \in Nat /\ first <= j + 1 /\ j <= N /\ ~Reached(B, m, n, h, c[j], j)
    BY <2>1
  <2>3. j + 1 # first
    BY <2>2
  <2>4. PICK i \in Nat : j = i + 1
    <3>1. j - 1 \in Nat /\ j = (j - 1) + 1
      BY <2>2, <2>3
    <3> QED
      BY <3>1
  <2>5. first <= j /\ first <= i + 1 /\ i <= N /\ ~(j <= i) /\ i # N
    BY <2>2, <2>3, <2>4
  <2>6. i \notin D
    BY <2>1, <2>5
  <2>7. Reached(B, m, n, h, c[i], i)
    BY <2>5, <2>6
  <2> HIDE DEF D
  <2>8. PICK at : at = c[i] /\ c[j] = ClimbStep(at, q[j])
    BY <2>2, <2>4, <2>5 DEF Climbs
  <2>9. at.sn # 0
    <3>1. Reached(B, m, n, h, at, i)
      BY <2>7, <2>8
    <3>2. ASSUME at.sn = 0 PROVE i = Len(At(h, 0, n))
      <4>1. m < n /\ m \in Nat /\ n \in Nat /\ i \in Nat
        OBVIOUS
      <4>2. Top(B, m, n, h, at, i)
        BY <3>1, <4>1, ReachTop
      <4> QED
        BY <3>2, <4>2 DEF Top
    <3> QED
      BY <2>5, <3>2
  <2>10. Reached(B, m, n, h, ClimbStep(at, q[i + 1]), i + 1)
    BY <2>7, <2>8, <2>9, ReachUp
  <2> QED
    BY <2>2, <2>4, <2>8, <2>10
<1> QED
  BY <1>1

\* A consistency proof is a list of hashes, whatever the leaves are.
LEMMA ProofIsList ==
    ASSUME NEW B, NEW n \in Nat, n = Len(B), NEW m \in Nat, m <= n
    PROVE  /\ IsList(ConsistencyProof(B, m))
           /\ 0 < m /\ m < n => ConsistencyProof(B, m) = At(SubProofs(B, m), 0, n)
<1>1. IsList(<<>>)
  <2>1. <<>> \in Seq({})
    OBVIOUS
  <2> QED
    BY <2>1 DEF IsList
<1>2. CASE m = 0 \/ m = n
  BY <1>1, <1>2 DEF ConsistencyProof
<1>3. CASE 0 < m /\ m < n
  <2>1. PICK h : h = SubProofs(B, m) /\ SubRanges(B, m, n, h)
    BY SubProofsAre
  <2>2. SubLists(m, n, h)
    BY <2>1, SubProofLists
  <2>3. n - 0 = n /\ 0 \in Nat /\ m <= n /\ n <= n
    BY <1>3
  <2>4. ConsistencyProof(B, m) = At(h, 0, n)
    BY <1>3, <2>1, <2>3 DEF ConsistencyProof, At
  <2> QED
    BY <1>3, <2>1, <2>2, <2>3, <2>4 DEF SubLists
<1> QED
  BY <1>2, <1>3

\* The proof that consistencyProof computes of a log for an earlier size is accepted
\* by verifyConsistency from whoever has the two roots.
THEOREM ConsistencyComplete ==
    ASSUME NEW S, NEW A \in Seq(S), NEW B \in Seq(S), Len(A) <= Len(B),
           \A i \in 1 .. Len(A) : A[i] = B[i]
    PROVE  VerifyConsistency(Len(A), RootHash(A), Len(B), RootHash(B),
                             ConsistencyProof(B, Len(A)))
<1>1. PICK m \in Nat, n \in Nat : m = Len(A) /\ n = Len(B) /\ m <= n
  OBVIOUS
<1>2. ASSUME m > 0 PROVE SubtreeHash(A, 0, m) = SubtreeHash(B, 0, m)
  <2>0. PICK o \in Nat : o = 0
    OBVIOUS
  <2>1. \A i \in o + 1 .. m : A[i] = B[i]
    BY <1>1, <2>0
  <2>2. o < m /\ m <= m /\ m <= Len(A) /\ m <= Len(B) /\ Len(A) \in Nat /\ Len(B) \in Nat
    BY <1>1, <1>2, <2>0
  <2>3. SubtreeHash(A, o, m) = SubtreeHash(B, o, m)
    BY <2>1, <2>2, SameHash
  <2> QED
    BY <2>0, <2>3
<1>3. CASE m = n
  <2>1. ConsistencyProof(B, m) = <<>>
    BY <1>1, <1>3 DEF ConsistencyProof
  <2>2. RootHash(A) = RootHash(B)
    <3>1. CASE m = 0
      <4>1. A = <<>> /\ B = <<>>
        BY <1>1, <1>3, <3>1, EmptyList
      <4> QED
        BY <4>1
    <3>2. CASE m > 0
      <4>1. A # <<>> /\ B # <<>> /\ m >= 1
        BY <1>1, <1>3, <3>2, NonEmpty
      <4> QED
        BY <1>1, <1>2, <1>3, <3>2, <4>1, RootIs
    <3> QED
      BY <3>1, <3>2
  <2> QED
    BY <1>1, <1>3, <2>1, <2>2 DEF VerifyConsistency
<1>4. CASE m = 0 /\ n > 0
  BY <1>1, <1>4 DEF VerifyConsistency
<1>5. CASE m > 0 /\ m < n
  <2>1. PICK h, q : /\ h = SubProofs(B, m) /\ SubRanges(B, m, n, h) /\ SubLists(m, n, h)
                    /\ q = ConsistencyProof(B, m) /\ q = At(h, 0, n) /\ IsList(q)
    BY <1>1, <1>5, SubProofsAre, SubProofLists, ProofIsList
  <2>2. PICK N \in Nat : N = Len(q)
    BY <2>1, Lists
  <2>3. PICK p, f, g, s : /\ WhileOdd(m - 1, n - 1) = <<f, g>>
                          /\ Node(m, n, p, f, g, s) /\ s + p = m /\ f % 2 = 0
    BY <1>5, BaseIs
  <2>4. f \in Nat /\ g \in Nat /\ s \in Nat /\ p \in Nat /\ p >= 1 /\ s < m
    BY <2>3, PowersDouble DEF Node
  <2>5. /\ f <= g /\ f # g /\ g # 0
        /\ f = 0 <=> s = 0
    <3>1. /\ f <= g /\ (f = g => n <= s + p)
          /\ f = 0 => s = 0
          /\ f > 0 => p <= s
      BY <1>5, <2>3, NodeFacts
    <3> QED
      BY <1>5, <2>3, <2>4, <3>1
  <2>6. Within(m, n, p, f, g, s, m)
    BY <1>5, <2>3, <2>4 DEF Within
  <2>7. PICK w : w = At(h, s, m) /\ w = IF s = 0 THEN <<>> ELSE <<SubtreeHash(B, s, m)>>
    BY <1>5, <2>1, <2>4 DEF SubRanges
  <2>8. IsStart(w, q)
    BY <1>5, <2>1, <2>3, <2>4, <2>6, <2>7, AllStart, ZenonT(30)
  <2>9. PICK first \in 1 .. 2 : first = IF f > 0 THEN 2 ELSE 1
    OBVIOUS
  <2>10. PICK seed : seed = IF f > 0 THEN q[1] ELSE RootHash(A)
    OBVIOUS
  <2>11. Len(w) + 1 = first /\ seed = SubtreeHash(B, s, m) /\ Len(w) <= N
    <3>1. CASE f = 0
      <4>1. s = 0 /\ Len(w) = 0
        BY <2>5, <2>7, <3>1
      <4>2. A # <<>> /\ m >= 1
        BY <1>1, <1>5, NonEmpty
      <4>3. RootHash(A) = SubtreeHash(B, 0, m)
        BY <1>1, <1>2, <1>5, <4>2, RootIs
      <4> QED
        BY <2>9, <2>10, <3>1, <4>1, <4>3
    <3>2. CASE f # 0
      <4>1. f > 0 /\ s # 0
        BY <2>4, <2>5, <3>2
      <4>2. w = <<SubtreeHash(B, s, m)>>
        BY <2>7, <4>1
      <4>3. Len(w) = 1 /\ w[1] = SubtreeHash(B, s, m) /\ 1 \in 1 .. Len(w)
        BY <4>2
      <4>4. q[1] = w[1] /\ Len(w) <= N
        BY <2>2, <2>8, <4>3 DEF IsStart
      <4> QED
        BY <2>9, <2>10, <4>1, <4>3, <4>4
    <3> QED
      BY <3>1, <3>2
  <2>12. first \in Nat /\ first >= 1 /\ first <= N + 1
    BY <2>9, <2>11
  <2>13. PICK c : /\ Climbs(f, g, seed, q, first, N, c)
                  /\ Climb(f, g, seed, q, first)[N] = c[N]
    BY <2>2, <2>12, ClimbIs
  <2>14. ASSUME NEW i \in Nat, i + 1 = first PROVE Reached(B, m, n, h, c[i], i)
    <3>1. PICK at : at = c[i] /\ at = ClimbStart(f, g, seed, first)
      BY <2>13, <2>14 DEF Climbs
    <3>2. at.fn = f /\ at.sn = g /\ at.next = first /\ at.old = seed /\ at.new = seed
      BY <3>1 DEF ClimbStart
    <3>3. i = Len(w)
      BY <2>9, <2>11, <2>14
    <3>4. Within(m, n, p, at.fn, at.sn, s, m) /\ at.fn % 2 = 0 /\ at.sn \in Nat
      BY <2>3, <2>4, <2>6, <3>2
    <3>5. /\ at.old = SubtreeHash(B, s, m) /\ at.new = SubtreeHash(B, s, m)
          /\ i = Len(At(h, s, m)) /\ at.next = i + 1
      BY <2>7, <2>11, <2>14, <3>2, <3>3
    <3>6. Reached(B, m, n, h, at, i)
      BY <3>4, <3>5 DEF Reached
    <3> QED
      BY <3>1, <3>6
  <2>15. PICK end : end = c[N] /\ Reached(B, m, n, h, end, N)
    <3>1. first <= N + 1 /\ N <= N
      BY <2>12
    <3>2. \A i \in Nat : i + 1 = first => Reached(B, m, n, h, c[i], i)
      BY <2>14
    <3>3. \A i \in Nat : first <= i + 1 /\ i <= N => Reached(B, m, n, h, c[i], i)
      BY <1>1, <1>5, <2>1, <2>2, <2>12, <2>13, <3>2, ReachAll
    <3> QED
      BY <3>1, <3>3
  <2>16. end.sn = 0
    <3>1. ASSUME end.sn # 0 PROVE N < Len(q)
      BY <1>1, <1>5, <2>1, <2>15, <3>1, ReachUp
    <3> QED
      BY <2>2, <3>1
  <2>17. end.old = SubtreeHash(B, 0, m) /\ end.new = SubtreeHash(B, 0, n) /\ end.next = N + 1
    <3>1. end.old = SubtreeHash(B, 0, m) /\ end.new = SubtreeHash(B, 0, n)
      <4>2. Top(B, m, n, h, end, N)
        BY <1>5, <2>15, ReachTop
      <4> QED
        BY <2>16, <4>2 DEF Top
    <3> QED
      BY <2>15, <3>1 DEF Reached
  <2>18. RootHash(A) = SubtreeHash(B, 0, m) /\ RootHash(B) = SubtreeHash(B, 0, n)
    <3>1. A # <<>> /\ m >= 1 /\ B # <<>> /\ n >= 1
      BY <1>1, <1>5, NonEmpty
    <3> QED
      BY <1>1, <1>2, <1>5, <3>1, RootIs
  <2>19. q # <<>>
    <3>1. CASE f # 0
      <4>1. first = 2
        BY <2>4, <2>9, <3>1
      <4> QED
        BY <2>2, <2>12, <4>1
    <3>2. CASE f = 0
      <4>1. first = 1
        BY <2>9, <3>2
      <4>2. N = 0 => c[N] = ClimbStart(f, g, seed, first)
        BY <2>13, <4>1 DEF Climbs
      <4>3. N = 0 => end.sn = g
        BY <2>15, <4>2 DEF ClimbStart
      <4> QED
        BY <2>2, <2>5, <2>16, <4>3
    <3> QED
      BY <3>1, <3>2
  <2>20. RootsAgree(end, q, RootHash(A), RootHash(B))
    BY <2>2, <2>17, <2>18 DEF RootsAgree
  <2>21. end = Climb(f, g, seed, q, first)[Len(q)]
    BY <2>2, <2>13, <2>15
  <2>22. VerifyConsistency(m, RootHash(A), n, RootHash(B), q)
    BY <1>5, <2>3, <2>9, <2>10, <2>16, <2>19, <2>20, <2>21 DEF VerifyConsistency
  <2> QED
    BY <1>1, <2>1, <2>22
<1> QED
  BY <1>1, <1>3, <1>4, <1>5
-----------------------------------------------------------------------------
(* The monitor. *)

\* What the proofs assume of the constants.
Parameters == PageSize \in Nat \ {0}

\* A row of the table.
Row == [index : Nat, rewritten : BOOLEAN]

\* The head of a log.
Sth(seen) == [size |-> Len(seen), root |-> RootHash(seen), seen |-> seen]

\* What is on file: no head, or that of some log.
Heads == {NoHead} \cup {Sth(seen) : seen \in Seq(Row)}

\* A run has a head to check.
Busy == run.pc \in {"consistency", "entries", "inclusion"}

\* The types, and a run under way checks the head of some log.
Shape ==
    /\ leaves \in Seq(Row)
    /\ tampered \in BOOLEAN
    /\ head \in Heads
    /\ run \in [pc : {"idle", "alarm", "consistency", "entries", "inclusion"},
                cur : Heads, offset : Nat, page : Seq(Row)]
    /\ Busy => run.cur = Sth(run.cur.seen)

\* One log is where the other starts.
Begins(A, B) == Len(A) <= Len(B) /\ \A i \in 1 .. Len(A) : A[i] = B[i]

\* A proof is asked for a head that is newer than the one on file.
Asked == run.pc = "consistency" => head # NoHead /\ run.cur.size > head.size

\* Past that question, the newer head extends the one on file.
Proven ==
    run.pc \in {"entries", "inclusion"} /\ head # NoHead /\ run.cur.size > head.size
        => Begins(head.seen, run.cur.seen)

\* Until the table is tampered with, it extends whatever was read of it.
PageRead ==
    \A k \in 1 .. Len(run.page) :
        run.offset + k <= Len(leaves) /\ run.page[k] = leaves[run.offset + k]

\* What has been read is a beginning, or a part, of the table as it is.
Untouched ==
    ~tampered =>
        /\ Begins(head.seen, leaves)
        /\ Busy => Begins(run.cur.seen, leaves)
        /\ run.pc = "inclusion" => PageRead

\* The inductive invariant.
Inv == Shape /\ Asked /\ Proven /\ Untouched /\ NoFalseAlarm

\* The size and the root of a head are those of the log it was taken of.
LEMMA HeadIs ==
    ASSUME NEW h \in Heads
    PROVE  /\ h.seen \in Seq(Row) /\ h.size = Len(h.seen) /\ h.size \in Nat
           /\ h # NoHead => h = Sth(h.seen)
           /\ h = Sth(h.seen) => h.root = RootHash(h.seen)
<1>1. CASE h = NoHead
  <2>1. <<>> \in Seq(Row) /\ Len(<<>>) = 0
    OBVIOUS
  <2>2. h.seen = <<>> /\ h.size = 0
    BY <1>1 DEF NoHead
  <2> QED
    BY <1>1, <2>1, <2>2 DEF Sth
<1>2. CASE h # NoHead
  <2>1. PICK s \in Seq(Row) : h = Sth(s)
    BY <1>2 DEF Heads
  <2>2. h.seen = s /\ h.size = Len(s) /\ h.root = RootHash(s)
    BY <2>1 DEF Sth
  <2> QED
    BY <2>1, <2>2
<1> QED
  BY <1>1, <1>2

\* The head of a log has its size, its root and its leaves.
LEMMA SthIs ==
    ASSUME NEW s \in Seq(Row)
    PROVE  /\ Sth(s) \in Heads /\ Sth(s) = Sth(Sth(s).seen)
           /\ Sth(s).seen = s /\ Sth(s).size = Len(s) /\ Sth(s).root = RootHash(s)
BY DEF Sth, Heads

\* Logs that begin alike.
LEMMA BeginsFacts ==
    ASSUME NEW A \in Seq(Row), NEW B \in Seq(Row)
    PROVE  /\ Begins(A, A) /\ Begins(<<>>, A)
           /\ \A x \in Row : Begins(A, B) => Begins(A, Append(B, x))
           /\ Begins(A, B) /\ Len(A) = Len(B) => A = B
           /\ Begins(A, B) => SubSeq(B, 1, Len(A)) = A
<1>1. Begins(A, A) /\ Begins(<<>>, A)
  BY DEF Begins
<1>2. ASSUME NEW x \in Row, Begins(A, B) PROVE Begins(A, Append(B, x))
  BY <1>2 DEF Begins
<1>3. ASSUME Begins(A, B), Len(A) = Len(B) PROVE A = B
  BY <1>3 DEF Begins
<1>4. ASSUME Begins(A, B) PROVE SubSeq(B, 1, Len(A)) = A
  <2>1. SubSeq(B, 1, Len(A)) \in Seq(Row) /\ Len(SubSeq(B, 1, Len(A))) = Len(A)
    BY <1>4 DEF Begins
  <2>2. \A i \in 1 .. Len(A) : SubSeq(B, 1, Len(A))[i] = A[i]
    BY <1>4 DEF Begins
  <2> QED
    BY <2>1, <2>2
<1> QED
  BY <1>1, <1>2, <1>3, <1>4

\* Of two beginnings of a log the shorter is a beginning of the longer.
LEMMA BothBegin ==
    ASSUME NEW A \in Seq(Row), NEW B \in Seq(Row), NEW C \in Seq(Row),
           Begins(A, C), Begins(B, C), Len(A) <= Len(B)
    PROVE  Begins(A, B)
BY DEF Begins

\* The table as it was at an earlier size.
LEMMA FirstIs ==
    ASSUME Shape, NEW k \in Nat, k <= Len(leaves)
    PROVE  FirstLeaves(k) \in Seq(Row) /\ Len(FirstLeaves(k)) = k /\ Begins(FirstLeaves(k), leaves)
BY DEF Shape, FirstLeaves, Begins

-----------------------------------------------------------------------------
\* Before the first run nothing is on file.
LEMMA InitInv == Init => Inv
<1> SUFFICES ASSUME Init PROVE Inv
  OBVIOUS
<1>1. Shape
  <2>1. leaves \in Seq(Row) /\ tampered \in BOOLEAN /\ head \in Heads
    <3>1. <<>> \in Seq(Row)
      OBVIOUS
    <3>2. leaves = <<>> /\ tampered = FALSE /\ head = NoHead
      BY DEF Init
    <3> QED
      BY <3>1, <3>2 DEF Heads
  <2>2. run = [pc |-> "idle", cur |-> NoHead, offset |-> 0, page |-> <<>>]
    BY DEF Init, NoRun
  <2>3. NoHead \in Heads /\ <<>> \in Seq(Row)
    BY DEF Heads
  <2>4. /\ run \in [pc : {"idle", "alarm", "consistency", "entries", "inclusion"},
                    cur : Heads, offset : Nat, page : Seq(Row)]
        /\ run.pc = "idle"
    BY <2>2, <2>3
  <2> QED
    BY <2>1, <2>4 DEF Shape, Busy
<1>2. Untouched
  BY DEF Init, Untouched, NoHead, NoRun, Busy, Begins
<1> QED
  BY <1>1, <1>2 DEF Init, Inv, Asked, Proven, NoFalseAlarm, NoRun

\* What is written to the table by others.
LEMMA AppendInv == Inv /\ AppendLeaf => Inv'
<1> SUFFICES ASSUME Inv, AppendLeaf PROVE Inv'
  OBVIOUS
<1>0. leaves \in Seq(Row) /\ head \in Heads /\ run.cur \in Heads /\ tampered \in BOOLEAN
      /\ run.page \in Seq(Row) /\ run.offset \in Nat
  BY DEF Inv, Shape
<1>1. PICK x \in Row : leaves' = Append(leaves, x)
  BY <1>0 DEF AppendLeaf, Entry, Row
<1>2. /\ UNCHANGED <<tampered, head, run>>
      /\ leaves' \in Seq(Row) /\ Len(leaves') = Len(leaves) + 1
      /\ \A i \in 1 .. Len(leaves) : leaves'[i] = leaves[i]
  BY <1>0, <1>1 DEF AppendLeaf
<1>3. Shape'
  BY <1>2 DEF Inv, Shape, Busy
<1>4. Untouched'
  <2> SUFFICES ASSUME ~tampered
               PROVE  /\ Begins(head.seen, leaves')
                      /\ Busy => Begins(run.cur.seen, leaves')
                      /\ run.pc = "inclusion" => PageRead'
    BY <1>2 DEF Untouched, Busy
  <2>1. head.seen \in Seq(Row) /\ run.cur.seen \in Seq(Row)
    BY <1>0, HeadIs
  <2>2. Untouched
    BY DEF Inv
  <2>3. Begins(head.seen, leaves')
    BY <1>0, <1>1, <2>1, <2>2, BeginsFacts DEF Untouched
  <2>4. Busy => Begins(run.cur.seen, leaves')
    BY <1>0, <1>1, <2>1, <2>2, BeginsFacts DEF Untouched
  <2>5. ASSUME run.pc = "inclusion", NEW k \in 1 .. Len(run.page)
        PROVE  run.offset + k <= Len(leaves') /\ run.page[k] = leaves'[run.offset + k]
    <3>1. run.offset + k <= Len(leaves) /\ run.page[k] = leaves[run.offset + k]
      BY <2>2, <2>5 DEF Untouched, PageRead
    <3>2. run.offset + k \in 1 .. Len(leaves)
      BY <1>0, <3>1
    <3> QED
      BY <1>0, <1>2, <3>1, <3>2
  <2> QED
    BY <1>2, <2>3, <2>4, <2>5 DEF PageRead
<1> QED
  BY <1>2, <1>3, <1>4 DEF Inv, Asked, Proven, NoFalseAlarm

\* Once the table is tampered with, nothing is claimed of it.
LEMMA TamperInv == Inv /\ Tamper => Inv'
<1> SUFFICES ASSUME Inv, Tamper PROVE Inv'
  OBVIOUS
<1>1. tampered' = TRUE /\ UNCHANGED <<head, run>> /\ leaves \in Seq(Row)
  BY DEF Tamper, Inv, Shape
<1>2. leaves' \in Seq(Row)
  <2>1. ASSUME NEW i \in DOMAIN leaves, leaves' = [leaves EXCEPT ![i].rewritten = TRUE]
        PROVE  leaves' \in Seq(Row)
    <3>1. leaves[i] \in Row
      BY <1>1, <2>1
    <3>2. PICK r : r = [leaves[i] EXCEPT !.rewritten = TRUE]
      OBVIOUS
    <3>3. r \in Row
      BY <3>1, <3>2 DEF Row
    <3>4. leaves' = [leaves EXCEPT ![i] = r]
      BY <2>1, <3>2
    <3>5. DOMAIN leaves = 1 .. Len(leaves) /\ \A j \in DOMAIN leaves : leaves[j] \in Row
      BY <1>1
    <3>6. leaves' = [j \in 1 .. Len(leaves) |-> IF j = i THEN r ELSE leaves[j]]
      BY <2>1, <3>4, <3>5
    <3>7. \A j \in 1 .. Len(leaves) : (IF j = i THEN r ELSE leaves[j]) \in Row
      BY <3>3, <3>5
    <3>8. leaves' \in [1 .. Len(leaves) -> Row] /\ Len(leaves) \in Nat
      BY <1>1, <3>6, <3>7
    <3> QED
      BY <3>8, SeqDef
  <2>2. ASSUME NEW n \in 0 .. Len(leaves) - 1, leaves' = SubSeq(leaves, 1, n)
        PROVE  leaves' \in Seq(Row)
    BY <1>1, <2>2
  <2> QED
    BY <2>1, <2>2 DEF Tamper
<1> QED
  BY <1>1, <1>2 DEF Inv, Shape, Asked, Proven, Untouched, NoFalseAlarm, Busy

\* A run that ends without an alarm leaves nothing behind.
LEMMA StopInv == Inv /\ UNCHANGED <<leaves, tampered, head>> /\ Stop => Inv'
<1> SUFFICES ASSUME Inv, UNCHANGED <<leaves, tampered, head>>, Stop PROVE Inv'
  OBVIOUS
<1>1. run' = [pc |-> "idle", cur |-> NoHead, offset |-> 0, page |-> <<>>]
  BY DEF Stop, NoRun
<1>2. /\ run'.pc = "idle"
      /\ run' \in [pc : {"idle", "alarm", "consistency", "entries", "inclusion"},
                   cur : Heads, offset : Nat, page : Seq(Row)]
  BY <1>1 DEF Heads
<1> QED
  BY <1>2 DEF Inv, Shape, Asked, Proven, Untouched, NoFalseAlarm, Busy

\* An alarm after the table was tampered with.
LEMMA AlarmInv == Inv /\ tampered /\ UNCHANGED <<leaves, tampered, head>> /\ Alarm => Inv'
<1> SUFFICES ASSUME Inv, tampered, UNCHANGED <<leaves, tampered, head>>, Alarm PROVE Inv'
  OBVIOUS
<1>1. run' = [pc |-> "alarm", cur |-> NoHead, offset |-> 0, page |-> <<>>]
  BY DEF Alarm, NoRun
<1>2. /\ run'.pc = "alarm"
      /\ run' \in [pc : {"idle", "alarm", "consistency", "entries", "inclusion"},
                   cur : Heads, offset : Nat, page : Seq(Row)]
  BY <1>1 DEF Heads
<1> QED
  BY <1>2 DEF Inv, Shape, Asked, Proven, Untouched, NoFalseAlarm, Busy
\* A head that is fetched is the table's, and extends the one on file if the
\* table does.
LEMMA FetchHeadInv == Inv /\ FetchHead => Inv'
<1> SUFFICES ASSUME Inv, FetchHead PROVE Inv'
  OBVIOUS
<1>0. /\ leaves \in Seq(Row) /\ head \in Heads /\ tampered \in BOOLEAN
      /\ run \in [pc : {"idle", "alarm", "consistency", "entries", "inclusion"},
                  cur : Heads, offset : Nat, page : Seq(Row)]
      /\ UNCHANGED <<leaves, tampered, head>>
  BY DEF Inv, Shape, FetchHead
<1>1. PICK cur \in Heads : /\ cur = GetSTH /\ cur = Sth(cur.seen) /\ cur.seen = leaves
                           /\ cur.size = Len(leaves) /\ cur.root = RootHash(leaves)
                           /\ Len(leaves) \in Nat
  <2>1. GetSTH = Sth(leaves)
    BY DEF GetSTH, Sth
  <2> QED
    BY <1>0, <2>1, SthIs
<1>2. head.seen \in Seq(Row) /\ head.size = Len(head.seen) /\ head.size \in Nat
      /\ (head # NoHead => head.root = RootHash(head.seen))
  BY <1>0, HeadIs
<1>3. ~tampered => Begins(head.seen, leaves) /\ Begins(cur.seen, leaves)
  BY <1>0, <1>1, BeginsFacts DEF Inv, Untouched
<1>4. ASSUME run' = CheckFrom(cur), head = NoHead \/ cur.size = head.size PROVE Inv'
  <2>1. run' = [pc |-> "entries", cur |-> cur, offset |-> head.size, page |-> <<>>]
    BY <1>4 DEF CheckFrom
  <2>2. /\ run'.pc = "entries" /\ run'.cur = cur
        /\ run' \in [pc : {"idle", "alarm", "consistency", "entries", "inclusion"},
                     cur : Heads, offset : Nat, page : Seq(Row)]
    BY <1>2, <2>1
  <2>3. Shape'
    BY <1>0, <1>1, <2>2 DEF Shape, Busy
  <2>4. Proven'
    <3>1. head # NoHead => ~(cur.size > head.size)
      BY <1>1, <1>2, <1>4
    <3> QED
      BY <1>0, <2>2, <3>1 DEF Proven
  <2>5. Untouched'
    BY <1>0, <1>3, <2>2 DEF Untouched
  <2> QED
    BY <2>2, <2>3, <2>4, <2>5 DEF Inv, Asked, NoFalseAlarm
<1>5. ASSUME run' = [NoRun EXCEPT !.pc = "consistency", !.cur = cur],
             head # NoHead, cur.size > head.size
      PROVE  Inv'
  <2>1. run' = [pc |-> "consistency", cur |-> cur, offset |-> 0, page |-> <<>>]
    BY <1>5 DEF NoRun
  <2>2. /\ run'.pc = "consistency" /\ run'.cur = cur
        /\ run' \in [pc : {"idle", "alarm", "consistency", "entries", "inclusion"},
                     cur : Heads, offset : Nat, page : Seq(Row)]
    BY <2>1
  <2>3. Shape'
    BY <1>0, <1>1, <2>2 DEF Shape, Busy
  <2>4. Asked' /\ Proven'
    BY <1>0, <1>5, <2>2 DEF Asked, Proven
  <2>5. Untouched'
    BY <1>0, <1>3, <2>2 DEF Untouched
  <2> QED
    BY <2>2, <2>3, <2>4, <2>5 DEF Inv, NoFalseAlarm
<1>6. ASSUME Alarm, head # NoHead, cur.size < head.size \/ (cur.size = head.size /\ cur.root # head.root)
      PROVE  Inv'
  <2>1. ASSUME ~tampered PROVE FALSE
    <3>1. Begins(head.seen, leaves)
      BY <1>3, <2>1
    <3>2. head.size <= cur.size
      BY <1>1, <1>2, <3>1 DEF Begins
    <3>3. cur.size = head.size => head.seen = leaves
      <4>1. PICK A \in Seq(Row), L \in Seq(Row) : A = head.seen /\ L = leaves
        BY <1>0, <1>2
      <4>2. Begins(A, L) /\ (cur.size = head.size => Len(A) = Len(L))
        BY <1>1, <1>2, <3>1, <4>1
      <4> QED
        BY <4>1, <4>2, BeginsFacts
    <3> QED
      BY <1>1, <1>2, <1>6, <3>2, <3>3
  <2> QED
    BY <1>0, <1>6, <2>1, AlarmInv
<1>7. \/ run' = CheckFrom(cur) /\ (head = NoHead \/ cur.size = head.size)
      \/ Alarm /\ head # NoHead /\ (cur.size < head.size \/ (cur.size = head.size /\ cur.root # head.root))
      \/ /\ run' = [NoRun EXCEPT !.pc = "consistency", !.cur = cur]
         /\ head # NoHead /\ cur.size > head.size
  BY <1>1, <1>2 DEF FetchHead
<1> QED
  BY <1>4, <1>5, <1>6, <1>7

\* Two logs of which the table is an extension are extensions of each other.
LEMMA CheckConsistencyInv == Inv /\ CheckConsistency => Inv'
<1> SUFFICES ASSUME Inv, CheckConsistency PROVE Inv'
  OBVIOUS
<1>0. /\ leaves \in Seq(Row) /\ head \in Heads /\ run.cur \in Heads /\ tampered \in BOOLEAN
      /\ UNCHANGED <<leaves, tampered, head>> /\ run.pc = "consistency"
      /\ run.cur = Sth(run.cur.seen)
      /\ head # NoHead /\ run.cur.size > head.size
  BY DEF Inv, Shape, Asked, Busy, CheckConsistency
<1>1. PICK A, B, C, proof :
          /\ A \in Seq(Row) /\ B \in Seq(Row) /\ A = head.seen /\ B = run.cur.seen
          /\ head.size = Len(A) /\ run.cur.size = Len(B)
          /\ head.root = RootHash(A) /\ run.cur.root = RootHash(B)
          /\ C = FirstLeaves(Len(B)) /\ proof = ConsistencyProof(C, Len(A))
  BY <1>0, HeadIs
<1>2. Len(A) \in Nat /\ Len(B) \in Nat /\ Len(A) <= Len(B) /\ Len(leaves) \in Nat
  BY <1>0, <1>1
<1>3. \/ ~ValidTreeSize(run.cur.size) /\ Stop
      \/ /\ ValidTreeSize(run.cur.size)
         /\ VerifyConsistency(Len(A), RootHash(A), Len(B), RootHash(B), proof)
         /\ run' = CheckFrom(run.cur)
      \/ /\ ValidTreeSize(run.cur.size)
         /\ ~VerifyConsistency(Len(A), RootHash(A), Len(B), RootHash(B), proof)
         /\ Alarm
  BY <1>1 DEF CheckConsistency
<1>4. ValidTreeSize(run.cur.size) => /\ C \in Seq(Row) /\ Len(C) = Len(B) /\ IsList(proof)
                                     /\ Begins(C, leaves)
  <2> SUFFICES ASSUME ValidTreeSize(run.cur.size)
               PROVE  C \in Seq(Row) /\ Len(C) = Len(B) /\ IsList(proof) /\ Begins(C, leaves)
    OBVIOUS
  <2>1. Len(B) <= Len(leaves)
    BY <1>1 DEF ValidTreeSize
  <2>2. C \in Seq(Row) /\ Len(C) = Len(B) /\ Begins(C, leaves)
    BY <1>1, <1>2, <2>1, FirstIs DEF Inv
  <2>3. PICK m \in Nat, n \in Nat : m = Len(A) /\ n = Len(C) /\ m <= n
    BY <1>2, <2>2
  <2> QED
    BY <1>1, <2>2, <2>3, ProofIsList
<1>5. ASSUME ValidTreeSize(run.cur.size),
             VerifyConsistency(Len(A), RootHash(A), Len(B), RootHash(B), proof),
             run' = CheckFrom(run.cur)
      PROVE  Inv'
  <2>1. Begins(A, B)
    BY <1>1, <1>4, <1>5, ConsistencySound DEF Begins
  <2>2. run' = [pc |-> "entries", cur |-> run.cur, offset |-> head.size, page |-> <<>>]
    BY <1>5 DEF CheckFrom
  <2>3. /\ run'.pc = "entries" /\ run'.cur = run.cur
        /\ run' \in [pc : {"idle", "alarm", "consistency", "entries", "inclusion"},
                     cur : Heads, offset : Nat, page : Seq(Row)]
    BY <1>0, <1>1, <1>2, <2>2
  <2>4. Shape'
    BY <1>0, <2>3 DEF Shape, Busy
  <2>5. Proven'
    BY <1>0, <1>1, <2>1, <2>3 DEF Proven
  <2>6. Untouched'
    BY <1>0, <2>3 DEF Inv, Untouched, Busy
  <2> QED
    BY <2>3, <2>4, <2>5, <2>6 DEF Inv, Asked, NoFalseAlarm
<1>6. ASSUME ValidTreeSize(run.cur.size),
             ~VerifyConsistency(Len(A), RootHash(A), Len(B), RootHash(B), proof), Alarm
      PROVE  Inv'
  <2>1. ASSUME ~tampered PROVE FALSE
    <3>1. Begins(A, leaves) /\ Begins(B, leaves)
      BY <1>0, <1>1, <2>1 DEF Inv, Untouched, Busy
    <3>2. Begins(A, B)
      <4>1. PICK L \in Seq(Row) : L = leaves
        BY <1>0
      <4>2. Begins(A, L) /\ Begins(B, L) /\ Len(A) <= Len(B)
        BY <1>2, <3>1, <4>1
      <4> QED
        BY <1>1, <4>2, BothBegin
    <3>3. C \in Seq(Row) /\ Len(C) = Len(B) /\ Begins(C, leaves)
      BY <1>4, <1>6
    <3>4. Begins(B, C)
      <4>1. PICK L \in Seq(Row) : L = leaves
        BY <1>0
      <4>2. Begins(B, L) /\ Begins(C, L) /\ Len(B) <= Len(C)
        BY <1>2, <3>1, <3>3, <4>1
      <4> QED
        BY <1>1, <3>3, <4>2, BothBegin
    <3>5. B = C
      BY <1>1, <3>3, <3>4, BeginsFacts
    <3>6. VerifyConsistency(Len(A), RootHash(A), Len(B), RootHash(B), ConsistencyProof(B, Len(A)))
      BY <1>1, <3>2, ConsistencyComplete DEF Begins
    <3> QED
      BY <1>1, <1>6, <3>5, <3>6
  <2> QED
    BY <1>0, <1>6, <2>1, AlarmInv
<1> QED
  BY <1>0, <1>3, <1>5, <1>6, StopInv
\* A page is what the table has from the offset on; there is one while the head
\* has entries left.
LEMMA FetchEntriesInv == Parameters /\ Inv /\ FetchEntries => Inv'
<1> SUFFICES ASSUME Parameters, Inv, FetchEntries PROVE Inv'
  OBVIOUS
<1>0. /\ leaves \in Seq(Row) /\ head \in Heads /\ tampered \in BOOLEAN
      /\ run \in [pc : {"idle", "alarm", "consistency", "entries", "inclusion"},
                  cur : Heads, offset : Nat, page : Seq(Row)]
      /\ UNCHANGED <<leaves, tampered, head>> /\ run.pc = "entries"
      /\ run.cur = Sth(run.cur.seen) /\ run.offset < run.cur.size
      /\ PageSize \in Nat /\ PageSize > 0
  BY DEF Inv, Shape, Busy, FetchEntries, Parameters
<1>1. PICK L \in Seq(Row), N \in Nat, o \in Nat : L = leaves /\ N = Len(leaves) /\ o = run.offset
  BY <1>0
<1>2. PICK u \in Nat : u = IF o + PageSize < N THEN o + PageSize ELSE N
  BY <1>0
<1>3. PICK page : page = SubSeq(L, o + 1, u)
  OBVIOUS
<1>4. /\ page \in Seq(Row)
      /\ \A k \in 1 .. Len(page) : o + k <= N /\ page[k] = L[o + k]
      /\ o < N => page # <<>>
  <2>1. u <= N
    BY <1>0, <1>1, <1>2
  <2>2. CASE o < u
    <3>1. PICK m \in Nat : m = o + 1
      BY <1>1
    <3>2. o \in Nat /\ u \in Nat /\ m <= u /\ u - m + 1 = u - o
      BY <1>1, <1>2, <2>2, <3>1
    <3>3. \A i \in m .. u : L[i] \in Row
      BY <1>1, <2>1, <3>1
    <3>4. page \in Seq(Row) /\ Len(page) = u - m + 1
      BY <1>3, <3>1, <3>2, <3>3, SubSeqProperties
    <3>5. \A k \in 1 .. u - m + 1 : page[k] = L[m + k - 1]
      BY <1>3, <3>1, <3>2, <3>3, SubSeqProperties
    <3>6. ASSUME NEW k \in 1 .. Len(page) PROVE page[k] = L[o + k]
      <4>1. k \in 1 .. u - m + 1 /\ m + k - 1 = o + k
        BY <3>1, <3>2, <3>4
      <4> QED
        BY <3>5, <4>1
    <3>7. page \in Seq(Row) /\ Len(page) = u - o
      BY <3>2, <3>4
    <3> QED
      BY <1>1, <2>1, <2>2, <3>2, <3>6, <3>7
  <2>3. CASE ~(o < u)
    <3>1. page = <<>>
      BY <1>1, <1>3, <2>3
    <3>2. ~(o < N)
      BY <1>0, <1>1, <1>2, <2>3
    <3> QED
      BY <3>1, <3>2
  <2> QED
    BY <2>2, <2>3
<1>5. \/ page = <<>> /\ Alarm
      \/ page # <<>> /\ run' = [run EXCEPT !.pc = "inclusion", !.page = page]
  BY <1>1, <1>2, <1>3 DEF FetchEntries
<1>6. ASSUME page = <<>>, Alarm PROVE Inv'
  <2>1. ASSUME ~tampered PROVE FALSE
    <3>1. Begins(run.cur.seen, leaves)
      BY <1>0, <2>1 DEF Inv, Untouched, Busy
    <3>2. run.cur.size = Len(run.cur.seen) /\ run.cur.size \in Nat
      BY <1>0, HeadIs
    <3> QED
      BY <1>0, <1>1, <1>4, <1>6, <3>1, <3>2 DEF Begins
  <2> QED
    BY <1>0, <1>6, <2>1, AlarmInv
<1>7. ASSUME run' = [run EXCEPT !.pc = "inclusion", !.page = page] PROVE Inv'
  <2>1. /\ run'.pc = "inclusion" /\ run'.cur = run.cur /\ run'.offset = o /\ run'.page = page
        /\ run' \in [pc : {"idle", "alarm", "consistency", "entries", "inclusion"},
                     cur : Heads, offset : Nat, page : Seq(Row)]
    BY <1>0, <1>1, <1>4, <1>7
  <2>2. Shape'
    BY <1>0, <2>1 DEF Shape, Busy
  <2>3. Proven'
    BY <1>0, <2>1 DEF Inv, Proven
  <2>4. Untouched'
    BY <1>0, <1>1, <1>4, <2>1 DEF Inv, Untouched, Busy, PageRead
  <2> QED
    BY <2>1, <2>2, <2>3, <2>4 DEF Inv, Asked, NoFalseAlarm
<1> QED
  BY <1>5, <1>6, <1>7

\* An entry that the head covers is the one its tree has there.
LEMMA CheckEntryInv == Inv /\ CheckEntry => Inv'
<1> SUFFICES ASSUME Inv, CheckEntry PROVE Inv'
  OBVIOUS
<1>0. /\ leaves \in Seq(Row) /\ head \in Heads /\ tampered \in BOOLEAN
      /\ run \in [pc : {"idle", "alarm", "consistency", "entries", "inclusion"},
                  cur : Heads, offset : Nat, page : Seq(Row)]
      /\ UNCHANGED <<leaves, tampered, head>> /\ run.pc = "inclusion"
      /\ run.cur = Sth(run.cur.seen) /\ run.page # <<>>
  BY DEF Inv, Shape, Busy, CheckEntry
<1>1. PICK B, C, page, o, n :
          /\ B \in Seq(Row) /\ B = run.cur.seen /\ n \in Nat /\ n = Len(B) /\ run.cur.size = n
          /\ run.cur.root = RootHash(B) /\ C = FirstLeaves(n)
          /\ o \in Nat /\ o = run.offset
          /\ page \in Seq(Row) /\ page = run.page
  BY <1>0, HeadIs
<1>2. PICK p \in Nat : p = Len(page) /\ p >= 1 /\ Head(page) = page[1]
  BY <1>0, <1>1
<1>3. PICK tail \in Seq(Row) : /\ tail = Tail(page) /\ Len(tail) = p - 1
                               /\ \A k \in 1 .. p - 1 : tail[k] = page[k + 1]
  <2>1. page # <<>> /\ Len(page) = p
    BY <1>0, <1>1, <1>2
  <2>2. /\ Tail(page) \in Seq(Row) /\ Len(Tail(page)) = Len(page) - 1
        /\ \A k \in 1 .. Len(Tail(page)) : Tail(page)[k] = page[k + 1]
    BY <1>1, <2>1, HeadTailProperties
  <2> QED
    BY <2>1, <2>2
<1>4. \/ Stop
      \/ /\ o < n /\ ValidTreeSize(n)
         /\ ~VerifyInclusion(LeafHash(Head(page)), o, n, InclusionProof(C, o), RootHash(B))
         /\ Alarm
      \/ run' = [run EXCEPT !.offset = o + 1, !.page = Tail(page)]
      \/ run' = [run EXCEPT !.page = <<>>]
  BY <1>1 DEF CheckEntry, EntryCovered
<1>5. ASSUME o < n, ValidTreeSize(n), Alarm,
             ~VerifyInclusion(LeafHash(Head(page)), o, n, InclusionProof(C, o), RootHash(B))
      PROVE  Inv'
  <2>1. ASSUME ~tampered PROVE FALSE
    <3>1. Begins(B, leaves) /\ PageRead
      BY <1>0, <1>1, <2>1 DEF Inv, Untouched, Busy
    <3>2. n <= Len(leaves)
      BY <1>5 DEF ValidTreeSize
    <3>3. C \in Seq(Row) /\ Len(C) = n /\ Begins(C, leaves)
      BY <1>1, <3>2, FirstIs DEF Inv
    <3>4. B = C
      <4>1. PICK L \in Seq(Row) : L = leaves
        BY <1>0
      <4>2. Begins(B, L) /\ Begins(C, L) /\ Len(B) <= Len(C)
        BY <1>1, <3>1, <3>3, <4>1
      <4>3. Begins(B, C)
        BY <1>1, <3>3, <4>2, BothBegin
      <4> QED
        BY <1>1, <3>3, <4>3, BeginsFacts
    <3>5. page[1] = B[o + 1]
      <4>1. 1 \in 1 .. Len(run.page) /\ o + 1 \in 1 .. n
        BY <1>1, <1>2, <1>5
      <4>2. page[1] = leaves[o + 1]
        BY <1>1, <3>1, <4>1 DEF PageRead
      <4> QED
        BY <1>1, <3>1, <4>1, <4>2 DEF Begins
    <3>6. B # <<>>
      BY <1>1, <1>5, NonEmpty
    <3>7. VerifyInclusion(LeafHash(B[o + 1]), o, n, InclusionProof(B, o), RootHash(B))
      BY <1>1, <1>5, <3>6, InclusionComplete
    <3> QED
      BY <1>2, <1>5, <3>4, <3>5, <3>7
  <2> QED
    BY <1>0, <1>5, <2>1, AlarmInv
<1>6. ASSUME run' = [run EXCEPT !.offset = o + 1, !.page = Tail(page)] PROVE Inv'
  <2>0. PICK j \in Nat : j = o + 1
    BY <1>1
  <2>1. /\ run'.pc = "inclusion" /\ run'.cur = run.cur /\ run'.offset = o + 1
        /\ run'.page = tail
        /\ run' \in [pc : {"idle", "alarm", "consistency", "entries", "inclusion"},
                     cur : Heads, offset : Nat, page : Seq(Row)]
    <3>1. run' = [run EXCEPT !.offset = j, !.page = tail]
      BY <1>3, <1>6, <2>0
    <3>2. /\ run'.pc = run.pc /\ run'.cur = run.cur /\ run'.offset = j /\ run'.page = tail
          /\ run' \in [pc : {"idle", "alarm", "consistency", "entries", "inclusion"},
                       cur : Heads, offset : Nat, page : Seq(Row)]
      BY <1>0, <3>1
    <3> QED
      BY <1>0, <2>0, <3>2
  <2>2. Shape'
    BY <1>0, <2>1 DEF Shape, Busy
  <2>3. Proven'
    BY <1>0, <2>1 DEF Inv, Proven
  <2>4. Untouched'
    <3>1. ASSUME ~tampered, NEW k \in 1 .. Len(run'.page)
          PROVE  run'.offset + k <= Len(leaves) /\ run'.page[k] = leaves[run'.offset + k]
      <4>1. PICK l \in Nat : l = k + 1 /\ l \in 1 .. Len(run.page) /\ o + l = (o + 1) + k
                             /\ k \in 1 .. p - 1
        BY <1>1, <1>2, <1>3, <2>1, <3>1
      <4>2. o + l <= Len(leaves) /\ page[l] = leaves[o + l]
        BY <1>0, <1>1, <3>1, <4>1 DEF Inv, Untouched, PageRead
      <4> QED
        BY <1>3, <2>1, <4>1, <4>2
    <3> QED
      BY <1>0, <2>1, <3>1 DEF Inv, Untouched, Busy, PageRead
  <2> QED
    BY <2>1, <2>2, <2>3, <2>4 DEF Inv, Asked, NoFalseAlarm
<1>7. ASSUME run' = [run EXCEPT !.page = <<>>] PROVE Inv'
  <2>1. /\ run'.pc = "inclusion" /\ run'.cur = run.cur /\ run'.offset = o
        /\ run'.page = <<>> /\ Len(run'.page) = 0
        /\ run' \in [pc : {"idle", "alarm", "consistency", "entries", "inclusion"},
                     cur : Heads, offset : Nat, page : Seq(Row)]
    <3>0. <<>> \in Seq(Row) /\ Len(<<>>) = 0
      OBVIOUS
    <3>1. PICK none \in Seq(Row) : none = <<>> /\ Len(none) = 0
      BY <3>0
    <3>2. run' = [run EXCEPT !.page = none]
      BY <1>7, <3>1
    <3>3. /\ run'.pc = run.pc /\ run'.cur = run.cur /\ run'.offset = run.offset /\ run'.page = none
          /\ run' \in [pc : {"idle", "alarm", "consistency", "entries", "inclusion"},
                       cur : Heads, offset : Nat, page : Seq(Row)]
      BY <1>0, <3>2
    <3> QED
      BY <1>0, <1>1, <3>1, <3>3
  <2>2. Shape'
    BY <1>0, <2>1 DEF Shape, Busy
  <2>3. Proven'
    BY <1>0, <2>1 DEF Inv, Proven
  <2>4. Untouched'
    BY <1>0, <2>1 DEF Inv, Untouched, Busy, PageRead
  <2> QED
    BY <2>1, <2>2, <2>3, <2>4 DEF Inv, Asked, NoFalseAlarm
<1> QED
  BY <1>0, <1>4, <1>5, <1>6, <1>7, StopInv

\* The next page.
LEMMA NextPageInv == Inv /\ NextPage => Inv'
<1> SUFFICES ASSUME Inv, NextPage PROVE Inv'
  OBVIOUS
<1>0. /\ run \in [pc : {"idle", "alarm", "consistency", "entries", "inclusion"},
                  cur : Heads, offset : Nat, page : Seq(Row)]
      /\ UNCHANGED <<leaves, tampered, head>> /\ run.pc = "inclusion"
  BY DEF Inv, Shape, NextPage
<1>1. /\ run'.pc = "entries" /\ run'.cur = run.cur
      /\ run' \in [pc : {"idle", "alarm", "consistency", "entries", "inclusion"},
                   cur : Heads, offset : Nat, page : Seq(Row)]
  BY <1>0 DEF NextPage
<1>2. Shape'
  BY <1>0, <1>1 DEF Inv, Shape, Busy
<1>3. Proven'
  BY <1>0, <1>1 DEF Inv, Proven
<1>4. Untouched'
  BY <1>0, <1>1 DEF Inv, Untouched, Busy
<1> QED
  BY <1>1, <1>2, <1>3, <1>4 DEF Inv, Asked, NoFalseAlarm

\* The head that is saved is the one that was checked.
LEMMA SaveHeadInv == Inv /\ SaveHead => Inv'
<1> SUFFICES ASSUME Inv, SaveHead PROVE Inv'
  OBVIOUS
<1>0. /\ leaves \in Seq(Row) /\ head \in Heads /\ tampered \in BOOLEAN /\ run.cur \in Heads
      /\ UNCHANGED <<leaves, tampered>> /\ run.pc = "entries" /\ Stop
      /\ head' = head \/ head' = run.cur
  BY DEF Inv, Shape, SaveHead
<1>1. run' = [pc |-> "idle", cur |-> NoHead, offset |-> 0, page |-> <<>>]
  BY <1>0 DEF Stop, NoRun
<1>2. /\ run'.pc = "idle"
      /\ run' \in [pc : {"idle", "alarm", "consistency", "entries", "inclusion"},
                   cur : Heads, offset : Nat, page : Seq(Row)]
  BY <1>1 DEF Heads
<1>3. ~tampered => Begins(head'.seen, leaves)
  BY <1>0 DEF Inv, Untouched, Busy
<1>4. Shape'
  BY <1>0, <1>2 DEF Shape, Busy
<1> QED
  BY <1>0, <1>2, <1>3, <1>4 DEF Inv, Asked, Proven, Untouched, NoFalseAlarm, Busy

\* The invariant is inductive.
LEMMA NextInv == Parameters /\ Inv /\ [Next]_vars => Inv'
<1> SUFFICES ASSUME Parameters, Inv, [Next]_vars PROVE Inv'
  OBVIOUS
<1>1. CASE UNCHANGED vars
  BY <1>1 DEF vars, Inv, Shape, Asked, Proven, Untouched, PageRead, NoFalseAlarm, Busy
<1>2. CASE Die
  BY <1>2, StopInv DEF Die
<1> QED
  BY <1>1, <1>2, AppendInv, TamperInv, FetchHeadInv, CheckConsistencyInv, FetchEntriesInv,
     CheckEntryInv, NextPageInv, SaveHeadInv DEF Next

\* The file changes only at the end of a run, whose head extends the one on file.
LEMMA StepExtends == Inv /\ [Next]_vars => Extends
<1> SUFFICES ASSUME Inv, [Next]_vars, head # NoHead
             PROVE  SubSeq(head'.seen, 1, Len(head.seen)) = head.seen
  BY DEF Extends
<1>0. head \in Heads /\ run.cur \in Heads
  BY DEF Inv, Shape
<1>1. PICK A \in Seq(Row) : A = head.seen /\ Begins(A, A)
  BY <1>0, HeadIs, BeginsFacts
<1>2. head' = head => SubSeq(head'.seen, 1, Len(head.seen)) = head.seen
  BY <1>1, BeginsFacts
<1>3. CASE SaveHead /\ head' # head
  <2>1. head' = run.cur /\ run.cur.size > head.size /\ run.pc = "entries"
    BY <1>3 DEF SaveHead
  <2>2. PICK B \in Seq(Row) : B = run.cur.seen
    BY <1>0, HeadIs
  <2>3. Begins(A, B)
    BY <1>1, <2>1, <2>2 DEF Inv, Proven
  <2> QED
    BY <1>1, <2>1, <2>2, <2>3, BeginsFacts
<1>4. CASE ~SaveHead
  <2>1. head' = head
    BY <1>4 DEF Next, vars, AppendLeaf, Tamper, FetchHead, CheckConsistency, FetchEntries,
                CheckEntry, NextPage, Die
  <2> QED
    BY <1>2, <2>1
<1> QED
  BY <1>2, <1>3, <1>4
=============================================================================
