------------------------------ MODULE MerkleTree ------------------------------
(***************************************************************************)
(* The tree hashes and proofs of RFC 6962 as the shared core computes and  *)
(* checks them.  Hashes are terms: two hashes are equal only if they hash  *)
(* the same thing, and a leaf hash is never a node hash.                   *)
(*                                                                         *)
(* Leaves are numbered from 0, as in the code; a range is start..end-1.    *)
(* "leaves" is a sequence of what the leaves hash.  A recursion over ranges *)
(* is a function of the length n and the start s of a range.               *)
(***************************************************************************)
EXTENDS Integers, Sequences

EmptyHash == <<"empty">>
LeafHash(entry) == <<"leaf", entry>>
NodeHash(left, right) == <<"node", left, right>>

\* The largest power of two strictly less than n, for n > 1.
SplitPoint(n) ==
    LET double[k \in 1 .. n] == IF k * 2 < n THEN double[k * 2] ELSE k IN double[1]

Subtrees(leaves) ==
    LET hash[n \in 1 .. Len(leaves)] ==
            [s \in 0 .. Len(leaves) - n |->
                IF n = 1 THEN LeafHash(leaves[s + 1])
                ELSE LET k == SplitPoint(n) IN NodeHash(hash[k][s], hash[n - k][s + k])]
    IN hash

SubtreeHash(leaves, start, end) == Subtrees(leaves)[end - start][start]

RootHash(leaves) ==
    IF leaves = <<>> THEN EmptyHash ELSE SubtreeHash(leaves, 0, Len(leaves))

-----------------------------------------------------------------------------
(* Inclusion. *)

Paths(leaves, m) ==
    LET path[n \in 1 .. Len(leaves)] ==
            [s \in 0 .. Len(leaves) - n |->
                IF n = 1 THEN <<>>
                ELSE LET k == SplitPoint(n) IN
                     IF m - s < k
                     THEN Append(path[k][s], SubtreeHash(leaves, s + k, s + n))
                     ELSE Append(path[n - k][s + k], SubtreeHash(leaves, s, s + k))]
    IN path

InclusionProof(leaves, m) == Paths(leaves, m)[Len(leaves)][0]

\* The result of the recursive check: a hash and the next proof entry to use,
\* or NoResult when the proof is too short.
NoResult == [hash |-> EmptyHash, next |-> -1]

\* The hash of a range from that of the half the leaf is in.
VerifyStep(left, inner, proof) ==
    IF inner = NoResult \/ inner.next >= Len(proof) THEN NoResult
    ELSE LET sibling == proof[inner.next + 1] IN
         [hash |-> IF left THEN NodeHash(inner.hash, sibling) ELSE NodeHash(sibling, inner.hash),
          next |-> inner.next + 1]

VerifyPaths(leaf, m, size, proof) ==
    LET verify[n \in 1 .. size] ==
            [s \in 0 .. size - n |->
                IF n = 1 THEN [hash |-> leaf, next |-> 0]
                ELSE LET k == SplitPoint(n)
                         left == m - s < k
                     IN VerifyStep(left, IF left THEN verify[k][s] ELSE verify[n - k][s + k], proof)]
    IN verify

VerifyInclusion(leaf, index, treeSize, proof, root) ==
    /\ index >= 0 /\ index < treeSize /\ treeSize >= 1
    /\ LET result == VerifyPaths(leaf, index, treeSize, proof)[treeSize][0] IN
       result # NoResult /\ result.next = Len(proof) /\ result.hash = root

-----------------------------------------------------------------------------
(* Consistency. *)

\* The ranges that leaf m - 1 is in: m - s of their leaves are old.  The flag b
\* is TRUE in those that start where the tree starts.
SubProofs(leaves, m) ==
    LET sub[n \in 1 .. Len(leaves)] ==
            [s \in {s \in 0 .. Len(leaves) - n : s < m /\ m <= s + n} |->
                IF m - s = n
                THEN IF s = 0 THEN <<>> ELSE <<SubtreeHash(leaves, s, s + n)>>
                ELSE LET k == SplitPoint(n) IN
                     IF m - s <= k
                     THEN Append(sub[k][s], SubtreeHash(leaves, s + k, s + n))
                     ELSE Append(sub[n - k][s + k], SubtreeHash(leaves, s, s + k))]
    IN sub

ConsistencyProof(leaves, m) ==
    IF m = 0 \/ m = Len(leaves) THEN <<>> ELSE SubProofs(leaves, m)[Len(leaves)][0]

\* The loops that halve fn and sn: while fn is odd, and while it is even and
\* not zero.
WhileOdd(fn, sn) ==
    LET halve[f \in 0 .. fn] ==
            [s \in 0 .. sn |-> IF f % 2 = 1 THEN halve[f \div 2][s \div 2] ELSE <<f, s>>]
    IN halve[fn][sn]

WhileEven(fn, sn) ==
    LET halve[f \in 0 .. fn] ==
            [s \in 0 .. sn |->
                IF f % 2 = 0 /\ f # 0 THEN halve[f \div 2][s \div 2] ELSE <<f, s>>]
    IN halve[fn][sn]

\* Seeded fault: the last node of a level is not recognised.
JoinsLeft(fn, sn) == fn % 2 = 1

\* The next proof entry is a left sibling of both trees.
LeftSibling(fn, sn) == fn % 2 = 1 \/ fn = sn

\* One entry of the proof, unless the top is reached: then it is one too many.
ClimbStep(at, sibling) ==
    IF at.sn = 0 THEN at
    ELSE IF LeftSibling(at.fn, at.sn)
    THEN LET up == WhileEven(at.fn, at.sn) IN
         [fn |-> up[1] \div 2, sn |-> up[2] \div 2, next |-> at.next + 1,
          old |-> NodeHash(sibling, at.old), new |-> NodeHash(sibling, at.new)]
    ELSE [fn |-> at.fn \div 2, sn |-> at.sn \div 2, next |-> at.next + 1,
          old |-> at.old, new |-> NodeHash(at.new, sibling)]

\* The climb from below entry "first" of the proof, entry by entry.
Climb(fn, sn, seed, proof, first) ==
    LET at[i \in first - 1 .. Len(proof)] ==
            IF i = first - 1
            THEN [fn |-> fn, sn |-> sn, next |-> first, old |-> seed, new |-> seed]
            ELSE ClimbStep(at[i - 1], proof[i])
    IN at

\* Seeded fault: the old root that was kept is not compared.
NewRootOnly(end, proof, oldRoot, newRoot) ==
    end.next = Len(proof) + 1 /\ end.new = newRoot

RootsAgree(end, proof, oldRoot, newRoot) ==
    end.next = Len(proof) + 1 /\ end.old = oldRoot /\ end.new = newRoot

\* A proof that ends below the top is too short.
VerifyConsistency(m, oldRoot, n, newRoot, proof) ==
    CASE m > n -> FALSE
      [] m = n -> proof = <<>> /\ oldRoot = newRoot
      [] m = 0 /\ n > 0 -> TRUE
      [] m > 0 /\ m < n /\ proof = <<>> -> FALSE
      [] OTHER ->
            LET base == WhileOdd(m - 1, n - 1)
                seed == IF base[1] > 0 THEN proof[1] ELSE oldRoot
                first == IF base[1] > 0 THEN 2 ELSE 1
                end == Climb(base[1], base[2], seed, proof, first)[Len(proof)]
            IN end.sn = 0 /\ RootsAgree(end, proof, oldRoot, newRoot)
=============================================================================
