--------------------------- MODULE WorkerReputation ---------------------------
(***************************************************************************)
(* computeReputation as the Worker runs it: loops over lists that it has   *)
(* sorted and over maps it fills as it goes, where Reputation says in sets *)
(* what counts.  Both runtimes promise the same score for the same         *)
(* registry; here the loops are held against the sets.                     *)
(*                                                                         *)
(* A weight is kept as what it is computed from, or Zero; a receipt's own  *)
(* outcome, verdict and age are left out, as there.                        *)
(***************************************************************************)
EXTENDS Reputation, SequencesExt

Zero == [pairCount |-> 0, trust |-> {}]

\* new Map(), and Map.set.
EmptyMap == [k \in {} |-> 0]

Put(map, k, v) == [x \in DOMAIN map \cup {k} |-> IF x = k THEN v ELSE map[x]]

ListByAgent(id) == {i \in DOMAIN receipts : id \in {receipts[i].a, receipts[i].b}}

\* The lists of all IDs of the lineage, in a Map that has each receipt once.
LineageReceiptMap(ids) == UNION {ListByAgent(id) : id \in ids}

EarliestFirst(S) ==
    CHOOSE l \in [1 .. Cardinality(S) -> S] : \A m, n \in DOMAIN l : m < n => l[m] < l[n]

\* What counts, sorted: the storage layer returns it in whatever order.
FinalizedList(ids) ==
    EarliestFirst({i \in LineageReceiptMap(ids) : CountsTowardReputation(receipts[i])})

Counterparty(i, self) ==
    HeadOf(IF receipts[i].a \in self THEN receipts[i].b ELSE receipts[i].a)

Count(counts, c) == IF c \in DOMAIN counts THEN counts[c] ELSE 0

PairCounts(self, finalized) ==
    FoldLeft(LAMBDA counts, c : Put(counts, c, Count(counts, c) + 1), EmptyMap,
             [n \in DOMAIN finalized |-> Counterparty(finalized[n], self)])

OtherCount(finalized, count) == Len(finalized) - count

\* Below three receipts no counterparty has a cap.
CounterpartyWeightCap(finalized, pairCounts) ==
    IF Len(finalized) < 3 THEN EmptyMap
    ELSE [c \in DOMAIN pairCounts |->
            LET others == OtherCount(finalized, pairCounts[c]) IN
            IF others = 0 THEN 0 ELSE (3 * others - 1) \div 2]

\* The first receipt of the counterparty with somebody outside the cluster decides.
IsAnchored(c, excludeIds) ==
    LET self == LineageOf(c) IN
    FoldLeft(LAMBDA found, i : found \/ Counterparty(i, self) \notin excludeIds,
             FALSE, FinalizedList(self))

UnanchoredSet(x, self, finalized, pairCounts) ==
    IF Len(finalized) < 3 THEN {}
    ELSE LET excludeIds == self \cup {HeadOf(x)} \cup DOMAIN pairCounts IN
         {c \in DOMAIN pairCounts : ~IsAnchored(c, excludeIds)}

\* baseTrust, whose answer for a counterparty is kept in trustCache.
CachedBaseTrust(trustCache, c) ==
    IF c \in DOMAIN trustCache THEN trustCache
    ELSE Put(trustCache, c, ToSet(FinalizedList(LineageOf(c))))

\* One receipt of the main loop.
WeighReceipt(self, pairCounts, cap, unanchored, state, i) ==
    LET c == Counterparty(i, self)
        trustCache == CachedBaseTrust(state.trustCache, c)
        countedSoFar == Count(state.counted, c)
        over == (c \in DOMAIN cap /\ countedSoFar >= cap[c]) \/ c \in unanchored
    IN [trustCache |-> trustCache,
        counted |-> IF over THEN state.counted ELSE Put(state.counted, c, countedSoFar + 1),
        weights |-> Put(state.weights, i,
            IF over THEN Zero ELSE [pairCount |-> pairCounts[c], trust |-> trustCache[c]]),
        asProvider |-> IF receipts[i].b \in self THEN state.asProvider \cup {i}
                                                 ELSE state.asProvider]

WeighAll(self, pairCounts, cap, unanchored, finalized) ==
    FoldLeft(LAMBDA state, i : WeighReceipt(self, pairCounts, cap, unanchored, state, i),
             [trustCache |-> EmptyMap, counted |-> EmptyMap, weights |-> EmptyMap,
              asProvider |-> {}],
             finalized)

\* Seeded fault: a chain of keys weighs once for each key that reported.
AsPosted(j) == j.poster

PosterHead(j) == HeadOf(j.poster)

\* The reports against the lineage, one weight for each poster's chain.
ReportWeights(x, trustCache) ==
    [p \in {PosterHead(j) : j \in NonPerformanceReports(x)} |->
        CachedBaseTrust(trustCache, p)[p]]

\* The flags: most receipts are with one counterparty, or with the unanchored.
Concentrated(finalized, pairCounts) ==
    {c \in DOMAIN pairCounts : Len(finalized) >= 3 /\ 5 * pairCounts[c] > 3 * Len(finalized)}

UnanchoredVolume(finalized, pairCounts, unanchored) ==
    /\ Len(finalized) >= 3
    /\ 5 * FoldFunctionOnSet(+, 0, pairCounts, unanchored) > 3 * Len(finalized)

LoopResult(x) ==
    LET self == LineageOf(x)
        finalized == FinalizedList(self)
        pairCounts == PairCounts(self, finalized)
        cap == CounterpartyWeightCap(finalized, pairCounts)
        unanchored == UnanchoredSet(x, self, finalized, pairCounts)
        end == WeighAll(self, pairCounts, cap, unanchored, finalized)
    IN [weights |-> end.weights,
        asProvider |-> end.asProvider,
        reports |-> ReportWeights(x, end.trustCache),
        concentrated |-> Concentrated(finalized, pairCounts),
        unanchoredVolume |-> UnanchoredVolume(finalized, pairCounts, unanchored)]

\* The same, read off the sets of Reputation.
FromSets(x, peers, unanchored) ==
    [weights |->
        [i \in DOMAIN peers |->
            IF Weighted(peers, unanchored, i)
            THEN [pairCount |-> Cardinality(PairReceipts(peers, peers[i])),
                  trust |-> BaseTrust(peers[i])]
            ELSE Zero],
     asProvider |-> {i \in DOMAIN peers : receipts[i].b \in LineageOf(x)},
     reports |-> [p \in ReportingPosters(x) |-> BaseTrust(p)],
     concentrated |-> {c \in Range(peers) : MostOf(PairReceipts(peers, c), peers)},
     unanchoredVolume |-> MostOf({i \in DOMAIN peers : peers[i] \in unanchored}, peers)]

\* The one result, as a set for the reason Evidence is one.
SetResult(x) ==
    UNION {{FromSets(x, peers, unanchored) : unanchored \in {Unanchored(x, peers)}} :
            peers \in {Peers(x)}}

-----------------------------------------------------------------------------
(* Both runtimes give every ID the same weights, flags and reports: the    *)
(* counter that is raised only by receipts that weigh, the cap filled in   *)
(* the order of the list, the maps keyed by the head of each chain and the *)
(* early return of the anchor check come to what the sets say, whatever    *)
(* successions, disputes and reports led there (computeReputation).        *)
RuntimesAgree == \A x \in registered : LoopResult(x) \in SetResult(x)
=============================================================================
