------------------------------ MODULE Reputation ------------------------------
(***************************************************************************)
(* What the trust score of an ID is computed from (computeReputation):     *)
(* which receipts of its lineage count, how each is weighted, and the      *)
(* flags.  Logarithms, decay and rounding are left out, and so is what     *)
(* comes with a receipt whoever looks at it: its outcome, verdict, volume  *)
(* and age.  Two IDs with the same Evidence have the same score.  Receipts *)
(* are listed by completedAt, the order in which the cap is filled.        *)
(*                                                                         *)
(* Stake is 0 here: no handler of either runtime sets another value.       *)
(***************************************************************************)
EXTENDS FiniteSets, Functions, Integers, Sequences

CONSTANTS
    None,
    Agent,                      \* 1..n: IDs are numbered as they are registered
    MaxRecords,                 \* bound on receipts and jobs together
    MaxOpen,                    \* bound on receipts that are drafts or in dispute at once
    MaxRegistered               \* bound on agents that register by themselves

VARIABLES
    registered,         \* rows of agents
    succ,               \* successionMap: predecessor -> successor, None elsewhere
    receipts,           \* requester a, provider b and status
    jobs                \* jobs that were accepted: poster, acceptedAgent, reported

vars == <<registered, succ, receipts, jobs>>

Init ==
    /\ registered = {}
    /\ succ = [x \in Agent |-> None]
    /\ receipts = <<>>
    /\ jobs = {}

-----------------------------------------------------------------------------
(* Who is who (succession.ts). *)

Heads(successions) ==
    LET head[y \in Agent] == IF successions[y] = None THEN y ELSE head[successions[y]] IN head

Lineages(successions) ==
    LET lineage[y \in Agent] ==
            {y} \cup UNION {lineage[p] : p \in {q \in Agent : successions[q] = y}}
    IN lineage

HeadOf(x) == Heads(succ)[x]

LineageOf(x) == Lineages(succ)[x]

-----------------------------------------------------------------------------
(* What is read (reputationService.ts). *)

\* A dispute past its deadline counts like none.
CountsTowardReputation(r) == r.status = "finalized"

LineageReceipts(x) ==
    {i \in DOMAIN receipts : {receipts[i].a, receipts[i].b} \cap LineageOf(x) # {}}

Finalized(x) == {i \in LineageReceipts(x) : CountsTowardReputation(receipts[i])}

OtherParty(i, x) ==
    HeadOf(IF receipts[i].a \in LineageOf(x) THEN receipts[i].b ELSE receipts[i].a)

\* The counterparty of each receipt that counts: the pairs of everything below.
Peers(x) == [i \in Finalized(x) |-> OtherParty(i, x)]

PairReceipts(peers, c) == {i \in DOMAIN peers : peers[i] = c}

PastColdStart(peers) == Cardinality(DOMAIN peers) >= 3

\* floor(0.6 / (1 - 0.6) * others), and that quotient is just below 1.5.
WeightCap(peers, c) ==
    LET others == Cardinality(DOMAIN peers \ PairReceipts(peers, c)) IN
    IF others = 0 THEN 0 ELSE (3 * others - 1) \div 2

\* Seeded fault: the head of the chain is not part of the cluster.
LineageAndPeers(x, peers) == LineageOf(x) \cup Range(peers)

ExcludeIds(x, peers) == LineageOf(x) \cup {HeadOf(x)} \cup Range(peers)

IsAnchoredCounterparty(c, excludeIds) ==
    \E i \in Finalized(c) : OtherParty(i, c) \notin excludeIds

Unanchored(x, peers) ==
    {c \in Range(peers) :
        PastColdStart(peers) /\ ~IsAnchoredCounterparty(c, ExcludeIds(x, peers))}

\* Receipts that lend weight: the earliest of each anchored pair up to its cap.
Weighted(peers, unanchored, i) ==
    PastColdStart(peers) =>
        /\ peers[i] \notin unanchored
        /\ Cardinality({j \in PairReceipts(peers, peers[i]) : j < i}) < WeightCap(peers, peers[i])

\* The receipts whose number and outcomes baseTrust is computed from.
BaseTrust(c) == Finalized(c)

NonPerformanceReports(x) == {j \in jobs : j.reported /\ j.acceptedAgent \in LineageOf(x)}

ReportingPosters(x) == {HeadOf(j.poster) : j \in NonPerformanceReports(x)}

\* More than 0.6 of the receipts that count, past the cold start.
MostOf(some, peers) ==
    PastColdStart(peers) /\ 5 * Cardinality(some) > 3 * Cardinality(DOMAIN peers)

-----------------------------------------------------------------------------
(* The result, with counterparties told apart but not named. *)
Result(x, peers, unanchored) ==
    [receipts |->
        [i \in DOMAIN peers |->
            [weighted |-> Weighted(peers, unanchored, i),
             pair |-> PairReceipts(peers, peers[i]),
             trust |-> BaseTrust(peers[i]),
             asProvider |-> receipts[i].b \in LineageOf(x),
             concentrated |-> MostOf(PairReceipts(peers, peers[i]), peers)]],
     declared |-> {i \in LineageReceipts(x) : receipts[i].status = "draft"},
     inDispute |-> {i \in LineageReceipts(x) : receipts[i].status = "disputed"},
     reports |-> [j \in NonPerformanceReports(x) |-> BaseTrust(HeadOf(j.poster))],
     reporters |-> Cardinality(ReportingPosters(x)),
     unanchoredVolume |-> MostOf({i \in DOMAIN peers : peers[i] \in unanchored}, peers)]

\* The one result, as a set so that what the loops share is computed once.
Evidence(x) ==
    UNION {{Result(x, peers, unanchored) : unanchored \in {Unanchored(x, peers)}} :
            peers \in {Peers(x)}}

-----------------------------------------------------------------------------
(* The registry meanwhile: each handler is one step in Node. *)

Active(x) == x \in registered /\ succ[x] = None

\* IDs are told apart by nothing else, so the next new one is the next number.
IsNext(x) == registered = 1 .. x - 1

RegisterAgent(x) ==
    /\ IsNext(x)
    /\ Cardinality(registered) < MaxRegistered
    /\ registered' = registered \cup {x}
    /\ UNCHANGED <<succ, receipts, jobs>>

\* A successor is a new ID, registered by the activation.
ActivateSuccession(p, s) ==
    /\ Active(p)
    /\ IsNext(s)
    /\ registered' = registered \cup {s}
    /\ succ' = [succ EXCEPT ![p] = s]
    /\ UNCHANGED <<receipts, jobs>>

BelowMaxRecords == Len(receipts) + Cardinality(jobs) < MaxRecords
BelowMaxOpen == Cardinality({i \in DOMAIN receipts : receipts[i].status # "finalized"}) < MaxOpen

CreateDraft(a, b) ==
    /\ BelowMaxRecords /\ BelowMaxOpen
    /\ Active(b) /\ a \in registered /\ a # b
    /\ receipts' = Append(receipts, [a |-> a, b |-> b, status |-> "draft"])
    /\ UNCHANGED <<registered, succ, jobs>>

SetStatus(i, from, to) ==
    /\ receipts[i].status = from
    /\ receipts' = [receipts EXCEPT ![i].status = to]
    /\ UNCHANGED <<registered, succ, jobs>>

Countersign(i) == Active(receipts[i].a) /\ SetStatus(i, "draft", "finalized")

OpenDispute(i) ==
    /\ BelowMaxOpen
    /\ Active(receipts[i].a) \/ Active(receipts[i].b)
    /\ SetStatus(i, "finalized", "disputed")

\* resolutionDeadline passes, or the opener withdraws.
DisputeEnds(i) == SetStatus(i, "disputed", "finalized")

AcceptOffer(poster, worker) ==
    /\ BelowMaxRecords
    /\ Active(poster) /\ Active(worker) /\ poster # worker
    /\ jobs' = jobs \cup {[poster |-> poster, acceptedAgent |-> worker, reported |-> FALSE]}
    /\ UNCHANGED <<registered, succ, receipts>>

ReportNonPerformance(j) ==
    /\ ~j.reported /\ Active(j.poster)
    /\ jobs' = (jobs \ {j}) \cup {[j EXCEPT !.reported = TRUE]}
    /\ UNCHANGED <<registered, succ, receipts>>

Next ==
    \/ \E x \in Agent : RegisterAgent(x)
    \/ \E x, y \in Agent :
        ActivateSuccession(x, y) \/ CreateDraft(x, y) \/ AcceptOffer(x, y)
    \/ \E i \in DOMAIN receipts : Countersign(i) \/ OpenDispute(i) \/ DisputeEnds(i)
    \/ \E j \in jobs : ReportNonPerformance(j)

Spec == Init /\ [][Next]_vars

-----------------------------------------------------------------------------
(* Succession neither adds nor removes evidence: at the moment a chain     *)
(* gets a new key, the new ID has exactly the evidence of the old one, and *)
(* no other ID, the old one included, gains or loses any; the caps, the    *)
(* anchors and the reports of all counterparties follow the chain          *)
(* (lineageReceipts, otherParty, isAnchoredCounterparty).                  *)
EvidenceConserved ==
    \A p, s \in Agent :
        succ[p] = None /\ succ'[p] = s =>
            /\ Evidence(s)' = Evidence(p)
            /\ \A x \in registered : Evidence(x)' = Evidence(x)

SuccessionNeutral == [][EvidenceConserved]_vars
=============================================================================
