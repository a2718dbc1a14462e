------------------------------ MODULE MCServices ------------------------------
(***************************************************************************)
(* Small instances of the Worker's services, and of the reputation that    *)
(* both runtimes compute alike.  They share nothing, never run together:   *)
(* the initial state chooses the service that runs, and x1, x2, ... are    *)
(* its variables, in its own order.                                        *)
(***************************************************************************)
EXTENDS FiniteSets, Naturals, TLC

CONSTANTS
    None, Did, Pair, Involved, Request, MaxTime,
    Challengeable, Derived, Endpoint, Key, Value, ChallengeId, LinkChallengeTtl,
    KeyId, FreeTierCalls, MaxActiveKeys, MaxLost,
    Receipt, DemoReceiptsPerAgent, DemoTaskTtl,
    Expiry, NoExpiry,
    Agent, MaxRecords, MaxOpen, MaxRegistered,
    Buyer, Seller, Auditor, Stranger

\* None is nobody and nothing; a stranger has no part in a receipt; and what
\* is counted can be counted.
ASSUME ServicesAssumption ==
    /\ None \notin Did \cup Value \cup Key \cup Receipt
    /\ None \notin {Buyer, Seller, Stranger} \cup Auditor
    /\ Stranger \notin {Buyer, Seller} \cup Auditor
    /\ Endpoint \notin Challengeable
    /\ None \notin Agent /\ IsFiniteSet(Agent) /\ Agent = 1 .. Cardinality(Agent)
    /\ IsFiniteSet(Request) /\ IsFiniteSet(KeyId) /\ IsFiniteSet(Receipt)
    /\ LinkChallengeTtl \in Nat
    /\ {FreeTierCalls, MaxActiveKeys, DemoReceiptsPerAgent} \subseteq Nat \ {0}

VARIABLES
    service,            \* the service that runs
    requests,           \* its requests in flight
    x1, x2, x3, x4, x5  \* its other variables

vars == <<service, requests, x1, x2, x3, x4, x5>>

Verifications == INSTANCE WorkerVerifications WITH
    Party <- Involved, receiptStatus <- x1, authorized <- x2, retired <- x3, verifications <- x4
Links == INSTANCE WorkerLinks WITH
    Did <- Pair, now <- x1, links <- x2, challenges <- x3
Keys == INSTANCE WorkerKeys WITH keys <- x1, answered <- x2, lost <- x3
Demo == INSTANCE WorkerDemo WITH now <- x1, tasks <- x2, receipts <- x3
Jobs == INSTANCE WorkerJobs WITH now <- x1, job <- x2, offers <- x3
Scores == INSTANCE Reputation WITH
    registered <- x1, succ <- x2, receipts <- x3, jobs <- x4
NodeLinks == INSTANCE Links WITH
    Did <- Pair, now <- x1, links <- x2, challenges <- x3, proven <- x4
\* Receipts with names of their own.
Viewable == Receipt \ ChallengeId

Views == INSTANCE Visibility WITH
    Requester <- Buyer, Provider <- Seller, Verifier <- Auditor, Receipt <- Viewable,
    receipts <- x1, job <- x2, verifications <- x3, published <- x4, shown <- x5

\* A service starts without the variables from the n-th on.
Idle5 == x5 = None
Idle4 == x4 = None /\ Idle5

Init ==
    \/ service = "verifications" /\ Verifications!Init /\ Idle5
    \/ service = "links" /\ Links!Init /\ Idle4
    \/ service = "keys" /\ Keys!Init /\ Idle4
    \/ service = "demo" /\ Demo!Init /\ Idle4
    \/ service = "jobs" /\ Jobs!Init /\ Idle4
    \/ service = "reputation" /\ Scores!Init /\ requests = None /\ Idle5
    \/ service = "node links" /\ NodeLinks!Init /\ requests = None /\ Idle5
    \/ service = "views" /\ Views!Init

Next ==
    /\ UNCHANGED service
    /\ \/ service = "verifications" /\ Verifications!Next /\ UNCHANGED x5
       \/ service = "links" /\ Links!Next /\ UNCHANGED <<x4, x5>>
       \/ service = "keys" /\ Keys!Next /\ UNCHANGED <<x4, x5>>
       \/ service = "demo" /\ Demo!Next /\ UNCHANGED <<x4, x5>>
       \/ service = "jobs" /\ Jobs!Next /\ UNCHANGED <<x4, x5>>
       \/ service = "reputation" /\ Scores!Next /\ UNCHANGED <<requests, x5>>
       \/ service = "node links" /\ NodeLinks!Next /\ UNCHANGED <<requests, x5>>
       \/ service = "views" /\ Views!Next

Spec == Init /\ [][Next]_vars

Interchangeable == Permutations(Request) \cup Permutations(ChallengeId)

-----------------------------------------------------------------------------
(* The properties of the modules, each of the instance that runs it. *)

\* WorkerVerifications: a second decision of a verifier overlaps the first.
SecondDecisionOverlaps == service = "verifications" => Verifications!SecondDecisionOverlaps

\* WorkerVerifications: a retired verifier never sways a verdict asked for later.
RetiredSwayNothing == service = "verifications" => Verifications!RetiredSwayNothing

\* WorkerLinks and Links: every link shown is backed by the proof shown with it.
ProofBacksLink ==
    /\ service = "links" => Links!ProofBacksLink
    /\ service = "node links" => NodeLinks!ProofBacksLink

\* WorkerKeys: the counter of every key is exact, and the cap on keys holds.
CallsAccounted == service = "keys" => Keys!CallsAccounted

\* WorkerDemo: the limit is overshot only by completions in flight.
DemoBounded == service = "demo" => Demo!DemoBounded

\* WorkerJobs: whoever is accepted made an offer and is not the poster.
AcceptanceBacked == service = "jobs" => Jobs!AcceptanceBacked

\* Visibility: what was shown and published was for those who may see it, except a
\* job whose receipt could not be read.
ShownToEntitled == service = "views" => Views!ShownToEntitled

\* Reputation: succession neither adds nor removes evidence.
SuccessionNeutral == [][service = "reputation" => Scores!EvidenceConserved]_vars
=============================================================================
