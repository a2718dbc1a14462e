------------------------------- MODULE MCReaders -------------------------------
(***************************************************************************)
(* Small instances of the programs that read the registry or call it from  *)
(* outside (the two watchers of the log, the payment gate, the check of a  *)
(* target, the explorer, receipts over HTTP, the SDKs' retries), of the    *)
(* reports it makes of itself (the check of a receipt, statistics, lists,  *)
(* reputation) and of the guards before its writes.  They share nothing    *)
(* and never run together: the initial state chooses the part that runs,   *)
(* and x1, x2, ... are the variables of that part, in its own order.       *)
(***************************************************************************)
EXTENDS Naturals, Sequences, TLC

CONSTANTS
    None, PageSize,
    MaxLeaves,
    c1, c2, Drafted, Mode, MaxDisputes, MaxDeaths, MaxGrants,
    Signature, Key, ClockSkew, ResponseTtl, Limit, Window, MaxTime, MaxRestarts,
    d1, d2, d3, Payee, Wallet, Stranger, MinEvidence, MinTrustScore, MaxCalls, GateChurn,
    Unknown, NonEvm, Listed, CheckChurn,
    Id, DemoAgent, MaxLog, MaxNav, MaxRefresh,
    Request, Body, Requester, Other, Job, Retries, HttpCalls, MaxForeign,
    Worker, Outcome, MaxRunning, MaxSends, MaxRepeats,
    MaxTree,
    Agent, MaxRecords, MaxOpen, MaxRegistered,
    PageLimit, RawLimit, MaxRows, MaxWalks,
    Did, Operator, Verifier, LabelledTask, PartiesOf, MaxMoves

VARIABLES
    part,               \* the part that runs
    x1, x2, x3, x4, x5, x6, x7, x8, x9, x10, x11, x12, x13  \* its variables

\* The variables that a part with so many of its own leaves unused.
after3 == <<x4, x5, x6, x7, x8, x9, x10, x11, x12, x13>>
after4 == <<x5, x6, x7, x8, x9, x10, x11, x12, x13>>
after6 == <<x7, x8, x9, x10, x11, x12, x13>>
after7 == <<x8, x9, x10, x11, x12, x13>>
after8 == <<x9, x10, x11, x12, x13>>
after9 == <<x10, x11, x12, x13>>
after10 == <<x11, x12, x13>>

vars == <<part, x1, x2, x3, after3>>

\* What the theorems assume of the constants.
ASSUME ReadersAssumption ==
    /\ None \notin Signature \cup
        {"not bound", "evidence", "trustScore", "revoked", "succeeded", "pass", "fail"}
    /\ {d1, d2} \cap {"receipt", "entry", "leaves"} = {}
    /\ PageSize \in Nat \ {0} /\ HttpCalls \in Nat
    /\ ClockSkew \in Nat /\ ResponseTtl \in Nat /\ MaxTime \in Nat
    /\ Limit \in Nat \ {0} /\ Window \in Nat \ {0}
    /\ Listed \in Seq(Payee) /\ Listed # <<>>
    /\ PageLimit \in Nat
    /\ \A raw \in RawLimit : raw \in Nat \ {0} /\ raw \div 2 <= PageLimit

\* One receipt between two members, and one with the operator, who also verifies.
SmallParties == (c1 :> {d1, d2}) @@ (c2 :> {d1, d3})

\* The search lists both payees.
SmallList == <<d1, d2>>

Monitor == INSTANCE LogMonitorProofs WITH
    leaves <- x1, tampered <- x2, head <- x3, run <- x4
Audit == INSTANCE IntegrityVerifier WITH
    Receipt <- Drafted, log <- x1, status <- x2, disputes <- x3, authorized <- x4, decisions <- x5,
    nextLeafIndex <- x6, skipped <- x7, run <- x8, deaths <- x9, grants <- x10
Guards == INSTANCE RequestGuardsProofs WITH
    now <- x1, dated <- x2, responses <- x3, pairing <- x4, counter <- x5, ran <- x6,
    last <- x7, admitted <- x8, restarts <- x9
Gate == INSTANCE PaymentGate WITH
    Did <- Payee, MaxChurn <- GateChurn, agents <- x1, appraisals <- x2, churn <- x3,
    proven <- x4, appraised <- x5, call <- x6, calls <- x7, paid <- x8
Check == INSTANCE TargetCheck WITH
    Did <- Payee, MaxChurn <- CheckChurn, agents <- x1,
    appraisals <- x2, churn <- x3, proven <- x4, appraised <- x5, report <- x6
Tab == INSTANCE Explorer WITH
    Agent <- Payee, nav <- x1, page <- x2, body <- x3, panels <- x4, form <- x5, asOf <- x6,
    refreshable <- x7, statsCache <- x8, loads <- x9, agentCache <- x10, log <- x11,
    showTest <- x12, refreshes <- x13
Http == INSTANCE HttpReceipts WITH
    MaxCalls <- HttpCalls, calls <- x1, drafting <- x2, status <- x3, used <- x4,
    signed <- x5, foreign <- x6
Sdk == INSTANCE SdkCalls WITH
    Poster <- d1, Result <- Outcome, job <- x1, receipts <- x2, retired <- x3,
    responses <- x4, running <- x5, sends <- x6, effects <- x7, answered <- x8
Verdict == INSTANCE ReceiptCheck WITH
    AgentA <- d1, AgentB <- d2, MaxLog <- MaxTree, receipt <- x1, lapsed <- x2,
    revoked <- x3, log <- x4, run <- x5, clean <- x6, broke <- x7
Score == INSTANCE WorkerReputationProofs WITH
    registered <- x1, succ <- x2, receipts <- x3, jobs <- x4
List == INSTANCE Listing WITH
    DefaultPageLimit <- PageLimit, MaxPageLimit <- PageLimit, Limit <- RawLimit, rows <- x1,
    walk <- x2, walks <- x3
Figures == INSTANCE Stats WITH
    Receipt <- Drafted, agents <- x1, receipts <- x2, verifications <- x3, run <- x4,
    stood <- x5, known <- x6, moves <- x7

\* A part starts without the variables from the n-th on.
Idle13 == x13 = None
Idle12 == x12 = None /\ Idle13
Idle11 == x11 = None /\ Idle12
Idle10 == x10 = None /\ Idle11
Idle9 == x9 = None /\ Idle10
Idle8 == x8 = None /\ Idle9
Idle7 == x7 = None /\ Idle8
Idle6 == x6 = None /\ Idle7
Idle5 == x5 = None /\ Idle6
Idle4 == x4 = None /\ Idle5

Init ==
    \/ part = "monitor" /\ Monitor!Init /\ Idle5
    \/ part = "verifier" /\ Audit!Init /\ Idle11
    \/ part = "guards" /\ Guards!Init /\ Idle10
    \/ part = "gate" /\ Gate!Init /\ Idle9
    \/ part = "check" /\ Check!Init /\ Idle7
    \/ part = "tab" /\ Tab!Init
    \/ part = "http" /\ Http!Init /\ Idle7
    \/ part = "sdk" /\ Sdk!Init /\ Idle9
    \/ part = "verdict" /\ Verdict!Init /\ Idle8
    \/ part = "score" /\ Score!Init /\ Idle5
    \/ part = "list" /\ List!Init /\ Idle4
    \/ part = "stats" /\ Figures!Init /\ Idle8

Next ==
    /\ UNCHANGED part
    /\ \/ part = "monitor" /\ Monitor!Next /\ UNCHANGED after4
       \/ part = "verifier" /\ Audit!Next /\ UNCHANGED after10
       \/ part = "guards" /\ Guards!Next /\ UNCHANGED after9
       \/ part = "gate" /\ Gate!Next /\ UNCHANGED after8
       \/ part = "check" /\ Check!Next /\ UNCHANGED after6
       \/ part = "tab" /\ Tab!Next
       \/ part = "http" /\ Http!Next /\ UNCHANGED after6
       \/ part = "sdk" /\ Sdk!Next /\ UNCHANGED after8
       \/ part = "verdict" /\ Verdict!Next /\ UNCHANGED after7
       \/ part = "score" /\ Score!Next /\ UNCHANGED after4
       \/ part = "list" /\ List!Next /\ UNCHANGED after3
       \/ part = "stats" /\ Figures!Next /\ UNCHANGED after7

\* The fairness of the verifier's workflow; the rest is checked for safety only.
Spec ==
    /\ Init
    /\ [][Next]_vars
    /\ WF_vars(part = "verifier" /\ Audit!RunStep /\ UNCHANGED <<part, after10>>)

-----------------------------------------------------------------------------
(* The properties of the modules, each of the instance that runs it. *)

\* LogMonitor: the monitor fails only if the table was tampered with.
NoFalseAlarm == part = "monitor" => Monitor!NoFalseAlarm

\* LogMonitor: every head recorded stands for an extension of the one before.
HeadsExtend == [][part = "monitor" => Monitor!Extends]_vars

\* IntegrityVerifier: the resume point passes nothing undecided.
NothingPassedUnseen == part = "verifier" => Audit!NothingPassedUnseen

\* IntegrityVerifier: while the grant stands, the walk reaches every entry.
LogWalked ==
    (part = "verifier" /\ <>[](part = "verifier" /\ Audit!Granted))
        => []<>(part = "verifier" /\ Audit!AtEnd)

\* RequestGuards: what succeeded does not run again before its response lapsed.
RetryIsCached == part = "guards" => Guards!RetryIsCached

\* RequestGuards: one signature runs under two keys only after its pairing lapsed.
SignatureBound == part = "guards" => Guards!SignatureBound

\* RequestGuards: never twice the limit within one window's length.
RateBounded == part = "guards" => Guards!RateBounded

\* PaymentGate: money only goes to an address the named ID proved, that met the policy.
PaidToProven == part = "gate" => Gate!PaidToProven

\* TargetCheck: a check passes only on proven, independently verified payees.
PassMeansProven == part = "check" => Check!PassMeansProven

\* Explorer: the tab shows what belongs to its page, labels included, and nothing
\* spins for ever but a detail page whose answer could not be read.
TabTruthful == part = "tab" => Tab!TabTruthful

\* HttpReceipts: what the requester signs was asked for and delivered, once each.
SignedForDelivered == part = "http" => Http!SignedForDelivered

\* SdkCalls: a call answered with success has taken effect, exactly once.
CallsHonoured == part = "sdk" => Sdk!CallsHonoured

\* ReceiptCheck: a signed verdict was true of one moment of the check.
VerdictHeld == part = "verdict" => Verdict!VerdictHeld

\* WorkerReputation: the Worker's loops come to what the sets of Reputation say.
RuntimesAgree == part = "score" => Score!RuntimesAgree

\* Listing: a walk over pages misses nobody but for those who retire meanwhile.
ListingComplete == part = "list" => List!ListingComplete

\* Stats: what is counted was true at some moment of the queries.
StatsTruthful == part = "stats" => Figures!StatsTruthful
=============================================================================
