--------------------------- MODULE PaymentPolicy ---------------------------
(***************************************************************************)
(* What a payer decides from the registry's two answers about a payee, its *)
(* record and its appraisal (src/sdk-js/src/x402.ts, trust.ts), and the    *)
(* registry those answers come from, which changes while they are asked    *)
(* for.  Evidence is ranked 0 (none), 1 (countersigned) and 2              *)
(* (independently verified); what is changed, and what was once true       *)
(* during the call in progress, is all the model keeps of the registry.    *)
(***************************************************************************)
EXTENDS Naturals

CONSTANTS
    None,
    Did,
    Wallet,         \* addresses whose control an agent can prove
    MaxChurn        \* bound: changes in the registry during a behaviour

VARIABLES
    agents,         \* linked.erc8004_id and standing of each registered agent
    appraisals,     \* evidenceLevel and trustScore
    churn,
    proven,         \* history: wallets of agents not retired, at some moment of this call
    appraised       \* history: what their appraisals were at some moment of it

registryVars == <<agents, appraisals, churn, proven, appraised>>

Retired == {"revoked", "succeeded"}
\* Both bars can be missed; a low score with less evidence adds no third case.
Appraisal == {[evidence |-> e, score |-> 1] : e \in 0 .. 2} \cup {[evidence |-> 2, score |-> 0]}

ProvenNow(a) == {<<d, a[d].wallet>> : d \in {e \in Did : a[e].standing \notin Retired}}
AppraisedNow(p) == {<<d, p[d]>> : d \in Did}

RegistryInit ==
    /\ agents \in [Did -> [wallet : Wallet \cup {None}, standing : {"active"}]]
    /\ appraisals = [d \in Did |-> [evidence |-> 2, score |-> 1]]
    /\ churn = 0
    /\ proven = ProvenNow(agents)
    /\ appraised = AppraisedNow(appraisals)

\* completeLink, revokeAgent, a succession requested or carried out, and the
\* appraisal that receipts, verdicts and disputes move either way.
RegistryChanges ==
    /\ churn < MaxChurn
    /\ churn' = churn + 1
    /\ \E d \in Did :
        \/ /\ agents[d].standing \notin Retired
           /\ \E w \in Wallet : agents' = [agents EXCEPT ![d].wallet = w]
           /\ UNCHANGED appraisals
        \/ /\ agents[d].standing \notin Retired
           /\ \E s \in {"pending", "revoked", "succeeded"} :
                agents' = [agents EXCEPT ![d].standing = s]
           /\ UNCHANGED appraisals
        \/ /\ \E p \in Appraisal : appraisals' = [appraisals EXCEPT ![d] = p]
           /\ UNCHANGED agents
    /\ proven' = proven \cup ProvenNow(agents')
    /\ appraised' = appraised \cup AppraisedNow(appraisals')

\* A new call begins: its history starts from the registry of this moment.
CallBegins ==
    /\ proven' = ProvenNow(agents)
    /\ appraised' = AppraisedNow(appraisals)
    /\ UNCHANGED <<agents, appraisals, churn>>

-----------------------------------------------------------------------------
\* policyFailure: the first bar that the appraisal misses, or None.
PolicyFailure(reputation, minEvidence, minTrustScore) ==
    IF reputation.evidence < minEvidence THEN "evidence"
    ELSE IF reputation.score < minTrustScore THEN "trustScore"
    ELSE None

\* Seeded fault: a retired payee passes as long as its wallet is bound.
DecideByWallet(agent, reputation, payTo, minEvidence, minTrustScore) ==
    IF agent.wallet = None \/ agent.wallet \notin payTo THEN "not bound"
    ELSE PolicyFailure(reputation, minEvidence, minTrustScore)

\* decideX402: why the payment is refused, or None.
DecideX402(agent, reputation, payTo, minEvidence, minTrustScore) ==
    IF agent.standing \in Retired THEN agent.standing
    ELSE IF agent.wallet = None \/ agent.wallet \notin payTo THEN "not bound"
    ELSE PolicyFailure(reputation, minEvidence, minTrustScore)

\* decideTrust with the default policy: evidence of a verifier, any score, and
\* no flag that caps the answer (a pending succession raises one).
DecideTrust(agent, reputation) ==
    IF agent.standing \in Retired \/ PolicyFailure(reputation, 0, 0) # None THEN "deny"
    ELSE IF PolicyFailure(reputation, 2, 0) = None /\ agent.standing = "active" THEN "allow"
    ELSE "escrow"
-----------------------------------------------------------------------------
(* Used by the inductive invariants of the modules that extend this one.   *)

Row == [wallet : Wallet \cup {None}, standing : {"active", "pending"} \cup Retired]

\* The history of the call has what the registry says now.
Remembered == ProvenNow(agents) \subseteq proven /\ AppraisedNow(appraisals) \subseteq appraised
=============================================================================
