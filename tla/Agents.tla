------------------------------- MODULE Agents -------------------------------
(***************************************************************************)
(* Identities of the Node registry (src/src/services/agentService.ts): who *)
(* is registered, who retired, who may verify, and key succession.         *)
(*                                                                         *)
(* A row of the agents table is spread over one set or function per field  *)
(* that matters.  Linked external identities, capabilities and metadata    *)
(* are left out.  The clock is a counter; the windows are in its units.    *)
(***************************************************************************)
EXTENDS TransparencyLog

CONSTANTS
    Did,                \* every identity (an INAM ID is an Ed25519 key)
    None,               \* no identity
    Founders,           \* the identities registered in the initial state
    Operator,           \* config.operatorDid
    SuccessionWindow,   \* SUCCESSION_WINDOW_MS
    MaxTime,            \* bound: the clock stops here
    MaxLog              \* bound: verifier grants stop when the log is this long

ASSUME AgentsAssumption ==
    /\ None \notin Did
    /\ Founders \subseteq Did
    /\ Operator \in Did
    /\ SuccessionWindow \in Nat \ {0}
    /\ MaxTime \in Nat
    /\ MaxLog \in Nat

VARIABLES
    now,                \* Date.now()
    registered,         \* keys of the agents table
    revoked,            \* agents with revokedAt
    verifiers,          \* agents with isAuthorizedVerifier
    succeededBy,        \* record.succeededBy, None when unset
    pendingSuccession   \* record.pendingSuccession, NoSuccession when unset

agentVars == <<registered, revoked, verifiers, succeededBy, pendingSuccession>>

NoTime == -1
NoSuccession == [successor |-> None, effectiveAt |-> NoTime]

AgentsInit ==
    /\ now = 0
    /\ registered = Founders
    /\ revoked = {}
    /\ verifiers = {}
    /\ succeededBy = [a \in Did |-> None]
    /\ pendingSuccession = [a \in Did |-> NoSuccession]

Retired(a) == a \in revoked \/ succeededBy[a] # None

\* Seeded fault: looks up the wrong side of the statement.
HasPendingSuccession(a) == pendingSuccession[a].successor # None

IsPendingSuccessor(a) == \E p \in Did : pendingSuccession[p].successor = a

\* Seeded fault: only what falls due at this very moment.
DueExactlyNow ==
    {p \in Did : /\ pendingSuccession[p].successor # None
                 /\ pendingSuccession[p].effectiveAt = now}

\* The predecessors whose window has closed; the bound is inclusive.
DueSuccessions ==
    {p \in Did : /\ pendingSuccession[p].successor # None
                 /\ pendingSuccession[p].effectiveAt <= now}

\* Every request under /v1 first activates what is due (server.ts) and then,
\* if it is signed, is refused when the signer is retired.  An identity that
\* was never registered passes.
SignedRequest(caller) == DueSuccessions = {} /\ ~Retired(caller)

Tick ==
    /\ now < MaxTime
    /\ now' = now + 1
    /\ UNCHANGED <<agentVars, log>>

RegisterAgent(caller) ==
    /\ SignedRequest(caller)
    /\ caller \notin registered
    /\ ~IsPendingSuccessor(caller)
    /\ registered' = registered \cup {caller}
    /\ UNCHANGED <<now, revoked, verifiers, succeededBy, pendingSuccession, log>>

\* Seeded fault: the leaf always says the grant was given.
GrantGiven(authorized) == "authorized"

GrantOf(authorized) == IF authorized THEN "authorized" ELSE "unauthorized"

SetVerifierStatus(caller, target, authorized) ==
    /\ SignedRequest(caller)
    /\ caller = Operator
    /\ target \in registered
    /\ ~Retired(target)
    /\ Len(log) < MaxLog
    /\ verifiers' = IF authorized THEN verifiers \cup {target}
                                  ELSE verifiers \ {target}
    /\ AppendEntry("verifier_status_changed", target, GrantOf(authorized))
    /\ UNCHANGED <<now, registered, revoked, succeededBy, pendingSuccession>>

\* Seeded fault: the cancelled succession is dropped without a leaf.
RevokeAgentSilently(caller) ==
    /\ SignedRequest(caller)
    /\ caller \in registered
    /\ revoked' = revoked \cup {caller}
    /\ pendingSuccession' = [pendingSuccession EXCEPT ![caller] = NoSuccession]
    /\ UNCHANGED <<now, registered, verifiers, succeededBy, log>>

\* Revoking inside the window cancels the pending succession, and says so in
\* the log.
RevokeAgent(caller) ==
    /\ SignedRequest(caller)
    /\ caller \in registered
    /\ revoked' = revoked \cup {caller}
    /\ pendingSuccession' = [pendingSuccession EXCEPT ![caller] = NoSuccession]
    /\ IF pendingSuccession[caller].successor # None
       THEN AppendEntry("agent_succession_cancelled", caller,
                        pendingSuccession[caller].successor)
       ELSE UNCHANGED log
    /\ UNCHANGED <<now, registered, verifiers, succeededBy>>

\* Both keys have signed the statement (verifySuccession also refuses a
\* successor equal to the predecessor).
RequestSuccession(caller, successor) ==
    /\ SignedRequest(caller)
    /\ caller \in registered
    /\ successor # caller
    /\ successor \notin registered
    /\ ~IsPendingSuccessor(successor)
    /\ pendingSuccession[caller].successor = None
    /\ pendingSuccession' = [pendingSuccession EXCEPT ![caller] =
            [successor |-> successor, effectiveAt |-> now + SuccessionWindow]]
    /\ AppendEntry("agent_succession_pending", caller, successor)
    /\ UNCHANGED <<now, registered, revoked, verifiers, succeededBy>>

\* One iteration of the loop of activateDueSuccessions.  Nothing else can run
\* before the loop ends: SignedRequest waits until nothing is due.
ActivateDueSuccession(p) ==
    LET successor == pendingSuccession[p].successor IN
    /\ p \in DueSuccessions
    /\ succeededBy' = [succeededBy EXCEPT ![p] = successor]
    /\ pendingSuccession' = [pendingSuccession EXCEPT ![p] = NoSuccession]
    /\ registered' = registered \cup {successor}
    /\ verifiers' = verifiers \ {successor}
    /\ AppendEntry("agent_succeeded", p, successor)
    /\ UNCHANGED <<now, revoked>>

AgentsNext ==
    \/ \E a \in Did : RegisterAgent(a) \/ RevokeAgent(a) \/ ActivateDueSuccession(a)
    \/ \E a, s \in Did : RequestSuccession(a, s)
    \/ \E a \in Did, target \in Did, g \in BOOLEAN : SetVerifierStatus(a, target, g)
=============================================================================
