----------------------------- MODULE WorkerLinks -----------------------------
(***************************************************************************)
(* Identity links of agents in the Worker.  A key-derived identity is      *)
(* linked by a challenge that is issued once, expires, and is consumed by  *)
(* a conditional UPDATE; an endpoint is linked by a plain claim.  Either   *)
(* way the handler then reads the agent and writes all its links back, so  *)
(* two links in flight overwrite each other.                               *)
(*                                                                         *)
(* An external key stands for itself, for its signatures and, in a         *)
(* protocol of Derived, for the address derived from it.                   *)
(***************************************************************************)
EXTENDS Naturals

CONSTANTS
    Did, None,
    Challengeable,      \* CHALLENGEABLE_PROTOCOLS: key-derived identities
    Derived,            \* those whose value is derived from the key (erc8004_id)
    Endpoint,           \* a2a_endpoint
    Key, Value,         \* external keys; identities claimed by name
    ChallengeId,        \* bound: how many challenges are ever issued
    LinkChallengeTtl,   \* LINK_CHALLENGE_TTL_MS
    Request,            \* bound: how many requests can be in flight at once
    MaxTime             \* bound: the clock stops here

VARIABLES
    now,
    links,              \* linked and linkedProof of each agent, by protocol
    challenges,         \* the link_challenges table
    requests

vars == <<now, links, challenges, requests>>

Protocol == Challengeable \cup {Endpoint}

\* linked and linkedProof are two columns; the model keeps both as written.
NoLinks == [linked |-> [p \in Protocol |-> None],
            linkedProof |-> [p \in Protocol |-> [method |-> "none", key |-> None]]]

NoChallenge == [agentId |-> None, protocol |-> None, key |-> None,
                expiresAt |-> 0, used |-> FALSE]

NoRequest == [pc |-> "idle", caller |-> None, protocol |-> None, value |-> None,
              challenge |-> None, proof |-> None, row |-> NoLinks]

Init ==
    /\ now = 0
    /\ links = [d \in Did |-> NoLinks]
    /\ challenges = [c \in ChallengeId |-> NoChallenge]
    /\ requests = [r \in Request |-> NoRequest]

Answer(r) == requests' = [requests EXCEPT ![r] = NoRequest]

-----------------------------------------------------------------------------
\* getAgent and the INSERT under a fresh random id; no other request can
\* refer to the challenge before the answer, so this is one step.
RequestLinkChallenge(caller, protocol, key, c) ==
    /\ challenges[c] = NoChallenge
    /\ protocol \in Challengeable
    /\ challenges' = [challenges EXCEPT ![c] =
            [agentId |-> caller, protocol |-> protocol, key |-> key,
             expiresAt |-> now + LinkChallengeTtl, used |-> FALSE]]
    /\ UNCHANGED <<now, links, requests>>

\* CHALLENGE_MISMATCH otherwise.
ChallengeMatches(c, caller, protocol) ==
    challenges[c].agentId = caller /\ challenges[c].protocol = protocol

\* ERC8004_ID_MISMATCH otherwise: an address must be that of the proven key.
ValueAllowed(protocol, value, key) ==
    IF protocol \in Derived THEN value = key ELSE value \in Value

\* PROOF_INVALID unless the challenge's key signed the challenge.
CompleteLink(r, caller, protocol, value, c) ==
    /\ requests[r].pc = "idle"
    /\ challenges[c] # NoChallenge
    /\ ChallengeMatches(c, caller, protocol)
    /\ now <= challenges[c].expiresAt
    /\ ValueAllowed(protocol, value, challenges[c].key)
    /\ requests' = [requests EXCEPT ![r] =
            [NoRequest EXCEPT !.pc = "consume", !.caller = caller, !.protocol = protocol,
                              !.value = value, !.challenge = c,
                              !.proof = [method |-> "key_possession", key |-> challenges[c].key]]]
    /\ UNCHANGED <<now, links, challenges>>

ConsumeLinkChallengeIfUnused(r) ==
    LET c == requests[r].challenge IN
    /\ requests[r].pc = "consume"
    /\ challenges' = [challenges EXCEPT ![c].used = TRUE]
    /\ IF challenges[c].used THEN Answer(r) ELSE requests' = [requests EXCEPT ![r].pc = "read"]
    /\ UNCHANGED <<now, links>>

LinkEndpoint(r, caller, value) ==
    /\ requests[r].pc = "idle"
    /\ requests' = [requests EXCEPT ![r] =
            [NoRequest EXCEPT !.pc = "read", !.caller = caller, !.protocol = Endpoint,
                              !.value = value,
                              !.proof = [method |-> "unverified_claim", key |-> None]]]
    /\ UNCHANGED <<now, links, challenges>>

\* Both handlers end alike: getAgent, then the whole object is written back.
GetAgent(r) ==
    /\ requests[r].pc = "read"
    /\ requests' = [requests EXCEPT ![r].pc = "write", ![r].row = links[requests[r].caller]]
    /\ UNCHANGED <<now, links, challenges>>

\* Seeded fault: only the value comes from the row read before; the proofs
\* are merged into what is stored now.
MergedLinks(q) ==
    [linked |-> [q.row.linked EXCEPT ![q.protocol] = q.value],
     linkedProof |-> [links[q.caller].linkedProof EXCEPT ![q.protocol] = q.proof]]

NewLinks(q) ==
    [linked |-> [q.row.linked EXCEPT ![q.protocol] = q.value],
     linkedProof |-> [q.row.linkedProof EXCEPT ![q.protocol] = q.proof]]

UpdateAgentLinks(r) ==
    LET q == requests[r] IN
    /\ q.pc = "write"
    /\ links' = [links EXCEPT ![q.caller] = NewLinks(q)]
    /\ Answer(r)
    /\ UNCHANGED <<now, challenges>>

\* A statement fails or the isolate is evicted at an await.
Fail(r) ==
    /\ requests[r].pc # "idle"
    /\ Answer(r)
    /\ UNCHANGED <<now, links, challenges>>

Tick ==
    /\ now < MaxTime
    /\ now' = now + 1
    /\ UNCHANGED <<links, challenges, requests>>

Next ==
    \/ Tick
    \/ \E d \in Did, p \in Challengeable, k \in Key, c \in ChallengeId :
            RequestLinkChallenge(d, p, k, c)
    \/ \E r \in Request :
        \/ \E d \in Did, p \in Protocol, v \in Value \cup Key, c \in ChallengeId :
                CompleteLink(r, d, p, v, c)
        \/ \E d \in Did, v \in Value : LinkEndpoint(r, d, v)
        \/ ConsumeLinkChallengeIfUnused(r) \/ GetAgent(r) \/ UpdateAgentLinks(r) \/ Fail(r)

Spec == Init /\ [][Next]_vars

-----------------------------------------------------------------------------
\* A link is backed by a consumed challenge that was issued to this agent for
\* this protocol and the key shown, or says that it is only a claim.
Backed(d, p, value, proof) ==
    \/ value = None /\ proof.method = "none"
    \/ p = Endpoint /\ proof.method = "unverified_claim"
    \/ /\ proof.method = "key_possession"
       /\ ValueAllowed(p, value, proof.key)
       /\ \E c \in ChallengeId : /\ challenges[c].used
                                 /\ challenges[c].agentId = d
                                 /\ challenges[c].protocol = p
                                 /\ challenges[c].key = proof.key

RowBacked(d, row) == \A p \in Protocol : Backed(d, p, row.linked[p], row.linkedProof[p])

(* Whatever writes overtake each other, the two columns stay in step: a    *)
(* value shown for a key-derived identity is backed by a consumed          *)
(* challenge that was issued to this agent for this protocol, the key kept *)
(* beside it is the one proven there, and an address is that key's; a      *)
(* value that was only claimed is marked as a claim (linkEndpoint,         *)
(* completeLink).                                                          *)
ProofBacksLink == \A d \in Did : RowBacked(d, links[d])

-----------------------------------------------------------------------------
(* What makes it inductive: a request about to consume a challenge will    *)
(* have it consumed for the very link it carries; one past that carries a  *)
(* link that is backed; and the row it read was backed and stays so.       *)
Proof == [method : {"none", "unverified_claim", "key_possession"}, key : Key \cup {None}]
Columns == [linked : [Protocol -> Value \cup Key \cup {None}], linkedProof : [Protocol -> Proof]]

Challenge == [agentId : Did \cup {None}, protocol : Protocol \cup {None},
              key : Key \cup {None}, expiresAt : Nat, used : BOOLEAN]

InFlight == [pc : {"idle", "consume", "read", "write"}, caller : Did \cup {None},
             protocol : Protocol \cup {None}, value : Value \cup Key \cup {None},
             challenge : ChallengeId \cup {None}, proof : Proof \cup {None}, row : Columns]

CarriesLink(q) == q.caller \in Did /\ q.protocol \in Protocol /\ q.proof \in Proof

RequestSound(q) ==
    /\ q.pc # "idle" => CarriesLink(q)
    /\ q.pc = "consume" =>
            /\ q.challenge \in ChallengeId /\ challenges[q.challenge] # NoChallenge
            /\ ChallengeMatches(q.challenge, q.caller, q.protocol)
            /\ q.proof = [method |-> "key_possession", key |-> challenges[q.challenge].key]
            /\ ValueAllowed(q.protocol, q.value, q.proof.key)
    /\ q.pc \in {"read", "write"} => Backed(q.caller, q.protocol, q.value, q.proof)
    /\ q.pc = "write" => RowBacked(q.caller, q.row)

Inv ==
    /\ now \in Nat
    /\ links \in [Did -> Columns]
    /\ challenges \in [ChallengeId -> Challenge]
    /\ requests \in [Request -> InFlight]
    /\ \A r \in Request : RequestSound(requests[r])
    /\ ProofBacksLink
=============================================================================
