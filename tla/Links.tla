-------------------------------- MODULE Links --------------------------------
(***************************************************************************)
(* Identity links of agents in the Node registry, whose handlers run to    *)
(* their end without giving way: what WorkerLinks does in many statements  *)
(* is one step here.  The links are rows of the database; the challenges   *)
(* are in memory, and a restart forgets them.                              *)
(*                                                                         *)
(* An external key stands for itself, for its signatures and, in a         *)
(* protocol of Derived, for the address derived from it.                   *)
(***************************************************************************)
EXTENDS Naturals

CONSTANTS
    Did, None,
    Challengeable,      \* CHALLENGEABLE_PROTOCOLS: key-derived identities
    Derived,            \* those whose value is derived from the key (erc8004_id)
    Endpoint,           \* a2a_endpoint
    Key, Value,         \* external keys; identities claimed by name
    ChallengeId,        \* bound: how many challenges are ever issued
    LinkChallengeTtl,   \* config.linkChallengeTtlMs
    MaxTime             \* bound: the clock stops here

VARIABLES
    now,
    links,              \* linked and linkedProof of each agent, by protocol
    challenges,         \* the linkChallenges map
    proven              \* every agent, protocol and key of a completed challenge

vars == <<now, links, challenges, proven>>

Protocol == Challengeable \cup {Endpoint}

NoLinks == [linked |-> [p \in Protocol |-> None],
            linkedProof |-> [p \in Protocol |-> [method |-> "none", key |-> None]]]

NoChallenge == [agentId |-> None, protocol |-> None, key |-> None,
                expiresAt |-> 0, used |-> FALSE]

\* An id that no request can complete any more: CHALLENGE_NOT_FOUND.
Forgotten == [NoChallenge EXCEPT !.used = TRUE]

Init ==
    /\ now = 0
    /\ links = [d \in Did |-> NoLinks]
    /\ challenges = [c \in ChallengeId |-> NoChallenge]
    /\ proven = {}

\* Seeded fault: the new value replaces all that was linked before.
ReplaceLinks(old, protocol, value, proof) ==
    [linked |-> [NoLinks.linked EXCEPT ![protocol] = value],
     linkedProof |-> [NoLinks.linkedProof EXCEPT ![protocol] = proof]]

NewLinks(old, protocol, value, proof) ==
    [linked |-> [old.linked EXCEPT ![protocol] = value],
     linkedProof |-> [old.linkedProof EXCEPT ![protocol] = proof]]

LinkEndpoint(caller, value) ==
    /\ links' = [links EXCEPT ![caller] =
            NewLinks(@, Endpoint, value, [method |-> "unverified_claim", key |-> None])]
    /\ UNCHANGED <<now, challenges, proven>>

RequestLinkChallenge(caller, protocol, key, c) ==
    /\ protocol \in Challengeable
    /\ challenges[c] = NoChallenge
    /\ challenges' = [challenges EXCEPT ![c] =
            [agentId |-> caller, protocol |-> protocol, key |-> key,
             expiresAt |-> now + LinkChallengeTtl, used |-> FALSE]]
    /\ UNCHANGED <<now, links, proven>>

\* CHALLENGE_MISMATCH, CHALLENGE_ALREADY_USED or CHALLENGE_EXPIRED otherwise.
ChallengeStands(c, caller, protocol) ==
    /\ challenges[c].agentId = caller
    /\ challenges[c].protocol = protocol
    /\ ~challenges[c].used
    /\ now <= challenges[c].expiresAt

\* PROOF_INVALID otherwise.
ProofVerifies(c, signer) == signer = challenges[c].key

\* ERC8004_ID_MISMATCH otherwise: an address must be that of the proven key.
ValueAllowed(protocol, value, key) ==
    IF protocol \in Derived THEN value = key ELSE value \in Value

CompleteLink(caller, protocol, value, c, signer) ==
    /\ ChallengeStands(c, caller, protocol)
    /\ ProofVerifies(c, signer)
    /\ ValueAllowed(protocol, value, challenges[c].key)
    /\ challenges' = [challenges EXCEPT ![c].used = TRUE]
    /\ links' = [links EXCEPT ![caller] =
            NewLinks(@, protocol, value,
                     [method |-> "key_possession", key |-> challenges[c].key])]
    /\ proven' = proven \cup {<<caller, protocol, challenges[c].key>>}
    /\ UNCHANGED now

\* An id that was issued is never issued again: the challenge stays, forgotten.
Restart ==
    /\ challenges' = [c \in ChallengeId |->
            IF challenges[c] = NoChallenge THEN NoChallenge ELSE Forgotten]
    /\ UNCHANGED <<now, links, proven>>

Tick ==
    /\ now < MaxTime
    /\ now' = now + 1
    /\ UNCHANGED <<links, challenges, proven>>

Next ==
    \/ Tick \/ Restart
    \/ \E d \in Did, v \in Value : LinkEndpoint(d, v)
    \/ \E d \in Did, p \in Challengeable, c \in ChallengeId :
        \/ \E k \in Key : RequestLinkChallenge(d, p, k, c)
        \/ \E v \in Value \cup Key, k \in Key : CompleteLink(d, p, v, c, k)

Spec == Init /\ [][Next]_vars

-----------------------------------------------------------------------------
(* What is shown as proven was proven by this agent for this protocol with *)
(* the key shown beside it, an address is that key's, and nothing proven   *)
(* loses its link to a link of another protocol or to a restart            *)
(* (completeLink, linkEndpoint).                                           *)
ProofBacksLink ==
    \A d \in Did, p \in Challengeable :
        LET value == links[d].linked[p]
            proof == links[d].linkedProof[p] IN
        /\ value # None => /\ proof.method = "key_possession"
                           /\ <<d, p, proof.key>> \in proven
                           /\ ValueAllowed(p, value, proof.key)
        /\ \A k \in Key : <<d, p, k>> \in proven => value # None

-----------------------------------------------------------------------------
(* It is inductive, with the shape of the two columns and of what was     *)
(* proven.                                                                 *)
Columns == [linked : [Protocol -> Value \cup Key \cup {None}],
            linkedProof : [Protocol -> [method : {"none", "unverified_claim", "key_possession"},
                                        key : Key \cup {None}]]]

Shape == links \in [Did -> Columns] /\ proven \subseteq Did \X Challengeable \X Key

Inv == Shape /\ ProofBacksLink
=============================================================================
