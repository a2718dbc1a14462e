---------------------------- MODULE PaymentGate ----------------------------
(***************************************************************************)
(* withInamX402Gate (src/sdk-js/src/x402.ts) between a payment wrapper and *)
(* a paid server: an unpaid 402 is let through only with the payees that   *)
(* the named INAM ID proved, after two lookups that the registry answers   *)
(* at two different moments, or not at all.  A 402 to a request that       *)
(* already carries a payment passes as it is.  The wrapper is external: it *)
(* pays one of the addresses offered and sends the request again.          *)
(***************************************************************************)
EXTENDS PaymentPolicy

CONSTANTS
    Stranger,       \* an address nobody proved
    MinEvidence,
    MinTrustScore,
    MaxCalls        \* bound: requests sent through the gate

VARIABLES
    call,           \* the call in progress
    calls,
    paid            \* the address of the last payment, or None

vars == <<registryVars, call, calls, paid>>

NoCall == [pc |-> "idle", did |-> None, accepts |-> {}, agent |-> None, reputation |-> None,
           reason |-> None]

Init == RegistryInit /\ call = NoCall /\ calls = 0 /\ paid = None

\* The inner fetch returns a 402 to an unpaid request: which ID it names and
\* what it accepts is the server's choice; an unreadable header names nobody.
PaymentRequired ==
    /\ call.pc \in {"idle", "blocked"}
    /\ calls < MaxCalls
    /\ calls' = calls + 1
    /\ paid' = None
    /\ CallBegins
    /\ \E d \in Did \cup {None}, accepts \in SUBSET (Wallet \cup {Stranger}) :
        call' = [NoCall EXCEPT !.pc = IF d = None THEN "blocked" ELSE "asking",
                               !.did = d, !.accepts = accepts,
                               !.reason = IF d = None THEN "names no ID" ELSE None]

\* Promise.all of getAgent and getReputation: each answers when it does.
GetAgent ==
    /\ call.pc = "asking"
    /\ call.agent = None
    /\ call' = [call EXCEPT !.agent = agents[call.did]]
    /\ UNCHANGED <<registryVars, calls, paid>>

GetReputation ==
    /\ call.pc = "asking"
    /\ call.reputation = None
    /\ call' = [call EXCEPT !.reputation = appraisals[call.did]]
    /\ UNCHANGED <<registryVars, calls, paid>>

\* registryMiss: an unknown ID and an outage are told apart, and both block.
LookupFails ==
    /\ call.pc = "asking"
    /\ \E why \in {"not found", "unavailable"} :
        call' = [call EXCEPT !.pc = "blocked", !.reason = why]
    /\ UNCHANGED <<registryVars, calls, paid>>

\* Seeded fault: what the server asked for is passed on as it came.
Unnarrowed == call.accepts

Narrowed == call.accepts \cap {call.agent.wallet}

Decide ==
    LET refusal == DecideX402(call.agent, call.reputation, call.accepts, MinEvidence,
                              MinTrustScore) IN
    /\ call.pc = "asking"
    /\ call.agent # None
    /\ call.reputation # None
    /\ call' = IF refusal = None
               THEN [call EXCEPT !.pc = "offered", !.accepts = Narrowed]
               ELSE [call EXCEPT !.pc = "blocked", !.reason = refusal]
    /\ UNCHANGED <<registryVars, calls, paid>>

\* The payment wrapper picks any of the addresses left in the header.
Pay ==
    /\ call.pc = "offered"
    /\ \E a \in call.accepts : paid' = a
    /\ call' = [call EXCEPT !.pc = "retried"]
    /\ UNCHANGED <<registryVars, calls>>

\* The request with its payment is answered, or rejected with another 402,
\* which passes through to the wrapper: it reports the error.
Answered ==
    /\ call.pc = "retried"
    /\ call' = NoCall
    /\ paid' = None
    /\ UNCHANGED <<registryVars, calls>>

Next ==
    \/ PaymentRequired \/ GetAgent \/ GetReputation \/ LookupFails \/ Decide \/ Pay \/ Answered
    \/ RegistryChanges /\ UNCHANGED <<call, calls, paid>>

Spec == Init /\ [][Next]_vars

-----------------------------------------------------------------------------
(* Money only goes to an address that the named ID had proven while it was *)
(* not retired, and only if its appraisal met the policy, each at some     *)
(* moment of the call, whatever the server asks for and however the two    *)
(* lookups interleave with links, revocations, successions and appraisals  *)
(* (withInamX402Gate, decideX402).                                         *)
Payable(a) ==
    /\ <<call.did, a>> \in proven
    /\ \E p \in Appraisal : /\ <<call.did, p>> \in appraised
                            /\ PolicyFailure(p, MinEvidence, MinTrustScore) = None

PaidToProven == paid # None => Payable(paid)

-----------------------------------------------------------------------------
(* The invariant behind it. *)

Reason ==
    Retired \cup {None, "names no ID", "not found", "unavailable", "not bound", "evidence",
                  "trustScore"}

Shape ==
    /\ agents \in [Did -> Row]
    /\ appraisals \in [Did -> Appraisal]
    /\ call \in [pc : {"idle", "blocked", "asking", "offered", "retried"},
                 did : Did \cup {None}, accepts : SUBSET (Wallet \cup {Stranger}),
                 agent : Row \cup {None}, reputation : Appraisal \cup {None}, reason : Reason]

\* The two answers may be stale or from two moments, but each was true at one.
AnswersOnceTrue ==
    /\ call.pc = "asking" => call.did \in Did
    /\ call.agent # None /\ call.agent.standing \notin Retired =>
        <<call.did, call.agent.wallet>> \in proven
    /\ call.reputation # None => <<call.did, call.reputation>> \in appraised

OfferPayable == call.pc = "offered" => \A a \in call.accepts : Payable(a)

Inv == Shape /\ Remembered /\ AnswersOnceTrue /\ OfferPayable /\ PaidToProven
=============================================================================
