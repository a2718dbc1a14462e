------------------------------ MODULE WorkerKeys ------------------------------
(***************************************************************************)
(* API keys of the Worker and the paid check they meter.  A key serves     *)
(* FREE_TIER_CALLS checks; after that, and without a key, a call is paid   *)
(* through x402: verify, serve, settle.  Counters live in one row per key  *)
(* and change in single conditional statements; between them a request     *)
(* can be overtaken or die.                                                *)
(*                                                                         *)
(* One agent owns every key: keys of different agents share nothing.       *)
(***************************************************************************)
EXTENDS FiniteSets, Naturals

CONSTANTS
    KeyId,              \* bound: how many keys are ever issued
    None,
    Request,            \* bound: how many requests can be in flight at once
    FreeTierCalls,      \* FREE_TIER_CALLS
    MaxActiveKeys,      \* MAX_ACTIVE_KEYS_PER_AGENT
    MaxLost             \* bound: how many requests die

VARIABLES
    keys,               \* the api_keys table
    answered,           \* history: checks answered on a key's free tier
    lost,               \* history: calls of a key whose request died
    requests

vars == <<keys, answered, lost, requests>>

NoKey == [issued |-> FALSE, revoked |-> FALSE, calls |-> 0]

NoRequest == [pc |-> "idle", key |-> None]

Init ==
    /\ keys = [k \in KeyId |-> NoKey]
    /\ answered = [k \in KeyId |-> 0]
    /\ lost = [k \in KeyId |-> 0]
    /\ requests = [r \in Request |-> NoRequest]

Answer(r) == requests' = [requests EXCEPT ![r] = NoRequest]
Goto(r, label) == requests' = [requests EXCEPT ![r].pc = label]
Active == {k \in KeyId : keys[k].issued /\ ~keys[k].revoked}

-----------------------------------------------------------------------------
(* Issuing and revoking. *)

IssueKey(r, k) ==
    /\ requests[r].pc = "idle"
    /\ ~keys[k].issued
    /\ \A q \in Request : ~(requests[q].pc = "insert" /\ requests[q].key = k)
    /\ requests' = [requests EXCEPT ![r].pc = "insert", ![r].key = k]
    /\ UNCHANGED <<keys, answered, lost>>

\* INSERT ... SELECT ... WHERE the active keys are fewer than the cap.
InsertKey(r) ==
    /\ requests[r].pc = "insert"
    /\ keys' = IF Cardinality(Active) < MaxActiveKeys
               THEN [keys EXCEPT ![requests[r].key].issued = TRUE]
               ELSE keys
    /\ Answer(r)
    /\ UNCHANGED <<answered, lost>>

RevokeKey(k) ==
    /\ k \in Active
    /\ keys' = [keys EXCEPT ![k].revoked = TRUE]
    /\ UNCHANGED <<answered, lost, requests>>

-----------------------------------------------------------------------------
(* A call of the paid check (x402CheckHandler). *)

\* meterKey: one conditional UPDATE; without effect, a SELECT tells an
\* exhausted key from an invalid one.
MeterKey(r, k) ==
    /\ requests[r].pc = "idle"
    /\ keys[k].issued
    /\ IF k \in Active /\ keys[k].calls < FreeTierCalls
       THEN /\ keys' = [keys EXCEPT ![k].calls = @ + 1]
            /\ requests' = [requests EXCEPT ![r].pc = "serve", ![r].key = k]
       ELSE /\ requests' = [requests EXCEPT ![r].pc = "exhausted", ![r].key = k]
            /\ UNCHANGED keys
    /\ UNCHANGED <<answered, lost>>

\* An exhausted key is paid for like a call without one; an invalid one is 401.
KeyExists(r) ==
    LET k == requests[r].key IN
    /\ requests[r].pc = "exhausted"
    /\ requests' = [requests EXCEPT ![r] =
            IF k \in Active THEN [NoRequest EXCEPT !.pc = "verify"] ELSE NoRequest]
    /\ UNCHANGED <<keys, answered, lost>>

\* The free check answers 200, or 4xx for a bad target: then the call is
\* given back.
ServeFree(r, ok) ==
    LET k == requests[r].key IN
    /\ requests[r].pc = "serve"
    /\ answered' = IF ok THEN [answered EXCEPT ![k] = @ + 1] ELSE answered
    /\ IF ok THEN Answer(r) ELSE Goto(r, "refund")
    /\ UNCHANGED <<keys, lost>>

\* Seeded fault: a revoked key gets nothing back.
RefundActiveKey(r) ==
    LET k == requests[r].key IN
    /\ requests[r].pc = "refund"
    /\ keys' = IF k \in Active /\ keys[k].calls > 0
               THEN [keys EXCEPT ![k].calls = @ - 1] ELSE keys
    /\ Answer(r)
    /\ UNCHANGED <<answered, lost>>

\* refundKey looks for the hash alone, whatever became of the key.
RefundKey(r) ==
    LET k == requests[r].key IN
    /\ requests[r].pc = "refund"
    /\ keys' = IF keys[k].calls > 0 THEN [keys EXCEPT ![k].calls = @ - 1] ELSE keys
    /\ Answer(r)
    /\ UNCHANGED <<answered, lost>>

\* No key: with a payment header the facilitator is asked.
RequestPaidCheck(r) ==
    /\ requests[r].pc = "idle"
    /\ Goto(r, "verify")
    /\ UNCHANGED <<keys, answered, lost>>

-----------------------------------------------------------------------------
(* x402Paid. *)

\* A 402 without a header or for a payment that does not verify.
VerifyPayment(r, valid) ==
    /\ requests[r].pc = "verify"
    /\ IF valid THEN Goto(r, "servePaid") ELSE Answer(r)
    /\ UNCHANGED <<keys, answered, lost>>

\* An answer that is not 2xx is returned as it is and never settled.
ServePaid(r, ok) ==
    /\ requests[r].pc = "servePaid"
    /\ IF ok THEN Goto(r, "settle") ELSE Answer(r)
    /\ UNCHANGED <<keys, answered, lost>>

\* A settlement that fails is answered 402 and the served answer is dropped.
Settle(r, success) ==
    /\ requests[r].pc = "settle"
    /\ IF success THEN Goto(r, "receipt") ELSE Answer(r)
    /\ UNCHANGED <<keys, answered, lost>>

\* draftReceipt decorates the answer; whatever fails in it, the answer is sent.
DraftReceipt(r) ==
    /\ requests[r].pc = "receipt"
    /\ Answer(r)
    /\ UNCHANGED <<keys, answered, lost>>

\* The isolate is evicted at an await: nothing is refunded.
Die(r) ==
    LET q == requests[r] IN
    /\ q.pc \in {"serve", "refund"}
    /\ lost[q.key] < MaxLost
    /\ lost' = [lost EXCEPT ![q.key] = @ + 1]
    /\ Answer(r)
    /\ UNCHANGED <<keys, answered>>

Next ==
    \/ \E k \in KeyId : RevokeKey(k)
    \/ \E r \in Request :
        \/ \E k \in KeyId : IssueKey(r, k) \/ MeterKey(r, k)
        \/ \E ok \in BOOLEAN :
            ServeFree(r, ok) \/ VerifyPayment(r, ok) \/ ServePaid(r, ok) \/ Settle(r, ok)
        \/ InsertKey(r) \/ KeyExists(r) \/ RefundKey(r) \/ RequestPaidCheck(r)
        \/ DraftReceipt(r) \/ Die(r)

Spec == Init /\ [][Next]_vars

-----------------------------------------------------------------------------
\* The requests that have counted a call of the key and not yet answered it.
Metered(k) == {r \in Request : requests[r].key = k /\ requests[r].pc \in {"serve", "refund"}}

(* The counter of a key is exact at every moment: its calls are those      *)
(* answered, those in flight and those whose request died, never more than *)
(* the tier, and an agent never holds more active keys than the cap.       *)
(* Issuing, metering and refunding are single statements, so no            *)
(* interleaving counts a call twice or gives one back twice, also when the *)
(* key is revoked while the call is being served (meterKey, refundKey).    *)
CallsAccounted ==
    /\ Cardinality(Active) <= MaxActiveKeys
    /\ \A k \in KeyId :
        /\ keys[k].calls = answered[k] + lost[k] + Cardinality(Metered(k))
        /\ keys[k].calls <= FreeTierCalls

-----------------------------------------------------------------------------
(* It is inductive, with the shape of the rows and of the requests: a      *)
(* request that has counted a call is counted itself, so there is one to   *)
(* give back when it asks for it.                                          *)
InFlight == [pc : {"idle", "insert", "exhausted", "serve", "refund",
                   "verify", "servePaid", "settle", "receipt"},
             key : KeyId \cup {None}]

Shape ==
    /\ keys \in [KeyId -> [issued : BOOLEAN, revoked : BOOLEAN, calls : Nat]]
    /\ answered \in [KeyId -> Nat]
    /\ lost \in [KeyId -> Nat]
    /\ requests \in [Request -> InFlight]
    /\ \A r \in Request :
            requests[r].pc \in {"insert", "exhausted", "serve", "refund"} => requests[r].key \in KeyId

Inv == Shape /\ CallsAccounted
=============================================================================
