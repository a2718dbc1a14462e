---------------------------- MODULE RequestGuards ----------------------------
(***************************************************************************)
(* The guards before every write of the Node registry: the clock skew of   *)
(* the signature, the fixed-window limit, the response cache and the       *)
(* pairing of a signature with one Idempotency-Key.  All four live in      *)
(* memory with lifetimes of their own and are lost on a restart.           *)
(*                                                                         *)
(* One agent and one operation: the caches are keyed by the agent.  A      *)
(* signature is what was signed, with the time it was dated; the signing   *)
(* string does not cover the key, so any signature comes with any key.     *)
(***************************************************************************)
EXTENDS FiniteSets, Integers

CONSTANTS
    Signature, Key, None,
    ClockSkew,          \* config.clockSkewMs
    ResponseTtl,        \* IDEMPOTENCY_TTL_MS
    Limit, Window,      \* createFixedWindowLimiter(limit, windowMs)
    MaxTime,            \* bound: the clock stops here
    MaxRestarts         \* bound: how often the process restarts

VARIABLES
    now,
    dated,              \* the timestamp in each signature
    responses,          \* idempotencyCache: expiresAt of each key
    pairing,            \* signatureReplayCache: key and expiresAt of each signature
    counter,            \* the limiter's entry of the agent
    ran, last,          \* history: the runs of the operation before the last, and the last
    admitted,           \* history: the calls let through since the start
    restarts

vars == <<now, dated, responses, pairing, counter, ran, last, admitted, restarts>>

\* No entry of a cache is fresh, and no window is open.
NoPairing == [key |-> None, expiresAt |-> 0]
NoCounter == [count |-> 0, windowStart |-> -Window]
NoRun == [sig |-> None, key |-> None, at |-> 0, ok |-> FALSE]

NoResponses == [k \in Key |-> 0]
NoPairings == [s \in Signature |-> NoPairing]

Init ==
    /\ now = 0
    /\ dated \in [Signature -> 0 .. MaxTime]
    /\ responses = NoResponses
    /\ pairing = NoPairings
    /\ counter = NoCounter
    /\ ran = {}
    /\ last = NoRun
    /\ admitted = {}
    /\ restarts = 0

-----------------------------------------------------------------------------
\* STALE_SIGNATURE otherwise: dated too long ago or too far ahead.
SignatureFresh(s) == now - dated[s] <= ClockSkew /\ dated[s] - now <= ClockSkew

\* Seeded fault: the call that opens a window is not counted.
CountFromZero ==
    IF now - counter.windowStart >= Window
    THEN [count |-> 0, windowStart |-> now]
    ELSE [counter EXCEPT !.count = @ + 1]

\* The first call after a window lapsed opens the next one.
CountCall ==
    IF now - counter.windowStart >= Window
    THEN [count |-> 1, windowStart |-> now]
    ELSE [counter EXCEPT !.count = @ + 1]

\* The call now let through: its window and its place in it tell it apart.
Admission == [window |-> CountCall.windowStart, nth |-> CountCall.count, at |-> now]

\* RATE_LIMITED otherwise.
WithinLimit ==
    now - counter.windowStart >= Window \/ counter.count < Limit

\* readFresh: an entry has expired from the moment it names.
Cached(k) == responses[k] > now
Paired(s) == pairing[s].expiresAt > now

\* Seeded fault: the response is kept as long as the signature.
ResponseLikeSignature == now + ClockSkew

ResponseExpiry == now + ResponseTtl

\* Seeded fault: the pairing is stored with the response.
PairOnSuccess(s, k, ok) ==
    IF Paired(s) \/ ~ok THEN pairing
    ELSE [pairing EXCEPT ![s] = [key |-> k, expiresAt |-> now + ClockSkew]]

\* The first use of a signature pairs it, whatever comes of the request.
PairFirst(s, k, ok) ==
    IF Paired(s) THEN pairing
    ELSE [pairing EXCEPT ![s] = [key |-> k, expiresAt |-> now + ClockSkew]]

\* A request that passes all guards runs the operation; only a 2xx is cached.
Run(s, k, ok) ==
    /\ SignatureFresh(s) /\ WithinLimit
    /\ ~Cached(k)
    /\ Paired(s) => pairing[s].key = k
    /\ counter' = CountCall
    /\ admitted' = admitted \cup {Admission}
    /\ pairing' = PairFirst(s, k, ok)
    /\ responses' = IF ok THEN [responses EXCEPT ![k] = ResponseExpiry] ELSE responses
    /\ ran' = IF last = NoRun THEN ran ELSE ran \cup {last}
    /\ last' = [sig |-> s, key |-> k, at |-> now, ok |-> ok]
    /\ UNCHANGED <<now, dated, restarts>>

\* The cached response, or REPLAYED_REQUEST: only the limiter notices.
AnswerWithoutRunning(s, k) ==
    /\ SignatureFresh(s) /\ WithinLimit
    /\ Cached(k) \/ (Paired(s) /\ pairing[s].key # k)
    /\ counter' = CountCall
    /\ admitted' = admitted \cup {Admission}
    /\ UNCHANGED <<now, dated, responses, pairing, ran, last, restarts>>

Restart ==
    /\ restarts < MaxRestarts
    /\ restarts' = restarts + 1
    /\ responses' = NoResponses
    /\ pairing' = NoPairings
    /\ counter' = NoCounter
    /\ ran' = {}
    /\ last' = NoRun
    /\ admitted' = {}
    /\ UNCHANGED <<now, dated>>

Tick ==
    /\ now < MaxTime
    /\ now' = now + 1
    /\ UNCHANGED <<dated, responses, pairing, counter, ran, last, admitted, restarts>>

Next ==
    \/ Tick \/ Restart
    \/ \E s \in Signature, k \in Key :
        AnswerWithoutRunning(s, k) \/ \E ok \in BOOLEAN : Run(s, k, ok)

Spec == Init /\ [][Next]_vars

-----------------------------------------------------------------------------
(* A retry of an operation that succeeded is answered from the cache: as   *)
(* long as the process lives, an operation runs again under the same key   *)
(* only when the response has lapsed, whatever failed attempts and other   *)
(* signatures came in between (requireIdempotencyKey).                     *)
RetryIsCached ==
    \A e \in ran : e.ok /\ e.key = last.key => last.at >= e.at + ResponseTtl

(* One signature runs the operation under two keys only if its pairing with *)
(* the first has lapsed, and then it was dated at the server's time of     *)
(* that pairing or ahead of it: db.ts takes the two lifetimes to end       *)
(* together, but a signature is still fresh at the very moment the pairing *)
(* lapses, and longer if its clock ran ahead (signatureReplayCache).       *)
SignatureBound ==
    \A e \in ran : e.sig = last.sig /\ e.key # last.key =>
        \E f \in ran : /\ f.sig = e.sig /\ f.key = e.key
                       /\ last.at >= f.at + ClockSkew
                       /\ dated[f.sig] >= f.at

(* The fixed window admits more than the limit around its boundary, but    *)
(* never twice the limit within one window's length                        *)
(* (createFixedWindowLimiter).                                             *)
RateBounded ==
    \A t \in 0 .. now :
        Cardinality({e \in admitted : t - Window < e.at /\ e.at <= t}) < 2 * Limit
=============================================================================
