------------------------------- MODULE SdkCalls -------------------------------
(***************************************************************************)
(* The calls of the two SDKs on one job, end to end: a method derives its  *)
(* Idempotency-Key from its arguments, the Worker authenticates the caller,*)
(* looks the key up in an eventually consistent store, and runs a handler  *)
(* that reads, checks and ends in one conditional write.  Callers repeat a *)
(* call they got no answer for; repeats overlap with the first run.        *)
(*                                                                         *)
(* A call is its method and arguments.  Left out: calls whose keys hold    *)
(* the time (posting a job, link challenges, verifier status), linking and *)
(* disputes, and what a handler only logs.                                 *)
(***************************************************************************)
EXTENDS FiniteSetsExt, Naturals

CONSTANTS
    Poster, Worker,     \* who posted the job, and who may offer
    Result,             \* results a worker may submit for the job
    None,
    MaxRunning,         \* bound on the requests the Worker runs at once
    MaxSends,           \* bound on the requests sent
    MaxRepeats          \* bound on the requests per call

VARIABLES
    job,                \* status, acceptedAgentId and offers
    receipts,           \* status of each receipt: its worker and result
    retired,            \* IDs revoked
    responses,          \* the store: keys with a response, and the call that made it
    running,            \* the request in each slot, past its checks
    sends,              \* requests sent per call
    effects,            \* history: writes per call
    answered            \* history: calls answered with success

vars == <<job, receipts, retired, responses, running, sends, effects, answered>>

-----------------------------------------------------------------------------
(* The methods of the SDKs: who calls, what, and under which key. *)

OfferCall(w) == [op |-> "offer", by |-> w, key |-> <<"offer">>, of |-> None]
AcceptCall(w) == [op |-> "accept", by |-> Poster, key |-> <<"accept", w>>, of |-> w]
CancelCall == [op |-> "cancel", by |-> Poster, key |-> <<"cancel">>, of |-> None]
ReportCall == [op |-> "report", by |-> Poster, key |-> <<"report">>, of |-> None]
RevokeCall(x) == [op |-> "revoke", by |-> x, key |-> <<"revoke">>, of |-> None]

\* The key of a receipt names its job only.
SubmitWorkCall(w, r) == [op |-> "draft", by |-> w, key |-> <<"receipt">>, of |-> <<w, r>>]

AcceptWorkCall(w, r) ==
    [op |-> "countersign", by |-> Poster, key |-> <<"countersign", w, r>>, of |-> <<w, r>>]

Call ==
    {CancelCall, ReportCall}
    \cup (UNION {{OfferCall(w), AcceptCall(w)} : w \in Worker})
    \cup {RevokeCall(x) : x \in Worker \cup {Poster}}
    \cup (UNION {{SubmitWorkCall(w, r), AcceptWorkCall(w, r)} : w \in Worker, r \in Result})

Slot == 1 .. MaxRunning

Init ==
    /\ job = [status |-> "open", acceptedAgentId |-> None, offers |-> {}]
    /\ receipts = [p \in Worker \X Result |-> "none"]
    /\ retired = {}
    /\ responses = {}
    /\ running = [s \in Slot |-> None]
    /\ sends = [c \in Call |-> 0]
    /\ effects = [c \in Call |-> 0]
    /\ answered = {}

-----------------------------------------------------------------------------
(* The handlers: what they check first, and the write they end in. *)

\* Writes are refused to IDs revoked, their own earlier requests included.
Authentic(c) == c.by \notin retired

\* Expiry and the grace period are left out: both may be over at any moment.
Checked(c) ==
    CASE c.op = "offer" -> job.status = "open"
      [] c.op = "accept" -> c.of \in job.offers
      [] c.op = "cancel" -> TRUE
      [] c.op = "report" -> job.status = "accepted"
      [] c.op = "revoke" -> TRUE
      [] c.op = "draft" -> job.status = "accepted" /\ job.acceptedAgentId = c.by
      [] c.op = "countersign" -> receipts[c.of] = "draft"

\* Seeded fault: the statement does not mind a job accepted since.
AcceptableAgain == job.status \in {"open", "accepted"}

Acceptable == job.status = "open"

\* Whether the statement finds the row as its condition wants it.
Applies(c) ==
    CASE c.op = "offer" -> c.by \notin job.offers
      [] c.op = "accept" -> Acceptable
      [] c.op = "cancel" -> job.status \in {"open", "accepted"}
      [] c.op = "report" -> job.status = "accepted"
      [] c.op = "revoke" -> c.by \notin retired
      [] c.op = "draft" -> receipts[c.of] = "none"
      [] c.op = "countersign" -> receipts[c.of] = "draft"

JobAfter(c) ==
    CASE c.op = "offer" -> [job EXCEPT !.offers = @ \cup {c.by}]
      [] c.op = "accept" -> [job EXCEPT !.status = "accepted", !.acceptedAgentId = c.of]
      [] c.op = "cancel" -> [job EXCEPT !.status = "cancelled"]
      [] c.op = "report" -> [job EXCEPT !.status = "nonperformed"]
      [] OTHER -> job

ReceiptsAfter(c) ==
    CASE c.op = "draft" -> [receipts EXCEPT ![c.of] = "draft"]
      [] c.op = "countersign" -> [receipts EXCEPT ![c.of] = "finalized"]
      [] OTHER -> receipts

-----------------------------------------------------------------------------
(* A request. *)

CacheKey(c) == <<c.by, c.key>>

Cached(c) == \E e \in responses : e.key = CacheKey(c)

\* Bound on requests.
MaySend(c) ==
    /\ sends[c] < MaxRepeats
    /\ MapThenSumSet(LAMBDA d : sends[d], Call) < MaxSends

\* The store has the key: answered without running anything.
AnswerFromStore(c) ==
    /\ Authentic(c) /\ Cached(c) /\ MaySend(c)
    /\ sends' = [sends EXCEPT ![c] = @ + 1]
    /\ answered' = answered \cup {c}
    /\ UNCHANGED <<job, receipts, retired, responses, running, effects>>

\* The store has no response, or not yet here: the handler runs up to its write.
\* A request that fails before that changes nothing.
Start(s, c) ==
    /\ running[s] = None /\ \A t \in 1 .. s - 1 : running[t] # None
    /\ Authentic(c) /\ Checked(c) /\ MaySend(c)
    /\ sends' = [sends EXCEPT ![c] = @ + 1]
    /\ running' = [running EXCEPT ![s] = [call |-> c, pc |-> "write"]]
    /\ UNCHANGED <<job, receipts, retired, responses, effects, answered>>

\* The write; when it does not apply, the caller gets a conflict.
Write(s) ==
    LET c == running[s].call IN
    /\ running[s] # None /\ running[s].pc = "write"
    /\ IF Applies(c)
       THEN /\ job' = JobAfter(c)
            /\ receipts' = ReceiptsAfter(c)
            /\ retired' = IF c.op = "revoke" THEN retired \cup {c.by} ELSE retired
            /\ effects' = [effects EXCEPT ![c] = @ + 1]
            /\ running' = [running EXCEPT ![s].pc =
                   IF c.op = "countersign" THEN "complete" ELSE "respond"]
       ELSE /\ running' = [running EXCEPT ![s] = None]
            /\ UNCHANGED <<job, receipts, retired, effects>>
    /\ UNCHANGED <<responses, sends, answered>>

\* The job of a finalized receipt is completed in a second write.
CompleteJob(s) ==
    /\ running[s] # None /\ running[s].pc = "complete"
    /\ job' = IF job.status = "accepted" THEN [job EXCEPT !.status = "completed"] ELSE job
    /\ running' = [running EXCEPT ![s].pc = "respond"]
    /\ UNCHANGED <<receipts, retired, responses, sends, effects, answered>>

\* The response is stored, then sent; it may not arrive.
Respond(s, arrives) ==
    LET c == running[s].call IN
    /\ running[s] # None /\ running[s].pc = "respond"
    /\ running' = [running EXCEPT ![s] = None]
    /\ responses' = {e \in responses : e.key # CacheKey(c)} \cup {[key |-> CacheKey(c), of |-> c]}
    /\ answered' = IF arrives THEN answered \cup {c} ELSE answered
    /\ UNCHANGED <<job, receipts, retired, sends, effects>>

\* The Worker ends between two steps of a request.
Lose(s) ==
    /\ running[s] # None
    /\ running' = [running EXCEPT ![s] = None]
    /\ UNCHANGED <<job, receipts, retired, responses, sends, effects, answered>>

Next ==
    \/ \E c \in Call : AnswerFromStore(c)
    \/ \E s \in Slot :
        \/ Write(s) \/ CompleteJob(s) \/ Lose(s)
        \/ \E c \in Call : Start(s, c)
        \/ \E arrives \in BOOLEAN : Respond(s, arrives)

Spec == Init /\ [][Next]_vars

-----------------------------------------------------------------------------
(* Exactly once: whatever was repeated, lost or missed in the store, a     *)
(* call never takes effect twice, and a call answered with success has     *)
(* taken effect, not just some other call with its key.  The one exception *)
(* is a result submitted after another for the same job: the key           *)
(* receipt:<jobId> answers it with the receipt of the first.               *)
SameKeyDraft(c, d) == c.op = "draft" /\ CacheKey(d) = CacheKey(c)

CallsHonoured ==
    \A c \in Call :
        /\ effects[c] <= 1
        /\ c \in answered => \E d \in Call :
                                /\ d = c \/ SameKeyDraft(c, d)
                                /\ effects[d] = 1

-----------------------------------------------------------------------------
(* The invariant behind CallsHonoured. *)

InFlight == [call : Call, pc : {"write", "complete", "respond"}]

Shape ==
    /\ job \in [status : {"open", "accepted", "completed", "cancelled", "nonperformed"},
                acceptedAgentId : Worker \cup {None}, offers : SUBSET Worker]
    /\ receipts \in [Worker \X Result -> {"none", "draft", "finalized"}]
    /\ running \in [Slot -> InFlight \cup {None}]
    /\ effects \in [Call -> {0, 1}]

\* The rows rule out for ever that the write of this call applies (again).
Past(c) ==
    CASE c.op = "offer" -> c.by \in job.offers
      [] c.op = "accept" -> job.status # "open"
      [] c.op \in {"cancel", "report"} -> job.status \notin {"open", "accepted"}
      [] c.op = "revoke" -> c.by \in retired
      [] c.op = "draft" -> receipts[c.of] # "none"
      [] c.op = "countersign" -> receipts[c.of] = "finalized"

EffectsPast == \A c \in Call : effects[c] = 1 => Past(c)

\* What is about to be answered, stored or was answered has taken effect.
RespondsToEffect ==
    \A s \in Slot : running[s] # None /\ running[s].pc # "write" => effects[running[s].call] = 1

ResponsesBacked ==
    \A e \in responses : \E d \in Call : e.key = CacheKey(d) /\ effects[d] = 1

Inv == Shape /\ EffectsPast /\ RespondsToEffect /\ ResponsesBacked /\ CallsHonoured
=============================================================================
