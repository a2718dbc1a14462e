----------------------------- MODULE HttpReceipts -----------------------------
(***************************************************************************)
(* Receipts over HTTP (http.ts): a worker wraps its handler and drafts a   *)
(* receipt for every answer, in the background if it likes; the requester  *)
(* wraps fetch and countersigns, also in the background, what it asked for *)
(* and got.  Several calls of one requester are under way at once.         *)
(*                                                                         *)
(* A receipt is its content, so it is its own ID.  Hashes are the hashed:  *)
(* a request and a body.  Answers may come from a worker that does not use *)
(* the wrapper or mixes its receipts up, and name any receipt drafted so far.  *)
(***************************************************************************)
EXTENDS FiniteSets, Naturals

CONSTANTS
    MaxCalls,           \* bound on the calls of the requester, numbered as they are made
    Request, Body,
    Requester, Other,   \* the requester, and another client of the worker
    Job,                \* what randomUUID returns
    None,
    Retries,            \* opts.retries
    MaxForeign          \* bound on receipts drafted without the wrapper

VARIABLES
    calls,              \* each call: its step, request, answer and tries
    drafting,           \* submitWork calls of the wrapper under way
    status,             \* status in the registry of each receipt there
    used,               \* jobs the wrapper has named
    signed,             \* history: receipts the requester put its signature under
    foreign

vars == <<calls, drafting, status, used, signed, foreign>>

Call == 1 .. MaxCalls

Receipt == [job : Job, a : {Requester, Other}, spec : Request, out : Body]

NewCall == [pc |-> "new", req |-> None, res |-> None, receipt |-> None, tries |-> 0]

Init ==
    /\ calls = [c \in Call |-> NewCall]
    /\ drafting = {}
    /\ status = [r \in {} |-> "draft"]
    /\ used = {}
    /\ signed = {}
    /\ foreign = 0

Step(c, new) == calls' = [calls EXCEPT ![c] = new]

-----------------------------------------------------------------------------
(* The worker: inamReceipts. *)

\* The requester names itself in the header.
Send(c, q) ==
    /\ calls[c].pc = "new"
    /\ \A d \in 1 .. c - 1 : calls[d].pc # "new"
    /\ Step(c, [calls[c] EXCEPT !.pc = "sent", !.req = q])
    /\ UNCHANGED <<drafting, status, used, signed, foreign>>

\* The handler answers 2xx: the wrapper submits a draft with a job of its own, and
\* answers with its ID, by default after the draft has been taken or has failed.
Handle(c, b, j) ==
    /\ calls[c].pc = "sent"
    /\ j \notin used
    /\ used' = used \cup {j}
    /\ LET r == [job |-> j, a |-> Requester, spec |-> calls[c].req, out |-> b] IN
        /\ drafting' = drafting \cup {r}
        /\ Step(c, [calls[c] EXCEPT !.pc = "fetch", !.res = b, !.receipt = r])
    /\ UNCHANGED <<status, signed, foreign>>

\* The registry takes the draft, whatever has become of the call.
Draft(r) ==
    /\ r \in drafting
    /\ drafting' = drafting \ {r}
    /\ status' = [x \in DOMAIN status \cup {r} |-> IF x = r THEN "draft" ELSE status[x]]
    /\ UNCHANGED <<calls, used, signed, foreign>>

\* onError: the header names the receipt all the same.
DraftFails(r) ==
    /\ r \in drafting
    /\ drafting' = drafting \ {r}
    /\ UNCHANGED <<calls, status, used, signed, foreign>>

-----------------------------------------------------------------------------
(* Workers without the wrapper. *)

DraftForeign(r) ==
    /\ foreign < MaxForeign
    /\ r \notin DOMAIN status \cup drafting
    /\ foreign' = foreign + 1
    /\ used' = used \cup {r.job}
    /\ status' = [x \in DOMAIN status \cup {r} |-> IF x = r THEN "draft" ELSE status[x]]
    /\ UNCHANGED <<calls, drafting, signed>>

AnswerForeign(c, b, r) ==
    /\ calls[c].pc = "sent"
    /\ r \in DOMAIN status \cup drafting
    /\ Step(c, [calls[c] EXCEPT !.pc = "fetch", !.res = b, !.receipt = r])
    /\ UNCHANGED <<drafting, status, used, signed, foreign>>

-----------------------------------------------------------------------------
(* The requester: inamFetch. *)

\* An answer without a receipt, or not 2xx: nothing to countersign.
ReturnPlain(c) ==
    /\ calls[c].pc = "sent"
    /\ Step(c, [calls[c] EXCEPT !.pc = "done"])
    /\ UNCHANGED <<drafting, status, used, signed, foreign>>

\* A draft is shown to its parties only; a finalized receipt to everyone.
Readable(r) ==
    r \in DOMAIN status /\ (r.a = Requester \/ status[r] = "finalized")

\* Seeded fault: the receipt is compared with the response alone.
NamesSomeRequest(c, r) == r.spec \in Request

NamesRequest(c, r) == r.spec = calls[c].req

\* What was read is compared at once; then accept may take its time.
Fetch(c) ==
    LET r == calls[c].receipt IN
    /\ calls[c].pc = "fetch"
    /\ Readable(r)
    /\ Step(c, [calls[c] EXCEPT !.pc =
            IF NamesRequest(c, r) /\ status[r] = "draft" THEN "accept" ELSE "done"])
    /\ UNCHANGED <<drafting, status, used, signed, foreign>>

\* A background draft may not be there yet; retried a few times, then given up.
FetchFails(c) ==
    /\ calls[c].pc = "fetch"
    /\ ~Readable(calls[c].receipt)
    /\ Step(c, IF calls[c].tries >= Retries
               THEN [calls[c] EXCEPT !.pc = "done"]
               ELSE [calls[c] EXCEPT !.tries = @ + 1])
    /\ UNCHANGED <<drafting, status, used, signed, foreign>>

\* The callback accept turned the output down.
Decline(c) ==
    /\ calls[c].pc = "accept"
    /\ Step(c, [calls[c] EXCEPT !.pc = "done"])
    /\ UNCHANGED <<drafting, status, used, signed, foreign>>

\* acceptWork throws before it signs unless this holds.
MayAccept(c, r) == r.a = Requester /\ r.out = calls[c].res

AcceptWork(c) ==
    LET r == calls[c].receipt IN
    /\ calls[c].pc = "accept"
    /\ IF MayAccept(c, r)
       THEN /\ signed' = signed \cup {r}
            /\ Step(c, [calls[c] EXCEPT !.pc = "countersign"])
       ELSE /\ Step(c, [calls[c] EXCEPT !.pc = "done"])
            /\ UNCHANGED signed
    /\ UNCHANGED <<drafting, status, used, foreign>>

\* NOT_DRAFT if another call has countersigned it meanwhile.
Countersign(c) ==
    LET r == calls[c].receipt IN
    /\ calls[c].pc = "countersign"
    /\ Step(c, [calls[c] EXCEPT !.pc = "done"])
    /\ status' = IF status[r] = "draft" THEN [status EXCEPT ![r] = "finalized"] ELSE status
    /\ UNCHANGED <<drafting, used, signed, foreign>>

Next ==
    \/ \E c \in Call :
        \/ ReturnPlain(c) \/ Fetch(c) \/ FetchFails(c)
        \/ Decline(c) \/ AcceptWork(c) \/ Countersign(c)
        \/ \E q \in Request : Send(c, q)
        \/ \E b \in Body : \/ \E j \in Job : Handle(c, b, j)
                           \/ \E r \in Receipt : AnswerForeign(c, b, r)
    \/ \E r \in drafting : Draft(r) \/ DraftFails(r)
    \/ \E r \in Receipt : DraftForeign(r)

Spec == Init /\ [][Next]_vars

-----------------------------------------------------------------------------
(* A signature of the requester stands under receipts of what was really   *)
(* delivered, and no more of them than deliveries: for every request and   *)
(* body it has signed at most as many receipts as it has made calls with   *)
(* that request which were answered with that body, whatever the answers   *)
(* name, however drafts and countersigns of concurrent calls interleave    *)
(* (countersign, acceptWork).                                              *)
SignedForDelivered ==
    /\ \A r \in signed : r.a = Requester
    /\ \A q \in Request, b \in Body :
        Cardinality({r \in signed : r.spec = q /\ r.out = b})
            <= Cardinality({c \in Call : calls[c].req = q /\ calls[c].res = b})

-----------------------------------------------------------------------------
(* The invariant behind SignedForDelivered. *)

Shape ==
    /\ calls \in [Call -> [pc : {"new", "sent", "fetch", "accept", "countersign", "done"},
                           req : Request \cup {None}, res : Body \cup {None},
                           receipt : Receipt \cup {None}, tries : Nat]]
    /\ drafting \subseteq Receipt
    /\ DOMAIN status \subseteq Receipt

SentForRequest == \A c \in Call : calls[c].pc = "sent" => calls[c].req \in Request

\* What goes to the callback is a receipt of the request of this call.
AcceptsOwn ==
    \A c \in Call : calls[c].pc = "accept" =>
        calls[c].receipt \in Receipt /\ NamesRequest(c, calls[c].receipt)

\* The call whose delivery r was signed for; no call signs twice.
SignedIn(r, c) ==
    /\ calls[c].pc \in {"countersign", "done"}
    /\ calls[c].receipt = r /\ calls[c].req = r.spec /\ calls[c].res = r.out

SignedByCalls == \A r \in signed : r.a = Requester /\ \E c \in Call : SignedIn(r, c)

Inv == Shape /\ SentForRequest /\ AcceptsOwn /\ SignedByCalls
=============================================================================
