------------------------------ MODULE Visibility ------------------------------
(***************************************************************************)
(* Who is shown a receipt in the Worker.  A draft, and a receipt that is   *)
(* participants_only, is for its two parties and for the verifiers who     *)
(* have attested it; a job hides behind the receipt it is linked to; the   *)
(* log publishes the payload of an event only of an unrestricted receipt.  *)
(* Every route reads in several statements, and the receipt moves on in    *)
(* between.                                                                *)
(*                                                                         *)
(* All receipts are drafts of one job, which starts out accepted, so they  *)
(* have the same two parties.  Who may dispute, and until when, is         *)
(* WorkerReceipts' subject; here anybody in time may.                      *)
(***************************************************************************)

CONSTANTS
    None,               \* a caller who does not sign; a job without a receipt
    Requester, Provider,
    Verifier,           \* the authorized verifiers
    Stranger,
    Receipt,
    Request             \* bound: how many requests can be in flight at once

Party == {Requester, Provider}
Caller == Party \cup Verifier \cup {Stranger, None}

\* Whoever happens to ask, where the code does not look at who does.
Anybody == "anybody"

VARIABLES
    receipts,           \* status and visibility of the rows of receipts
    job,                \* receipt_id of the job: None while it is accepted
    verifications,      \* verifier and receipt of the verifications table
    published,          \* receipts with a payload in the transparency log
    shown,              \* who was ever shown something of which receipt
    requests

vars == <<receipts, job, verifications, published, shown, requests>>

NoRow == [status |-> "absent", visibility |-> "public"]

NoRequest == [pc |-> "idle", op |-> "none", caller |-> None, receipt |-> None,
              verifier |-> None, row |-> NoRow]

Init ==
    /\ receipts = [r \in Receipt |-> NoRow]
    /\ job = None
    /\ verifications = {}
    /\ published = {}
    /\ shown = {}
    /\ requests = [q \in Request |-> NoRequest]

Answer(q) == requests' = [requests EXCEPT ![q] = NoRequest]

Begin(q, op, caller, r, pc, row) ==
    /\ requests[q].pc = "idle"
    /\ requests' = [requests EXCEPT ![q] =
            [pc |-> pc, op |-> op, caller |-> caller, receipt |-> r, verifier |-> None,
             row |-> row]]

-----------------------------------------------------------------------------
(* The handlers that write. *)

\* The visibility is the drafter's choice and no later write changes it.
\* The job was read before, when it was still accepted.
CreateDraft(r, visibility) ==
    /\ receipts[r] = NoRow
    /\ receipts' = [receipts EXCEPT ![r] = [status |-> "draft", visibility |-> visibility]]
    /\ UNCHANGED <<job, verifications, published, shown, requests>>

\* The status each operation requires of the row, and the one it writes.
From == [countersign |-> "draft", openDispute |-> "finalized", resolveDispute |-> "disputed"]
To == [countersign |-> "finalized", openDispute |-> "disputed", resolveDispute |-> "finalized"]

ReadForWrite(q, op, r) ==
    /\ receipts[r].status = From[op]
    /\ Begin(q, op, Requester, r, "write", [receipts[r] EXCEPT !.status = To[op]])
    /\ UNCHANGED <<receipts, job, verifications, published, shown>>

\* The whole row read before is written back, if the status is still the one required.
WriteReceipt(q) ==
    LET r == requests[q].receipt
        applies == receipts[r].status = From[requests[q].op] IN
    /\ requests[q].pc = "write"
    /\ receipts' = IF applies THEN [receipts EXCEPT ![r] = requests[q].row] ELSE receipts
    /\ IF applies
       THEN requests' = [requests EXCEPT ![q].pc = IF requests[q].op = "countersign"
                                                   THEN "complete" ELSE "log"]
       ELSE Answer(q)
    /\ UNCHANGED <<job, verifications, published, shown>>

CompleteJobIfAccepted(q) ==
    /\ requests[q].pc = "complete"
    /\ job' = IF job = None THEN requests[q].receipt ELSE job
    /\ requests' = [requests EXCEPT ![q].pc = "log"]
    /\ UNCHANGED <<receipts, verifications, published, shown>>

\* Seeded fault: the payload of every event is published.
PublishAlways(row) == TRUE

\* The last argument of appendEntry.
Publishable(row) == row.visibility # "participants_only"

AppendEntry(q) ==
    /\ requests[q].pc = "log"
    /\ published' = IF Publishable(requests[q].row)
                    THEN published \cup {requests[q].receipt} ELSE published
    /\ Answer(q)
    /\ UNCHANGED <<receipts, job, verifications, shown>>

\* A verifier has the receipt's JSON from a party and needs no read to attest it.
ReadForVerification(q, v, r) ==
    /\ receipts[r].status = "finalized"
    /\ <<v, r>> \notin verifications
    /\ Begin(q, "verify", v, r, "insert", NoRow)
    /\ UNCHANGED <<receipts, job, verifications, published, shown>>

InsertVerification(q) ==
    /\ requests[q].pc = "insert"
    /\ verifications' = verifications \cup {<<requests[q].caller, requests[q].receipt>>}
    /\ Answer(q)
    /\ UNCHANGED <<receipts, job, published, shown>>

-----------------------------------------------------------------------------
(* The routes that read. *)

\* Seeded fault: a draft is as visible as its drafter asked for.
RestrictedByChoice(row) == row.visibility = "participants_only"

IsReceiptRestricted(row) == row.visibility = "participants_only" \/ row.status = "draft"

IsReceiptVisible(row, caller, isVerifier) ==
    ~IsReceiptRestricted(row) \/ caller \in Party \/ isVerifier

\* GET of a receipt, of its verifications, and its hosted check begin alike.
GetReceipt(q, caller, r) ==
    /\ receipts[r] # NoRow
    /\ Begin(q, "receipt", caller, r, "lookup", receipts[r])
    /\ UNCHANGED <<receipts, job, verifications, published, shown>>

\* An agent's receipts: each is judged by itself, so one stands for the list.
\* A paid report lists them as a caller who does not sign.
ListByAgent(q, caller, r) ==
    /\ receipts[r] # NoRow
    /\ Begin(q, "list", caller, r, "lookup", receipts[r])
    /\ UNCHANGED <<receipts, job, verifications, published, shown>>

\* isJobVisible; a job without a receipt has nothing of one to show.
GetJob(q, caller) ==
    /\ job # None
    /\ Begin(q, "job", caller, job, "read", NoRow)
    /\ UNCHANGED <<receipts, job, verifications, published, shown>>

ReadsReceiptOfJob(q) == requests[q].pc = "read" /\ requests[q].op = "job"

GetReceiptOfJob(q) ==
    /\ ReadsReceiptOfJob(q)
    /\ requests' = [requests EXCEPT ![q].pc = "lookup",
                                    ![q].row = receipts[requests[q].receipt]]
    /\ UNCHANGED <<receipts, job, verifications, published, shown>>

\* callerIsVerifierOf; the list asks only for a receipt that is restricted by choice.
IsVerifierOf(request) ==
    /\ request.caller # None
    /\ request.op = "list" => request.row.visibility = "participants_only"
    /\ <<request.caller, request.receipt>> \in verifications

Show(q, caller) ==
    /\ shown' = shown \cup {<<caller, requests[q].receipt>>}
    /\ Answer(q)
    /\ UNCHANGED <<receipts, job, verifications, published>>

Refuse(q) == Answer(q) /\ UNCHANGED <<receipts, job, verifications, published, shown>>

Decide(q, visible) == IF visible THEN Show(q, requests[q].caller) ELSE Refuse(q)

\* The read of the linked receipt fails: the catch shows the job to anybody.
ReceiptOfJobUnread(q) == ReadsReceiptOfJob(q) /\ Show(q, Anybody)

ListByReceipt(q) ==
    /\ requests[q].pc = "lookup"
    /\ Decide(q, IsReceiptVisible(requests[q].row, requests[q].caller,
                                  IsVerifierOf(requests[q])))

GetVerification(q, caller, v, r) ==
    /\ <<v, r>> \in verifications
    /\ requests[q].pc = "idle"
    /\ requests' = [requests EXCEPT ![q] =
            [pc |-> "read", op |-> "verification", caller |-> caller, receipt |-> r,
             verifier |-> v, row |-> NoRow]]
    /\ UNCHANGED <<receipts, job, verifications, published, shown>>

\* A verification is shown to its own verifier, not to another one of the receipt.
GetVisibleVerification(q) ==
    LET request == requests[q] IN
    /\ request.pc = "read"
    /\ request.op = "verification"
    /\ Decide(q, IsReceiptVisible(receipts[request.receipt], request.caller,
                                  request.caller = request.verifier))

\* The isolate is evicted at an await, or a statement fails and nothing
\* catches it: any but the one of ReceiptOfJobUnread.
Fail(q) == requests[q].pc # "idle" /\ Refuse(q)

Next ==
    \/ \E r \in Receipt, visibility \in {"public", "participants_only"} :
            CreateDraft(r, visibility)
    \/ \E q \in Request :
        \/ \E r \in Receipt :
            \/ \E op \in DOMAIN From : ReadForWrite(q, op, r)
            \/ \E v \in Verifier : ReadForVerification(q, v, r)
            \/ \E caller \in Caller : GetReceipt(q, caller, r) \/ ListByAgent(q, caller, r)
            \/ \E caller \in Caller, v \in Verifier : GetVerification(q, caller, v, r)
        \/ \E caller \in Caller : GetJob(q, caller)
        \/ WriteReceipt(q) \/ AppendEntry(q) \/ CompleteJobIfAccepted(q)
        \/ InsertVerification(q) \/ GetReceiptOfJob(q) \/ ReceiptOfJobUnread(q)
        \/ ListByReceipt(q) \/ GetVisibleVerification(q) \/ Fail(q)

Spec == Init /\ [][Next]_vars

-----------------------------------------------------------------------------
Entitled(caller, r) ==
    \/ receipts[r].visibility = "public" /\ receipts[r].status \notin {"absent", "draft"}
    \/ caller \in Party
    \/ <<caller, r>> \in verifications

\* The record of the job of a receipt that could not be read.
ShownUnread(s) == s = <<Anybody, job>>

(* Whoever was ever shown something of a receipt, in any of the routes and *)
(* however its reads were overtaken, is entitled to it now, and so is      *)
(* everybody to what the log has published: nobody's right to a receipt is *)
(* ever withdrawn, so no row read before can show more than the current    *)
(* one (assertReceiptVisible, isJobVisible, getVisibleVerification,        *)
(* appendEntry).  The exception is a job whose linked receipt could not be *)
(* read: isJobVisible then shows it to everybody.  Nothing of any other    *)
(* receipt gets out that way.                                              *)
ShownToEntitled ==
    /\ \A s \in shown : Entitled(s[1], s[2]) \/ ShownUnread(s)
    /\ \A r \in published : Entitled(None, r)

-----------------------------------------------------------------------------
(* What is proved of it on the way. *)

\* What the proofs assume of the constants.
Parameters ==
    /\ None \notin Party \cup Verifier \cup Receipt
    /\ Stranger \notin Party \cup Verifier

Row == {NoRow} \cup [status : {"draft", "finalized", "disputed"},
                      visibility : {"public", "participants_only"}]

InFlight == [pc : {"idle", "write", "log", "complete", "insert", "read", "lookup"},
             op : {"none", "countersign", "openDispute", "resolveDispute", "verify",
                   "receipt", "list", "job", "verification"},
             caller : Caller, receipt : Receipt \cup {None},
             verifier : Verifier \cup {None}, row : Row]

Exists(row) == row.status # "absent"

\* Both parties have acted on it: it is there and is no draft.
Acted(row) == row.status \in {"finalized", "disputed"}

\* A row as it was read, against the row there is now.
ReadOf(old, row) ==
    /\ Exists(old)
    /\ old.visibility = row.visibility
    /\ Acted(old) => Acted(row)

\* What a request holds agrees with the tables in all that decides a right to read.
RequestSound(request) ==
    LET row == receipts[request.receipt] IN
    /\ request \in InFlight
    /\ request.pc # "idle" => request.receipt \in Receipt /\ Exists(row)
    /\ request.pc = "write" => /\ request.op \in DOMAIN From
                               /\ Acted(request.row)
                               /\ request.row.visibility = row.visibility
    /\ request.pc \in {"complete", "log"} =>
            Acted(row) /\ request.row.visibility = row.visibility
    /\ request.pc = "lookup" => ReadOf(request.row, row)
    /\ request.pc = "insert" => request.caller \in Verifier
    /\ request.pc = "read" /\ request.op = "verification" =>
            <<request.verifier, request.receipt>> \in verifications
    /\ request.pc = "read" /\ request.op = "job" => job # None /\ request.receipt = job

\* The shape of the tables; what they refer to exists.
TablesSound ==
    /\ receipts \in [Receipt -> Row]
    /\ job # None => job \in Receipt /\ Exists(receipts[job])
    /\ verifications \subseteq Verifier \X Receipt
    /\ \A v \in verifications : Exists(receipts[v[2]])
    /\ requests \in [Request -> InFlight]

RequestsSound == \A q \in Request : RequestSound(requests[q])

\* Only receipts that exist were shown or published, to callers there are.
ShownExist ==
    /\ shown \subseteq (Caller \cup {Anybody}) \X Receipt
    /\ published \subseteq Receipt
    /\ \A s \in shown : Exists(receipts[s[2]])
    /\ \A r \in published : Acted(receipts[r])

Inv == TablesSound /\ RequestsSound /\ ShownExist /\ ShownToEntitled

\* What every step does to the tables: rows keep their visibility and never
\* go back, verifications are never removed, a job keeps its receipt.
Grows ==
    /\ receipts' \in [Receipt -> Row]
    /\ \A r \in Receipt : Exists(receipts[r]) =>
            /\ receipts'[r].visibility = receipts[r].visibility
            /\ Exists(receipts'[r])
            /\ Acted(receipts[r]) => Acted(receipts'[r])
    /\ verifications \subseteq verifications'
    /\ job # None => job' = job

\* Open to everybody, in the words of the proof, of the property and of the code.
Open(row) == row.visibility = "public" /\ Acted(row)

\* Steps of a request that only read, or end it.
ReadStep(q) ==
    \/ \E r \in Receipt :
        \/ \E op \in DOMAIN From : ReadForWrite(q, op, r)
        \/ \E v \in Verifier : ReadForVerification(q, v, r)
        \/ \E caller \in Caller : GetReceipt(q, caller, r) \/ ListByAgent(q, caller, r)
        \/ \E caller \in Caller, v \in Verifier : GetVerification(q, caller, v, r)
    \/ \E caller \in Caller : GetJob(q, caller)
    \/ GetReceiptOfJob(q)
    \/ Fail(q)
=============================================================================
