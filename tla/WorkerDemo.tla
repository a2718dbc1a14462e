------------------------------ MODULE WorkerDemo ------------------------------
(***************************************************************************)
(* The hosted demo counterparty of the Worker.  It issues tasks that carry *)
(* their own issue time and countersigns the receipts drafted for them, at *)
(* most DEMO_RECEIPTS_PER_AGENT for one agent: the finalized ones are      *)
(* counted first and the receipt is countersigned some awaits later.  The  *)
(* agent may dispute its receipts and withdraw: a disputed one is not      *)
(* counted.                                                                *)
(*                                                                         *)
(* One agent; its work is correct: a receipt refused for its content       *)
(* changes nothing.  The dispute window outlasts the bound on time.        *)
(***************************************************************************)
EXTENDS FiniteSets, Naturals

CONSTANTS
    None,
    Receipt,            \* the receipts the agent may draft
    Request,            \* bound: how many requests can be in flight at once
    DemoReceiptsPerAgent,   \* DEMO_RECEIPTS_PER_AGENT
    DemoTaskTtl,        \* DEMO_TASK_TTL_MS
    MaxTime             \* bound: the clock stops here

VARIABLES
    now,
    tasks,              \* issue times of the tasks handed out
    receipts,           \* status and issue time of the task named by the jobId
    requests

vars == <<now, tasks, receipts, requests>>

\* "disputedOnce" says that the receipt has a dispute object.
NoReceipt == [status |-> "absent", issuedAt |-> 0, disputedOnce |-> FALSE]

NoRequest == [pc |-> "idle", receipt |-> None]

Init ==
    /\ now = 0
    /\ tasks = {}
    /\ receipts = [c \in Receipt |-> NoReceipt]
    /\ requests = [r \in Request |-> NoRequest]

Answer(r) == requests' = [requests EXCEPT ![r] = NoRequest]
Goto(r, label) == requests' = [requests EXCEPT ![r].pc = label]

\* demoReceiptsFor: a disputed receipt is not counted.
DemoReceipts == {c \in Receipt : receipts[c].status = "finalized"}

\* The count is read and the task is made of the time and a fresh nonce.
IssueTask ==
    /\ Cardinality(DemoReceipts) < DemoReceiptsPerAgent
    /\ tasks' = tasks \cup {now}
    /\ UNCHANGED <<now, receipts, requests>>

\* The agent drafts a receipt (createDraft) that names a task.
CreateDraft(c, issuedAt) ==
    /\ receipts[c] = NoReceipt
    /\ issuedAt \in tasks
    /\ receipts' = [receipts EXCEPT ![c].status = "draft", ![c].issuedAt = issuedAt]
    /\ UNCHANGED <<now, tasks, requests>>

\* DEMO_TASK_EXPIRED otherwise.
TaskValid(c) == now - receipts[c].issuedAt <= DemoTaskTtl

\* completeTask up to the await of the count.
CompleteTask(r, c) ==
    /\ requests[r].pc = "idle"
    /\ receipts[c].status = "draft"
    /\ TaskValid(c)
    /\ requests' = [requests EXCEPT ![r] = [pc |-> "count", receipt |-> c]]
    /\ UNCHANGED <<now, tasks, receipts>>

\* Seeded fault: the limit is applied when a task is issued and not again.
CountOnIssueOnly(r) ==
    /\ requests[r].pc = "count"
    /\ Goto(r, "countersign")
    /\ UNCHANGED <<now, tasks, receipts>>

\* DEMO_LIMIT_REACHED otherwise.
CountDemoReceipts(r) ==
    /\ requests[r].pc = "count"
    /\ IF Cardinality(DemoReceipts) >= DemoReceiptsPerAgent
       THEN Answer(r)
       ELSE Goto(r, "countersign")
    /\ UNCHANGED <<now, tasks, receipts>>

\* receiptService.countersign reads the receipt again and updates it only
\* while it is a draft.
Countersign(r) ==
    LET c == requests[r].receipt IN
    /\ requests[r].pc = "countersign"
    /\ receipts' = IF receipts[c].status = "draft"
                   THEN [receipts EXCEPT ![c].status = "finalized"]
                   ELSE receipts
    /\ Answer(r)
    /\ UNCHANGED <<now, tasks>>

\* openDispute and resolveDispute by the agent, which has one right.
OpenDispute(c) ==
    /\ receipts[c].status = "finalized"
    /\ ~receipts[c].disputedOnce
    /\ receipts' = [receipts EXCEPT ![c].status = "disputed", ![c].disputedOnce = TRUE]
    /\ UNCHANGED <<now, tasks, requests>>

ResolveDispute(c) ==
    /\ receipts[c].status = "disputed"
    /\ receipts' = [receipts EXCEPT ![c].status = "finalized"]
    /\ UNCHANGED <<now, tasks, requests>>

Fail(r) ==
    /\ requests[r].pc # "idle"
    /\ Answer(r)
    /\ UNCHANGED <<now, tasks, receipts>>

Tick ==
    /\ now < MaxTime
    /\ now' = now + 1
    /\ UNCHANGED <<tasks, receipts, requests>>

Next ==
    \/ Tick
    \/ IssueTask
    \/ \E c \in Receipt, t \in 0 .. MaxTime : CreateDraft(c, t)
    \/ \E c \in Receipt : OpenDispute(c) \/ ResolveDispute(c)
    \/ \E r \in Request :
        \/ \E c \in Receipt : CompleteTask(r, c)
        \/ CountDemoReceipts(r) \/ Countersign(r) \/ Fail(r)

Spec == Init /\ [][Next]_vars

-----------------------------------------------------------------------------
\* The receipts no dispute was ever opened on, and those being countersigned.
Undisputed == {c \in DemoReceipts : ~receipts[c].disputedOnce}
UnderWay == {requests[r].receipt : r \in {q \in Request : requests[q].pc = "countersign"}}

(* An agent that does not dispute gets DEMO_RECEIPTS_PER_AGENT             *)
(* countersignatures when its requests come one after the other, and each  *)
(* further completion in flight at the same moment adds at most one: the   *)
(* receipts without a dispute and the countersignatures under way never    *)
(* exceed the limit by more than the other requests (completeTask).        *)
DemoBounded ==
    Cardinality(Undisputed \cup UnderWay) <= DemoReceiptsPerAgent + Cardinality(Request) - 1

-----------------------------------------------------------------------------
(* What makes it inductive: a dispute leaves its mark on the receipt, so a *)
(* receipt that becomes final again was not counted as undisputed before.  *)
InFlight == [pc : {"idle", "count", "countersign"}, receipt : Receipt \cup {None}]

Inv ==
    /\ receipts \in [Receipt -> [status : {"absent", "draft", "finalized", "disputed"},
                                 issuedAt : Nat, disputedOnce : BOOLEAN]]
    /\ requests \in [Request -> InFlight]
    /\ \A r \in Request : requests[r].pc # "idle" => requests[r].receipt \in Receipt
    /\ \A c \in Receipt : receipts[c].status = "disputed" => receipts[c].disputedOnce
    /\ DemoBounded
=============================================================================
