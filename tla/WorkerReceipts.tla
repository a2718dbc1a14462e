--------------------------- MODULE WorkerReceipts ---------------------------
(***************************************************************************)
(* Receipts, their jobs and the transparency log in the Cloudflare Worker  *)
(* (src/worker/src), where requests interleave at every await: a handler   *)
(* reads a row, checks it, and later writes the whole row back with one    *)
(* conditional UPDATE of D1.  Each request in flight holds the row it is   *)
(* about to write; each statement of D1 is one atomic step.                *)
(*                                                                         *)
(* Everybody in Did is registered, and the jobs start out accepted.  The   *)
(* resolution deadline, visibility and signatures are left out: a write    *)
(* carries them along with the row and no transition here reads them.      *)
(***************************************************************************)
EXTENDS Integers, FiniteSets

CONSTANTS
    Did, None, Content, JobId,
    Request,            \* bound: how many requests can be in flight at once
    DisputeWindow,      \* DISPUTE_WINDOW_HOURS
    MaxTime,            \* bound: the clock stops here
    MaxLog,             \* bound: no new dispute once the log is this long
    CanFail             \* whether a request can die at an await

ASSUME WorkerAssumption ==
    /\ None \notin Did \cup Content \cup JobId
    /\ \A c \in Content : /\ c.agentA \in Did
                          /\ c.agentB \in Did \ {c.agentA}
                          /\ c.jobId \in JobId
    /\ \A c, x \in Content :
        c.jobId = x.jobId => c.agentA = x.agentA /\ c.agentB = x.agentB
    /\ DisputeWindow \in Nat \ {0}
    /\ MaxTime \in Nat
    /\ MaxLog \in Nat
    /\ CanFail \in BOOLEAN

VARIABLES
    now,                \* Date.now()
    receipts,           \* the receipts table; "absent" marks an id with no row
    jobs,               \* status and receipt_id of the jobs table
    log,                \* transparency_log: leaf_index -> row
    requests            \* the requests in flight

vars == <<now, receipts, jobs, log, requests>>

NoTime == -1

NoRow == [status |-> "absent", disputeStatus |-> "none", windowClosesAt |-> NoTime,
          openedBy |-> None, usedBy |-> {}]

NoRequest == [pc |-> "idle", op |-> "none", caller |-> None, ref |-> None,
              row |-> NoRow, index |-> 0]

Init ==
    /\ now = 0
    /\ receipts = [c \in Content |-> NoRow]
    /\ jobs = [j \in JobId |-> [status |-> "accepted", receiptId |-> None]]
    /\ log = <<>>
    /\ requests = [r \in Request |-> NoRequest]

Begin(r, op, caller, ref, row) ==
    /\ requests[r].pc = "idle"
    /\ requests' = [requests EXCEPT ![r] =
            [NoRequest EXCEPT !.pc = "write", !.op = op, !.caller = caller,
                              !.ref = ref, !.row = row]]
    /\ UNCHANGED <<now, receipts, jobs, log>>

\* The handler goes on to another statement and no longer needs the row.
Goto(r, label) == requests' = [requests EXCEPT ![r].pc = label, ![r].row = NoRow]

\* The answer is sent, or the request dies: the slot is free again.
Answer(r) == requests' = [requests EXCEPT ![r] = NoRequest]

-----------------------------------------------------------------------------
(* The first half of a handler: what it reads and checks. *)

CreateDraft(r, caller, c) ==
    /\ caller = c.agentB
    /\ jobs[c.jobId].status = "accepted"
    /\ Begin(r, "createDraft", caller, c, [NoRow EXCEPT !.status = "draft"])

Countersign(r, caller, c) ==
    /\ receipts[c].status = "draft"
    /\ caller = c.agentA
    /\ Begin(r, "countersign", caller, c,
             [receipts[c] EXCEPT !.status = "finalized",
                                 !.windowClosesAt = now + DisputeWindow])

OpenDispute(r, caller, c) ==
    /\ caller \in {c.agentA, c.agentB} \ receipts[c].usedBy
    /\ receipts[c].status = "finalized"
    /\ now < receipts[c].windowClosesAt
    /\ Cardinality(DOMAIN log) < MaxLog
    /\ Begin(r, "openDispute", caller, c,
             [receipts[c] EXCEPT !.status = "disputed",
                                 !.disputeStatus = "open",
                                 !.openedBy = caller])

ResolveDispute(r, caller, c) ==
    /\ receipts[c].status = "disputed"
    /\ receipts[c].disputeStatus = "open"
    /\ receipts[c].openedBy = caller
    /\ Begin(r, "resolveDispute", caller, c,
             [receipts[c] EXCEPT !.status = "finalized",
                                 !.disputeStatus = "resolved",
                                 !.usedBy = @ \cup {caller}])

PosterOf(j) == CHOOSE p \in Did : \A c \in Content : c.jobId = j => p = c.agentA

\* Only the caller is checked; the UPDATE decides on the status.
CancelJob(r, caller, j) ==
    /\ caller = PosterOf(j)
    /\ Begin(r, "cancelJob", caller, j, NoRow)

\* Every job was accepted at time 0.
ReportNonPerformance(r, caller, j) ==
    /\ caller = PosterOf(j)
    /\ jobs[j].status = "accepted"
    /\ now >= DisputeWindow
    /\ Begin(r, "reportNonPerformance", caller, j, NoRow)

-----------------------------------------------------------------------------
(* The conditional write. *)

\* The status the UPDATE of an operation requires; for a draft, that the
\* primary key is free.
ExpectedStatus == [createDraft |-> "absent", countersign |-> "draft",
                   openDispute |-> "finalized", resolveDispute |-> "disputed"]

\* Seeded fault: the UPDATE has no condition on the status.
BlindUpdate(q) == TRUE

\* Whether the UPDATE finds the row in the status it requires.
UpdateApplies(q) == receipts[q.ref].status = ExpectedStatus[q.op]

AfterWrite == [createDraft |-> "idle", countersign |-> "complete",
               openDispute |-> "count", resolveDispute |-> "count"]

\* Seeded fault: the count of changed rows is not looked at.
WriteReceiptUnchecked(r) ==
    LET q == requests[r] IN
    /\ q.pc = "write"
    /\ q.op \in DOMAIN ExpectedStatus
    /\ receipts' = IF UpdateApplies(q) THEN [receipts EXCEPT ![q.ref] = q.row] ELSE receipts
    /\ IF AfterWrite[q.op] = "idle" THEN Answer(r) ELSE Goto(r, AfterWrite[q.op])
    /\ UNCHANGED <<now, jobs, log>>

WriteReceipt(r) ==
    LET q == requests[r] IN
    /\ q.pc = "write"
    /\ q.op \in DOMAIN ExpectedStatus
    /\ IF UpdateApplies(q)
       THEN /\ receipts' = [receipts EXCEPT ![q.ref] = q.row]
            /\ IF AfterWrite[q.op] = "idle" THEN Answer(r) ELSE Goto(r, AfterWrite[q.op])
       ELSE UNCHANGED receipts /\ Answer(r)
    /\ UNCHANGED <<now, jobs, log>>

CancelJobIfCancellable(r) ==
    LET q == requests[r] IN
    /\ q.pc = "write"
    /\ q.op = "cancelJob"
    /\ jobs' = IF jobs[q.ref].status \notin {"completed", "cancelled", "nonperformed"}
               THEN [jobs EXCEPT ![q.ref].status = "cancelled"]
               ELSE jobs
    /\ Answer(r)
    /\ UNCHANGED <<now, receipts, log>>

\* Seeded fault: the count of changed rows is not looked at.
ReportUnchecked(r) ==
    LET q == requests[r] IN
    /\ q.pc = "write"
    /\ q.op = "reportNonPerformance"
    /\ jobs' = IF jobs[q.ref].status = "accepted"
               THEN [jobs EXCEPT ![q.ref].status = "nonperformed"]
               ELSE jobs
    /\ Goto(r, "count")
    /\ UNCHANGED <<now, receipts, log>>

ReportNonPerformanceIfAccepted(r) ==
    LET q == requests[r] IN
    /\ q.pc = "write"
    /\ q.op = "reportNonPerformance"
    /\ IF jobs[q.ref].status = "accepted"
       THEN jobs' = [jobs EXCEPT ![q.ref].status = "nonperformed"] /\ Goto(r, "count")
       ELSE UNCHANGED jobs /\ Answer(r)
    /\ UNCHANGED <<now, receipts, log>>

\* Seeded faults: the job is claimed whatever became of it; it claims itself.
Completed(j, receiptId) ==
    [jobs EXCEPT ![j] = [status |-> "completed", receiptId |-> receiptId]]

\* The jobs table after the UPDATE of completeJobIfAccepted.
CompletedIfAccepted(j, receiptId) ==
    IF jobs[j].status = "accepted"
    THEN [jobs EXCEPT ![j] = [status |-> "completed", receiptId |-> receiptId]]
    ELSE jobs

\* markCompletedByReceipt: a statement of its own, after the receipt's.
CompleteJob(r) ==
    LET q == requests[r] IN
    /\ q.pc = "complete"
    /\ jobs' = CompletedIfAccepted(q.ref.jobId, q.ref)
    /\ Goto(r, "count")
    /\ UNCHANGED <<now, receipts, log>>

-----------------------------------------------------------------------------
(* appendTransparencyLog: SELECT COUNT, INSERT, and one retry of both. *)

Leaf(entryType, refId, data) ==
    [entryType |-> entryType, refId |-> refId, data |-> data]

LeafOf(q) ==
    CASE q.op = "countersign" -> Leaf("receipt_finalized", q.ref, None)
      [] q.op = "openDispute" -> Leaf("dispute_opened", q.ref, q.caller)
      [] q.op = "resolveDispute" -> Leaf("dispute_resolved", q.ref, q.caller)
      [] q.op = "reportNonPerformance" -> Leaf("nonperformance_reported", q.ref, None)

\* Seeded fault: counts from one.
NextIndexFromOne == Cardinality(DOMAIN log) + 1

NextIndex == Cardinality(DOMAIN log)

CountLeaves(r) ==
    /\ requests[r].pc \in {"count", "recount"}
    /\ requests' = [requests EXCEPT ![r].index = NextIndex,
                                    ![r].pc = IF @ = "count" THEN "insert" ELSE "reinsert"]
    /\ UNCHANGED <<now, receipts, jobs, log>>

\* The primary key admits a row at this index.
IndexFree(i) == i \notin DOMAIN log

\* A second collision is thrown to the caller: the leaf is lost.
InsertLeaf(r) ==
    LET q == requests[r] IN
    /\ q.pc \in {"insert", "reinsert"}
    /\ IF IndexFree(q.index)
       THEN /\ log' = [i \in DOMAIN log \cup {q.index} |->
                          IF i = q.index THEN LeafOf(q) ELSE log[i]]
            /\ Answer(r)
       ELSE /\ UNCHANGED log
            /\ IF q.pc = "insert" THEN Goto(r, "recount") ELSE Answer(r)
    /\ UNCHANGED <<now, receipts, jobs>>

-----------------------------------------------------------------------------
(* The system. *)

\* A statement of D1 fails, or the isolate is evicted: nothing is undone.
Fail(r) ==
    /\ CanFail
    /\ requests[r].pc # "idle"
    /\ Answer(r)
    /\ UNCHANGED <<now, receipts, jobs, log>>

Tick ==
    /\ now < MaxTime
    /\ now' = now + 1
    /\ UNCHANGED <<receipts, jobs, log, requests>>

Read(r) ==
    \/ \E p \in Did, c \in Content :
        CreateDraft(r, p, c) \/ Countersign(r, p, c) \/ OpenDispute(r, p, c)
            \/ ResolveDispute(r, p, c)
    \/ \E p \in Did, j \in JobId : CancelJob(r, p, j) \/ ReportNonPerformance(r, p, j)

Write(r) ==
    WriteReceipt(r) \/ CancelJobIfCancellable(r) \/ ReportNonPerformanceIfAccepted(r)
        \/ CompleteJob(r)

AppendLeaf(r) == CountLeaves(r) \/ InsertLeaf(r)

Next == Tick \/ \E r \in Request : Read(r) \/ Write(r) \/ AppendLeaf(r) \/ Fail(r)

Spec == Init /\ [][Next]_vars

-----------------------------------------------------------------------------
(* Types. *)

Time == 0 .. MaxTime + DisputeWindow

Row == [status : {"absent", "draft", "finalized", "disputed"},
        disputeStatus : {"none", "open", "resolved"},
        windowClosesAt : Time \cup {NoTime},
        openedBy : Did \cup {None}, usedBy : SUBSET Did]

EntryType == {"receipt_finalized", "dispute_opened", "dispute_resolved",
              "nonperformance_reported"}

Entry == [entryType : EntryType, refId : Content \cup JobId, data : Did \cup {None}]

InFlight ==
    [pc : {"idle", "write", "complete", "count", "insert", "recount", "reinsert"},
     op : {"none", "createDraft", "countersign", "openDispute", "resolveDispute",
           "cancelJob", "reportNonPerformance"},
     caller : Did \cup {None}, ref : Content \cup JobId \cup {None},
     row : Row, index : Nat]

\* Every table holds rows of its own shape, and every request in flight stands
\* at a statement of its handler.
TypeOK ==
    /\ now \in 0 .. MaxTime
    /\ receipts \in [Content -> Row]
    /\ jobs \in [JobId -> [status : {"accepted", "completed", "cancelled", "nonperformed"},
                          receiptId : Content \cup {None}]]
    /\ DOMAIN log \in SUBSET Nat
    /\ \A i \in DOMAIN log : log[i] \in Entry
    /\ requests \in [Request -> InFlight]

-----------------------------------------------------------------------------
(* What the conditional writes and the primary key do guarantee. *)

Finalized(c) == receipts[c].status \in {"finalized", "disputed"}

LogDense == DOMAIN log = 0 .. Cardinality(DOMAIN log) - 1

LogTruthful ==
    \A i \in DOMAIN log :
        IF log[i].entryType = "nonperformance_reported"
        THEN jobs[log[i].refId].status = "nonperformed"
        ELSE Finalized(log[i].refId)

EventsLoggedOnce ==
    \A i, k \in DOMAIN log :
        /\ log[i] = log[k]
        /\ log[i].entryType \in {"receipt_finalized", "nonperformance_reported"}
        => i = k

\* Whatever collides and whatever fails, the leaf indexes are dense from zero;
\* only a write that took effect is logged, so that requests that lost their
\* race, retried or failed leave no leaf of an event that did not happen; and
\* of racing countersignatures or reports one is logged (SPEC.md 13.3,
\* appendTransparencyLog, the conditional updates of receipts and jobs).
LogSound == LogDense /\ LogTruthful /\ EventsLoggedOnce

WindowStays(c) ==
    Finalized(c) => Finalized(c)' /\ receipts'[c].windowClosesAt = receipts[c].windowClosesAt

OutcomeStays(j) == jobs[j].status # "accepted" => jobs'[j] = jobs[j]

\* A finalized receipt stays past its draft and keeps the window its
\* countersignature set, though every later write puts back a whole row that
\* was read some time before; and of the cancellation, report and completion
\* that race for an accepted job the first statement decides for good.
SettledForGood ==
    [][(\A c \in Content : WindowStays(c)) /\ (\A j \in JobId : OutcomeStays(j))]_vars

-----------------------------------------------------------------------------
(* What the documents promise and the interleavings break. *)

\* A dispute is withdrawn by the party that holds it open (SPEC.md:374).
OnlyOpenerResolves ==
    [][\A c \in Content :
          receipts[c].status = "disputed" /\ receipts'[c].status = "finalized"
          => receipts'[c].openedBy = receipts[c].openedBy]_vars

\* Once a receipt for it is finalized, a job is completed or already over, and
\* is not reported as never delivered (SPEC.md:294).
NoReportAfterReceipt ==
    [][\A j \in JobId :
          jobs[j].status = "accepted" /\ jobs'[j].status = "nonperformed"
          => \A c \in Content : c.jobId = j => ~Finalized(c)]_vars

\* When no request is in flight, every finalized receipt is in the log
\* (README.md:95).
FinalizedIsLogged ==
    (\A r \in Request : requests[r].pc = "idle") =>
        \A c \in Content : Finalized(c) =>
            \E i \in DOMAIN log : log[i] = Leaf("receipt_finalized", c, None)

\* The leaf of a dispute comes after the leaf of the finalization
\* (SPEC.md:819).
LogInOrder ==
    \A i \in DOMAIN log : log[i].entryType = "dispute_opened" =>
        \E k \in 0 .. i - 1 : log[k] = Leaf("receipt_finalized", log[i].refId, None)
=============================================================================
