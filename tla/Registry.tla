------------------------------ MODULE Registry ------------------------------
(***************************************************************************)
(* The Node reference registry (src/src): agents, jobs, receipts and the   *)
(* transparency log together.  node:sqlite is synchronous and no handler   *)
(* awaits, so a request runs from its first read to its last write before  *)
(* the next one starts: one action per handler.                            *)
(***************************************************************************)
EXTENDS Receipts

vars == <<log, now, agentVars, jobs, receipts>>

Init ==
    /\ LogInit
    /\ AgentsInit
    /\ JobsInit
    /\ ReceiptsInit

\* randomUUID() draws an id nobody has used: not for a job, and not as the
\* free-form jobId of a receipt.
PostFreshJob(a, j, e) ==
    /\ \A c \in Content : c.jobId = j => receipts[c].status = "absent"
    /\ PostJob(a, j, e)

AgentStep == AgentsNext /\ UNCHANGED <<jobs, receipts>>

JobHandler(a, j) ==
    \/ \E e \in Expiry : PostFreshJob(a, j, e)
    \/ SubmitOffer(a, j)
    \/ \E w \in Did : AcceptOffer(a, j, w)
    \/ CancelJob(a, j)
    \/ ReportNonPerformance(a, j)

JobStep == (\E a \in Did, j \in JobId : JobHandler(a, j)) /\ UNCHANGED receipts

ReceiptHandler(a, c) ==
    \/ CreateDraft(a, c)
    \/ Countersign(a, c)
    \/ OpenDispute(a, c)
    \/ ResolveDispute(a, c)

ReceiptStep == \E a \in Did, c \in Content : ReceiptHandler(a, c)

TimeStep == Tick /\ UNCHANGED <<jobs, receipts>>

Next == AgentStep \/ JobStep \/ ReceiptStep \/ TimeStep

Spec == Init /\ [][Next]_vars

\* The clock advances, and while a succession is due some request under /v1
\* eventually arrives and its middleware runs activateDueSuccessions.
FairSpec ==
    /\ Spec
    /\ WF_vars(TimeStep)
    /\ WF_vars(\E p \in Did : ActivateDueSuccession(p) /\ UNCHANGED <<jobs, receipts>>)

-----------------------------------------------------------------------------
(* Types. *)

Time == Nat \cup {NoTime}

EntryType ==
    {"verifier_status_changed", "agent_succession_pending",
     "agent_succession_cancelled", "agent_succeeded", "nonperformance_reported",
     "receipt_finalized", "dispute_opened", "dispute_resolved"}

Entry == [entryType : EntryType, refId : Did \cup JobId \cup Content,
          data : Did \cup {None, "authorized", "unauthorized"}]

Succession == [successor : Did \cup {None}, effectiveAt : Time]

Job == [status : {"absent", "open", "accepted", "completed", "cancelled", "nonperformed"},
        postedBy : Did \cup {None}, offers : SUBSET Did,
        acceptedAgentId : Did \cup {None}, acceptedAt : Time,
        expiresAt : Time, receiptId : Content \cup {None}]

Receipt == [status : {"absent", "draft", "finalized", "disputed"},
            disputeStatus : {"none", "open", "resolved"},
            windowClosesAt : Time, openedBy : Did \cup {None},
            resolutionDeadline : Time, usedBy : SUBSET Did]

\* Every table holds rows of its own shape (src/src/types.ts), and the clock
\* stays within its bound.
TypeOK ==
    /\ log \in Seq(Entry)
    /\ now \in 0 .. MaxTime
    /\ registered \in SUBSET Did
    /\ revoked \in SUBSET Did
    /\ verifiers \in SUBSET Did
    /\ succeededBy \in [Did -> Did \cup {None}]
    /\ pendingSuccession \in [Did -> Succession]
    /\ jobs \in [JobId -> Job]
    /\ receipts \in [Content -> Receipt]

-----------------------------------------------------------------------------
(* What the log says of receipts and jobs. *)

Finalized(c) == receipts[c].status \in {"finalized", "disputed"}

FinalizationsLogged ==
    \A c \in Content : Finalized(c) <=> Logged("receipt_finalized", c, None)

DisputesLogged ==
    \A c \in Content, p \in Did :
        /\ p \in receipts[c].usedBy <=> Logged("dispute_resolved", c, p)
        /\ (\/ p \in receipts[c].usedBy
            \/ receipts[c].status = "disputed" /\ receipts[c].openedBy = p)
           <=> Logged("dispute_opened", c, p)

ReportsLogged ==
    \A j \in JobId :
        jobs[j].status = "nonperformed" <=> Logged("nonperformance_reported", j, None)

\* The log tells the state of every receipt and of every reported job, and
\* nothing else: a receipt is past its draft exactly when its finalization is
\* logged; a party has spent its dispute right exactly when its withdrawal is
\* logged; a dispute is logged exactly when it was withdrawn or is open now
\* (the appendEntry calls of receiptService.ts and jobService.ts).
LogFaithful == FinalizationsLogged /\ DisputesLogged /\ ReportsLogged

OnceTypes == EntryType \ {"verifier_status_changed"}

\* One event, one leaf: no lifecycle event of a receipt, a job or a succession
\* is ever logged twice ("exactly one leaf for each of these events",
\* SPEC.md:819).
LogOnce ==
    \A i, k \in 1 .. Len(log) :
        log[i].entryType \in OnceTypes /\ log[i] = log[k] => i = k

\* The events of a receipt appear in the log in the order they happened:
\* finalization, then a party's dispute, then that party's withdrawal.
LogOrdered ==
    \A k \in 1 .. Len(log) :
        /\ log[k].entryType = "dispute_opened" =>
            \E i \in 1 .. k - 1 :
                log[i] = Leaf("receipt_finalized", log[k].refId, None)
        /\ log[k].entryType = "dispute_resolved" =>
            \E i \in 1 .. k - 1 :
                log[i] = Leaf("dispute_opened", log[k].refId, log[k].data)

FinalInLog == {c \in Content : Logged("receipt_finalized", c, None)}

SpentInLog == [c \in Content |-> {p \in Did : Logged("dispute_resolved", c, p)}]

PendingInLog ==
    [c \in Content |->
        {p \in Did : Logged("dispute_opened", c, p) /\ ~Logged("dispute_resolved", c, p)}]

\* Read through the log alone, every receipt follows the abstract lifecycle.
Lifecycle == INSTANCE ReceiptLifecycle
    WITH final <- FinalInLog, pending <- PendingInLog, spent <- SpentInLog

AuditedLifecycle == Lifecycle!Spec

-----------------------------------------------------------------------------
(* How jobs and receipts relate. *)

\* A receipt that names a job is between the job's poster and the worker it
\* accepted, and that worker had made an offer (assertReceiptMatchesJob,
\* acceptOffer).
ReceiptsMatchJobs ==
    \A c \in Content :
        LET job == jobs[c.jobId] IN
        receipts[c].status # "absent" /\ job.status # "absent" =>
            /\ job.status # "open"
            /\ job.postedBy = c.agentA
            /\ job.acceptedAgentId = c.agentB

WorkersOffered ==
    \A j \in JobId : jobs[j].status \in {"accepted", "completed", "nonperformed"} =>
        jobs[j].acceptedAgentId \in jobs[j].offers

\* A completed job is claimed by a finalized receipt of its own.
CompletedByReceipt ==
    \A j \in JobId : jobs[j].status = "completed" =>
        /\ jobs[j].receiptId \in Content
        /\ Finalized(jobs[j].receiptId)
        /\ jobs[j].receiptId.jobId = j

\* A job somebody finalized a receipt for is never back on the market.
FinalizedClosesJob ==
    \A c \in Content :
        Finalized(c) => jobs[c.jobId].status \notin {"open", "accepted"}

\* Jobs and receipts agree, whichever of the two moves first: cancellation,
\* report and finalization race for an accepted job, and several receipts may
\* name it (jobService.ts, receiptService.ts).
JobFollowsReceipt ==
    ReceiptsMatchJobs /\ WorkersOffered /\ CompletedByReceipt /\ FinalizedClosesJob

TerminalStatus == {"completed", "cancelled", "nonperformed"}

OutcomeStays ==
    \A j \in JobId : jobs[j].status \in TerminalStatus =>
        jobs'[j].status = jobs[j].status /\ jobs'[j].receiptId = jobs[j].receiptId

\* A job that was completed, cancelled or reported keeps that outcome and the
\* receipt that claimed it, whatever later receipts, reports or cancellations
\* name it.
OutcomeIsFinal == [][OutcomeStays]_vars

\* The party whose dispute is open has not spent its right on this receipt, so
\* withdrawing it is the first time (hasUsedDisputeRight).
OpenerUnspent ==
    \A c \in Content : receipts[c].status = "disputed" =>
        /\ receipts[c].disputeStatus = "open"
        /\ receipts[c].openedBy \in Parties(c) \ receipts[c].usedBy

\* A dispute withholds a receipt from reputation for less than two windows
\* after the countersignature, however many disputes are opened and whoever
\* opens them (the hostage comment in openDispute).
HostageBound ==
    \A c \in Content : receipts[c].status = "disputed" =>
        /\ receipts[c].resolutionDeadline < receipts[c].windowClosesAt + DisputeWindow
        /\ IsDisputeActive(c) => now < receipts[c].windowClosesAt + DisputeWindow

-----------------------------------------------------------------------------
(* Key succession. *)

\* Every identity has at most one successor and at most one predecessor, and a
\* successor is a new identity: it exists only once its predecessor retired
\* (SPEC.md 2.3, requestSuccession and activateDueSuccessions).
SuccessionSound ==
    /\ \A p, q \in Did :
        succeededBy[p] # None /\ succeededBy[p] = succeededBy[q] => p = q
    /\ \A p, q \in Did : pendingSuccession[p].successor # None =>
        /\ p \in registered
        /\ ~Retired(p)
        /\ pendingSuccession[p].successor \notin registered
        /\ pendingSuccession[p].successor = pendingSuccession[q].successor => p = q
    /\ \A p \in Did : succeededBy[p] # None =>
        p \notin revoked /\ succeededBy[p] \in registered

\* The log tells every succession: which took effect, and of those requested,
\* which were cancelled by revoking the old key in time.
SuccessionLogged ==
    \A p, s \in Did :
        /\ succeededBy[p] = s <=> Logged("agent_succeeded", p, s)
        /\ Logged("agent_succession_pending", p, s) <=>
            \/ pendingSuccession[p].successor = s
            \/ succeededBy[p] = s
            \/ Logged("agent_succession_cancelled", p, s)
        /\ Logged("agent_succession_cancelled", p, s) => p \in revoked

\* A requested succession is settled: it takes effect once its window has
\* closed, unless the old key was revoked first, even when no request arrives
\* at the very moment it closes.
SuccessionSettles ==
    \A p \in Did :
        (/\ pendingSuccession[p].successor # None
         /\ pendingSuccession[p].effectiveAt <= MaxTime)
        ~> pendingSuccession[p].successor = None

LastGrantStands(a) ==
    \E i \in 1 .. Len(log) :
        /\ log[i] = Leaf("verifier_status_changed", a, "authorized")
        /\ \A k \in i + 1 .. Len(log) :
            log[k] # Leaf("verifier_status_changed", a, "unauthorized")

\* The set of authorized verifiers can be recomputed from the log: an agent is
\* one exactly when the last leaf about it grants it (SPEC.md 13.1).
VerifiersLogged == \A a \in Did : a \in verifiers <=> LastGrantStands(a)
=============================================================================
