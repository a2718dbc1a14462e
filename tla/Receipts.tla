------------------------------ MODULE Receipts ------------------------------
(***************************************************************************)
(* Execution receipts of the Node registry                                 *)
(* (src/src/services/receiptService.ts with                                *)
(* src/sdk-js/src/core/disputeLifecycle.ts): the worker's draft, the       *)
(* requester's countersignature, and disputes.                             *)
(*                                                                         *)
(* A receipt id is the hash of the signed content, so the content stands   *)
(* for the id: Content is the set of contents agents may submit, each with *)
(* its requester agentA, its worker agentB and the job it names.  Contents *)
(* whose timestamps or signatures are refused change nothing and are left  *)
(* out; so is visibility, which no transition reads.                       *)
(***************************************************************************)
EXTENDS Jobs

CONSTANT Content

ASSUME ContentAssumption ==
    /\ None \notin Content
    /\ \A c \in Content : c.agentA \in Did /\ c.agentB \in Did /\ c.jobId \in JobId

VARIABLE receipts       \* the receipts table; "absent" marks an id with no row

\* Seeded fault: everybody may dispute.
Anybody(c) == Did

Parties(c) == {c.agentA, c.agentB}

NoReceipt == [status |-> "absent", disputeStatus |-> "none",
              windowClosesAt |-> NoTime, openedBy |-> None,
              resolutionDeadline |-> NoTime, usedBy |-> {}]

ReceiptsInit == receipts = [c \in Content |-> NoReceipt]

\* Seeded fault: only the last dispute counts as used.
UsedLast(c, p) == receipts[c].disputeStatus = "resolved" /\ receipts[c].openedBy = p

HasUsedDisputeRight(c, p) == p \in receipts[c].usedBy

\* Seeded fault: the instant the window closes still counts as open.
IsDisputeWindowOpenAtClose(c) ==
    receipts[c].windowClosesAt # NoTime /\ now <= receipts[c].windowClosesAt

\* A draft has no window, so its window is not open.
IsDisputeWindowOpen(c) ==
    receipts[c].windowClosesAt # NoTime /\ now < receipts[c].windowClosesAt

\* Whether the receipt is withheld from reputation.
IsDisputeActive(c) ==
    /\ receipts[c].status = "disputed"
    /\ receipts[c].disputeStatus = "open"
    /\ now < receipts[c].resolutionDeadline

CreateDraft(caller, c) ==
    /\ SignedRequest(caller)
    /\ caller = c.agentB
    /\ {c.agentA, c.agentB} \subseteq registered
    /\ c.agentA # c.agentB
    /\ ReceiptMatchesJob(c.jobId, c.agentA, c.agentB)
    /\ receipts[c].status = "absent"
    /\ receipts' = [receipts EXCEPT ![c].status = "draft"]
    /\ UNCHANGED <<now, agentVars, jobs, log>>

Countersign(caller, c) ==
    /\ SignedRequest(caller)
    /\ receipts[c].status = "draft"
    /\ caller = c.agentA
    /\ receipts' = [receipts EXCEPT ![c] =
            [@ EXCEPT !.status = "finalized",
                      !.disputeStatus = "none",
                      !.windowClosesAt = now + DisputeWindow]]
    /\ jobs' = MarkCompletedByReceipt(c.jobId, c)
    /\ AppendEntry("receipt_finalized", c, None)
    /\ UNCHANGED <<now, agentVars>>

OpenDispute(caller, c) ==
    /\ SignedRequest(caller)
    /\ caller \in Parties(c)
    /\ ~HasUsedDisputeRight(c, caller)
    /\ receipts[c].status = "finalized"
    /\ IsDisputeWindowOpen(c)
    /\ receipts' = [receipts EXCEPT ![c] =
            [@ EXCEPT !.status = "disputed",
                      !.disputeStatus = "open",
                      !.openedBy = caller,
                      !.resolutionDeadline = now + DisputeWindow]]
    /\ AppendEntry("dispute_opened", c, caller)
    /\ UNCHANGED <<now, agentVars, jobs>>

ResolveDispute(caller, c) ==
    /\ SignedRequest(caller)
    /\ receipts[c].status = "disputed"
    /\ receipts[c].disputeStatus = "open"
    /\ receipts[c].openedBy = caller
    /\ receipts' = [receipts EXCEPT ![c] =
            [@ EXCEPT !.status = "finalized",
                      !.disputeStatus = "resolved",
                      !.usedBy = receipts[c].usedBy \cup {caller}]]
    /\ AppendEntry("dispute_resolved", c, caller)
    /\ UNCHANGED <<now, agentVars, jobs>>
=============================================================================
