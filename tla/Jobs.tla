-------------------------------- MODULE Jobs --------------------------------
(***************************************************************************)
(* The job board of the Node registry (src/src/services/jobService.ts):    *)
(* post, offer, accept, cancel, report non-performance, and the completion *)
(* a finalized receipt causes.  Capability, budget, spec hash and messages *)
(* are left out.  The set of offers stands for the list the code keeps:    *)
(* it refuses a second offer of the same agent.                            *)
(***************************************************************************)
EXTENDS Agents

CONSTANTS
    JobId,              \* the ids randomUUID() may draw
    Expiry,             \* the values of expiresAt a poster may choose, or NoTime
    DisputeWindow       \* config.disputeWindowHours

ASSUME JobsAssumption ==
    /\ None \notin JobId
    /\ Expiry \subseteq Nat \cup {NoTime}
    /\ DisputeWindow \in Nat \ {0}

VARIABLE jobs           \* the jobs table; "absent" marks an id with no row

NoJob == [status |-> "absent", postedBy |-> None, offers |-> {},
          acceptedAgentId |-> None, acceptedAt |-> NoTime,
          expiresAt |-> NoTime, receiptId |-> None]

JobsInit == jobs = [j \in JobId |-> NoJob]

\* assertNotExpired throws: expiresAt is set and lies in the past.
Expired(job) == job.expiresAt # NoTime /\ job.expiresAt < now

PostJob(caller, j, expiresAt) ==
    /\ SignedRequest(caller)
    /\ caller \in registered
    /\ jobs[j].status = "absent"
    /\ jobs' = [jobs EXCEPT ![j] = [NoJob EXCEPT !.status = "open",
                                                 !.postedBy = caller,
                                                 !.expiresAt = expiresAt]]
    /\ UNCHANGED <<now, agentVars, log>>

SubmitOffer(caller, j) ==
    /\ SignedRequest(caller)
    /\ jobs[j].status = "open"
    /\ ~Expired(jobs[j])
    /\ jobs[j].postedBy # caller
    /\ caller \in registered
    /\ caller \notin jobs[j].offers
    /\ jobs' = [jobs EXCEPT ![j].offers = @ \cup {caller}]
    /\ UNCHANGED <<now, agentVars, log>>

AcceptOffer(caller, j, agentId) ==
    /\ SignedRequest(caller)
    /\ jobs[j].status = "open"
    /\ caller = jobs[j].postedBy
    /\ ~Expired(jobs[j])
    /\ agentId \in jobs[j].offers
    /\ jobs' = [jobs EXCEPT ![j] = [@ EXCEPT !.status = "accepted",
                                             !.acceptedAgentId = agentId,
                                             !.acceptedAt = now]]
    /\ UNCHANGED <<now, agentVars, log>>

CancelJob(caller, j) ==
    /\ SignedRequest(caller)
    /\ jobs[j].status \notin {"absent", "completed", "cancelled", "nonperformed"}
    /\ caller = jobs[j].postedBy
    /\ jobs' = [jobs EXCEPT ![j].status = "cancelled"]
    /\ UNCHANGED <<now, agentVars, log>>

ReportNonPerformance(caller, j) ==
    /\ SignedRequest(caller)
    /\ jobs[j].status = "accepted"
    /\ caller = jobs[j].postedBy
    /\ now - jobs[j].acceptedAt >= DisputeWindow
    /\ jobs' = [jobs EXCEPT ![j].status = "nonperformed"]
    /\ AppendEntry("nonperformance_reported", j, None)
    /\ UNCHANGED <<now, agentVars>>

\* Seeded faults: any job is claimed; the job claims its own id.
CompleteWhateverStatus(j, receiptId) ==
    [jobs EXCEPT ![j] = [@ EXCEPT !.status = "completed",
                                       !.receiptId = receiptId]]

CompleteWithJobId(j, receiptId) ==
    IF jobs[j].status = "accepted"
    THEN [jobs EXCEPT ![j] = [@ EXCEPT !.status = "completed", !.receiptId = j]]
    ELSE jobs

\* The jobs table after a receipt that names job j is finalized: only an
\* accepted job is claimed, any other status stays as it is.
MarkCompletedByReceipt(j, receiptId) ==
    IF jobs[j].status = "accepted"
    THEN [jobs EXCEPT ![j] = [@ EXCEPT !.status = "completed",
                                       !.receiptId = receiptId]]
    ELSE jobs

\* Seeded fault: the parties are not compared.
ReceiptNamesAcceptedJob(j, agentA, agentB) ==
    jobs[j].status \in {"absent", "accepted"}

\* assertReceiptMatchesJob does not throw: a jobId without a job is allowed.
ReceiptMatchesJob(j, agentA, agentB) ==
    jobs[j].status # "absent" =>
        /\ jobs[j].status = "accepted"
        /\ jobs[j].postedBy = agentA
        /\ jobs[j].acceptedAgentId = agentB
=============================================================================
