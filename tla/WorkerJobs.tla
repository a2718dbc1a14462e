------------------------------ MODULE WorkerJobs ------------------------------
(***************************************************************************)
(* A job of the Worker from its posting to the acceptance of an offer.     *)
(* Posting inserts one row, an offer is a row of its own table under the   *)
(* key (job, agent), and acceptance is an UPDATE on the condition that the *)
(* job is still open.  Between the reads of a handler and its write any    *)
(* other request can run, and the job can expire.                          *)
(*                                                                         *)
(* What follows acceptance is taken apart in WorkerReceipts; here a        *)
(* completion or a report is one step.  Everybody is registered.           *)
(***************************************************************************)
EXTENDS FiniteSets, Naturals

CONSTANTS
    Did, None,
    Request,            \* the requests that can be in flight at once
    Expiry,             \* expiresAt of the job, or NoExpiry
    NoExpiry,
    MaxTime             \* bound: the clock stops here

VARIABLES
    now,
    job,                \* the row of the job
    offers,             \* the agents with a row in job_offers
    requests

vars == <<now, job, offers, requests>>

NoJob == [status |-> "absent", postedBy |-> None, acceptedAgent |-> None,
          acceptedAt |-> 0, expiresAt |-> NoExpiry]

NoRequest == [pc |-> "idle", caller |-> None, agent |-> None]

Init ==
    /\ now = 0
    /\ job = NoJob
    /\ offers = {}
    /\ requests = [r \in Request |-> NoRequest]

Answer(r) == requests' = [requests EXCEPT ![r] = NoRequest]

NotExpired == job.expiresAt = NoExpiry \/ now <= job.expiresAt

\* getAgent and the INSERT under a fresh id, which no other request knows.
PostJob(caller, expiry) ==
    /\ job = NoJob
    /\ job' = [NoJob EXCEPT !.status = "open", !.postedBy = caller, !.expiresAt = expiry]
    /\ UNCHANGED <<now, offers, requests>>

\* submitOffer up to its INSERT.
SubmitOffer(r, caller) ==
    /\ requests[r].pc = "idle"
    /\ job.status = "open"
    /\ NotExpired
    /\ job.postedBy # caller
    /\ requests' = [requests EXCEPT ![r] = [pc |-> "insert", caller |-> caller, agent |-> None]]
    /\ UNCHANGED <<now, job, offers>>

\* OFFER_ALREADY_SUBMITTED when the row is there; nothing asks the job again.
InsertOffer(r) ==
    /\ requests[r].pc = "insert"
    /\ offers' = offers \cup {requests[r].caller}
    /\ Answer(r)
    /\ UNCHANGED <<now, job>>

\* acceptOffer reads the job and not its status, which the UPDATE checks.
AcceptOffer(r, caller, agent) ==
    /\ requests[r].pc = "idle"
    /\ job # NoJob
    /\ caller = job.postedBy
    /\ NotExpired
    /\ requests' = [requests EXCEPT ![r] = [pc |-> "offer", caller |-> caller, agent |-> agent]]
    /\ UNCHANGED <<now, job, offers>>

\* Seeded fault: the poster is trusted to name somebody who offered.
AnyAgentAccepted(r) ==
    /\ requests[r].pc = "offer"
    /\ requests' = [requests EXCEPT ![r].pc = "accept"]
    /\ UNCHANGED <<now, job, offers>>

\* OFFER_NOT_FOUND otherwise.
OfferExists(r) ==
    /\ requests[r].pc = "offer"
    /\ IF requests[r].agent \in offers
       THEN requests' = [requests EXCEPT ![r].pc = "accept"]
       ELSE Answer(r)
    /\ UNCHANGED <<now, job, offers>>

\* UPDATE ... WHERE status = 'open'.
AcceptJobIfOpen(r) ==
    /\ requests[r].pc = "accept"
    /\ job' = IF job.status = "open"
              THEN [job EXCEPT !.status = "accepted", !.acceptedAgent = requests[r].agent,
                               !.acceptedAt = now]
              ELSE job
    /\ Answer(r)
    /\ UNCHANGED <<now, offers>>

\* cancelJob reads the poster, which never changes, and updates in one statement.
CancelJobIfCancellable ==
    /\ job.status \in {"open", "accepted"}
    /\ job' = [job EXCEPT !.status = "cancelled"]
    /\ UNCHANGED <<now, offers, requests>>

\* A receipt is finalized (completeJobIfAccepted) or the poster reports the
\* worker (reportNonPerformanceIfAccepted).
SettleIfAccepted(status) ==
    /\ job.status = "accepted"
    /\ job' = [job EXCEPT !.status = status]
    /\ UNCHANGED <<now, offers, requests>>

Tick ==
    /\ now < MaxTime
    /\ now' = now + 1
    /\ UNCHANGED <<job, offers, requests>>

Next ==
    \/ Tick
    \/ CancelJobIfCancellable
    \/ \E status \in {"completed", "nonperformed"} : SettleIfAccepted(status)
    \/ \E caller \in Did, expiry \in Expiry : PostJob(caller, expiry)
    \/ \E r \in Request :
        \/ \E caller \in Did : SubmitOffer(r, caller)
        \/ \E caller, agent \in Did : AcceptOffer(r, caller, agent)
        \/ InsertOffer(r) \/ OfferExists(r) \/ AcceptJobIfOpen(r)

Spec == Init /\ [][Next]_vars

-----------------------------------------------------------------------------
(* Whoever is accepted made an offer and is not the poster, although the   *)
(* offer is looked up before the conditional update and offers come in     *)
(* while the job moves on; and a job is accepted by nobody before that     *)
(* (acceptOffer, submitOffer).                                             *)
AcceptanceBacked ==
    /\ job.acceptedAgent # None => job.acceptedAgent \in offers /\ job.acceptedAgent # job.postedBy
    /\ job.status \in {"absent", "open"} => job.acceptedAgent = None
    /\ job.status \in {"accepted", "completed", "nonperformed"} => job.acceptedAgent # None

(* Acceptance happens once: of all acceptances in flight one wins, and     *)
(* whoever is accepted stays so with the time of acceptance, from which    *)
(* the report's grace period runs (acceptJobIfOpen).                       *)
AcceptedOnce ==
    [][job.acceptedAgent # None => /\ job'.acceptedAgent = job.acceptedAgent
                                   /\ job'.acceptedAt = job.acceptedAt
                                   /\ job'.status # "open"]_vars

-----------------------------------------------------------------------------
(* What makes it inductive: the poster never has an offer, and what a      *)
(* request carries over from its reads is still true when it writes.       *)
Status == {"absent", "open", "accepted", "completed", "nonperformed", "cancelled"}

\* The shape of the row, of the offers and of a request.
Shape ==
    /\ now \in Nat
    /\ job \in [status : Status, postedBy : Did \cup {None}, acceptedAgent : Did \cup {None},
                acceptedAt : Nat, expiresAt : Expiry \cup {NoExpiry}]
    /\ offers \subseteq Did
    /\ requests \in [Request -> [pc : {"idle", "insert", "offer", "accept"},
                                 caller : Did \cup {None}, agent : Did \cup {None}]]

\* Before the job is posted nothing has happened.
OffersSound ==
    /\ job.status = "absent" =>
            job = NoJob /\ offers = {} /\ \A r \in Request : requests[r].pc = "idle"
    /\ job.postedBy \notin offers

RequestsSound ==
    \A r \in Request :
        /\ requests[r].pc = "insert" =>
                requests[r].caller \in Did /\ requests[r].caller # job.postedBy
        /\ requests[r].pc = "accept" => requests[r].agent \in offers

Inv == Shape /\ OffersSound /\ RequestsSound /\ AcceptanceBacked
=============================================================================
