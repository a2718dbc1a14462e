------------------------- MODULE WorkerVerifications -------------------------
(***************************************************************************)
(* Independent verifications of one receipt in the Worker, and the verdict *)
(* its reputation service draws from them.  A submission reads the         *)
(* receipt, the verifier and the stored verifications one await after the  *)
(* other and then inserts its row; the only key of the table is the hash   *)
(* of the content, so two different decisions never collide there.         *)
(*                                                                         *)
(* A decision is the pair of a verifier and a result: the rest of the      *)
(* content (job, provider, output hash) is derived from the receipt or has *)
(* to match it.                                                            *)
(***************************************************************************)
EXTENDS FiniteSets, Naturals

CONSTANTS
    Did, None,
    Party,              \* requester and provider of the receipt
    Request             \* bound: how many requests can be in flight at once

VARIABLES
    receiptStatus,      \* status of the receipt
    authorized,         \* isAuthorizedVerifier
    retired,            \* identities with revokedAt or succeededBy
    verifications,      \* the decisions stored
    requests

vars == <<receiptStatus, authorized, retired, verifications, requests>>

Decision == [verifier : Did, result : {"verified", "rejected"}]

\* "decided" and "barred" remember, for checking, what was so when the request
\* began: that its verifier had a decision stored, and who was retired.
NoRequest == [pc |-> "idle", decision |-> None, decided |-> FALSE, records |-> {},
              counted |-> {}, barred |-> {}]

Decided(v) == \E d \in verifications : d.verifier = v

Init ==
    /\ receiptStatus = "draft"
    /\ authorized = {}
    /\ retired = {}
    /\ verifications = {}
    /\ requests = [r \in Request |-> NoRequest]

Answer(r) == requests' = [requests EXCEPT ![r] = NoRequest]
Goto(r, label) == requests' = [requests EXCEPT ![r].pc = label]
Tables == <<receiptStatus, authorized, retired, verifications>>

-----------------------------------------------------------------------------
(* submitVerification, one action per await. *)

\* The receipt is finalized and the verifier is neither of its parties.
SubmitVerification(r, d) ==
    /\ requests[r].pc = "idle"
    /\ receiptStatus = "finalized"
    /\ d.verifier \notin Party
    /\ d.verifier \notin retired
    /\ requests' = [requests EXCEPT ![r] =
            [NoRequest EXCEPT !.pc = "verifier", !.decision = d,
                              !.decided = Decided(d.verifier)]]
    /\ UNCHANGED Tables

\* The operator must have authorized the verifier.
GetVerifier(r) ==
    /\ requests[r].pc = "verifier"
    /\ IF requests[r].decision.verifier \in authorized THEN Goto(r, "duplicate") ELSE Answer(r)
    /\ UNCHANGED Tables

\* DUPLICATE_VERIFICATION: the same content is stored already.
GetVerification(r) ==
    /\ requests[r].pc = "duplicate"
    /\ IF requests[r].decision \in verifications THEN Answer(r) ELSE Goto(r, "decided")
    /\ UNCHANGED Tables

\* Seeded fault: only the content is looked for, not the verifier.
VerificationsByContent(r) ==
    /\ requests[r].pc = "decided"
    /\ IF requests[r].decision \in verifications THEN Answer(r) ELSE Goto(r, "insert")
    /\ UNCHANGED Tables

\* VERIFIER_ALREADY_DECIDED: some decision of this verifier is stored.
VerificationsByReceipt(r) ==
    /\ requests[r].pc = "decided"
    /\ IF Decided(requests[r].decision.verifier) THEN Answer(r) ELSE Goto(r, "insert")
    /\ UNCHANGED Tables

\* The primary key is the content; a second insert of the same fails.
InsertVerification(r) ==
    /\ requests[r].pc = "insert"
    /\ verifications' = verifications \cup {requests[r].decision}
    /\ Answer(r)
    /\ UNCHANGED <<receiptStatus, authorized, retired>>

-----------------------------------------------------------------------------
(* attestationVerdict: the records first, then one verifier per await. *)

ListByReceipt(r) ==
    /\ requests[r].pc = "idle"
    /\ verifications # {}
    /\ requests' = [requests EXCEPT ![r] =
            [NoRequest EXCEPT !.pc = "lookup", !.records = verifications, !.barred = retired]]
    /\ UNCHANGED Tables

\* Seeded fault: the grant alone counts, although revocation leaves it set.
Authorized(v) == v \in authorized

\* Authorized by the operator now, and neither revoked nor succeeded.
Standing(v) == v \in authorized /\ v \notin retired

LookupVerifier(r, d) ==
    /\ requests[r].pc = "lookup"
    /\ d \in requests[r].records
    /\ requests' = [requests EXCEPT
            ![r].records = @ \ {d},
            ![r].counted = IF Standing(d.verifier) THEN @ \cup {d} ELSE @]
    /\ UNCHANGED Tables

\* netVerdict: a strict majority of the counted records.
NetVerdict(counted) ==
    LET votes(result) == Cardinality({d \in counted : d.result = result}) IN
    CASE votes("verified") > votes("rejected") -> "verified"
      [] votes("rejected") > votes("verified") -> "rejected"
      [] OTHER -> "none"

AnswerVerdict(r) ==
    /\ requests[r].pc = "lookup"
    /\ requests[r].records = {}
    /\ Answer(r)
    /\ UNCHANGED Tables

-----------------------------------------------------------------------------
(* What else happens to the receipt and to the verifiers. *)

MoveReceipt ==
    /\ receiptStatus' = IF receiptStatus = "finalized" THEN "disputed" ELSE "finalized"
    /\ UNCHANGED <<authorized, retired, verifications, requests>>

\* setVerifierStatus refuses to touch a retired agent.
SetVerifierStatus(v) ==
    /\ v \notin retired
    /\ authorized' = IF v \in authorized THEN authorized \ {v} ELSE authorized \cup {v}
    /\ UNCHANGED <<receiptStatus, retired, verifications, requests>>

\* Revocation and succession leave the grant as it is.
Retire(v) ==
    /\ v \notin retired
    /\ retired' = retired \cup {v}
    /\ UNCHANGED <<receiptStatus, authorized, verifications, requests>>

Next ==
    \/ MoveReceipt
    \/ \E v \in Did \ Party : SetVerifierStatus(v) \/ Retire(v)
    \/ \E r \in Request :
        \/ \E d \in Decision : SubmitVerification(r, d) \/ LookupVerifier(r, d)
        \/ GetVerifier(r) \/ GetVerification(r) \/ VerificationsByReceipt(r)
        \/ InsertVerification(r) \/ ListByReceipt(r) \/ AnswerVerdict(r)

Spec == Init /\ [][Next]_vars

-----------------------------------------------------------------------------
(* A verifier holds two decisions on one receipt only if their requests    *)
(* overlapped: a request that begins when a decision of its verifier is    *)
(* stored never gets as far as the insert (verificationService.ts, "One    *)
(* verifier, one decision per receipt").  That two overlapping requests    *)
(* can both insert is the residue of check-then-insert.                    *)
SecondDecisionOverlaps ==
    \A r \in Request : requests[r].pc = "insert" => ~requests[r].decided

(* A verifier that was retired before the verdict was asked for never      *)
(* sways it, although the grant of a retired verifier stays set and the    *)
(* verifiers are read one by one while others retire (attestationVerdict). *)
RetiredSwayNothing ==
    \A r \in Request :
        LET q == requests[r] IN
        NetVerdict(q.counted) = NetVerdict({d \in q.counted : d.verifier \notin q.barred})

-----------------------------------------------------------------------------
(* What makes both inductive.  A decision that was stored when a request   *)
(* began still is when the request looks for it, so the request ends       *)
(* there; and whoever was retired when a verdict was asked for still is    *)
(* when its standing is read, so none of its records is counted.           *)
InFlight == [pc : {"idle", "verifier", "duplicate", "decided", "insert", "lookup"},
             decision : Decision \cup {None}, decided : BOOLEAN, records : SUBSET Decision,
             counted : SUBSET Decision, barred : SUBSET Did]

RequestSound(q) ==
    /\ q.pc \notin {"idle", "lookup"} => q.decision \in Decision
    /\ q.decided => /\ q.pc \in {"verifier", "duplicate", "decided"}
                    /\ Decided(q.decision.verifier)
    /\ q.barred \subseteq retired
    /\ \A d \in q.counted : d.verifier \notin q.barred

Inv ==
    /\ verifications \subseteq Decision
    /\ retired \subseteq Did
    /\ requests \in [Request -> InFlight]
    /\ \A r \in Request : RequestSound(requests[r])
=============================================================================
