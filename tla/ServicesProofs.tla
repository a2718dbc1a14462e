---------------------------- MODULE ServicesProofs ----------------------------
(***************************************************************************)
(* The Worker's services, one after the other, for any values of their     *)
(* constants.                                                              *)
(***************************************************************************)
EXTENDS MCServices, FiniteSetTheorems, SequenceTheorems, WellFoundedInduction, TLAPS

-----------------------------------------------------------------------------
(* Verifications and the verdict drawn from them. *)

LEMMA VerificationsInit == Verifications!Init => Verifications!Inv
BY DEF Verifications!Init, Verifications!Inv, Verifications!InFlight, Verifications!NoRequest,
       Verifications!RequestSound

\* Decisions are only added and nobody returns from retirement: what a
\* request carries over stays sound while others run.
LEMMA VerificationsKeep ==
    ASSUME NEW q, Verifications!RequestSound(q), x3 \subseteq x3', x4 \subseteq x4'
    PROVE  Verifications!RequestSound(q)'
BY DEF Verifications!RequestSound, Verifications!Decided

\* So a step is judged by the new state of the one request that moves.
LEMMA VerificationsStep ==
    ASSUME Verifications!Inv, x3 \subseteq x3', x3' \subseteq Did,
           x4 \subseteq x4', x4' \subseteq Verifications!Decision,
           NEW r \in Request, NEW new \in Verifications!InFlight,
           requests' = [requests EXCEPT ![r] = new],
           Verifications!RequestSound(new)'
    PROVE  Verifications!Inv'
<1>1. requests' \in [Request -> Verifications!InFlight]
  BY DEF Verifications!Inv
<1>2. ASSUME NEW s \in Request
      PROVE  \E q : requests'[s] = q /\ Verifications!RequestSound(q)'
  <2>1. CASE s = r
    BY <2>1 DEF Verifications!Inv
  <2>2. CASE s # r
    BY <2>2, VerificationsKeep DEF Verifications!Inv
  <2> QED
    BY <2>1, <2>2
<1> QED
  BY <1>1, <1>2 DEF Verifications!Inv, Verifications!InFlight, Verifications!Decision

\* A request that ends leaves nothing behind.
LEMMA VerificationsIdle ==
    /\ Verifications!NoRequest \in Verifications!InFlight
    /\ Verifications!RequestSound(Verifications!NoRequest)'
BY DEF Verifications!NoRequest, Verifications!InFlight, Verifications!RequestSound

LEMMA VerificationsSubmit ==
    ASSUME Verifications!Inv, NEW r \in Request, NEW d \in Verifications!Decision,
           Verifications!SubmitVerification(r, d)
    PROVE  Verifications!Inv'
<1> SUFFICES ASSUME NEW new,
        new = [Verifications!NoRequest EXCEPT !.pc = "verifier", !.decision = d,
                                              !.decided = Verifications!Decided(d.verifier)]
    PROVE  Verifications!Inv'
  OBVIOUS
<1>1. new \in Verifications!InFlight
  BY DEF Verifications!NoRequest, Verifications!InFlight, Verifications!Decided
<1>2. UNCHANGED <<x3, x4>> /\ requests' = [requests EXCEPT ![r] = new]
  BY DEF Verifications!SubmitVerification, Verifications!Tables
<1>3. Verifications!RequestSound(new)'
  BY <1>2 DEF Verifications!RequestSound, Verifications!NoRequest, Verifications!Decided
<1> QED
  BY <1>1, <1>2, <1>3, VerificationsStep DEF Verifications!Inv

\* The reads of a submission: each ends the request or takes it one await on.
LEMMA VerificationsRead ==
    ASSUME Verifications!Inv, NEW r \in Request,
           \/ Verifications!GetVerifier(r) \/ Verifications!GetVerification(r)
           \/ Verifications!VerificationsByReceipt(r)
    PROVE  Verifications!Inv'
<1> DEFINE q == requests[r]
<1>1. /\ q \in Verifications!InFlight /\ Verifications!RequestSound(q)
      /\ q.pc \in {"verifier", "duplicate", "decided"}
  BY DEF Verifications!Inv, Verifications!GetVerifier, Verifications!GetVerification,
         Verifications!VerificationsByReceipt
<1>2. UNCHANGED <<x3, x4>>
  BY DEF Verifications!GetVerifier, Verifications!GetVerification,
         Verifications!VerificationsByReceipt, Verifications!Tables
<1>3. CASE Verifications!Answer(r)
  BY <1>2, <1>3, VerificationsIdle, VerificationsStep DEF Verifications!Inv, Verifications!Answer
<1>4. ASSUME NEW label \in {"duplicate", "decided", "insert"}, Verifications!Goto(r, label),
             label = "insert" => ~q.decided
      PROVE  Verifications!Inv'
  <2> SUFFICES ASSUME NEW new, new = [q EXCEPT !.pc = label] PROVE Verifications!Inv'
    OBVIOUS
  <2>1. new \in Verifications!InFlight /\ requests' = [requests EXCEPT ![r] = new]
    BY <1>1, <1>4 DEF Verifications!InFlight, Verifications!Goto
  <2>2. Verifications!RequestSound(new)'
    BY <1>1, <1>2, <1>4 DEF Verifications!RequestSound, Verifications!Decided,
       Verifications!InFlight
  <2> QED
    BY <1>2, <2>1, <2>2, VerificationsStep DEF Verifications!Inv
<1>5. \/ Verifications!Answer(r)
      \/ \E label \in {"duplicate", "decided", "insert"} :
            Verifications!Goto(r, label) /\ (label = "insert" => ~q.decided)
  BY <1>1 DEF Verifications!GetVerifier, Verifications!GetVerification,
     Verifications!VerificationsByReceipt, Verifications!RequestSound
<1> QED
  BY <1>3, <1>4, <1>5

LEMMA VerificationsInsert ==
    ASSUME Verifications!Inv, NEW r \in Request, Verifications!InsertVerification(r)
    PROVE  Verifications!Inv'
<1>1. requests[r].decision \in Verifications!Decision
  BY DEF Verifications!Inv, Verifications!RequestSound, Verifications!InsertVerification
<1> QED
  BY <1>1, VerificationsIdle, VerificationsStep
  DEF Verifications!Inv, Verifications!InsertVerification, Verifications!Answer

LEMMA VerificationsList ==
    ASSUME Verifications!Inv, NEW r \in Request, Verifications!ListByReceipt(r)
    PROVE  Verifications!Inv'
<1> SUFFICES ASSUME NEW new,
        new = [Verifications!NoRequest EXCEPT !.pc = "lookup", !.records = x4, !.barred = x3]
    PROVE  Verifications!Inv'
  OBVIOUS
<1>1. UNCHANGED <<x3, x4>> /\ requests' = [requests EXCEPT ![r] = new]
  BY DEF Verifications!ListByReceipt, Verifications!Tables
<1>2. new \in Verifications!InFlight /\ Verifications!RequestSound(new)'
  BY <1>1 DEF Verifications!NoRequest, Verifications!InFlight, Verifications!Inv,
     Verifications!RequestSound
<1> QED
  BY <1>1, <1>2, VerificationsStep DEF Verifications!Inv

\* A record is counted only if its verifier stands, and then it was not
\* retired when the verdict was asked for.
LEMMA VerificationsLookup ==
    ASSUME Verifications!Inv, NEW r \in Request, NEW d \in Verifications!Decision,
           Verifications!LookupVerifier(r, d)
    PROVE  Verifications!Inv'
<1> DEFINE q == requests[r]
           counted == IF Verifications!Standing(d.verifier) THEN q.counted \cup {d} ELSE q.counted
<1>1. q \in Verifications!InFlight /\ Verifications!RequestSound(q) /\ q.pc = "lookup"
  BY DEF Verifications!Inv, Verifications!LookupVerifier
<1> SUFFICES ASSUME NEW new, new = [q EXCEPT !.records = @ \ {d}, !.counted = counted]
             PROVE  Verifications!Inv'
  OBVIOUS
<1>2. UNCHANGED <<x3, x4>> /\ requests' = [requests EXCEPT ![r] = new]
  BY <1>1 DEF Verifications!LookupVerifier, Verifications!Tables, Verifications!Inv,
     Verifications!InFlight
<1>3. counted \in SUBSET Verifications!Decision /\ \A e \in counted : e.verifier \notin q.barred
  BY <1>1 DEF Verifications!InFlight, Verifications!RequestSound, Verifications!Standing
<1>4. new \in Verifications!InFlight
  BY <1>1, <1>3 DEF Verifications!InFlight
<1>5. Verifications!RequestSound(new)'
  BY <1>1, <1>2, <1>3 DEF Verifications!InFlight, Verifications!RequestSound
<1> QED
  BY <1>2, <1>4, <1>5, VerificationsStep DEF Verifications!Inv

LEMMA VerificationsAnswer ==
    ASSUME Verifications!Inv, NEW r \in Request, Verifications!AnswerVerdict(r)
    PROVE  Verifications!Inv'
BY VerificationsIdle, VerificationsStep DEF Verifications!Inv, Verifications!AnswerVerdict,
   Verifications!Answer, Verifications!Tables

\* What happens to the receipt and to the verifiers leaves the requests alone.
LEMMA VerificationsQuiet ==
    ASSUME Verifications!Inv, UNCHANGED <<x4, requests>>, x3 \subseteq x3', x3' \subseteq Did
    PROVE  Verifications!Inv'
<1>1. \A r \in Request : Verifications!RequestSound(requests[r])'
  BY DEF Verifications!Inv, Verifications!RequestSound, Verifications!Decided
<1> QED
  BY <1>1 DEF Verifications!Inv

LEMMA VerificationsNext ==
    Verifications!Inv /\ [Verifications!Next]_(Verifications!vars) => Verifications!Inv'
<1> SUFFICES ASSUME Verifications!Inv, [Verifications!Next]_(Verifications!vars)
             PROVE  Verifications!Inv'
  OBVIOUS
<1>1. CASE \/ UNCHANGED Verifications!vars \/ Verifications!MoveReceipt
           \/ \E v \in Did \ Involved :
                Verifications!SetVerifierStatus(v) \/ Verifications!Retire(v)
  BY <1>1, VerificationsQuiet DEF Verifications!Inv, Verifications!vars,
     Verifications!MoveReceipt, Verifications!SetVerifierStatus, Verifications!Retire
<1>2. ASSUME NEW r \in Request,
             \/ \E d \in Verifications!Decision :
                    Verifications!SubmitVerification(r, d) \/ Verifications!LookupVerifier(r, d)
             \/ Verifications!GetVerifier(r) \/ Verifications!GetVerification(r)
             \/ Verifications!VerificationsByReceipt(r) \/ Verifications!InsertVerification(r)
             \/ Verifications!ListByReceipt(r) \/ Verifications!AnswerVerdict(r)
      PROVE  Verifications!Inv'
  BY <1>2, VerificationsSubmit, VerificationsLookup, VerificationsRead, VerificationsInsert,
     VerificationsList, VerificationsAnswer
<1> QED
  BY <1>1, <1>2 DEF Verifications!Next

\* A second decision of a verifier on a receipt comes only of overlapping
\* requests, however many submissions are in flight (submitVerification).
THEOREM SecondDecisionCorrect == Spec => []SecondDecisionOverlaps
<1> DEFINE I == service = "verifications" => Verifications!Inv
<1>1. Init => I
  BY VerificationsInit DEF Init
<1>2. I /\ [Next]_vars => I'
  BY VerificationsNext DEF Next, vars, Verifications!vars
<1>3. I => SecondDecisionOverlaps
  BY DEF SecondDecisionOverlaps, Verifications!SecondDecisionOverlaps, Verifications!Inv,
     Verifications!RequestSound
<1> QED
  BY <1>1, <1>2, <1>3, PTL DEF Spec

\* A verifier retired before a verdict was asked for never sways it, however
\* many retire while its verifiers are looked up (attestationVerdict).
THEOREM RetiredSwayNothingCorrect == Spec => []RetiredSwayNothing
<1> DEFINE I == service = "verifications" => Verifications!Inv
<1>1. Init => I
  BY VerificationsInit DEF Init
<1>2. I /\ [Next]_vars => I'
  BY VerificationsNext DEF Next, vars, Verifications!vars
<1>3. ASSUME Verifications!Inv, NEW r \in Request
      PROVE  {d \in requests[r].counted : d.verifier \notin requests[r].barred}
                = requests[r].counted
  BY <1>3 DEF Verifications!Inv, Verifications!RequestSound
<1>4. I => RetiredSwayNothing
  BY <1>3 DEF RetiredSwayNothing, Verifications!RetiredSwayNothing
<1> QED
  BY <1>1, <1>2, <1>4, PTL DEF Spec

-----------------------------------------------------------------------------
(* A job from its posting to the acceptance of an offer. *)

LEMMA JobsInit == ASSUME None \notin Did PROVE Jobs!Init => Jobs!Inv
BY DEF Jobs!Init, Jobs!Inv, Jobs!Shape, Jobs!Status, Jobs!OffersSound, Jobs!RequestsSound,
   Jobs!AcceptanceBacked, Jobs!NoJob, Jobs!NoRequest

-----------------------------------------------------------------------------
(* One lemma for each kind of step. *)

\* Steps of a request that touch neither the job nor the offers.
JobsReadStep(r) ==
    \/ \E caller \in Did : Jobs!SubmitOffer(r, caller)
    \/ \E caller, agent \in Did : Jobs!AcceptOffer(r, caller, agent)
    \/ Jobs!OfferExists(r)

LEMMA JobsRead ==
    ASSUME None \notin Did, Jobs!Inv, NEW r \in Request, JobsReadStep(r)
    PROVE  Jobs!Inv'
<1>0. UNCHANGED <<x1, x2, x3>> /\ x2.status # "absent"
  BY DEF JobsReadStep, Jobs!Inv, Jobs!OffersSound, Jobs!SubmitOffer, Jobs!AcceptOffer,
     Jobs!OfferExists, Jobs!NoJob
<1>1. Jobs!Shape'
  BY <1>0 DEF JobsReadStep, Jobs!Inv, Jobs!Shape, Jobs!SubmitOffer, Jobs!AcceptOffer,
     Jobs!OfferExists, Jobs!Answer, Jobs!NoRequest
<1>2. Jobs!OffersSound'
  BY <1>0 DEF Jobs!Inv, Jobs!OffersSound
<1>3. Jobs!RequestsSound'
  BY <1>0 DEF JobsReadStep, Jobs!Inv, Jobs!Shape, Jobs!RequestsSound, Jobs!SubmitOffer,
     Jobs!AcceptOffer, Jobs!OfferExists, Jobs!Answer, Jobs!NoRequest
<1>4. Jobs!AcceptanceBacked'
  BY <1>0 DEF Jobs!Inv, Jobs!AcceptanceBacked
<1> QED
  BY <1>1, <1>2, <1>3, <1>4 DEF Jobs!Inv

LEMMA JobsInsertOffer ==
    ASSUME None \notin Did, Jobs!Inv, NEW r \in Request, Jobs!InsertOffer(r)
    PROVE  Jobs!Inv'
<1>0. /\ requests[r].caller \in Did \ {x2.postedBy}
      /\ x2.status # "absent"
  BY DEF Jobs!Inv, Jobs!RequestsSound, Jobs!OffersSound, Jobs!InsertOffer
<1>1. Jobs!Shape'
  BY <1>0 DEF Jobs!Inv, Jobs!Shape, Jobs!InsertOffer, Jobs!Answer, Jobs!NoRequest
<1>2. Jobs!OffersSound'
  BY <1>0 DEF Jobs!Inv, Jobs!OffersSound, Jobs!InsertOffer
<1>3. Jobs!RequestsSound'
  BY DEF Jobs!Inv, Jobs!Shape, Jobs!RequestsSound, Jobs!InsertOffer, Jobs!Answer, Jobs!NoRequest
<1>4. Jobs!AcceptanceBacked'
  BY DEF Jobs!Inv, Jobs!AcceptanceBacked, Jobs!InsertOffer
<1> QED
  BY <1>1, <1>2, <1>3, <1>4 DEF Jobs!Inv

LEMMA JobsAccept ==
    ASSUME None \notin Did, Jobs!Inv, NEW r \in Request, Jobs!AcceptJobIfOpen(r)
    PROVE  Jobs!Inv'
<1>0. /\ requests[r].agent \in x3
      /\ x2.status # "absent"
  BY DEF Jobs!Inv, Jobs!RequestsSound, Jobs!OffersSound, Jobs!AcceptJobIfOpen
<1>1. /\ x2'.postedBy = x2.postedBy
      /\ x2'.status # "absent"
      /\ x2' # x2 => x2'.status = "accepted" /\ x2'.acceptedAgent = requests[r].agent
  BY <1>0 DEF Jobs!Inv, Jobs!Shape, Jobs!AcceptJobIfOpen
<1>2. Jobs!Shape'
  BY <1>0 DEF Jobs!Inv, Jobs!Shape, Jobs!Status, Jobs!AcceptJobIfOpen, Jobs!Answer,
     Jobs!NoRequest
<1>3. Jobs!OffersSound'
  BY <1>1 DEF Jobs!Inv, Jobs!OffersSound, Jobs!AcceptJobIfOpen
<1>4. Jobs!RequestsSound'
  BY <1>1 DEF Jobs!Inv, Jobs!Shape, Jobs!RequestsSound, Jobs!AcceptJobIfOpen, Jobs!Answer,
     Jobs!NoRequest
<1>5. Jobs!AcceptanceBacked'
  <2>1. CASE x2' = x2
    BY <2>1 DEF Jobs!Inv, Jobs!AcceptanceBacked, Jobs!AcceptJobIfOpen
  <2>2. CASE x2' # x2
    BY <1>0, <1>1, <2>2 DEF Jobs!Inv, Jobs!Shape, Jobs!OffersSound, Jobs!AcceptanceBacked,
       Jobs!AcceptJobIfOpen
  <2> QED
    BY <2>1, <2>2
<1> QED
  BY <1>2, <1>3, <1>4, <1>5 DEF Jobs!Inv

LEMMA JobsPost ==
    ASSUME None \notin Did, Jobs!Inv, NEW caller \in Did, NEW expiry \in Expiry, Jobs!PostJob(caller, expiry)
    PROVE  Jobs!Inv'
<1>0. x3 = {} /\ \A r \in Request : requests[r].pc = "idle"
  BY DEF Jobs!Inv, Jobs!OffersSound, Jobs!PostJob, Jobs!NoJob
<1>1. Jobs!Shape'
  BY DEF Jobs!Inv, Jobs!Shape, Jobs!Status, Jobs!PostJob, Jobs!NoJob
<1>2. Jobs!OffersSound'
  BY <1>0 DEF Jobs!OffersSound, Jobs!PostJob, Jobs!NoJob
<1>3. Jobs!RequestsSound'
  BY <1>0 DEF Jobs!RequestsSound, Jobs!PostJob
<1>4. Jobs!AcceptanceBacked'
  BY DEF Jobs!AcceptanceBacked, Jobs!PostJob, Jobs!NoJob
<1> QED
  BY <1>1, <1>2, <1>3, <1>4 DEF Jobs!Inv

\* Cancelling and what follows acceptance write the status alone.
LEMMA JobsStatus ==
    ASSUME None \notin Did, Jobs!Inv,
           Jobs!CancelJobIfCancellable \/ \E s \in {"completed", "nonperformed"} : Jobs!SettleIfAccepted(s)
    PROVE  Jobs!Inv'
<1>1. PICK s \in {"cancelled", "completed", "nonperformed"} :
        /\ x2' = [x2 EXCEPT !.status = s]
        /\ s # "cancelled" => x2.status = "accepted"
  BY DEF Jobs!CancelJobIfCancellable, Jobs!SettleIfAccepted
<1>2. UNCHANGED <<x1, x3, requests>> /\ x2.status # "absent"
  BY DEF Jobs!CancelJobIfCancellable, Jobs!SettleIfAccepted
<1>3. Jobs!Shape'
  BY <1>1, <1>2 DEF Jobs!Inv, Jobs!Shape, Jobs!Status
<1>4. Jobs!OffersSound' /\ Jobs!RequestsSound'
  BY <1>1, <1>2 DEF Jobs!Inv, Jobs!Shape, Jobs!OffersSound, Jobs!RequestsSound
<1>5. Jobs!AcceptanceBacked'
  BY <1>1, <1>2 DEF Jobs!Inv, Jobs!Shape, Jobs!AcceptanceBacked
<1> QED
  BY <1>3, <1>4, <1>5 DEF Jobs!Inv

LEMMA JobsQuiet ==
    ASSUME Jobs!Inv, UNCHANGED Jobs!vars \/ Jobs!Tick
    PROVE  Jobs!Inv'
BY DEF Jobs!vars, Jobs!Tick, Jobs!Inv, Jobs!Shape, Jobs!OffersSound, Jobs!RequestsSound,
   Jobs!AcceptanceBacked

LEMMA JobsNext == ASSUME None \notin Did, Jobs!Inv, [Jobs!Next]_(Jobs!vars) PROVE Jobs!Inv'
<1>1. CASE UNCHANGED Jobs!vars \/ Jobs!Tick
  BY <1>1, JobsQuiet
<1>2. CASE Jobs!CancelJobIfCancellable \/ \E s \in {"completed", "nonperformed"} : Jobs!SettleIfAccepted(s)
  BY <1>2, JobsStatus
<1>3. CASE \E caller \in Did, expiry \in Expiry : Jobs!PostJob(caller, expiry)
  BY <1>3, JobsPost
<1>4. ASSUME NEW r \in Request, JobsReadStep(r) \/ Jobs!InsertOffer(r) \/ Jobs!AcceptJobIfOpen(r)
      PROVE  Jobs!Inv'
  BY <1>4, JobsRead, JobsInsertOffer, JobsAccept
<1> QED
  BY <1>1, <1>2, <1>3, <1>4 DEF Jobs!Next, JobsReadStep

\* Whoever is accepted made an offer and is not the poster, however many
\* offers and acceptances are in flight (acceptOffer, submitOffer).
THEOREM AcceptedAgentOffered == Spec => []AcceptanceBacked
<1> DEFINE I == service = "jobs" => Jobs!Inv
<1>0. None \notin Did
  BY ServicesAssumption
<1>1. Init => I
  BY <1>0, JobsInit DEF Init
<1>2. I /\ [Next]_vars => I'
  BY <1>0, JobsNext DEF Next, vars, Jobs!vars
<1>3. I => AcceptanceBacked
  BY DEF AcceptanceBacked, Jobs!Inv
<1> QED
  BY <1>1, <1>2, <1>3, PTL DEF Spec

\* Of all acceptances in flight one wins, and it stands with its time for
\* ever (acceptJobIfOpen).
THEOREM AcceptedForGood == Jobs!Spec => Jobs!AcceptedOnce
<1>0. None \notin Did
  BY ServicesAssumption
<1>1. Jobs!Init => Jobs!Inv
  BY <1>0, JobsInit
<1>2. Jobs!Inv /\ [Jobs!Next]_(Jobs!vars) => Jobs!Inv'
  BY <1>0, JobsNext
<1>3. ASSUME Jobs!Inv, [Jobs!Next]_(Jobs!vars), x2.acceptedAgent # None
      PROVE  /\ x2'.acceptedAgent = x2.acceptedAgent
             /\ x2'.acceptedAt = x2.acceptedAt
             /\ x2'.status # "open"
  <2>1. x2.status \notin {"absent", "open"}
    BY <1>3 DEF Jobs!Inv, Jobs!AcceptanceBacked
  <2>2. CASE UNCHANGED x2
    BY <2>1, <2>2, <1>3
  <2>3. ASSUME NEW s \in Jobs!Status \ {"open"}, x2' = [x2 EXCEPT !.status = s]
        PROVE  /\ x2'.acceptedAgent = x2.acceptedAgent
               /\ x2'.acceptedAt = x2.acceptedAt
               /\ x2'.status # "open"
    BY <1>3, <2>3 DEF Jobs!Inv, Jobs!Shape
  <2>4. UNCHANGED x2 \/ \E s \in Jobs!Status \ {"open"} : x2' = [x2 EXCEPT !.status = s]
    BY <1>3, <2>1
    DEF Jobs!Next, Jobs!vars, Jobs!Tick, Jobs!CancelJobIfCancellable, Jobs!SettleIfAccepted,
        Jobs!PostJob, Jobs!SubmitOffer, Jobs!AcceptOffer, Jobs!InsertOffer, Jobs!OfferExists,
        Jobs!AcceptJobIfOpen, Jobs!NoJob, Jobs!Status
  <2> QED
    BY <2>2, <2>3, <2>4
<1> QED
  BY <1>1, <1>2, <1>3, PTL DEF Jobs!Spec, Jobs!AcceptedOnce

-----------------------------------------------------------------------------
(* Identity links in the Node registry. *)

LEMMA NodeLinksInit == NodeLinks!Init => NodeLinks!Inv
BY DEF NodeLinks!Init, NodeLinks!Inv, NodeLinks!Shape, NodeLinks!Columns, NodeLinks!ProofBacksLink,
   NodeLinks!NoLinks, NodeLinks!Protocol

\* A claim of an endpoint touches no protocol that needs a proof.
LEMMA NodeLinksClaim ==
    ASSUME NodeLinks!Inv, NEW d \in Pair, NEW v \in Value, NodeLinks!LinkEndpoint(d, v)
    PROVE  NodeLinks!Inv'
<1> DEFINE claim == [method |-> "unverified_claim", key |-> None]
           new == NodeLinks!NewLinks(x2[d], Endpoint, v, claim)
<1>1. x2' = [x2 EXCEPT ![d] = new] /\ x4' = x4
  BY DEF NodeLinks!LinkEndpoint
<1>2. NodeLinks!Shape'
  <2>1. new \in NodeLinks!Columns
    BY DEF NodeLinks!Inv, NodeLinks!Shape, NodeLinks!Columns, NodeLinks!NewLinks
  <2> QED
    BY <1>1, <2>1 DEF NodeLinks!Inv, NodeLinks!Shape
<1>3. ASSUME NEW e \in Pair, NEW p \in Challengeable
      PROVE  /\ x2'[e].linked[p] = x2[e].linked[p]
             /\ x2'[e].linkedProof[p] = x2[e].linkedProof[p]
  <2>1. p # Endpoint /\ p \in NodeLinks!Protocol
    BY ServicesAssumption DEF NodeLinks!Protocol
  <2>2. new.linked[p] = x2[d].linked[p] /\ new.linkedProof[p] = x2[d].linkedProof[p]
    BY <2>1 DEF NodeLinks!NewLinks, NodeLinks!Inv, NodeLinks!Shape, NodeLinks!Columns
  <2> QED
    BY <1>1, <2>2 DEF NodeLinks!Inv, NodeLinks!Shape
<1>4. NodeLinks!ProofBacksLink'
  BY <1>1, <1>3 DEF NodeLinks!Inv, NodeLinks!ProofBacksLink, NodeLinks!ValueAllowed
<1> QED
  BY <1>2, <1>4 DEF NodeLinks!Inv

\* A completed challenge replaces one protocol's link by one just proven.
LEMMA NodeLinksComplete ==
    ASSUME NodeLinks!Inv, NEW d \in Pair, NEW p \in Challengeable, NEW c \in ChallengeId,
           NEW v \in Value \cup Key, NEW k \in Key, NodeLinks!CompleteLink(d, p, v, c, k)
    PROVE  NodeLinks!Inv'
<1> DEFINE proof == [method |-> "key_possession", key |-> k]
           new == NodeLinks!NewLinks(x2[d], p, v, proof)
<1>1. x3[c].key = k /\ NodeLinks!ValueAllowed(p, v, k)
  BY DEF NodeLinks!CompleteLink, NodeLinks!ProofVerifies
<1>2. x2' = [x2 EXCEPT ![d] = new] /\ x4' = x4 \cup {<<d, p, k>>}
  BY <1>1 DEF NodeLinks!CompleteLink
<1>3. p \in NodeLinks!Protocol
  BY DEF NodeLinks!Protocol
<1>4. new \in NodeLinks!Columns
  BY <1>3 DEF NodeLinks!Inv, NodeLinks!Shape, NodeLinks!Columns, NodeLinks!NewLinks
<1>5. NodeLinks!Shape'
  BY <1>2, <1>4 DEF NodeLinks!Inv, NodeLinks!Shape
<1>6. new.linked[p] = v /\ new.linkedProof[p] = proof
  BY <1>3 DEF NodeLinks!NewLinks, NodeLinks!Inv, NodeLinks!Shape, NodeLinks!Columns
<1>7. ASSUME NEW e \in Pair, NEW o \in Challengeable, e # d \/ o # p
      PROVE  /\ x2'[e].linked[o] = x2[e].linked[o]
             /\ x2'[e].linkedProof[o] = x2[e].linkedProof[o]
             /\ \A j \in Key : <<e, o, j>> \in x4' => <<e, o, j>> \in x4
  <2>1. o \in NodeLinks!Protocol
    BY DEF NodeLinks!Protocol
  <2>2. o # p => /\ new.linked[o] = x2[d].linked[o]
                 /\ new.linkedProof[o] = x2[d].linkedProof[o]
    BY <2>1 DEF NodeLinks!NewLinks, NodeLinks!Inv, NodeLinks!Shape, NodeLinks!Columns
  <2> QED
    BY <1>2, <1>7, <2>2 DEF NodeLinks!Inv, NodeLinks!Shape
<1>8. ASSUME NEW e \in Pair, NEW o \in Challengeable
      PROVE  /\ x2'[e].linked[o] # None =>
                    /\ x2'[e].linkedProof[o].method = "key_possession"
                    /\ <<e, o, x2'[e].linkedProof[o].key>> \in x4'
                    /\ NodeLinks!ValueAllowed(o, x2'[e].linked[o], x2'[e].linkedProof[o].key)
             /\ \A j \in Key : <<e, o, j>> \in x4' => x2'[e].linked[o] # None
  <2>1. CASE e = d /\ o = p
    <3>1. x2'[e].linked[o] = v /\ x2'[e].linkedProof[o] = proof
      BY <1>2, <1>6, <2>1 DEF NodeLinks!Inv, NodeLinks!Shape
    <3> QED
      BY <1>1, <1>2, <2>1, <3>1, ServicesAssumption
  <2>2. CASE e # d \/ o # p
    BY <1>2, <1>7, <2>2 DEF NodeLinks!Inv, NodeLinks!ProofBacksLink
  <2> QED
    BY <2>1, <2>2
<1> QED
  BY <1>5, <1>8 DEF NodeLinks!Inv, NodeLinks!ProofBacksLink, NodeLinks!ValueAllowed

LEMMA NodeLinksNext == NodeLinks!Inv /\ [NodeLinks!Next]_(NodeLinks!vars) => NodeLinks!Inv'
<1> SUFFICES ASSUME NodeLinks!Inv, [NodeLinks!Next]_(NodeLinks!vars) PROVE NodeLinks!Inv'
  OBVIOUS
<1>1. CASE UNCHANGED <<x2, x4>>
  BY <1>1 DEF NodeLinks!Inv, NodeLinks!Shape, NodeLinks!ProofBacksLink, NodeLinks!ValueAllowed
<1>2. ASSUME NEW d \in Pair, NEW v \in Value, NodeLinks!LinkEndpoint(d, v)
      PROVE  NodeLinks!Inv'
  BY <1>2, NodeLinksClaim
<1>3. ASSUME NEW d \in Pair, NEW p \in Challengeable, NEW c \in ChallengeId,
             NEW v \in Value \cup Key, NEW k \in Key, NodeLinks!CompleteLink(d, p, v, c, k)
      PROVE  NodeLinks!Inv'
  BY <1>3, NodeLinksComplete
<1> QED
  BY <1>1, <1>2, <1>3 DEF NodeLinks!Next, NodeLinks!vars, NodeLinks!Tick, NodeLinks!Restart,
     NodeLinks!RequestLinkChallenge

-----------------------------------------------------------------------------
(* Identity links in the Worker. *)

LEMMA LinksInit == Links!Init => Links!Inv
BY DEF Links!Init, Links!Inv, Links!Columns, Links!Proof, Links!Challenge, Links!InFlight,
   Links!RequestSound, Links!ProofBacksLink, Links!RowBacked, Links!Backed, Links!NoLinks,
   Links!NoChallenge, Links!NoRequest, Links!Protocol

\* A challenge once issued keeps its agent, protocol and key, and a consumed
\* one stays consumed.
ChallengesKept ==
    \A c \in ChallengeId : x3[c] # Links!NoChallenge =>
        /\ x3'[c] # Links!NoChallenge
        /\ x3'[c].agentId = x3[c].agentId
        /\ x3'[c].protocol = x3[c].protocol
        /\ x3'[c].key = x3[c].key
        /\ x3[c].used => x3'[c].used

\* So what was backed stays backed,
LEMMA LinksBacked ==
    ASSUME ChallengesKept, NEW d, NEW p, NEW value, NEW proof, Links!Backed(d, p, value, proof)
    PROVE  Links!Backed(d, p, value, proof)'
<1>1. ASSUME NEW c \in ChallengeId, x3[c].used
      PROVE  x3[c] # Links!NoChallenge
  BY <1>1 DEF Links!NoChallenge
<1> QED
  BY <1>1 DEF Links!Backed, Links!ValueAllowed, ChallengesKept

LEMMA LinksRowBacked ==
    ASSUME ChallengesKept, NEW d, NEW row, Links!RowBacked(d, row)
    PROVE  Links!RowBacked(d, row)'
BY LinksBacked DEF Links!RowBacked, Links!Protocol

\* and what a request carries over stays sound while others run.
LEMMA LinksKeep ==
    ASSUME ChallengesKept, NEW q, Links!RequestSound(q)
    PROVE  Links!RequestSound(q)'
<1>1. q.pc \in {"read", "write"} => Links!Backed(q.caller, q.protocol, q.value, q.proof)'
  BY LinksBacked DEF Links!RequestSound
<1>2. q.pc = "write" => Links!RowBacked(q.caller, q.row)'
  BY LinksRowBacked DEF Links!RequestSound
<1>3. q.pc = "consume" =>
        /\ q.challenge \in ChallengeId /\ x3'[q.challenge] # Links!NoChallenge
        /\ Links!ChallengeMatches(q.challenge, q.caller, q.protocol)'
        /\ q.proof = [method |-> "key_possession", key |-> x3'[q.challenge].key]
  BY DEF Links!RequestSound, Links!ChallengeMatches, ChallengesKept
<1> QED
  BY <1>1, <1>2, <1>3 DEF Links!RequestSound, Links!CarriesLink, Links!Protocol, Links!Proof,
     Links!ValueAllowed, Links!NoChallenge

\* A step is judged by the tables it writes and by the one request that moves.
LEMMA LinksStep ==
    ASSUME Links!Inv, ChallengesKept, UNCHANGED x1, x3' \in [ChallengeId -> Links!Challenge],
           x2' \in [Pair -> Links!Columns], Links!ProofBacksLink',
           NEW r \in Request, NEW new \in Links!InFlight,
           requests' = [requests EXCEPT ![r] = new], Links!RequestSound(new)'
    PROVE  Links!Inv'
<1>1. requests' \in [Request -> Links!InFlight]
  BY DEF Links!Inv
<1>2. ASSUME NEW s \in Request
      PROVE  \E q : requests'[s] = q /\ Links!RequestSound(q)'
  <2>1. CASE s = r
    BY <2>1 DEF Links!Inv
  <2>2. CASE s # r
    BY <2>2, LinksKeep DEF Links!Inv
  <2> QED
    BY <2>1, <2>2
<1> QED
  BY <1>1, <1>2 DEF Links!Inv, Links!Columns, Links!Challenge, Links!InFlight, Links!Protocol,
     Links!Proof

\* What is shown stays backed when nobody writes it.
LEMMA LinksShown ==
    ASSUME Links!Inv, ChallengesKept, UNCHANGED x2
    PROVE  Links!ProofBacksLink' /\ x2' \in [Pair -> Links!Columns]
<1>1. ASSUME NEW d \in Pair
      PROVE  \E row : x2'[d] = row /\ Links!RowBacked(d, row)'
  BY LinksRowBacked DEF Links!Inv, Links!ProofBacksLink
<1> QED
  BY <1>1 DEF Links!Inv, Links!ProofBacksLink

LEMMA LinksTables ==
    ASSUME Links!Inv, UNCHANGED <<x2, x3>>
    PROVE  /\ ChallengesKept /\ Links!ProofBacksLink'
           /\ x3' \in [ChallengeId -> Links!Challenge] /\ x2' \in [Pair -> Links!Columns]
<1>1. ChallengesKept
  BY DEF ChallengesKept
<1> QED
  BY <1>1, LinksShown DEF Links!Inv

\* A request that ends leaves nothing behind.
LEMMA LinksIdle == Links!NoRequest \in Links!InFlight /\ Links!RequestSound(Links!NoRequest)'
BY DEF Links!NoRequest, Links!InFlight, Links!RequestSound, Links!NoLinks, Links!Columns,
   Links!Proof, Links!Protocol

LEMMA LinksIssue ==
    ASSUME Links!Inv, NEW d \in Pair, NEW p \in Challengeable, NEW k \in Key,
           NEW c \in ChallengeId, Links!RequestLinkChallenge(d, p, k, c)
    PROVE  Links!Inv'
<1> DEFINE new == [agentId |-> d, protocol |-> p, key |-> k,
                   expiresAt |-> x1 + LinkChallengeTtl, used |-> FALSE]
<1>1. new \in Links!Challenge
  BY ServicesAssumption DEF Links!Inv, Links!Challenge, Links!Protocol
<1>2. x3' = [x3 EXCEPT ![c] = new] /\ UNCHANGED <<x1, x2, requests>> /\ x3[c] = Links!NoChallenge
  BY DEF Links!RequestLinkChallenge
<1>3. x3' \in [ChallengeId -> Links!Challenge]
  BY <1>1, <1>2 DEF Links!Inv
<1>4. ChallengesKept
  BY <1>2 DEF ChallengesKept, Links!Inv
<1>5. ASSUME NEW r \in Request
      PROVE  \E q : requests'[r] = q /\ Links!RequestSound(q)'
  BY <1>2, <1>4, LinksKeep DEF Links!Inv
<1> QED
  BY <1>2, <1>3, <1>4, <1>5, LinksShown DEF Links!Inv, Links!Columns, Links!Challenge,
     Links!InFlight, Links!Protocol, Links!Proof

LEMMA LinksComplete ==
    ASSUME Links!Inv, NEW r \in Request, NEW d \in Pair, NEW p \in Links!Protocol,
           NEW v \in Value \cup Key, NEW c \in ChallengeId, Links!CompleteLink(r, d, p, v, c)
    PROVE  Links!Inv'
<1> DEFINE proof == [method |-> "key_possession", key |-> x3[c].key]
<1> SUFFICES ASSUME NEW new,
        new = [Links!NoRequest EXCEPT !.pc = "consume", !.caller = d, !.protocol = p,
                                      !.value = v, !.challenge = c, !.proof = proof]
    PROVE  Links!Inv'
  OBVIOUS
<1>1. UNCHANGED <<x1, x2, x3>> /\ requests' = [requests EXCEPT ![r] = new]
  BY DEF Links!CompleteLink
<1>2. proof \in Links!Proof
  BY DEF Links!Inv, Links!Challenge, Links!Proof
<1>3. new = [pc |-> "consume", caller |-> d, protocol |-> p, value |-> v, challenge |-> c,
             proof |-> proof, row |-> Links!NoLinks]
  BY DEF Links!NoRequest
<1>4. new \in Links!InFlight
  BY ZenonT(60), <1>2, <1>3, LinksIdle DEF Links!InFlight, Links!NoRequest
<1>5. Links!RequestSound(new)'
  BY <1>1, <1>2, <1>3 DEF Links!RequestSound, Links!CarriesLink, Links!CompleteLink,
     Links!ChallengeMatches, Links!ValueAllowed, Links!NoChallenge, Links!Proof, Links!Protocol
<1> QED
  BY <1>1, <1>4, <1>5, LinksTables, LinksStep

\* Consuming the challenge backs the link that the request carries.
LEMMA LinksConsume ==
    ASSUME Links!Inv, NEW r \in Request, Links!ConsumeLinkChallengeIfUnused(r)
    PROVE  Links!Inv'
<1> DEFINE q == requests[r]
           c == q.challenge
           used == [x3[c] EXCEPT !.used = TRUE]
<1>1. /\ q \in Links!InFlight /\ Links!RequestSound(q) /\ q.pc = "consume"
      /\ c \in ChallengeId /\ x3[c] \in Links!Challenge
  BY DEF Links!Inv, Links!RequestSound, Links!ConsumeLinkChallengeIfUnused
<1>2. UNCHANGED <<x1, x2>> /\ x3' = [x3 EXCEPT ![c] = used]
  BY <1>1 DEF Links!ConsumeLinkChallengeIfUnused, Links!Inv
<1>3. used \in Links!Challenge /\ used # Links!NoChallenge
  BY <1>1 DEF Links!Challenge, Links!NoChallenge
<1>4. x3' \in [ChallengeId -> Links!Challenge]
  BY <1>2, <1>3 DEF Links!Inv
<1>5. ChallengesKept
  <2>1. used.agentId = x3[c].agentId /\ used.protocol = x3[c].protocol
        /\ used.key = x3[c].key /\ used.used
    BY <1>1 DEF Links!Challenge
  <2>2. \A i \in ChallengeId : x3'[i] = IF i = c THEN used ELSE x3[i]
    BY <1>2 DEF Links!Inv
  <2> QED
    BY <1>3, <2>1, <2>2 DEF ChallengesKept
<1>6. CASE Links!Answer(r)
  BY <1>2, <1>4, <1>5, <1>6, LinksIdle, LinksShown, LinksStep DEF Links!Answer
<1>7. CASE requests' = [requests EXCEPT ![r].pc = "read"]
  <2> SUFFICES ASSUME NEW new, new = [q EXCEPT !.pc = "read"] PROVE Links!Inv'
    OBVIOUS
  <2>1. new \in Links!InFlight /\ requests' = [requests EXCEPT ![r] = new]
    BY <1>1, <1>7 DEF Links!InFlight
  <2>2. /\ new.caller = q.caller /\ new.protocol = q.protocol /\ new.value = q.value
        /\ new.proof = q.proof /\ new.pc = "read"
    BY <1>1 DEF Links!InFlight
  <2>3. /\ x3[c].agentId = new.caller /\ x3[c].protocol = new.protocol
        /\ new.proof = [method |-> "key_possession", key |-> x3[c].key]
        /\ Links!ValueAllowed(new.protocol, new.value, new.proof.key)
    BY <1>1, <2>2 DEF Links!RequestSound, Links!ChallengeMatches
  <2>4. /\ x3'[c].used /\ x3'[c].agentId = new.caller /\ x3'[c].protocol = new.protocol
        /\ x3'[c].key = new.proof.key
    BY <1>1, <1>2, <2>3 DEF Links!Inv, Links!Challenge
  <2>5. Links!Backed(new.caller, new.protocol, new.value, new.proof)'
    BY <1>1, <2>3, <2>4 DEF Links!Backed, Links!ValueAllowed
  <2>6. Links!RequestSound(new)'
    BY <1>1, <2>2, <2>5 DEF Links!RequestSound, Links!CarriesLink, Links!Protocol, Links!Proof
  <2> QED
    BY <1>2, <1>4, <1>5, <2>1, <2>6, LinksShown, LinksStep
<1> QED
  BY <1>6, <1>7 DEF Links!ConsumeLinkChallengeIfUnused

LEMMA LinksClaim ==
    ASSUME Links!Inv, NEW r \in Request, NEW d \in Pair, NEW v \in Value,
           Links!LinkEndpoint(r, d, v)
    PROVE  Links!Inv'
<1> DEFINE claim == [method |-> "unverified_claim", key |-> None]
<1> SUFFICES ASSUME NEW new,
        new = [Links!NoRequest EXCEPT !.pc = "read", !.caller = d, !.protocol = Endpoint,
                                      !.value = v, !.proof = claim]
    PROVE  Links!Inv'
  OBVIOUS
<1>1. UNCHANGED <<x1, x2, x3>> /\ requests' = [requests EXCEPT ![r] = new]
  BY DEF Links!LinkEndpoint
<1>2. new = [pc |-> "read", caller |-> d, protocol |-> Endpoint, value |-> v,
             challenge |-> None, proof |-> claim, row |-> Links!NoLinks]
  BY DEF Links!NoRequest
<1>3. new \in Links!InFlight
  BY <1>2, LinksIdle DEF Links!InFlight, Links!NoRequest, Links!Proof, Links!Protocol
<1>4. Links!RequestSound(new)'
  BY <1>2 DEF Links!RequestSound, Links!CarriesLink, Links!Backed, Links!Proof, Links!Protocol
<1> QED
  BY <1>1, <1>3, <1>4, LinksTables, LinksStep

LEMMA LinksGetAgent ==
    ASSUME Links!Inv, NEW r \in Request, Links!GetAgent(r)
    PROVE  Links!Inv'
<1> DEFINE q == requests[r]
           row == x2[q.caller]
<1>1. /\ q \in Links!InFlight /\ Links!RequestSound(q) /\ q.pc = "read" /\ q.caller \in Pair
      /\ row \in Links!Columns /\ Links!RowBacked(q.caller, row)
  BY DEF Links!Inv, Links!RequestSound, Links!CarriesLink, Links!GetAgent, Links!ProofBacksLink
<1> SUFFICES ASSUME NEW new, new = [q EXCEPT !.pc = "write", !.row = row] PROVE Links!Inv'
  OBVIOUS
<1>2. UNCHANGED <<x1, x2, x3>> /\ requests' = [requests EXCEPT ![r] = new]
  BY <1>1 DEF Links!GetAgent, Links!Inv, Links!InFlight
<1>3. new \in Links!InFlight
  BY <1>1 DEF Links!InFlight
<1>4. Links!RequestSound(new)
  BY <1>1 DEF Links!RequestSound, Links!CarriesLink, Links!InFlight
<1>5. Links!RequestSound(new)'
  BY <1>2, <1>4, LinksTables, LinksKeep
<1> QED
  BY <1>2, <1>3, <1>5, LinksTables, LinksStep

\* The columns written are those read, with the one link changed: all backed.
LEMMA LinksUpdate ==
    ASSUME Links!Inv, NEW r \in Request, Links!UpdateAgentLinks(r)
    PROVE  Links!Inv'
<1> DEFINE q == requests[r]
<1>1. /\ q \in Links!InFlight /\ Links!RequestSound(q) /\ q.pc = "write"
      /\ q.caller \in Pair /\ q.protocol \in Links!Protocol /\ q.proof \in Links!Proof
  BY DEF Links!Inv, Links!RequestSound, Links!CarriesLink, Links!UpdateAgentLinks
<1> SUFFICES ASSUME NEW row, row = Links!NewLinks(q) PROVE Links!Inv'
  OBVIOUS
<1>2. UNCHANGED <<x1, x3>> /\ x2' = [x2 EXCEPT ![q.caller] = row]
  BY DEF Links!UpdateAgentLinks
<1>3. row \in Links!Columns
  BY <1>1 DEF Links!NewLinks, Links!InFlight, Links!Columns
<1>4. ASSUME NEW p \in Links!Protocol
      PROVE  Links!Backed(q.caller, p, row.linked[p], row.linkedProof[p])
  <2>1. CASE p = q.protocol
    BY <1>1, <2>1 DEF Links!NewLinks, Links!InFlight, Links!Columns, Links!RequestSound
  <2>2. CASE p # q.protocol
    <3>1. row.linked[p] = q.row.linked[p] /\ row.linkedProof[p] = q.row.linkedProof[p]
      BY <1>1, <2>2 DEF Links!NewLinks, Links!InFlight, Links!Columns
    <3> QED
      BY <1>1, <3>1 DEF Links!RequestSound, Links!RowBacked
  <2> QED
    BY <2>1, <2>2
<1>5. ChallengesKept
  BY <1>2 DEF ChallengesKept
<1>6. ASSUME NEW d \in Pair
      PROVE  \E shown : x2'[d] = shown /\ Links!RowBacked(d, shown)'
  <2>1. PICK shown : x2'[d] = shown /\ Links!RowBacked(d, shown)
    BY <1>2, <1>4 DEF Links!Inv, Links!ProofBacksLink, Links!RowBacked
  <2> QED
    BY <1>5, <2>1, LinksRowBacked
<1>7. Links!ProofBacksLink' /\ x2' \in [Pair -> Links!Columns]
  BY <1>2, <1>3, <1>6 DEF Links!Inv, Links!ProofBacksLink
<1> QED
  BY <1>2, <1>5, <1>7, LinksIdle, LinksStep
  DEF Links!UpdateAgentLinks, Links!Answer, Links!Inv

LEMMA LinksFail ==
    ASSUME Links!Inv, NEW r \in Request, Links!Fail(r)
    PROVE  Links!Inv'
BY LinksIdle, LinksTables, LinksStep DEF Links!Fail, Links!Answer

LEMMA LinksQuiet ==
    ASSUME Links!Inv, UNCHANGED Links!vars \/ Links!Tick
    PROVE  Links!Inv'
<1>1. x1' \in Nat /\ UNCHANGED <<x2, x3, requests>>
  BY DEF Links!Inv, Links!Tick, Links!vars
<1>2. ASSUME NEW r \in Request
      PROVE  \E q : requests'[r] = q /\ Links!RequestSound(q)'
  BY <1>1, LinksTables, LinksKeep DEF Links!Inv
<1> QED
  BY <1>1, <1>2, LinksTables DEF Links!Inv, Links!InFlight, Links!Columns, Links!Proof,
     Links!Protocol

LEMMA LinksNext == Links!Inv /\ [Links!Next]_(Links!vars) => Links!Inv'
<1> SUFFICES ASSUME Links!Inv, [Links!Next]_(Links!vars) PROVE Links!Inv'
  OBVIOUS
<1>1. CASE UNCHANGED Links!vars \/ Links!Tick
  BY <1>1, LinksQuiet
<1>2. ASSUME NEW d \in Pair, NEW p \in Challengeable, NEW k \in Key, NEW c \in ChallengeId,
             Links!RequestLinkChallenge(d, p, k, c)
      PROVE  Links!Inv'
  BY <1>2, LinksIssue
<1>3. ASSUME NEW r \in Request, NEW d \in Pair, NEW p \in Links!Protocol,
             NEW v \in Value \cup Key, NEW c \in ChallengeId, Links!CompleteLink(r, d, p, v, c)
      PROVE  Links!Inv'
  BY <1>3, LinksComplete
<1>4. ASSUME NEW r \in Request,
             \/ \E d \in Pair, v \in Value : Links!LinkEndpoint(r, d, v)
             \/ Links!ConsumeLinkChallengeIfUnused(r) \/ Links!GetAgent(r)
             \/ Links!UpdateAgentLinks(r) \/ Links!Fail(r)
      PROVE  Links!Inv'
  BY <1>4, LinksClaim, LinksConsume, LinksGetAgent, LinksUpdate, LinksFail
<1> QED
  BY <1>1, <1>2, <1>3, <1>4 DEF Links!Next

-----------------------------------------------------------------------------
\* In both runtimes, whatever links, restarts and writes overtake each other,
\* what is shown as proven was proven by this agent with the key shown, and
\* the rest is marked as a claim (linkEndpoint and completeLink of both agentService.ts).
THEOREM LinksProven == Spec => []ProofBacksLink
<1> DEFINE I == /\ service = "links" => Links!Inv
                /\ service = "node links" => NodeLinks!Inv
<1>1. Init => I
  BY LinksInit, NodeLinksInit DEF Init
<1>2. I /\ [Next]_vars => I'
  <2> SUFFICES ASSUME I, [Next]_vars PROVE I'
    OBVIOUS
  <2>1. CASE service = "links"
    BY <2>1, LinksNext DEF Next, vars, Links!vars
  <2>2. CASE service = "node links"
    BY <2>2, NodeLinksNext DEF Next, vars, NodeLinks!vars
  <2> QED
    BY <2>1, <2>2 DEF Next, vars
<1>3. I => ProofBacksLink
  BY DEF ProofBacksLink, Links!Inv, NodeLinks!Inv
<1> QED
  BY <1>1, <1>2, <1>3, PTL DEF Spec

-----------------------------------------------------------------------------
(* API keys and their counters. *)

\* The instance counts as everybody does.
LEMMA KeysCardinality == \A S : Keys!Cardinality(S) = Cardinality(S)
BY DEF Keys!Cardinality, Cardinality

LEMMA KeysInit == Keys!Init => Keys!Inv
<1> SUFFICES ASSUME Keys!Init PROVE Keys!Inv
  OBVIOUS
<1>1. Keys!Shape
  BY DEF Keys!Init, Keys!Shape, Keys!InFlight, Keys!NoKey, Keys!NoRequest
<1>2. Keys!Active = {} /\ \A k \in KeyId : Keys!Metered(k) = {}
  BY DEF Keys!Init, Keys!Active, Keys!Metered, Keys!NoKey, Keys!NoRequest
<1>3. Cardinality({}) = 0
  BY FS_EmptySet
<1>4. \A k \in KeyId : x1[k].calls = 0 /\ x2[k] = 0 /\ x3[k] = 0
  BY DEF Keys!Init, Keys!NoKey
<1>5. MaxActiveKeys \in Nat /\ FreeTierCalls \in Nat
  BY ServicesAssumption
<1>6. Cardinality(Keys!Active) = 0 /\ \A k \in KeyId : Cardinality(Keys!Metered(k)) = 0
  BY <1>2, <1>3
<1>7. Keys!CallsAccounted
  BY <1>4, <1>5, <1>6, KeysCardinality DEF Keys!CallsAccounted
<1> QED
  BY <1>1, <1>7 DEF Keys!Inv

\* How many requests are counted on a key after one of them moved.
LEMMA KeysMetered ==
    ASSUME Keys!Shape, NEW r \in Request, NEW new \in Keys!InFlight,
           requests' = [requests EXCEPT ![r] = new], NEW k \in KeyId
    PROVE  LET metered == requests[r].key = k /\ requests[r].pc \in {"serve", "refund"}
               meteredNow == new.key = k /\ new.pc \in {"serve", "refund"} IN
           /\ Cardinality(Keys!Metered(k)) \in Nat
           /\ metered = meteredNow =>
                Cardinality(Keys!Metered(k)') = Cardinality(Keys!Metered(k))
           /\ meteredNow /\ ~metered =>
                Cardinality(Keys!Metered(k)') = Cardinality(Keys!Metered(k)) + 1
           /\ metered /\ ~meteredNow =>
                /\ Cardinality(Keys!Metered(k)) > 0
                /\ Cardinality(Keys!Metered(k)') = Cardinality(Keys!Metered(k)) - 1
<1> DEFINE S == Keys!Metered(k)
           metered == requests[r].key = k /\ requests[r].pc \in {"serve", "refund"}
           meteredNow == new.key = k /\ new.pc \in {"serve", "refund"}
<1>1. IsFiniteSet(S) /\ Cardinality(S) \in Nat
  BY FS_Subset, FS_CardinalityType, ServicesAssumption DEF Keys!Metered
<1>2. metered <=> r \in S
  BY DEF Keys!Metered
<1>3. Keys!Metered(k)' = IF meteredNow THEN S \cup {r} ELSE S \ {r}
  BY DEF Keys!Metered, Keys!Shape
<1>4. CASE metered = meteredNow
  <2>1. Keys!Metered(k)' = S
    BY <1>2, <1>3, <1>4
  <2> QED
    BY <1>1, <1>4, <2>1
<1>5. CASE meteredNow /\ ~metered
  BY <1>1, <1>2, <1>3, <1>5, FS_AddElement
<1>6. CASE metered /\ ~meteredNow
  <2>1. Cardinality(S \ {r}) = Cardinality(S) - 1
    BY <1>1, <1>2, <1>6, FS_RemoveElement
  <2>2. Cardinality(S) # 0
    BY <1>1, <1>2, <1>6, FS_EmptySet
  <2> QED
    BY <1>1, <1>3, <1>6, <2>1, <2>2
<1> QED
  BY <1>1, <1>4, <1>5, <1>6

\* A request that is not in the middle of a metered call moves, and no counter.
LEMMA KeysQuietRequest ==
    ASSUME Keys!Inv, NEW r \in Request, NEW new \in Keys!InFlight,
           requests' = [requests EXCEPT ![r] = new], UNCHANGED <<x1, x2, x3>>,
           new.pc \in {"insert", "exhausted", "serve", "refund"} => new.key \in KeyId,
           \/ requests[r].pc \notin {"serve", "refund"} /\ new.pc \notin {"serve", "refund"}
           \/ requests[r].pc = "serve" /\ new.pc = "refund" /\ new.key = requests[r].key
    PROVE  Keys!Inv'
<1>1. Keys!Shape'
  BY DEF Keys!Inv, Keys!Shape, Keys!InFlight
<1>2. ASSUME NEW k \in KeyId
      PROVE  Cardinality(Keys!Metered(k)') = Cardinality(Keys!Metered(k))
  BY ZenonT(60), KeysMetered DEF Keys!Inv
<1>3. UNCHANGED Keys!Active
  BY DEF Keys!Active
<1>4. Keys!CallsAccounted'
  BY <1>2, <1>3, KeysCardinality DEF Keys!Inv, Keys!CallsAccounted
<1> QED
  BY <1>1, <1>4 DEF Keys!Inv

\* Whoever takes no key into use leaves the cap alone.
LEMMA KeysCap ==
    ASSUME Keys!Inv, Keys!Active' \subseteq Keys!Active
    PROVE  Cardinality(Keys!Active') <= MaxActiveKeys
<1>1. IsFiniteSet(Keys!Active) /\ Cardinality(Keys!Active) \in Nat
  BY FS_Subset, FS_CardinalityType, ServicesAssumption DEF Keys!Active
<1>2. Cardinality(Keys!Active') <= Cardinality(Keys!Active) /\ Cardinality(Keys!Active') \in Nat
  BY <1>1, FS_Subset, FS_CardinalityType
<1> QED
  BY <1>1, <1>2, KeysCardinality, ServicesAssumption DEF Keys!Inv, Keys!CallsAccounted

\* The conditional INSERT takes one key into use while there is room for it.
LEMMA KeysInsert ==
    ASSUME Keys!Inv, NEW r \in Request, Keys!InsertKey(r)
    PROVE  Keys!Inv'
<1> DEFINE i == requests[r].key
           A == Keys!Active
<1>1. /\ requests' = [requests EXCEPT ![r] = Keys!NoRequest] /\ UNCHANGED <<x2, x3>>
      /\ i \in KeyId /\ requests[r].pc = "insert" /\ Keys!NoRequest \in Keys!InFlight
      /\ Keys!NoRequest.pc = "idle" /\ Keys!Shape
  BY DEF Keys!Inv, Keys!Shape, Keys!InsertKey, Keys!Answer, Keys!NoRequest, Keys!InFlight
<1>2. /\ x1' \in [KeyId -> [issued : BOOLEAN, revoked : BOOLEAN, calls : Nat]]
      /\ \A k \in KeyId : x1'[k].calls = x1[k].calls
  BY <1>1 DEF Keys!Shape, Keys!InsertKey
<1>3. Keys!Shape'
  BY <1>1, <1>2 DEF Keys!Shape, Keys!InFlight
<1>4. ASSUME NEW k \in KeyId
      PROVE  Cardinality(Keys!Metered(k)') = Cardinality(Keys!Metered(k))
  BY <1>1, KeysMetered
<1>5. IsFiniteSet(A) /\ Cardinality(A) \in Nat
  BY FS_Subset, FS_CardinalityType, ServicesAssumption DEF Keys!Active
<1>6. Cardinality(Keys!Active') <= MaxActiveKeys
  <2>1. CASE Keys!Cardinality(A) < MaxActiveKeys
    <3>1. Keys!Active' \subseteq A \cup {i}
      BY <1>1, <2>1 DEF Keys!InsertKey, Keys!Active, Keys!Shape
    <3>2. IsFiniteSet(A \cup {i}) /\ Cardinality(A \cup {i}) \in Nat
      BY <1>5, FS_AddElement, FS_CardinalityType
    <3>3. Cardinality(A \cup {i}) <= Cardinality(A) + 1
      BY <1>5, FS_AddElement
    <3>4. Cardinality(Keys!Active') <= Cardinality(A \cup {i})
          /\ Cardinality(Keys!Active') \in Nat
      BY <3>1, <3>2, FS_Subset, FS_CardinalityType
    <3>5. Cardinality(A) < MaxActiveKeys /\ MaxActiveKeys \in Nat
      BY <2>1, KeysCardinality, ServicesAssumption
    <3> QED
      BY <1>5, <3>2, <3>3, <3>4, <3>5
  <2>2. CASE ~(Keys!Cardinality(A) < MaxActiveKeys)
    BY <2>2, KeysCap DEF Keys!InsertKey, Keys!Active
  <2> QED
    BY <2>1, <2>2
<1>7. Keys!CallsAccounted'
  BY <1>1, <1>2, <1>4, <1>6, KeysCardinality DEF Keys!Inv, Keys!CallsAccounted
<1> QED
  BY <1>3, <1>7 DEF Keys!Inv

LEMMA KeysRevoke ==
    ASSUME Keys!Inv, NEW k \in KeyId, Keys!RevokeKey(k)
    PROVE  Keys!Inv'
<1>1. /\ x1' \in [KeyId -> [issued : BOOLEAN, revoked : BOOLEAN, calls : Nat]]
      /\ \A i \in KeyId : x1'[i].calls = x1[i].calls
      /\ UNCHANGED <<x2, x3, requests>>
  BY DEF Keys!Inv, Keys!Shape, Keys!RevokeKey
<1>2. Keys!Shape'
  BY <1>1 DEF Keys!Inv, Keys!Shape, Keys!InFlight
<1>3. Keys!Active' \subseteq Keys!Active
  BY DEF Keys!RevokeKey, Keys!Active, Keys!Inv, Keys!Shape
<1>4. \A i \in KeyId : Keys!Metered(i)' = Keys!Metered(i)
  BY <1>1 DEF Keys!Metered
<1>5. Keys!CallsAccounted'
  BY <1>1, <1>3, <1>4, KeysCap, KeysCardinality DEF Keys!Inv, Keys!CallsAccounted
<1> QED
  BY <1>2, <1>5 DEF Keys!Inv

\* What counting, serving, refunding and dying have in common: one request
\* moves, at most one counter of its key with it, and no key is taken into use.
LEMMA KeysCount ==
    ASSUME Keys!Inv, NEW r \in Request, NEW new \in Keys!InFlight,
           requests' = [requests EXCEPT ![r] = new],
           new.pc \in {"insert", "exhausted", "serve", "refund"} => new.key \in KeyId,
           x1' \in [KeyId -> [issued : BOOLEAN, revoked : BOOLEAN, calls : Nat]],
           x2' \in [KeyId -> Nat], x3' \in [KeyId -> Nat],
           Keys!Active' \subseteq Keys!Active,
           \A k \in KeyId :
                /\ x1'[k].calls = x2'[k] + x3'[k] + Cardinality(Keys!Metered(k)')
                /\ x1'[k].calls <= FreeTierCalls
    PROVE  Keys!Inv'
<1>1. Keys!Shape'
  BY DEF Keys!Inv, Keys!Shape, Keys!InFlight
<1>2. Keys!CallsAccounted'
  BY KeysCap, KeysCardinality DEF Keys!CallsAccounted
<1> QED
  BY <1>1, <1>2 DEF Keys!Inv

\* A call is counted together with the request that makes it.
LEMMA KeysMeter ==
    ASSUME Keys!Inv, NEW r \in Request, NEW i \in KeyId, Keys!MeterKey(r, i)
    PROVE  Keys!Inv'
<1>1. requests[r] \in Keys!InFlight /\ requests[r].pc = "idle" /\ UNCHANGED <<x2, x3>>
  BY DEF Keys!Inv, Keys!Shape, Keys!MeterKey
<1>2. CASE i \in Keys!Active /\ x1[i].calls < FreeTierCalls
  <2> SUFFICES ASSUME NEW new, new = [pc |-> "serve", key |-> i] PROVE Keys!Inv'
    OBVIOUS
  <2>1. requests' = [requests EXCEPT ![r] = new] /\ new \in Keys!InFlight
    BY <1>1, <1>2 DEF Keys!MeterKey, Keys!Inv, Keys!Shape, Keys!InFlight
  <2>2. x1' = [x1 EXCEPT ![i].calls = @ + 1]
    BY <1>2 DEF Keys!MeterKey
  <2>3. /\ x1' \in [KeyId -> [issued : BOOLEAN, revoked : BOOLEAN, calls : Nat]]
        /\ Keys!Active' \subseteq Keys!Active
    BY <2>2 DEF Keys!Inv, Keys!Shape, Keys!Active
  <2>4. ASSUME NEW k \in KeyId
        PROVE  /\ x1'[k].calls = x2[k] + x3[k] + Cardinality(Keys!Metered(k)')
               /\ x1'[k].calls <= FreeTierCalls
    <3>1. /\ x1[k].calls \in Nat /\ x2[k] \in Nat /\ x3[k] \in Nat
          /\ x1[k].calls = x2[k] + x3[k] + Cardinality(Keys!Metered(k))
          /\ x1[k].calls <= FreeTierCalls
      BY KeysCardinality DEF Keys!Inv, Keys!Shape, Keys!CallsAccounted
    <3>2. CASE k = i
      <4>1. Cardinality(Keys!Metered(k)') = Cardinality(Keys!Metered(k)) + 1
            /\ Cardinality(Keys!Metered(k)) \in Nat
        BY <1>1, <2>1, <3>2, KeysMetered DEF Keys!Inv
      <4>2. x1'[k].calls = x1[k].calls + 1
        BY <2>2, <3>2 DEF Keys!Inv, Keys!Shape
      <4> QED
        BY SMTT(60), <1>2, <3>1, <3>2, <4>1, <4>2, ServicesAssumption
    <3>3. CASE k # i
      <4>1. Cardinality(Keys!Metered(k)') = Cardinality(Keys!Metered(k))
        BY <1>1, <2>1, <3>3, KeysMetered DEF Keys!Inv
      <4>2. x1'[k].calls = x1[k].calls
        BY <2>2, <3>3 DEF Keys!Inv, Keys!Shape
      <4> QED
        BY <3>1, <4>1, <4>2
    <3> QED
      BY <3>2, <3>3
  <2> QED
    BY <1>1, <2>1, <2>3, <2>4, KeysCount DEF Keys!Inv, Keys!Shape
<1>3. CASE ~(i \in Keys!Active /\ x1[i].calls < FreeTierCalls)
  <2> SUFFICES ASSUME NEW new, new = [pc |-> "exhausted", key |-> i] PROVE Keys!Inv'
    OBVIOUS
  <2>1. /\ requests' = [requests EXCEPT ![r] = new] /\ new \in Keys!InFlight
        /\ UNCHANGED x1
    BY <1>1, <1>3 DEF Keys!MeterKey, Keys!Inv, Keys!Shape, Keys!InFlight
  <2> QED
    BY <1>1, <2>1, KeysQuietRequest
<1> QED
  BY <1>2, <1>3

\* A metered call ends: as an answer, as a call given back, or as one lost.
LEMMA KeysEnd ==
    ASSUME Keys!Inv, NEW r \in Request, NEW new \in Keys!InFlight, new.pc = "idle",
           requests' = [requests EXCEPT ![r] = new],
           NEW i \in KeyId, requests[r].key = i, requests[r].pc \in {"serve", "refund"},
           \/ x2' = [x2 EXCEPT ![i] = @ + 1] /\ UNCHANGED <<x1, x3>>
           \/ x3' = [x3 EXCEPT ![i] = @ + 1] /\ UNCHANGED <<x1, x2>>
           \/ x1[i].calls > 0 => x1' = [x1 EXCEPT ![i].calls = @ - 1] /\ UNCHANGED <<x2, x3>>
    PROVE  Keys!Inv'
<1>1. ASSUME NEW k \in KeyId
      PROVE  /\ x1[k].calls \in Nat /\ x2[k] \in Nat /\ x3[k] \in Nat
             /\ x1[k].calls = x2[k] + x3[k] + Cardinality(Keys!Metered(k))
             /\ x1[k].calls <= FreeTierCalls /\ FreeTierCalls \in Nat
             /\ Cardinality(Keys!Metered(k)) \in Nat
  BY KeysMetered, KeysCardinality, ServicesAssumption
  DEF Keys!Inv, Keys!Shape, Keys!CallsAccounted
<1>2. /\ Cardinality(Keys!Metered(i)) > 0
      /\ Cardinality(Keys!Metered(i)') = Cardinality(Keys!Metered(i)) - 1
  BY KeysMetered DEF Keys!Inv
<1>3. ASSUME NEW k \in KeyId, k # i
      PROVE  Cardinality(Keys!Metered(k)') = Cardinality(Keys!Metered(k))
  BY <1>3, KeysMetered DEF Keys!Inv
<1>4. x1[i].calls > 0
  BY <1>1, <1>2
\* A call less and an answer or a loss more come to the same.
<1>5. ASSUME NEW k \in KeyId
      PROVE  /\ x1'[k].calls \in Nat /\ x2'[k] \in Nat /\ x3'[k] \in Nat
             /\ k # i => x1'[k].calls = x1[k].calls /\ x2'[k] = x2[k] /\ x3'[k] = x3[k]
             /\ x1'[i].calls - x2'[i] - x3'[i] = x1[i].calls - x2[i] - x3[i] - 1
             /\ x1'[i].calls <= x1[i].calls
  <2>0. /\ x1 \in [KeyId -> [issued : BOOLEAN, revoked : BOOLEAN, calls : Nat]]
        /\ x2 \in [KeyId -> Nat] /\ x3 \in [KeyId -> Nat]
    BY DEF Keys!Inv, Keys!Shape
  <2>1. CASE x2' = [x2 EXCEPT ![i] = @ + 1] /\ UNCHANGED <<x1, x3>>
    <3>1. x2'[i] = x2[i] + 1 /\ (k # i => x2'[k] = x2[k])
      BY <2>0, <2>1
    <3> QED
      BY <1>1, <2>1, <3>1
  <2>2. CASE x3' = [x3 EXCEPT ![i] = @ + 1] /\ UNCHANGED <<x1, x2>>
    <3>1. x3'[i] = x3[i] + 1 /\ (k # i => x3'[k] = x3[k])
      BY <2>0, <2>2
    <3> QED
      BY <1>1, <2>2, <3>1
  <2>3. CASE x1' = [x1 EXCEPT ![i].calls = @ - 1] /\ UNCHANGED <<x2, x3>>
    BY <1>4, <2>0, <2>3
  <2> QED
    BY <1>4, <2>1, <2>2, <2>3
<1>6. /\ x1' \in [KeyId -> [issued : BOOLEAN, revoked : BOOLEAN, calls : Nat]]
      /\ x2' \in [KeyId -> Nat] /\ x3' \in [KeyId -> Nat]
      /\ Keys!Active' \subseteq Keys!Active
  BY SMTT(60), <1>4, <1>5 DEF Keys!Inv, Keys!Shape, Keys!Active
<1>7. ASSUME NEW k \in KeyId
      PROVE  /\ x1'[k].calls = x2'[k] + x3'[k] + Cardinality(Keys!Metered(k)')
             /\ x1'[k].calls <= FreeTierCalls
  <2>1. CASE k = i
    BY <1>1, <1>2, <1>5, <2>1
  <2>2. CASE k # i
    BY <1>1, <1>3, <1>5, <2>2
  <2> QED
    BY <2>1, <2>2
<1> QED
  BY <1>6, <1>7, KeysCount

LEMMA KeysMeteredCall ==
    ASSUME Keys!Inv, NEW r \in Request,
           (\E ok \in BOOLEAN : Keys!ServeFree(r, ok)) \/ Keys!RefundKey(r) \/ Keys!Die(r)
    PROVE  Keys!Inv'
<1> PICK i \in KeyId : requests[r].key = i
  BY DEF Keys!Inv, Keys!Shape, Keys!ServeFree, Keys!RefundKey, Keys!Die
<1>1. requests[r].pc \in {"serve", "refund"}
  BY DEF Keys!ServeFree, Keys!RefundKey, Keys!Die
<1>2. CASE Keys!Answer(r) /\ ~Keys!ServeFree(r, FALSE)
  <2> SUFFICES ASSUME NEW new, new = Keys!NoRequest PROVE Keys!Inv'
    OBVIOUS
  <2>1. /\ requests' = [requests EXCEPT ![r] = new] /\ new \in Keys!InFlight
        /\ new.pc = "idle"
    BY <1>2 DEF Keys!Answer, Keys!NoRequest, Keys!InFlight
  <2>2. \/ x2' = [x2 EXCEPT ![i] = @ + 1] /\ UNCHANGED <<x1, x3>>
        \/ x3' = [x3 EXCEPT ![i] = @ + 1] /\ UNCHANGED <<x1, x2>>
        \/ x1[i].calls > 0 => x1' = [x1 EXCEPT ![i].calls = @ - 1] /\ UNCHANGED <<x2, x3>>
    BY <1>2 DEF Keys!ServeFree, Keys!RefundKey, Keys!Die
  <2> QED
    BY <1>1, <2>1, <2>2, KeysEnd
<1>3. CASE Keys!ServeFree(r, FALSE)
  <2> SUFFICES ASSUME NEW new, new = [requests[r] EXCEPT !.pc = "refund"] PROVE Keys!Inv'
    OBVIOUS
  <2>1. /\ requests' = [requests EXCEPT ![r] = new] /\ UNCHANGED <<x1, x2, x3>>
        /\ new \in Keys!InFlight /\ new.pc = "refund" /\ new.key = i
        /\ requests[r].pc = "serve"
    BY <1>3 DEF Keys!Inv, Keys!Shape, Keys!InFlight, Keys!ServeFree, Keys!Goto
  <2> QED
    BY <2>1, KeysQuietRequest
<1> QED
  BY <1>2, <1>3 DEF Keys!ServeFree, Keys!RefundKey, Keys!Die

\* Issuing up to the INSERT, and the paid call, count nothing.
KeysUncounted(r) ==
    \/ \E k \in KeyId : Keys!IssueKey(r, k)
    \/ \E ok \in BOOLEAN :
            Keys!VerifyPayment(r, ok) \/ Keys!ServePaid(r, ok) \/ Keys!Settle(r, ok)
    \/ Keys!KeyExists(r) \/ Keys!RequestPaidCheck(r) \/ Keys!DraftReceipt(r)

LEMMA KeysUncountedStep ==
    ASSUME Keys!Inv, NEW r \in Request, KeysUncounted(r)
    PROVE  Keys!Inv'
<1>1. /\ requests[r] \in Keys!InFlight /\ UNCHANGED <<x1, x2, x3>>
      /\ requests[r].pc \notin {"serve", "refund"}
  BY DEF Keys!Inv, Keys!Shape, KeysUncounted, Keys!IssueKey, Keys!VerifyPayment,
     Keys!ServePaid, Keys!Settle, Keys!KeyExists, Keys!RequestPaidCheck, Keys!DraftReceipt
<1> DEFINE Uncounted(new) ==
            /\ new \in Keys!InFlight /\ requests' = [requests EXCEPT ![r] = new]
            /\ new.pc \notin {"serve", "refund"}
            /\ new.pc \in {"insert", "exhausted"} => new.key \in KeyId
<1>2. ASSUME NEW new, Uncounted(new) PROVE Keys!Inv'
  BY <1>1, <1>2, KeysQuietRequest
<1>3. ASSUME NEW k \in KeyId, Keys!IssueKey(r, k) PROVE Keys!Inv'
  <2> SUFFICES ASSUME NEW new, new = [pc |-> "insert", key |-> k] PROVE Uncounted(new)
    BY <1>2
  <2>1. new \in Keys!InFlight /\ new.pc = "insert" /\ new.key = k
    BY DEF Keys!InFlight
  <2>2. requests' = [requests EXCEPT ![r] = new]
    <3>1. requests' = [requests EXCEPT ![r].pc = "insert", ![r].key = k]
      BY <1>3 DEF Keys!IssueKey
    <3>2. requests \in [Request -> Keys!InFlight]
      BY DEF Keys!Inv, Keys!Shape
    <3>3. requests'[r] = new
      BY <3>1, <3>2 DEF Keys!InFlight
    <3>4. \A s \in Request \ {r} : requests'[s] = requests[s]
      BY <3>1, <3>2
    <3> QED
      BY <3>1, <3>2, <3>3, <3>4
  <2> QED
    BY <2>1, <2>2
<1>4. ASSUME NEW label \in {"verify", "servePaid", "settle", "receipt"}, Keys!Goto(r, label)
      PROVE  Keys!Inv'
  <2> SUFFICES ASSUME NEW new, new = [requests[r] EXCEPT !.pc = label] PROVE Uncounted(new)
    BY <1>2
  <2> QED
    BY <1>1, <1>4 DEF Keys!Goto, Keys!InFlight
<1>5. CASE Keys!Answer(r)
  <2> SUFFICES ASSUME NEW new, new = Keys!NoRequest PROVE Uncounted(new)
    BY <1>2
  <2> QED
    BY <1>5 DEF Keys!Answer, Keys!NoRequest, Keys!InFlight
<1>6. CASE requests' = [requests EXCEPT ![r] = [Keys!NoRequest EXCEPT !.pc = "verify"]]
  <2> SUFFICES ASSUME NEW new, new = [Keys!NoRequest EXCEPT !.pc = "verify"]
               PROVE  Uncounted(new)
    BY <1>2
  <2> QED
    BY <1>6 DEF Keys!NoRequest, Keys!InFlight
<1>7. Keys!KeyExists(r) =>
        \/ requests' = [requests EXCEPT ![r] = [Keys!NoRequest EXCEPT !.pc = "verify"]]
        \/ Keys!Answer(r)
  BY DEF Keys!KeyExists, Keys!Answer
<1> QED
  BY <1>3, <1>4, <1>5, <1>6, <1>7 DEF KeysUncounted, Keys!VerifyPayment, Keys!ServePaid,
     Keys!Settle, Keys!RequestPaidCheck, Keys!DraftReceipt

LEMMA KeysNext == Keys!Inv /\ [Keys!Next]_(Keys!vars) => Keys!Inv'
<1> SUFFICES ASSUME Keys!Inv, [Keys!Next]_(Keys!vars) PROVE Keys!Inv'
  OBVIOUS
<1>1. CASE UNCHANGED Keys!vars
  BY <1>1 DEF Keys!vars, Keys!Inv, Keys!Shape, Keys!InFlight, Keys!CallsAccounted, Keys!Active,
     Keys!Metered
<1>2. ASSUME NEW k \in KeyId, Keys!RevokeKey(k) PROVE Keys!Inv'
  BY <1>2, KeysRevoke
<1>3. ASSUME NEW r \in Request, Keys!InsertKey(r) PROVE Keys!Inv'
  BY <1>3, KeysInsert
<1>4. ASSUME NEW r \in Request, NEW k \in KeyId, Keys!MeterKey(r, k) PROVE Keys!Inv'
  BY <1>4, KeysMeter
<1>5. ASSUME NEW r \in Request,
             (\E ok \in BOOLEAN : Keys!ServeFree(r, ok)) \/ Keys!RefundKey(r) \/ Keys!Die(r)
      PROVE  Keys!Inv'
  BY <1>5, KeysMeteredCall
<1>6. ASSUME NEW r \in Request, KeysUncounted(r) PROVE Keys!Inv'
  BY <1>6, KeysUncountedStep
<1> QED
  BY <1>1, <1>2, <1>3, <1>4, <1>5, <1>6 DEF Keys!Next, KeysUncounted

\* However many calls of a key are served, refused, given back or lost at
\* once, and also when it is revoked meanwhile, its counter is exact, and the
\* active keys of an agent keep to their cap (meterKey, refundKey, insertKey).
THEOREM CallsAccountedCorrect == Spec => []CallsAccounted
<1> DEFINE I == service = "keys" => Keys!Inv
<1>1. Init => I
  BY KeysInit DEF Init
<1>2. I /\ [Next]_vars => I'
  BY KeysNext DEF Next, vars, Keys!vars
<1>3. I => CallsAccounted
  BY DEF CallsAccounted, Keys!Inv
<1> QED
  BY <1>1, <1>2, <1>3, PTL DEF Spec

-----------------------------------------------------------------------------
(* The hosted demo counterparty. *)

LEMMA DemoCardinality == \A S : Demo!Cardinality(S) = Cardinality(S)
BY DEF Demo!Cardinality, Cardinality

\* Each request has at most one receipt under way.
LEMMA DemoUnderWay ==
    ASSUME NEW queue
    PROVE  LET W == {queue[r].receipt : r \in {q \in Request : queue[q].pc = "countersign"}} IN
           /\ IsFiniteSet(W) /\ Cardinality(W) \in Nat
           /\ Cardinality(W) <= Cardinality(Request)
<1> DEFINE S == {q \in Request : queue[q].pc = "countersign"}
           W == {queue[r].receipt : r \in S}
           f == [q \in S |-> queue[q].receipt]
<1>1. IsFiniteSet(S) /\ Cardinality(S) <= Cardinality(Request)
  BY FS_Subset, ServicesAssumption
<1>2. f \in Surjection(S, W)
  BY DEF Surjection
<1>3. IsFiniteSet(W) /\ Cardinality(W) <= Cardinality(S)
  BY <1>1, <1>2, FS_Surjection
<1>4. Cardinality(Request) \in Nat /\ Cardinality(S) \in Nat /\ Cardinality(W) \in Nat
  BY <1>1, <1>3, FS_CardinalityType, ServicesAssumption
<1> QED
  BY <1>1, <1>3, <1>4

LEMMA DemoInit == Demo!Init => Demo!Inv
<1> SUFFICES ASSUME Demo!Init PROVE Demo!Inv
  OBVIOUS
<1>1. Demo!Undisputed = {} /\ Demo!UnderWay = {}
  BY DEF Demo!Init, Demo!Undisputed, Demo!DemoReceipts, Demo!UnderWay, Demo!NoReceipt,
     Demo!NoRequest
<1>2. Cardinality(Demo!Undisputed \cup Demo!UnderWay) = 0
  BY <1>1, FS_EmptySet
<1>3. Cardinality(Request) \in Nat /\ DemoReceiptsPerAgent \in Nat \ {0}
  BY FS_CardinalityType, ServicesAssumption
<1>4. Demo!DemoBounded
  BY <1>2, <1>3, DemoCardinality DEF Demo!DemoBounded
<1> QED
  BY <1>4 DEF Demo!Init, Demo!Inv, Demo!InFlight, Demo!NoReceipt, Demo!NoRequest

\* The bound survives whatever adds nobody.
LEMMA DemoNotAdded ==
    ASSUME Demo!Inv,
           (Demo!Undisputed \cup Demo!UnderWay)' \subseteq Demo!Undisputed \cup Demo!UnderWay
    PROVE  Demo!DemoBounded'
<1> DEFINE B == Demo!Undisputed \cup Demo!UnderWay
<1>1. IsFiniteSet(B) /\ Cardinality(B) \in Nat
  <2>1. B \subseteq Receipt
    BY DEF Demo!Inv, Demo!Undisputed, Demo!DemoReceipts, Demo!UnderWay
  <2> QED
    BY <2>1, FS_Subset, FS_CardinalityType, ServicesAssumption
<1>2. Cardinality(B') <= Cardinality(B) /\ Cardinality(B') \in Nat
  BY <1>1, FS_Subset, FS_CardinalityType
<1>3. Cardinality(B) <= DemoReceiptsPerAgent + Cardinality(Request) - 1
  BY DemoCardinality DEF Demo!Inv, Demo!DemoBounded
<1>4. Cardinality(Request) \in Nat /\ DemoReceiptsPerAgent \in Nat
  BY FS_CardinalityType, ServicesAssumption
<1>5. Cardinality(B') <= DemoReceiptsPerAgent + Cardinality(Request) - 1
  BY <1>1, <1>2, <1>3, <1>4
<1> QED
  BY <1>5, DemoCardinality DEF Demo!DemoBounded

\* The count lets a countersignature through only below the limit: then the
\* undisputed are fewer, and those under way no more than the requests.
LEMMA DemoAdmitted ==
    ASSUME UNCHANGED x3, Cardinality(Demo!DemoReceipts) < DemoReceiptsPerAgent
    PROVE  Demo!DemoBounded'
<1> DEFINE U == Demo!Undisputed
           W == Demo!UnderWay
<1>1. U' = U /\ U \subseteq Demo!DemoReceipts /\ Demo!DemoReceipts \subseteq Receipt
  BY DEF Demo!Undisputed, Demo!DemoReceipts
<1>2. IsFiniteSet(Demo!DemoReceipts) /\ Cardinality(Demo!DemoReceipts) \in Nat
  BY <1>1, FS_Subset, FS_CardinalityType, ServicesAssumption
<1>3. IsFiniteSet(U) /\ Cardinality(U) <= Cardinality(Demo!DemoReceipts)
      /\ Cardinality(U) \in Nat
  BY <1>1, <1>2, FS_Subset, FS_CardinalityType
<1>4. /\ IsFiniteSet(W') /\ Cardinality(W') \in Nat /\ Cardinality(W') <= Cardinality(Request)
      /\ Cardinality(Request) \in Nat /\ DemoReceiptsPerAgent \in Nat
  BY DemoUnderWay, FS_CardinalityType, ServicesAssumption DEF Demo!UnderWay
<1>5. /\ Cardinality(U \cup W') = Cardinality(U) + Cardinality(W') - Cardinality(U \cap W')
      /\ IsFiniteSet(U \cup W')
  BY <1>3, <1>4, FS_Union
<1>6. Cardinality(U \cap W') \in Nat /\ Cardinality(U \cup W') \in Nat
  BY <1>3, <1>5, FS_Subset, FS_CardinalityType
<1>7. Cardinality(U \cup W') <= DemoReceiptsPerAgent + Cardinality(Request) - 1
  BY <1>2, <1>3, <1>4, <1>5, <1>6
<1>8. (U \cup W)' = U \cup W'
  BY <1>1
<1> QED
  BY <1>7, <1>8, DemoCardinality DEF Demo!DemoBounded

\* Whoever moves a receipt on adds none to the undisputed that was not under way.
LEMMA DemoReceiptStep ==
    ASSUME Demo!Inv, UNCHANGED requests,
           \/ \E c \in Receipt, t \in 0 .. MaxTime : Demo!CreateDraft(c, t)
           \/ \E c \in Receipt : Demo!OpenDispute(c) \/ Demo!ResolveDispute(c)
    PROVE  Demo!Inv'
<1>1. /\ x3' \in [Receipt -> [status : {"absent", "draft", "finalized", "disputed"},
                              issuedAt : Nat, disputedOnce : BOOLEAN]]
      /\ \A c \in Receipt : x3'[c].status = "disputed" => x3'[c].disputedOnce
      /\ \A c \in Receipt : x3'[c].status = "finalized" /\ ~x3'[c].disputedOnce =>
            x3[c].status = "finalized" /\ ~x3[c].disputedOnce
  <2>0. x3 \in [Receipt -> [status : {"absent", "draft", "finalized", "disputed"},
                            issuedAt : Nat, disputedOnce : BOOLEAN]]
    BY DEF Demo!Inv
  <2>1. CASE \E c \in Receipt, t \in 0 .. MaxTime : Demo!CreateDraft(c, t)
    BY <2>0, <2>1 DEF Demo!Inv, Demo!CreateDraft
  <2>2. CASE \E c \in Receipt : Demo!OpenDispute(c)
    BY <2>0, <2>2 DEF Demo!Inv, Demo!OpenDispute
  <2>3. CASE \E c \in Receipt : Demo!ResolveDispute(c)
    BY <2>0, <2>3 DEF Demo!Inv, Demo!ResolveDispute
  <2> QED
    BY <2>1, <2>2, <2>3
<1>2. Demo!Undisputed' \subseteq Demo!Undisputed /\ Demo!UnderWay' = Demo!UnderWay
  BY <1>1 DEF Demo!Undisputed, Demo!DemoReceipts, Demo!UnderWay
<1>3. Demo!DemoBounded'
  BY <1>2, DemoNotAdded
<1> QED
  BY <1>1, <1>3 DEF Demo!Inv, Demo!InFlight

LEMMA DemoComplete ==
    ASSUME Demo!Inv, NEW r \in Request, NEW c \in Receipt, Demo!CompleteTask(r, c)
    PROVE  Demo!Inv'
<1>1. /\ UNCHANGED x3 /\ requests' \in [Request -> Demo!InFlight]
      /\ \A q \in Request : requests'[q].pc # "idle" => requests'[q].receipt \in Receipt
      /\ \A q \in Request : requests'[q].pc = "countersign" => requests'[q] = requests[q]
  BY DEF Demo!Inv, Demo!CompleteTask, Demo!InFlight
<1>2. Demo!Undisputed' = Demo!Undisputed /\ Demo!UnderWay' \subseteq Demo!UnderWay
  BY <1>1 DEF Demo!Undisputed, Demo!DemoReceipts, Demo!UnderWay
<1>3. Demo!DemoBounded'
  BY <1>2, DemoNotAdded
<1> QED
  BY <1>1, <1>3 DEF Demo!Inv, Demo!InFlight

\* A request that ends takes its receipt off those under way.
LEMMA DemoEnd ==
    ASSUME Demo!Inv, NEW r \in Request, Demo!Answer(r), UNCHANGED x3
    PROVE  Demo!Inv'
<1>1. /\ requests' \in [Request -> Demo!InFlight]
      /\ \A q \in Request : requests'[q].pc # "idle" => requests'[q] = requests[q]
  BY DEF Demo!Inv, Demo!Answer, Demo!NoRequest, Demo!InFlight
<1>2. Demo!Undisputed' = Demo!Undisputed /\ Demo!UnderWay' \subseteq Demo!UnderWay
  BY <1>1 DEF Demo!Undisputed, Demo!DemoReceipts, Demo!UnderWay
<1>3. Demo!DemoBounded'
  BY <1>2, DemoNotAdded
<1> QED
  BY <1>1, <1>3 DEF Demo!Inv, Demo!InFlight

LEMMA DemoCount ==
    ASSUME Demo!Inv, NEW r \in Request, Demo!CountDemoReceipts(r)
    PROVE  Demo!Inv'
<1>1. CASE Demo!Answer(r)
  BY <1>1, DemoEnd DEF Demo!CountDemoReceipts
<1>2. CASE Cardinality(Demo!DemoReceipts) < DemoReceiptsPerAgent /\ Demo!Goto(r, "countersign")
  <2>1. /\ UNCHANGED x3 /\ requests' \in [Request -> Demo!InFlight]
        /\ \A q \in Request : requests'[q].pc # "idle" => requests'[q].receipt \in Receipt
    BY <1>2 DEF Demo!Inv, Demo!CountDemoReceipts, Demo!Goto, Demo!InFlight
  <2>2. Demo!DemoBounded'
    BY <1>2, <2>1, DemoAdmitted
  <2> QED
    BY <2>1, <2>2 DEF Demo!Inv, Demo!InFlight
<1>3. Cardinality(Demo!DemoReceipts) \in Nat /\ DemoReceiptsPerAgent \in Nat
  <2>1. Demo!DemoReceipts \subseteq Receipt
    BY DEF Demo!DemoReceipts
  <2> QED
    BY <2>1, FS_Subset, FS_CardinalityType, ServicesAssumption
<1> QED
  BY <1>1, <1>2, <1>3, DemoCardinality DEF Demo!CountDemoReceipts

\* The receipt under way becomes one of the undisputed, or none.
LEMMA DemoCountersign ==
    ASSUME Demo!Inv, NEW r \in Request, Demo!Countersign(r)
    PROVE  Demo!Inv'
<1> DEFINE c == requests[r].receipt
<1>1. c \in Receipt /\ c \in Demo!UnderWay
  BY DEF Demo!Inv, Demo!Countersign, Demo!UnderWay
<1>2. /\ requests' \in [Request -> Demo!InFlight]
      /\ \A q \in Request : requests'[q].pc # "idle" => requests'[q] = requests[q]
  BY DEF Demo!Inv, Demo!Countersign, Demo!Answer, Demo!NoRequest, Demo!InFlight
<1>3. /\ x3' \in [Receipt -> [status : {"absent", "draft", "finalized", "disputed"},
                              issuedAt : Nat, disputedOnce : BOOLEAN]]
      /\ \A d \in Receipt : x3'[d].status = "disputed" => x3'[d].disputedOnce
      /\ \A d \in Receipt \ {c} : x3'[d] = x3[d]
  BY <1>1 DEF Demo!Inv, Demo!Countersign
<1>4. (Demo!Undisputed \cup Demo!UnderWay)' \subseteq Demo!Undisputed \cup Demo!UnderWay
  <2>1. Demo!Undisputed' \subseteq Demo!Undisputed \cup {c}
    BY <1>3 DEF Demo!Undisputed, Demo!DemoReceipts
  <2>2. Demo!UnderWay' \subseteq Demo!UnderWay
    BY <1>2 DEF Demo!UnderWay
  <2> QED
    BY <1>1, <2>1, <2>2
<1>5. Demo!DemoBounded'
  BY <1>4, DemoNotAdded
<1> QED
  BY <1>2, <1>3, <1>5 DEF Demo!Inv, Demo!InFlight

LEMMA DemoNext == Demo!Inv /\ [Demo!Next]_(Demo!vars) => Demo!Inv'
<1> SUFFICES ASSUME Demo!Inv, [Demo!Next]_(Demo!vars) PROVE Demo!Inv'
  OBVIOUS
<1>1. CASE UNCHANGED <<x3, requests>>
  BY <1>1 DEF Demo!Inv, Demo!InFlight, Demo!DemoBounded, Demo!Undisputed, Demo!DemoReceipts,
     Demo!UnderWay
<1>2. CASE \/ \E c \in Receipt, t \in 0 .. MaxTime : Demo!CreateDraft(c, t)
           \/ \E c \in Receipt : Demo!OpenDispute(c) \/ Demo!ResolveDispute(c)
  BY <1>2, DemoReceiptStep DEF Demo!CreateDraft, Demo!OpenDispute, Demo!ResolveDispute
<1>3. ASSUME NEW r \in Request,
             \/ \E c \in Receipt : Demo!CompleteTask(r, c)
             \/ Demo!CountDemoReceipts(r) \/ Demo!Countersign(r) \/ Demo!Fail(r)
      PROVE  Demo!Inv'
  BY <1>3, DemoComplete, DemoCount, DemoCountersign, DemoEnd DEF Demo!Fail
<1> QED
  BY <1>1, <1>2, <1>3 DEF Demo!Next, Demo!vars, Demo!Tick, Demo!IssueTask

\* Of any number of completions in flight at once, no more get through than
\* the limit and the other requests allow (completeTask).
THEOREM DemoBoundedCorrect == Spec => []DemoBounded
<1> DEFINE I == service = "demo" => Demo!Inv
<1>1. Init => I
  BY DemoInit DEF Init
<1>2. I /\ [Next]_vars => I'
  BY DemoNext DEF Next, vars, Demo!vars
<1>3. I => DemoBounded
  BY DEF DemoBounded, Demo!Inv
<1> QED
  BY <1>1, <1>2, <1>3, PTL DEF Spec

-----------------------------------------------------------------------------
(* Who is shown a receipt.  The argument is that a right to read is never  *)
(* withdrawn: a row keeps its visibility and never becomes a draft again,  *)
(* and verifications are only added.                                       *)

LEMMA ViewsParameters == Views!Parameters
BY ServicesAssumption DEF Views!Parameters, Views!Party, Viewable

LEMMA ViewsNoRequest ==
    ASSUME Views!Parameters
    PROVE  Views!RequestSound(Views!NoRequest) /\ Views!RequestSound(Views!NoRequest)'
BY DEF Views!Parameters, Views!RequestSound, Views!NoRequest, Views!InFlight, Views!NoRow,
   Views!Row, Views!Caller

LEMMA ViewsInit == ASSUME Views!Parameters PROVE Views!Init => Views!Inv
BY ViewsNoRequest DEF Views!Parameters, Views!Init, Views!Inv, Views!TablesSound,
   Views!RequestsSound, Views!RequestSound, Views!ShownExist, Views!ShownToEntitled,
   Views!InFlight, Views!Row, Views!NoRow, Views!NoRequest, Views!Caller

LEMMA ViewsOpen ==
    ASSUME NEW row \in Views!Row
    PROVE  /\ Views!Open(row) <=>
                row.visibility = "public" /\ row.status \notin {"absent", "draft"}
           /\ Views!Exists(row) => (Views!Open(row) <=> ~Views!IsReceiptRestricted(row))
BY DEF Views!Open, Views!Row, Views!NoRow, Views!Acted, Views!Exists, Views!IsReceiptRestricted

\* An entitlement outlives any step under which rows and verifications grow.
LEMMA ViewsEntitled ==
    ASSUME Views!Inv, Views!Grows, NEW caller, NEW r \in Viewable,
           Views!Exists(x1[r]), Views!Entitled(caller, r)
    PROVE  Views!Entitled(caller, r)'
<1>1. x1[r] \in Views!Row /\ x1'[r] \in Views!Row
  BY DEF Views!Inv, Views!TablesSound, Views!Grows
<1>2. Views!Open(x1[r]) => Views!Open(x1'[r])
  BY <1>1 DEF Views!Open, Views!Grows, Views!Acted
<1> QED
  BY <1>1, <1>2, ViewsOpen DEF Views!Entitled, Views!Open, Views!Grows

\* What may be among what was shown.
ViewsRightly(s) ==
    /\ s \in (Views!Caller \cup {Views!Anybody}) \X Viewable
    /\ Views!Exists(x1[s[2]])
    /\ Views!Entitled(s[1], s[2]) \/ Views!ShownUnread(s)

\* So what was shown and published stays sound, whatever is added to it soundly.
LEMMA ViewsShown ==
    ASSUME Views!Parameters, Views!Inv, Views!Grows
    PROVE  /\ \A s \in x5 : ViewsRightly(s)'
           /\ \A r \in x4 : r \in Viewable /\ Views!Acted(x1'[r]) /\ Views!Entitled(None, r)'
<1>1. ASSUME NEW s \in x5 PROVE ViewsRightly(s)'
  <2>1. ViewsRightly(s) /\ s[2] \in Viewable
    BY DEF Views!Inv, Views!ShownExist, Views!ShownToEntitled, ViewsRightly
  <2>2. Views!Exists(x1'[s[2]])
    BY <2>1 DEF Views!Grows, ViewsRightly
  <2>3. Views!Entitled(s[1], s[2]) => Views!Entitled(s[1], s[2])'
    BY <2>1, ViewsEntitled DEF ViewsRightly
  <2>4. Views!ShownUnread(s) => Views!ShownUnread(s)'
    BY <2>1 DEF Views!Parameters, Views!Grows, Views!ShownUnread
  <2> QED
    BY <2>1, <2>2, <2>3, <2>4 DEF ViewsRightly
<1>2. ASSUME NEW r \in x4
      PROVE  r \in Viewable /\ Views!Acted(x1'[r]) /\ Views!Entitled(None, r)'
  <2>1. r \in Viewable /\ Views!Acted(x1[r]) /\ Views!Entitled(None, r) /\ None \in Views!Caller
    BY DEF Views!Inv, Views!ShownExist, Views!ShownToEntitled, Views!Caller
  <2> QED
    BY <2>1, ViewsEntitled DEF Views!Grows, Views!Exists, Views!Acted
<1> QED
  BY <1>1, <1>2

\* A request that does not move stays sound.
LEMMA ViewsKeep ==
    ASSUME Views!Inv, Views!Grows, NEW x \in Request, requests'[x] = requests[x]
    PROVE  Views!RequestSound(requests[x])'
<1>1. Views!RequestSound(requests[x])
  BY DEF Views!Inv, Views!RequestsSound
<1> QED
  BY <1>1 DEF Views!RequestSound, Views!Grows, Views!ReadOf, Views!Acted, Views!Exists

\* A step of request q that leaves it sound, and shows or publishes only what it may.
LEMMA ViewsStep ==
    ASSUME Views!Parameters, Views!Inv, Views!Grows, NEW q \in Request, NEW new,
           requests' = [requests EXCEPT ![q] = new], Views!RequestSound(new)',
           x2' # None => x2' \in Viewable /\ Views!Exists(x1'[x2']),
           x3' \subseteq Auditor \X Viewable,
           \A v \in x3' : Views!Exists(x1'[v[2]]),
           \A s \in x5' \ x5 : ViewsRightly(s)',
           \A r \in x4' \ x4 :
                r \in Viewable /\ Views!Acted(x1'[r]) /\ Views!Entitled(None, r)'
    PROVE  Views!Inv'
<1>1. new \in Views!InFlight
  BY DEF Views!RequestSound
<1>2. requests' \in [Request -> Views!InFlight]
  BY <1>1 DEF Views!Inv, Views!TablesSound
<1>3. Views!TablesSound'
  BY <1>2 DEF Views!TablesSound, Views!Grows
<1>4. Views!RequestsSound'
  <2>1. ASSUME NEW x \in Request PROVE Views!RequestSound(requests[x])'
    <3>1. CASE x = q
      BY <3>1 DEF Views!Inv, Views!TablesSound
    <3>2. CASE x # q
      BY <3>2, ViewsKeep DEF Views!Inv, Views!TablesSound
    <3> QED
      BY <3>1, <3>2
  <2> QED
    BY <2>1 DEF Views!RequestsSound
<1>5. Views!ShownExist' /\ Views!ShownToEntitled'
  BY ViewsShown DEF Views!ShownExist, Views!ShownToEntitled, ViewsRightly
<1> QED
  BY <1>3, <1>4, <1>5 DEF Views!Inv

-----------------------------------------------------------------------------
(* One lemma for each kind of step. *)

LEMMA ViewsUnwritten ==
    ASSUME Views!Inv, UNCHANGED <<x1, x3>>, x2 # None => x2' = x2
    PROVE  Views!Grows
BY DEF Views!Inv, Views!TablesSound, Views!Grows

LEMMA ViewsRead ==
    ASSUME Views!Parameters, Views!Inv, NEW q \in Request, Views!ReadStep(q)
    PROVE  Views!Inv'
<1>1. UNCHANGED <<x1, x2, x3, x4, x5>>
  BY DEF Views!ReadStep, Views!ReadForWrite, Views!ReadForVerification, Views!GetReceipt,
     Views!ListByAgent, Views!GetVerification, Views!GetJob, Views!GetReceiptOfJob,
     Views!Fail, Views!Refuse
<1>2. Views!Grows
  BY <1>1, ViewsUnwritten
<1>3. Views!RequestSound(requests[q]) /\ Views!TablesSound
  BY DEF Views!Inv, Views!RequestsSound
<1>4. SUFFICES ASSUME NEW new, requests' = [requests EXCEPT ![q] = new], Views!RequestSound(new)
               PROVE  Views!Inv'
  <2> DEFINE Moves(new) == requests' = [requests EXCEPT ![q] = new] /\ Views!RequestSound(new)
  <2>0. SUFFICES \E new : Moves(new)
    BY <1>4
  <2>1. ASSUME NEW op \in DOMAIN Views!From, NEW r \in Viewable, Views!ReadForWrite(q, op, r)
        PROVE  \E new : Moves(new)
    <3>1. Moves([pc |-> "write", op |-> op, caller |-> Buyer, receipt |-> r,
               verifier |-> None, row |-> [x1[r] EXCEPT !.status = Views!To[op]]])
      BY <1>3, <2>1 DEF Views!ReadForWrite, Views!Begin, Views!RequestSound, Views!InFlight,
         Views!NoRequest, Views!NoRow, Views!Row, Views!From, Views!To, Views!Exists,
         Views!Acted, Views!TablesSound, Views!Caller, Views!Party
    <3> QED
      BY <3>1
  <2>2. ASSUME NEW v \in Auditor, NEW r \in Viewable, Views!ReadForVerification(q, v, r)
        PROVE  \E new : Moves(new)
    <3>1. Moves([pc |-> "insert", op |-> "verify", caller |-> v, receipt |-> r,
               verifier |-> None, row |-> Views!NoRow])
      BY <1>3, <2>2 DEF Views!ReadForVerification, Views!Begin, Views!RequestSound,
         Views!InFlight, Views!NoRequest, Views!NoRow, Views!Row, Views!Exists,
         Views!TablesSound, Views!Caller
    <3> QED
      BY <3>1
  <2>3. ASSUME NEW caller \in Views!Caller, NEW r \in Viewable, NEW op \in {"receipt", "list"},
               x1[r] # Views!NoRow, Views!Begin(q, op, caller, r, "lookup", x1[r])
        PROVE  \E new : Moves(new)
    <3>1. Views!Exists(x1[r])
      BY <1>3, <2>3 DEF Views!Exists, Views!Row, Views!NoRow, Views!TablesSound
    <3>2. Moves([pc |-> "lookup", op |-> op, caller |-> caller, receipt |-> r,
               verifier |-> None, row |-> x1[r]])
      BY <1>3, <2>3, <3>1 DEF Views!Begin, Views!RequestSound, Views!InFlight,
         Views!NoRequest, Views!NoRow, Views!Row, Views!ReadOf, Views!TablesSound
    <3> QED
      BY <3>2
  <2>4. ASSUME NEW caller \in Views!Caller, NEW v \in Auditor, NEW r \in Viewable,
               Views!GetVerification(q, caller, v, r)
        PROVE  \E new : Moves(new)
    <3>1. Moves([pc |-> "read", op |-> "verification", caller |-> caller, receipt |-> r,
               verifier |-> v, row |-> Views!NoRow])
      BY <1>3, <2>4 DEF Views!GetVerification, Views!RequestSound, Views!InFlight,
         Views!NoRequest, Views!NoRow, Views!Row, Views!TablesSound
    <3> QED
      BY <3>1
  <2>5. ASSUME NEW caller \in Views!Caller, Views!GetJob(q, caller)
        PROVE  \E new : Moves(new)
    <3>1. Moves([pc |-> "read", op |-> "job", caller |-> caller, receipt |-> x2,
               verifier |-> None, row |-> Views!NoRow])
      BY <1>3, <2>5 DEF Views!GetJob, Views!Begin, Views!RequestSound, Views!InFlight,
         Views!NoRequest, Views!NoRow, Views!Row, Views!TablesSound
    <3> QED
      BY <3>1
  <2>6. ASSUME Views!GetReceiptOfJob(q) PROVE \E new : Moves(new)
    <3>1. Moves([requests[q] EXCEPT !.pc = "lookup", !.row = x1[requests[q].receipt]])
      BY <1>3, <2>6 DEF Views!GetReceiptOfJob, Views!ReadsReceiptOfJob,
         Views!RequestSound, Views!InFlight, Views!ReadOf, Views!TablesSound
    <3> QED
      BY <3>1
  <2>7. ASSUME Views!Fail(q) PROVE \E new : Moves(new)
    BY <2>7, ViewsNoRequest DEF Views!Fail, Views!Refuse, Views!Answer
  <2> QED
    BY <2>1, <2>2, <2>3, <2>4, <2>5, <2>6, <2>7 DEF Views!ReadStep, Views!GetReceipt,
       Views!ListByAgent
<1>5. Views!RequestSound(new)'
  BY <1>1, <1>4 DEF Views!RequestSound
<1> QED
  BY <1>1, <1>2, <1>3, <1>4, <1>5, ViewsStep DEF Views!TablesSound

LEMMA ViewsDraft ==
    ASSUME Views!Parameters, Views!Inv, NEW r \in Viewable,
           NEW visibility \in {"public", "participants_only"}, Views!CreateDraft(r, visibility)
    PROVE  Views!Inv'
<1>1. Views!TablesSound /\ Views!RequestsSound
  BY DEF Views!Inv
<1>2. Views!Grows
  BY <1>1 DEF Views!CreateDraft, Views!Grows, Views!TablesSound, Views!Row, Views!NoRow,
     Views!Exists, Views!Acted
<1>3. Views!TablesSound'
  BY <1>1, <1>2 DEF Views!CreateDraft, Views!TablesSound, Views!Grows
<1>4. Views!RequestsSound'
  BY <1>2, ViewsKeep DEF Views!CreateDraft, Views!RequestsSound
<1>5. Views!ShownExist' /\ Views!ShownToEntitled'
  BY <1>2, ViewsShown DEF Views!CreateDraft, Views!ShownExist, Views!ShownToEntitled,
     ViewsRightly
<1> QED
  BY <1>3, <1>4, <1>5 DEF Views!Inv

\* The row written back has the visibility of the row there is, and no draft's status.
LEMMA ViewsWrite ==
    ASSUME Views!Parameters, Views!Inv, NEW q \in Request, Views!WriteReceipt(q)
    PROVE  Views!Inv'
<1> DEFINE r == requests[q].receipt
           applies == x1[r].status = Views!From[requests[q].op]
<1>1. Views!RequestSound(requests[q]) /\ Views!TablesSound /\ r \in Viewable
  BY DEF Views!Inv, Views!RequestsSound, Views!RequestSound, Views!WriteReceipt
<1>2. requests[q].row \in Views!Row /\ Views!Acted(requests[q].row)
      /\ requests[q].row.visibility = x1[r].visibility
  BY <1>1 DEF Views!RequestSound, Views!InFlight, Views!WriteReceipt
<1>3. Views!Grows
  BY <1>1, <1>2 DEF Views!WriteReceipt, Views!Grows, Views!TablesSound, Views!Exists,
     Views!Acted
<1>4. CASE applies
  <2>1. SUFFICES ASSUME NEW new, new = [requests[q] EXCEPT !.pc =
                                    IF requests[q].op = "countersign" THEN "complete" ELSE "log"]
                 PROVE  Views!Inv'
    OBVIOUS
  <2>2. requests' = [requests EXCEPT ![q] = new] /\ x1'[r] = requests[q].row
    BY <1>1, <1>4, <2>1 DEF Views!WriteReceipt, Views!TablesSound
  <2>3. new \in Views!InFlight /\ new.pc \in {"complete", "log"} /\ new.receipt = r
        /\ new.row = requests[q].row
    BY <1>1, <2>1 DEF Views!RequestSound, Views!InFlight
  <2>4. Views!RequestSound(new)'
    BY <1>1, <1>2, <2>2, <2>3 DEF Views!RequestSound, Views!Exists, Views!Acted
  <2> QED
    BY <1>1, <1>3, <2>2, <2>4, ViewsStep DEF Views!WriteReceipt, Views!TablesSound, Views!Grows
<1>5. CASE ~applies
  BY <1>1, <1>3, <1>5, ViewsNoRequest, ViewsStep DEF Views!WriteReceipt, Views!Answer,
     Views!TablesSound, Views!Grows
<1> QED
  BY <1>4, <1>5

\* The payload is published of a row both parties have acted on.
LEMMA ViewsAppend ==
    ASSUME Views!Parameters, Views!Inv, NEW q \in Request, Views!AppendEntry(q)
    PROVE  Views!Inv'
<1>1. SUFFICES ASSUME NEW old, old = requests[q] PROVE Views!Inv'
  OBVIOUS
<1>2. Views!RequestSound(old) /\ Views!TablesSound /\ old.receipt \in Viewable /\ old.pc = "log"
  BY <1>1 DEF Views!Inv, Views!RequestsSound, Views!RequestSound, Views!AppendEntry
<1>3. UNCHANGED <<x1, x2, x3, x5>> /\ Views!Grows
  BY ViewsUnwritten DEF Views!AppendEntry
<1>4. Views!Acted(x1'[old.receipt])
  BY <1>2, <1>3 DEF Views!RequestSound
<1>5. ASSUME NEW r \in x4' \ x4
      PROVE  r \in Viewable /\ Views!Acted(x1'[r]) /\ Views!Entitled(None, r)'
  <2>1. r = old.receipt /\ Views!Publishable(old.row)
    BY <1>1 DEF Views!AppendEntry
  <2>2. x1'[r].visibility # "participants_only"
    BY <1>2, <1>3, <2>1 DEF Views!Publishable, Views!RequestSound
  <2>3. x1'[r] \in Views!Row
    BY <1>2, <1>3, <2>1 DEF Views!TablesSound
  <2> QED
    BY <1>2, <1>4, <2>1, <2>2, <2>3 DEF Views!Entitled, Views!Acted, Views!Row, Views!NoRow
<1> QED
  BY <1>1, <1>2, <1>3, <1>5, ViewsNoRequest, ViewsStep DEF Views!AppendEntry, Views!Answer,
     Views!TablesSound

LEMMA ViewsComplete ==
    ASSUME Views!Parameters, Views!Inv, NEW q \in Request, Views!CompleteJobIfAccepted(q)
    PROVE  Views!Inv'
<1>1. Views!RequestSound(requests[q]) /\ Views!TablesSound /\ requests[q].pc = "complete"
  BY DEF Views!Inv, Views!RequestsSound, Views!CompleteJobIfAccepted
<1>2. UNCHANGED <<x1, x3, x4, x5>> /\ Views!Grows
  BY ViewsUnwritten DEF Views!CompleteJobIfAccepted
<1>3. x2' # None => x2' \in Viewable /\ Views!Exists(x1'[x2'])
  BY <1>1, <1>2 DEF Views!CompleteJobIfAccepted, Views!TablesSound, Views!RequestSound
<1>4. SUFFICES ASSUME NEW new, new = [requests[q] EXCEPT !.pc = "log"] PROVE Views!Inv'
  OBVIOUS
<1>5. requests' = [requests EXCEPT ![q] = new]
  BY <1>1, <1>4 DEF Views!CompleteJobIfAccepted
<1>6. Views!RequestSound(new)'
  BY <1>1, <1>2, <1>4 DEF Views!RequestSound, Views!InFlight
<1> QED
  BY <1>1, <1>2, <1>3, <1>5, <1>6, ViewsStep DEF Views!TablesSound

LEMMA ViewsInsert ==
    ASSUME Views!Parameters, Views!Inv, NEW q \in Request, Views!InsertVerification(q)
    PROVE  Views!Inv'
<1>1. Views!RequestSound(requests[q]) /\ Views!TablesSound
  BY DEF Views!Inv, Views!RequestsSound
<1>2. Views!Grows
  BY <1>1 DEF Views!InsertVerification, Views!Grows, Views!TablesSound
<1>3. /\ x3' \subseteq Auditor \X Viewable
      /\ \A v \in x3' : Views!Exists(x1'[v[2]])
  BY <1>1 DEF Views!InsertVerification, Views!TablesSound, Views!RequestSound
<1> QED
  BY <1>1, <1>2, <1>3, ViewsNoRequest, ViewsStep DEF Views!InsertVerification, Views!Answer,
     Views!TablesSound

\* What is shown by an old row and a verification there is, is rightly shown,
\* and so is the job of a receipt that could not be read.
LEMMA ViewsShow ==
    ASSUME Views!Parameters, Views!Inv, NEW q \in Request,
           NEW caller \in Views!Caller \cup {Views!Anybody}, Views!Show(q, caller),
           requests[q].pc # "idle",
           LET s == <<caller, requests[q].receipt>>
           IN  Views!Entitled(s[1], s[2]) \/ Views!ShownUnread(s)
    PROVE  Views!Inv'
<1>1. Views!RequestSound(requests[q]) /\ Views!TablesSound
  BY DEF Views!Inv, Views!RequestsSound
<1>2. UNCHANGED <<x1, x2, x3, x4>> /\ Views!Grows
  BY ViewsUnwritten DEF Views!Show
<1>3. ASSUME NEW s \in x5' \ x5 PROVE ViewsRightly(s)'
  <2>1. s = <<caller, requests[q].receipt>>
    BY DEF Views!Show
  <2>2. ViewsRightly(s)
    BY <1>1, <2>1 DEF Views!RequestSound, ViewsRightly
  <2> QED
    BY <1>2, <2>2 DEF ViewsRightly, Views!Entitled, Views!ShownUnread
<1> QED
  BY <1>1, <1>2, <1>3, ViewsNoRequest, ViewsStep DEF Views!Show, Views!Answer, Views!TablesSound

LEMMA ViewsDecide ==
    ASSUME Views!Parameters, Views!Inv, NEW q \in Request, NEW visible,
           Views!Decide(q, visible), requests[q].pc # "idle",
           visible => Views!Entitled(requests[q].caller, requests[q].receipt)
    PROVE  Views!Inv'
<1>1. CASE visible
  <2>1. requests[q].caller \in Views!Caller
    BY DEF Views!Inv, Views!TablesSound, Views!InFlight
  <2> QED
    BY <1>1, <2>1, ViewsShow DEF Views!Decide
<1>2. CASE ~visible
  BY <1>2, ViewsRead DEF Views!Decide, Views!ReadStep, Views!Fail
<1> QED
  BY <1>1, <1>2

\* isJobVisible, when the linked receipt cannot be read.
LEMMA ViewsUnread ==
    ASSUME Views!Parameters, Views!Inv, NEW q \in Request, Views!ReceiptOfJobUnread(q)
    PROVE  Views!Inv'
<1>1. requests[q].receipt = x2 /\ requests[q].pc # "idle" /\ Views!Show(q, Views!Anybody)
  BY DEF Views!Inv, Views!RequestsSound, Views!RequestSound, Views!ReceiptOfJobUnread,
     Views!ReadsReceiptOfJob
<1>2. Views!ShownUnread(<<Views!Anybody, requests[q].receipt>>)
  BY <1>1 DEF Views!ShownUnread
<1> QED
  BY <1>1, <1>2, ViewsShow

LEMMA ViewsList ==
    ASSUME Views!Parameters, Views!Inv, NEW q \in Request, Views!ListByReceipt(q)
    PROVE  Views!Inv'
<1> DEFINE request == requests[q]
           row == x1[request.receipt]
<1>1. /\ Views!RequestSound(request) /\ Views!TablesSound
      /\ request.row \in Views!Row /\ row \in Views!Row
  BY DEF Views!Inv, Views!RequestsSound, Views!RequestSound, Views!ListByReceipt,
     Views!InFlight, Views!TablesSound
<1>2. Views!ReadOf(request.row, row)
  BY <1>1 DEF Views!RequestSound, Views!ListByReceipt
<1>3. ~Views!IsReceiptRestricted(request.row) => Views!Open(row)
  BY <1>1, <1>2, ViewsOpen DEF Views!Open, Views!ReadOf
<1>4. Views!IsReceiptVisible(request.row, request.caller, Views!IsVerifierOf(request))
        => Views!Entitled(request.caller, request.receipt)
  BY <1>1, <1>3, ViewsOpen DEF Views!IsReceiptVisible, Views!IsVerifierOf, Views!Entitled
<1> QED
  BY <1>4, ViewsDecide DEF Views!ListByReceipt

LEMMA ViewsVerification ==
    ASSUME Views!Parameters, Views!Inv, NEW q \in Request, Views!GetVisibleVerification(q)
    PROVE  Views!Inv'
<1> DEFINE request == requests[q]
<1>1. <<request.verifier, request.receipt>> \in x3
  BY DEF Views!Inv, Views!RequestsSound, Views!RequestSound, Views!GetVisibleVerification
<1>2. Views!Exists(x1[request.receipt]) /\ x1[request.receipt] \in Views!Row
  BY <1>1 DEF Views!Inv, Views!TablesSound
<1>3. Views!IsReceiptVisible(x1[request.receipt], request.caller,
                       request.caller = request.verifier)
        => Views!Entitled(request.caller, request.receipt)
  BY <1>1, <1>2, ViewsOpen DEF Views!IsReceiptVisible, Views!Entitled
<1> QED
  BY <1>3, ViewsDecide DEF Views!GetVisibleVerification

LEMMA ViewsNext == ASSUME Views!Parameters PROVE Views!Inv /\ [Views!Next]_(Views!vars) => Views!Inv'
<1> SUFFICES ASSUME Views!Inv, [Views!Next]_(Views!vars) PROVE Views!Inv'
  OBVIOUS
<1>1. CASE UNCHANGED Views!vars
  BY <1>1 DEF Views!vars, Views!Inv, Views!TablesSound, Views!RequestsSound,
     Views!RequestSound, Views!ShownExist, Views!ShownToEntitled, Views!Entitled,
     Views!ShownUnread
<1>2. CASE \E r \in Viewable, visibility \in {"public", "participants_only"} :
                Views!CreateDraft(r, visibility)
  BY <1>2, ViewsDraft
<1>3. ASSUME NEW q \in Request, Views!ReadStep(q) PROVE Views!Inv'
  BY <1>3, ViewsRead
<1>4. ASSUME NEW q \in Request,
             \/ Views!WriteReceipt(q) \/ Views!AppendEntry(q) \/ Views!CompleteJobIfAccepted(q)
             \/ Views!InsertVerification(q) \/ Views!ListByReceipt(q)
             \/ Views!GetVisibleVerification(q) \/ Views!ReceiptOfJobUnread(q)
      PROVE  Views!Inv'
  BY <1>4, ViewsWrite, ViewsAppend, ViewsComplete, ViewsInsert, ViewsList, ViewsVerification,
     ViewsUnread
<1> QED
  BY <1>1, <1>2, <1>3, <1>4 DEF Views!Next, Views!ReadStep

\* Whoever was ever shown something of a receipt, by whatever route and
\* however its reads were overtaken, is entitled to it for good, and so is
\* everybody to what the log has published; only the job linked to a receipt
\* that could not be read was shown to whoever asked (receiptService.ts,
\* isReceiptVisible; index.ts, isJobVisible; verificationService.ts,
\* getVisibleVerification).
THEOREM ShownToEntitledCorrect == Spec => []ShownToEntitled
<1> DEFINE I == service = "views" => Views!Inv
<1>1. Init => I
  BY ViewsParameters, ViewsInit DEF Init
<1>2. I /\ [Next]_vars => I'
  BY ViewsParameters, ViewsNext DEF Next, vars, Views!vars
<1>3. I => ShownToEntitled
  BY DEF ShownToEntitled, Views!Inv
<1> QED
  BY <1>1, <1>2, <1>3, PTL DEF Spec

-----------------------------------------------------------------------------
(* Reputation: who is who, before and after a succession. *)

\* IDs are numbers, and a successor has the greater one.
LEMMA AgentNumbers ==
    /\ None \notin Agent
    /\ \E n \in Nat : Agent = 1 .. n
<1>1. None \notin Agent /\ IsFiniteSet(Agent) /\ Agent = 1 .. Cardinality(Agent)
  BY ServicesAssumption DEF ServicesAssumption
<1> QED
  BY <1>1, FS_CardinalityType

Ascending(f) == \A y \in Agent : f[y] # None => f[y] \in Agent /\ y < f[y]

HeadsFrom(f, h) == h = [y \in Agent |-> IF f[y] = None THEN y ELSE h[f[y]]]

LineagesFrom(f, l) ==
    l = [y \in Agent |-> {y} \cup UNION {l[p] : p \in {q \in Agent : f[q] = y}}]

LEMMA LeastAgent ==
    ASSUME NEW S \in SUBSET Nat, S # {}
    PROVE  \E i \in S : \A j \in S : i <= j
<1>1. PICK i \in S : \A j \in S : ~ (<<j, i>> \in OpToRel(<, Nat))
  BY NatLessThanWellFounded, WFMin
<1>2. \A j \in S : ~ (j < i)
  BY <1>1 DEF OpToRel
<1> QED
  BY <1>2

LEMMA GreatestAgent ==
    ASSUME NEW S \in SUBSET Agent, S # {}
    PROVE  \E i \in S : \A j \in S : j <= i
<1>1. PICK n \in Nat : Agent = 1 .. n
  BY AgentNumbers
<1> DEFINE T == {n - j : j \in S}
<1>2. T \in SUBSET Nat /\ T # {}
  <2>1. \A j \in S : j \in 1 .. n
    BY <1>1
  <2>2. \A j \in S : n - j \in Nat
    BY <2>1
  <2> QED
    BY <2>2
<1>3. PICK t \in T : \A u \in T : t <= u
  <2> HIDE DEF T
  <2> QED
    BY <1>2, LeastAgent
<1>4. PICK i \in S : t = n - i
  BY <1>3
<1>5. \A j \in S : n - i <= n - j
  BY <1>3, <1>4
<1>6. \A j \in S : j \in Int /\ i \in Int
  BY <1>1
<1>7. \A j \in S : j <= i
  BY <1>5, <1>6
<1> QED
  BY <1>7

\* As successors have greater numbers, there is one way to name the heads.
LEMMA HeadsUnique ==
    ASSUME NEW f, Ascending(f), NEW g, HeadsFrom(f, g), NEW h, HeadsFrom(f, h)
    PROVE  g = h
<1> DEFINE D == {y \in Agent : g[y] # h[y]}
<1>1. ASSUME D # {} PROVE FALSE
  <2>1. PICK y \in D : \A z \in D : z <= y
    <3>1. D \in SUBSET Agent
      OBVIOUS
    <3> HIDE DEF D
    <3> QED
      BY <1>1, <3>1, GreatestAgent
  <2>2. y \in Agent /\ y \in Nat
    BY <2>1, AgentNumbers
  <2>3. /\ g[y] = IF f[y] = None THEN y ELSE g[f[y]]
        /\ h[y] = IF f[y] = None THEN y ELSE h[f[y]]
    BY <2>2 DEF HeadsFrom
  <2>4. f[y] # None /\ f[y] \in Agent /\ y < f[y]
    BY <2>1, <2>2, <2>3 DEF Ascending
  <2>5. f[y] \in D
    BY <2>1, <2>3, <2>4
  <2>6. f[y] <= y /\ f[y] \in Nat
    BY <2>1, <2>4, <2>5, AgentNumbers
  <2> QED
    BY <2>2, <2>4, <2>6
<1> QED
  BY <1>1 DEF HeadsFrom

LEMMA LineagesUnique ==
    ASSUME NEW f, Ascending(f), NEW g, LineagesFrom(f, g), NEW h, LineagesFrom(f, h)
    PROVE  g = h
<1> DEFINE D == {y \in Agent : g[y] # h[y]}
<1>1. ASSUME D # {} PROVE FALSE
  <2>1. PICK y \in D : \A z \in D : y <= z
    <3>1. D \in SUBSET Nat
      BY AgentNumbers
    <3> HIDE DEF D
    <3> QED
      BY <1>1, <3>1, LeastAgent
  <2>2. y \in Agent /\ y \in Nat
    BY <2>1, AgentNumbers
  <2>3. ASSUME NEW q \in Agent, f[q] = y PROVE g[q] = h[q]
    <3>1. q < y /\ q \in Nat
      BY <2>2, <2>3, AgentNumbers DEF Ascending
    <3>2. ~(y <= q)
      BY <2>2, <3>1
    <3> QED
      BY <2>1, <3>2
  <2>4. {g[p] : p \in {q \in Agent : f[q] = y}} = {h[p] : p \in {q \in Agent : f[q] = y}}
    BY <2>3
  <2>5. /\ g[y] = {y} \cup UNION {g[p] : p \in {q \in Agent : f[q] = y}}
        /\ h[y] = {y} \cup UNION {h[p] : p \in {q \in Agent : f[q] = y}}
    BY <2>2 DEF LineagesFrom
  <2> QED
    BY <2>1, <2>4, <2>5
<1> QED
  BY <1>1 DEF LineagesFrom

LEMMA HeadsAre ==
    ASSUME NEW f, Ascending(f), NEW h, HeadsFrom(f, h)
    PROVE  Scores!Heads(f) = h
<1>1. HeadsFrom(f, Scores!Heads(f))
  BY DEF HeadsFrom, Scores!Heads
<1> QED
  BY <1>1, HeadsUnique

LEMMA LineagesAre ==
    ASSUME NEW f, Ascending(f), NEW l, LineagesFrom(f, l)
    PROVE  Scores!Lineages(f) = l
<1>1. LineagesFrom(f, Scores!Lineages(f))
  BY DEF LineagesFrom, Scores!Lineages
<1> QED
  BY <1>1, LineagesUnique

ScoresRow == [a : Agent, b : Agent, status : {"draft", "finalized", "disputed"}]
ScoresJob == [poster : Agent, acceptedAgent : Agent, reported : BOOLEAN]

\* A chain of successions keeps to the registered, and its head is the head of
\* all in it.
ChainsSound ==
    /\ x1 \subseteq Agent
    /\ x2 \in [Agent -> x1 \cup {None}] /\ Ascending(x2)
    /\ \A y \in Agent : x2[y] # None => y \in x1
    /\ HeadsFrom(x2, Scores!Heads(x2)) /\ LineagesFrom(x2, Scores!Lineages(x2))
    /\ \A x \in x1 : Scores!HeadOf(x) \in x1 /\ Scores!LineageOf(x) \subseteq x1
    /\ \A x \in Agent : /\ Scores!LineageOf(x) \subseteq Agent
                        /\ \A q \in Scores!LineageOf(x) : Scores!HeadOf(q) = Scores!HeadOf(x)

\* Only the registered are parties to anything.
PartiesSound ==
    /\ x3 \in Seq(ScoresRow)
    /\ \A i \in DOMAIN x3 : x3[i].a \in x1 /\ x3[i].b \in x1
    /\ x4 \in SUBSET ScoresJob /\ IsFiniteSet(x4)
    /\ \A j \in x4 : j.poster \in x1 /\ j.acceptedAgent \in x1

ScoresInv == ChainsSound /\ PartiesSound

LEMMA Chains ==
    ASSUME ChainsSound, NEW x \in Agent
    PROVE  /\ Scores!HeadOf(x) = IF x2[x] = None THEN x ELSE Scores!HeadOf(x2[x])
           /\ Scores!LineageOf(x) =
                  {x} \cup UNION {Scores!LineageOf(p) : p \in {q \in Agent : x2[q] = x}}
<1>1. PICK h : h = Scores!Heads(x2)
  OBVIOUS
<1>2. PICK l : l = Scores!Lineages(x2)
  OBVIOUS
<1>3. /\ h = [y \in Agent |-> IF x2[y] = None THEN y ELSE h[x2[y]]]
      /\ l = [y \in Agent |-> {y} \cup UNION {l[p] : p \in {q \in Agent : x2[q] = y}}]
  BY <1>1, <1>2 DEF ChainsSound, HeadsFrom, LineagesFrom
<1>4. \A y : Scores!HeadOf(y) = h[y] /\ Scores!LineageOf(y) = l[y]
  BY <1>1, <1>2 DEF Scores!HeadOf, Scores!LineageOf
<1>5. h[x] = IF x2[x] = None THEN x ELSE h[x2[x]]
  BY <1>3
<1>6. l[x] = {x} \cup UNION {l[p] : p \in {q \in Agent : x2[q] = x}}
  BY <1>3
<1> QED
  BY <1>4, <1>5, <1>6

\* An ID without a row is a chain of its own.
LEMMA Newcomer ==
    ASSUME ChainsSound, NEW s \in Agent \ x1
    PROVE  /\ x2[s] = None /\ \A y \in Agent : x2[y] # s
           /\ Scores!HeadOf(s) = s /\ Scores!LineageOf(s) = {s}
           /\ \A x \in x1 : Scores!HeadOf(x) # s /\ s \notin Scores!LineageOf(x)
<1>1. x2[s] = None /\ \A y \in Agent : x2[y] # s
  BY AgentNumbers DEF ChainsSound
<1>2. /\ Scores!HeadOf(s) = s
      /\ Scores!LineageOf(s) =
             {s} \cup UNION {Scores!LineageOf(p) : p \in {q \in Agent : x2[q] = s}}
  BY <1>1, Chains
<1>3. {q \in Agent : x2[q] = s} = {}
  BY <1>1
<1>4. Scores!LineageOf(s) = {s}
  BY <1>2, <1>3
<1>5. \A x \in x1 : Scores!HeadOf(x) # s /\ s \notin Scores!LineageOf(x)
  BY DEF ChainsSound
<1> QED
  BY <1>1, <1>2, <1>4, <1>5

\* A succession puts the new ID at the head of the chain, and gives it the
\* lineage of the old one.
LEMMA Succeeds ==
    ASSUME ChainsSound, NEW p \in Agent, NEW s \in Agent, Scores!ActivateSuccession(p, s)
    PROVE  /\ s \notin x1 /\ p \in x1 /\ x1' = x1 \cup {s} /\ x2[p] = None
           /\ x2' = [x2 EXCEPT ![p] = s] /\ Ascending(x2')
           /\ HeadsFrom(x2', Scores!Heads(x2')) /\ LineagesFrom(x2', Scores!Lineages(x2'))
           /\ \A x \in Agent :
                /\ Scores!HeadOf(x)' = IF Scores!HeadOf(x) = p THEN s ELSE Scores!HeadOf(x)
                /\ Scores!LineageOf(x)' = IF x = s THEN {s} \cup Scores!LineageOf(p)
                                          ELSE Scores!LineageOf(x)
<1>1. /\ p \in x1 /\ x2[p] = None /\ x1 = 1 .. s - 1 /\ x1' = x1 \cup {s}
      /\ x2' = [x2 EXCEPT ![p] = s] /\ x2 \in [Agent -> x1 \cup {None}]
      /\ Ascending(x2) /\ p # s
  <2>1. /\ p \in x1 /\ x2[p] = None /\ x1 = 1 .. s - 1 /\ x1' = x1 \cup {s}
        /\ x2' = [x2 EXCEPT ![p] = s]
    BY DEF Scores!ActivateSuccession, Scores!Active, Scores!IsNext
  <2>2. s \in Nat
    BY AgentNumbers
  <2>3. p # s
    BY <2>1, <2>2
  <2> QED
    BY <2>1, <2>3 DEF ChainsSound
<1>2. s \notin x1 /\ p < s
  <2>1. s \in Nat /\ p \in Nat
    BY AgentNumbers
  <2> QED
    BY <1>1, <2>1
<1>3. s # None /\ \A y \in Agent : x2'[y] = IF y = p THEN s ELSE x2[y]
  BY <1>1, AgentNumbers
<1>4. Ascending(x2')
  BY <1>1, <1>2, <1>3 DEF Ascending
<1>5. x2[s] = None /\ \A y \in Agent : x2[y] # s
  BY <1>2, Newcomer
<1>6. PICK h : h = [x \in Agent |-> IF Scores!HeadOf(x) = p THEN s ELSE Scores!HeadOf(x)]
  OBVIOUS
<1>7. HeadsFrom(x2', h)
  <2>1. ASSUME NEW y \in Agent PROVE h[y] = IF x2'[y] = None THEN y ELSE h[x2'[y]]
    <3>1. CASE y = p
      <4>1. Scores!HeadOf(p) = p /\ Scores!HeadOf(s) = s
        BY <1>1, <1>5, Chains
      <4> QED
        BY <1>3, <1>6, <3>1, <4>1
    <3>2. CASE y # p /\ x2[y] = None
      <4>1. Scores!HeadOf(y) = y
        BY <3>2, Chains
      <4> QED
        BY <1>3, <1>6, <3>2, <4>1
    <3>3. CASE y # p /\ x2[y] # None
      <4>1. Scores!HeadOf(y) = Scores!HeadOf(x2[y]) /\ x2[y] \in Agent
        BY <3>3, Chains DEF ChainsSound, Ascending
      <4> QED
        BY <1>3, <1>6, <3>3, <4>1
    <3> QED
      BY <3>1, <3>2, <3>3
  <2>2. h = [y \in Agent |-> IF x2'[y] = None THEN y ELSE h[x2'[y]]]
    BY <1>6, <2>1
  <2> QED
    BY <2>2 DEF HeadsFrom
<1>8. PICK l : l = [x \in Agent |-> IF x = s THEN {s} \cup Scores!LineageOf(p)
                                    ELSE Scores!LineageOf(x)]
  OBVIOUS
<1>9. LineagesFrom(x2', l)
  <2>1. ASSUME NEW y \in Agent
        PROVE  l[y] = {y} \cup UNION {l[q] : q \in {z \in Agent : x2'[z] = y}}
    <3>1. CASE y = s
      <4>1. {z \in Agent : x2'[z] = s} = {p}
        BY <1>3, <1>5
      <4>2. l[p] = Scores!LineageOf(p)
        BY <1>1, <1>8
      <4> QED
        BY <1>8, <3>1, <4>1, <4>2
    <3>2. CASE y # s
      <4>1. {z \in Agent : x2'[z] = y} = {z \in Agent : x2[z] = y}
        BY <1>1, <1>3, <3>2, AgentNumbers
      <4>2. \A z \in Agent : x2[z] = y => l[z] = Scores!LineageOf(z)
        BY <1>5, <1>8, AgentNumbers
      <4>3. {l[q] : q \in {z \in Agent : x2[z] = y}} =
                {Scores!LineageOf(q) : q \in {z \in Agent : x2[z] = y}}
        BY <4>2
      <4>4. l[y] = Scores!LineageOf(y)
        BY <1>8, <3>2
      <4>5. Scores!LineageOf(y) =
              {y} \cup UNION {Scores!LineageOf(q) : q \in {z \in Agent : x2[z] = y}}
        BY Chains
      <4> QED
        BY <4>1, <4>3, <4>4, <4>5
    <3> QED
      BY <3>1, <3>2
  <2>2. l = [y \in Agent |-> {y} \cup UNION {l[q] : q \in {z \in Agent : x2'[z] = y}}]
    BY <1>8, <2>1
  <2> QED
    BY <2>2 DEF LineagesFrom
<1>10. PICK f : f = x2'
  OBVIOUS
<1>11. Scores!Heads(f) = h /\ Scores!Lineages(f) = l
  BY <1>4, <1>7, <1>9, <1>10, HeadsAre, LineagesAre
<1>12. \A x : Scores!HeadOf(x)' = h[x] /\ Scores!LineageOf(x)' = l[x]
  BY <1>10, <1>11 DEF Scores!HeadOf, Scores!LineageOf
<1>13. HeadsFrom(x2', Scores!Heads(x2')) /\ LineagesFrom(x2', Scores!Lineages(x2'))
  BY <1>7, <1>9, <1>10, <1>11
<1> QED
  BY <1>1, <1>2, <1>4, <1>6, <1>8, <1>12, <1>13

LEMMA ChainsInit == ASSUME Scores!Init PROVE ScoresInv
<1>1. /\ x1 = {} /\ x2 = [x \in Agent |-> None] /\ x3 = << >> /\ x4 = {}
  BY DEF Scores!Init
<1>2. Ascending(x2) /\ x2 \in [Agent -> x1 \cup {None}] /\ \A y \in Agent : x2[y] = None
  BY <1>1 DEF Ascending
<1>3. PICK h : h = [y \in Agent |-> y]
  OBVIOUS
<1>4. PICK l : l = [y \in Agent |-> {y}]
  OBVIOUS
<1>5. HeadsFrom(x2, h)
  BY <1>2, <1>3 DEF HeadsFrom
<1>6. LineagesFrom(x2, l)
  <2>1. ASSUME NEW y \in Agent
        PROVE  l[y] = {y} \cup UNION {l[p] : p \in {q \in Agent : x2[q] = y}}
    <3>1. {q \in Agent : x2[q] = y} = {}
      BY <1>2, AgentNumbers
    <3> QED
      BY <1>4, <3>1
  <2>2. l = [y \in Agent |-> {y} \cup UNION {l[p] : p \in {q \in Agent : x2[q] = y}}]
    BY <1>4, <2>1
  <2> QED
    BY <2>2 DEF LineagesFrom
<1>7. PICK f : f = x2
  OBVIOUS
<1>8. Scores!Heads(f) = h /\ Scores!Lineages(f) = l
  BY <1>2, <1>5, <1>6, <1>7, HeadsAre, LineagesAre
<1>9. \A x \in Agent : Scores!HeadOf(x) = x /\ Scores!LineageOf(x) = {x}
  BY <1>3, <1>4, <1>7, <1>8 DEF Scores!HeadOf, Scores!LineageOf
<1>10. HeadsFrom(x2, Scores!Heads(x2)) /\ LineagesFrom(x2, Scores!Lineages(x2))
  BY <1>5, <1>6, <1>7, <1>8
<1>11. ChainsSound
  BY <1>1, <1>2, <1>9, <1>10 DEF ChainsSound
<1>12. PartiesSound
  BY <1>1, FS_EmptySet DEF PartiesSound
<1> QED
  BY <1>11, <1>12 DEF ScoresInv

\* A step that activates no succession leaves the chains as they are.
LEMMA ChainsStay ==
    ASSUME ChainsSound, UNCHANGED x2, x1 \subseteq x1', x1' \subseteq Agent
    PROVE  ChainsSound'
<1>1. \A x : Scores!HeadOf(x)' = Scores!HeadOf(x) /\ Scores!LineageOf(x)' = Scores!LineageOf(x)
  BY DEF Scores!HeadOf, Scores!LineageOf
<1>2. x2' \in [Agent -> x1' \cup {None}] /\ Ascending(x2')
  BY DEF ChainsSound
<1>3. \A x \in x1' : Scores!HeadOf(x) \in x1' /\ Scores!LineageOf(x) \subseteq x1'
  BY Newcomer DEF ChainsSound
<1> QED
  BY <1>1, <1>2, <1>3 DEF ChainsSound

LEMMA ChainsSucceed ==
    ASSUME ChainsSound, NEW p \in Agent, NEW s \in Agent, Scores!ActivateSuccession(p, s)
    PROVE  ChainsSound'
<1>1. /\ s \notin x1 /\ p \in x1 /\ x1' = x1 \cup {s} /\ x2[p] = None
      /\ x2' = [x2 EXCEPT ![p] = s] /\ Ascending(x2')
      /\ HeadsFrom(x2', Scores!Heads(x2')) /\ LineagesFrom(x2', Scores!Lineages(x2'))
  BY Succeeds
<1>2. \A x \in Agent :
        /\ Scores!HeadOf(x)' = IF Scores!HeadOf(x) = p THEN s ELSE Scores!HeadOf(x)
        /\ Scores!LineageOf(x)' = IF x = s THEN {s} \cup Scores!LineageOf(p)
                                  ELSE Scores!LineageOf(x)
  BY Succeeds
<1>3. Scores!HeadOf(p) = p /\ Scores!HeadOf(s) = s /\ Scores!LineageOf(s) = {s}
  BY <1>1, Chains, Newcomer
<1>4. x1' \subseteq Agent /\ x2' \in [Agent -> x1' \cup {None}]
  BY <1>1 DEF ChainsSound
<1>5. \A y \in Agent : x2'[y] # None => y \in x1'
  BY <1>1 DEF ChainsSound
<1>6. \A x \in x1' : Scores!HeadOf(x)' \in x1' /\ Scores!LineageOf(x)' \subseteq x1'
  BY <1>1, <1>2, <1>3, <1>4 DEF ChainsSound
<1>7. ASSUME NEW x \in Agent
      PROVE  /\ Scores!LineageOf(x)' \subseteq Agent
             /\ \A q \in Scores!LineageOf(x)' : Scores!HeadOf(q)' = Scores!HeadOf(x)'
  <2>1. CASE x = s
    <3>1. /\ Scores!LineageOf(x)' = {s} \cup Scores!LineageOf(p)
          /\ Scores!HeadOf(s)' = s
      BY <1>2, <1>3, <2>1
    <3>2. \A q \in Scores!LineageOf(p) : q \in Agent /\ Scores!HeadOf(q) = p
      BY <1>3 DEF ChainsSound
    <3>3. \A q \in Scores!LineageOf(p) : Scores!HeadOf(q)' = s
      BY <1>2, <3>2
    <3> QED
      BY <2>1, <3>1, <3>2, <3>3
  <2>2. CASE x # s
    <3>1. \A q \in Scores!LineageOf(x) : q \in Agent /\ Scores!HeadOf(q) = Scores!HeadOf(x)
      BY DEF ChainsSound
    <3>2. \A q \in Scores!LineageOf(x) : Scores!HeadOf(q)' = Scores!HeadOf(x)'
      BY <1>2, <3>1
    <3> QED
      BY <1>2, <2>2, <3>1, <3>2
  <2> QED
    BY <2>1, <2>2
<1> QED
  BY <1>1, <1>4, <1>5, <1>6, <1>7 DEF ChainsSound

\* What is recorded is never about an ID without a row.
LEMMA PartiesStay ==
    ASSUME PartiesSound, x1 \subseteq x1', UNCHANGED <<x3, x4>>
    PROVE  PartiesSound'
BY DEF PartiesSound

LEMMA ReceiptsStep ==
    ASSUME PartiesSound, UNCHANGED <<x1, x4>>,
           \/ \E row \in ScoresRow : x3' = Append(x3, row) /\ row.a \in x1 /\ row.b \in x1
           \/ \E i \in DOMAIN x3, to \in {"draft", "finalized", "disputed"} :
                x3' = [x3 EXCEPT ![i].status = to]
    PROVE  PartiesSound'
<1>1. x3 \in Seq(ScoresRow) /\ Len(x3) \in Nat /\ DOMAIN x3 = 1 .. Len(x3)
  BY DEF PartiesSound
<1>2. CASE \E row \in ScoresRow : x3' = Append(x3, row) /\ row.a \in x1 /\ row.b \in x1
  <2>1. PICK row \in ScoresRow : x3' = Append(x3, row) /\ row.a \in x1 /\ row.b \in x1
    BY <1>2
  <2>2. PICK seq \in Seq(ScoresRow) : seq = x3
    BY <1>1
  <2>3. PICK next : next = Append(seq, row)
    OBVIOUS
  <2>4. x3' = next
    BY <2>1, <2>2, <2>3
  <2>5. /\ next \in Seq(ScoresRow) /\ Len(next) = Len(seq) + 1
        /\ \A i \in 1 .. Len(seq) : next[i] = seq[i]
        /\ next[Len(seq) + 1] = row
    BY <2>3, AppendProperties
  <2>6. Len(seq) \in Nat /\ DOMAIN next = 1 .. Len(next) /\ DOMAIN seq = 1 .. Len(seq)
    BY <2>5
  <2>7. \A i \in DOMAIN next : i \in 1 .. Len(seq) \/ i = Len(seq) + 1
    BY <2>5, <2>6
  <2>8. /\ x3' \in Seq(ScoresRow)
        /\ \A i \in 1 .. Len(x3) : x3'[i] = x3[i]
        /\ x3'[Len(x3) + 1] = row
    BY <2>2, <2>4, <2>5
  <2>9. \A i \in DOMAIN x3' : i \in DOMAIN x3 \/ i = Len(x3) + 1
    BY <1>1, <2>2, <2>4, <2>7
  <2>10. \A i \in DOMAIN x3' : x3'[i].a \in x1 /\ x3'[i].b \in x1
    BY <1>1, <2>1, <2>8, <2>9 DEF PartiesSound
  <2> QED
    BY <2>8, <2>10 DEF PartiesSound
<1>3. CASE \E i \in DOMAIN x3, to \in {"draft", "finalized", "disputed"} :
             x3' = [x3 EXCEPT ![i].status = to]
  <2>1. PICK i \in DOMAIN x3, to \in {"draft", "finalized", "disputed"} :
             x3' = [x3 EXCEPT ![i].status = to]
    BY <1>3
  <2>2. PICK row : row = [x3[i] EXCEPT !.status = to]
    OBVIOUS
  <2>3. x3[i] \in ScoresRow /\ i \in 1 .. Len(x3)
    BY <1>1
  <2>4. row \in ScoresRow /\ row.a = x3[i].a /\ row.b = x3[i].b
    BY <2>2, <2>3 DEF ScoresRow
  <2>5. x3' = [x3 EXCEPT ![i] = row]
    BY <2>1, <2>2
  <2>6. [x3 EXCEPT ![i] = row] \in Seq(ScoresRow)
    BY <1>1, <2>3, <2>4, ExceptSeq
  <2>7. DOMAIN x3' = DOMAIN x3 /\ \A j \in DOMAIN x3 : x3'[j] = IF j = i THEN row ELSE x3[j]
    BY <1>1, <2>5
  <2>8. \A j \in DOMAIN x3' : x3'[j].a \in x1 /\ x3'[j].b \in x1
    BY <2>4, <2>7 DEF PartiesSound
  <2> QED
    BY <2>5, <2>6, <2>8 DEF PartiesSound
<1> QED
  BY <1>2, <1>3

LEMMA JobsStep ==
    ASSUME PartiesSound, UNCHANGED <<x1, x3>>, NEW old \in SUBSET x4, NEW j \in ScoresJob,
           j.poster \in x1, j.acceptedAgent \in x1, x4' = (x4 \ old) \cup {j}
    PROVE  PartiesSound'
<1>1. IsFiniteSet(x4 \ old)
  BY FS_Subset DEF PartiesSound
<1>2. IsFiniteSet(x4')
  BY <1>1, FS_AddElement
<1> QED
  BY <1>2 DEF PartiesSound

LEMMA ScoresNext == ASSUME ScoresInv, Scores!Next PROVE ScoresInv'
<1>0. ChainsSound /\ PartiesSound /\ x1 \subseteq Agent
  BY DEF ScoresInv, ChainsSound
<1>1. CASE \E x \in Agent : Scores!RegisterAgent(x)
  <2>1. UNCHANGED <<x2, x3, x4>> /\ x1 \subseteq x1' /\ x1' \subseteq Agent
    BY <1>0, <1>1 DEF Scores!RegisterAgent
  <2> QED
    BY <1>0, <2>1, ChainsStay, PartiesStay DEF ScoresInv
<1>2. CASE \E x, y \in Agent : Scores!ActivateSuccession(x, y)
  <2>1. UNCHANGED <<x3, x4>> /\ x1 \subseteq x1'
    BY <1>2 DEF Scores!ActivateSuccession
  <2> QED
    BY <1>0, <1>2, <2>1, ChainsSucceed, PartiesStay DEF ScoresInv
<1>3. CASE \E x, y \in Agent : Scores!CreateDraft(x, y)
  <2>1. PICK x \in Agent, y \in Agent : Scores!CreateDraft(x, y)
    BY <1>3
  <2>2. PICK row : row = [a |-> x, b |-> y, status |-> "draft"]
    OBVIOUS
  <2>3. row \in ScoresRow /\ row.a = x /\ row.b = y
    BY <2>2 DEF ScoresRow
  <2>4. UNCHANGED <<x1, x2, x4>> /\ x3' = Append(x3, row) /\ x \in x1 /\ y \in x1
    BY <2>1, <2>2 DEF Scores!CreateDraft, Scores!Active
  <2> QED
    BY <1>0, <2>3, <2>4, ChainsStay, ReceiptsStep DEF ScoresInv
<1>4. CASE \E i \in DOMAIN x3 : \/ Scores!Countersign(i) \/ Scores!OpenDispute(i)
                                \/ Scores!DisputeEnds(i)
  <2>1. PICK i \in DOMAIN x3, from, to \in {"draft", "finalized", "disputed"} :
             Scores!SetStatus(i, from, to)
    BY <1>4 DEF Scores!Countersign, Scores!OpenDispute, Scores!DisputeEnds
  <2>2. UNCHANGED <<x1, x2, x4>> /\ x3' = [x3 EXCEPT ![i].status = to]
    BY <2>1 DEF Scores!SetStatus
  <2> QED
    BY <1>0, <2>2, ChainsStay, ReceiptsStep DEF ScoresInv
<1>5. CASE \E x, y \in Agent : Scores!AcceptOffer(x, y)
  <2>1. PICK x \in Agent, y \in Agent : Scores!AcceptOffer(x, y)
    BY <1>5
  <2>2. PICK j : j = [poster |-> x, acceptedAgent |-> y, reported |-> FALSE]
    OBVIOUS
  <2>3. j \in ScoresJob /\ j.poster = x /\ j.acceptedAgent = y
    BY <2>2 DEF ScoresJob
  <2>4. UNCHANGED <<x1, x2, x3>> /\ x4' = (x4 \ {}) \cup {j} /\ x \in x1 /\ y \in x1
    BY <2>1, <2>2 DEF Scores!AcceptOffer, Scores!Active
  <2> QED
    BY <1>0, <2>3, <2>4, ChainsStay, JobsStep DEF ScoresInv
<1>6. CASE \E j \in x4 : Scores!ReportNonPerformance(j)
  <2>1. PICK old \in x4 : Scores!ReportNonPerformance(old)
    BY <1>6
  <2>2. PICK j : j = [old EXCEPT !.reported = TRUE]
    OBVIOUS
  <2>3. old \in ScoresJob /\ old.poster \in x1 /\ old.acceptedAgent \in x1
    BY <1>0 DEF PartiesSound
  <2>4. j \in ScoresJob /\ j.poster = old.poster /\ j.acceptedAgent = old.acceptedAgent
    BY <2>2, <2>3 DEF ScoresJob
  <2>5. UNCHANGED <<x1, x2, x3>> /\ x4' = (x4 \ {old}) \cup {j}
    BY <2>1, <2>2 DEF Scores!ReportNonPerformance
  <2> QED
    BY <1>0, <2>3, <2>4, <2>5, ChainsStay, JobsStep DEF ScoresInv
<1> QED
  BY <1>1, <1>2, <1>3, <1>4, <1>5, <1>6 DEF Scores!Next

\* What p was, s is once it has succeeded p.
After(p, s, c) == IF c = p THEN s ELSE c

\* Whoever a chain is asked for by now, o is who it was asked for by before.
LEMMA WhoWas ==
    ASSUME ScoresInv, NEW p \in Agent, NEW s \in Agent, Scores!ActivateSuccession(p, s),
           NEW x \in x1 \cup {s}, NEW o, o = IF x = s THEN p ELSE x
    PROVE  /\ s \notin x1 /\ p \in x1 /\ o \in x1 /\ x1 \subseteq Agent /\ x \in Agent
           /\ Scores!HeadOf(p) = p
           /\ UNCHANGED <<x3, x4>>
           /\ \A q \in x1 : q \in Scores!LineageOf(x)' <=> q \in Scores!LineageOf(o)
           /\ s \in Scores!LineageOf(x)' <=> x = s
           /\ Scores!HeadOf(x)' = After(p, s, Scores!HeadOf(o))
           /\ \A y \in x1 : /\ Scores!HeadOf(y)' = After(p, s, Scores!HeadOf(y))
                            /\ Scores!HeadOf(y) \in x1 /\ Scores!LineageOf(y) \subseteq x1
<1>1. ChainsSound /\ x1 \subseteq Agent
  BY DEF ScoresInv, ChainsSound
<1>2. /\ s \notin x1 /\ p \in x1 /\ x2[p] = None
      /\ \A y \in Agent :
           /\ Scores!HeadOf(y)' = IF Scores!HeadOf(y) = p THEN s ELSE Scores!HeadOf(y)
           /\ Scores!LineageOf(y)' = IF y = s THEN {s} \cup Scores!LineageOf(p)
                                     ELSE Scores!LineageOf(y)
  BY <1>1, Succeeds
<1>3. Scores!HeadOf(p) = p /\ Scores!HeadOf(s) = s
  BY <1>1, <1>2, Chains, Newcomer
<1>4. o \in x1 /\ x \in Agent /\ o \in Agent
  BY <1>1, <1>2
<1>5. \A y \in x1 : /\ Scores!HeadOf(y)' = After(p, s, Scores!HeadOf(y))
                    /\ Scores!HeadOf(y) \in x1 /\ Scores!LineageOf(y) \subseteq x1
  BY <1>1, <1>2 DEF ChainsSound, After
<1>6. Scores!HeadOf(x)' = After(p, s, Scores!HeadOf(o))
  BY <1>2, <1>3, <1>4 DEF After
<1>7. \A q \in x1 : q \in Scores!LineageOf(x)' <=> q \in Scores!LineageOf(o)
  BY <1>2, <1>4
<1>8. s \in Scores!LineageOf(x)' <=> x = s
  BY <1>1, <1>2, <1>4, <1>5
<1>9. UNCHANGED <<x3, x4>>
  BY DEF Scores!ActivateSuccession
<1> QED
  BY <1>1, <1>2, <1>3, <1>4, <1>5, <1>6, <1>7, <1>8, <1>9

\* The same receipts and reports are read, and their other parties are
\* named by the heads they have now.
LEMMA SameRecords ==
    ASSUME ScoresInv, NEW p \in Agent, NEW s \in Agent, Scores!ActivateSuccession(p, s),
           NEW x \in x1 \cup {s}, NEW o, o = IF x = s THEN p ELSE x
    PROVE  /\ Scores!LineageReceipts(x)' = Scores!LineageReceipts(o)
           /\ Scores!Finalized(x)' = Scores!Finalized(o)
           /\ Scores!NonPerformanceReports(x)' = Scores!NonPerformanceReports(o)
           /\ Scores!LineageReceipts(o) \subseteq DOMAIN x3
           /\ Scores!Finalized(o) \subseteq DOMAIN x3
           /\ Scores!NonPerformanceReports(o) \subseteq x4
           /\ \A i \in DOMAIN x3 :
                /\ Scores!OtherParty(i, x)' = After(p, s, Scores!OtherParty(i, o))
                /\ Scores!OtherParty(i, o) \in x1
                /\ x3[i].b \in Scores!LineageOf(x)' <=> x3[i].b \in Scores!LineageOf(o)
<1>1. /\ UNCHANGED <<x3, x4>>
      /\ \A q \in x1 : q \in Scores!LineageOf(x)' <=> q \in Scores!LineageOf(o)
      /\ \A y \in x1 : /\ Scores!HeadOf(y)' = After(p, s, Scores!HeadOf(y))
                       /\ Scores!HeadOf(y) \in x1
  BY WhoWas
<1>2. /\ \A i \in DOMAIN x3 : x3[i].a \in x1 /\ x3[i].b \in x1
      /\ \A j \in x4 : j.poster \in x1 /\ j.acceptedAgent \in x1
  BY DEF ScoresInv, PartiesSound
<1>3. Scores!LineageReceipts(x)' = Scores!LineageReceipts(o)
  BY <1>1, <1>2 DEF Scores!LineageReceipts
<1>4. Scores!Finalized(x)' = Scores!Finalized(o)
  BY <1>1, <1>3 DEF Scores!Finalized, Scores!CountsTowardReputation
<1>5. Scores!NonPerformanceReports(x)' = Scores!NonPerformanceReports(o)
  BY <1>1, <1>2 DEF Scores!NonPerformanceReports
<1>6. ASSUME NEW i \in DOMAIN x3
      PROVE  /\ Scores!OtherParty(i, x)' = After(p, s, Scores!OtherParty(i, o))
             /\ Scores!OtherParty(i, o) \in x1
             /\ x3[i].b \in Scores!LineageOf(x)' <=> x3[i].b \in Scores!LineageOf(o)
  <2>1. PICK a, b : a = x3[i].a /\ b = x3[i].b
    OBVIOUS
  <2>2. a \in x1 /\ b \in x1 /\ x3'[i].a = a /\ x3'[i].b = b
    BY <1>1, <1>2, <2>1
  <2>3. /\ Scores!OtherParty(i, x)' =
              IF a \in Scores!LineageOf(x)' THEN Scores!HeadOf(b)' ELSE Scores!HeadOf(a)'
        /\ Scores!OtherParty(i, o) =
              IF a \in Scores!LineageOf(o) THEN Scores!HeadOf(b) ELSE Scores!HeadOf(a)
    BY <2>1, <2>2 DEF Scores!OtherParty, Scores!HeadOf
  <2> QED
    BY <1>1, <2>1, <2>2, <2>3
<1>7. /\ Scores!LineageReceipts(o) \subseteq DOMAIN x3
      /\ Scores!Finalized(o) \subseteq DOMAIN x3
      /\ Scores!NonPerformanceReports(o) \subseteq x4
  BY DEF Scores!LineageReceipts, Scores!Finalized, Scores!NonPerformanceReports
<1> QED
  BY <1>3, <1>4, <1>5, <1>6, <1>7

\* No two counterparties become one.
LEMMA AfterInjective ==
    ASSUME NEW p, NEW s, NEW c, NEW d, c # s, d # s
    PROVE  After(p, s, c) = After(p, s, d) <=> c = d
BY DEF After

\* Pairs, the cold start and the caps are the same under other names.
LEMMA SamePairs ==
    ASSUME NEW p, NEW s, NEW peers, NEW moved,
           \A i \in DOMAIN peers : peers[i] # s,
           moved = [i \in DOMAIN peers |-> After(p, s, peers[i])], NEW c, c # s
    PROVE  /\ Scores!PairReceipts(moved, After(p, s, c)) = Scores!PairReceipts(peers, c)
           /\ Scores!PastColdStart(moved) <=> Scores!PastColdStart(peers)
           /\ Scores!WeightCap(moved, After(p, s, c)) = Scores!WeightCap(peers, c)
<1>1. DOMAIN moved = DOMAIN peers
  OBVIOUS
<1>2. \A i \in DOMAIN peers : moved[i] = After(p, s, c) <=> peers[i] = c
  BY AfterInjective
<1>3. Scores!PairReceipts(moved, After(p, s, c)) = Scores!PairReceipts(peers, c)
  BY <1>1, <1>2 DEF Scores!PairReceipts
<1> QED
  BY <1>1, <1>3 DEF Scores!PastColdStart, Scores!WeightCap

\* A counterparty is anchored by the same receipts, for whatever cluster is
\* left out moves along.
LEMMA SameAnchors ==
    ASSUME ScoresInv, NEW p \in Agent, NEW s \in Agent, Scores!ActivateSuccession(p, s),
           NEW x \in x1 \cup {s}, NEW o, o = IF x = s THEN p ELSE x,
           NEW peers, \A i \in DOMAIN peers : peers[i] \in x1,
           NEW moved, moved = [i \in DOMAIN peers |-> After(p, s, peers[i])],
           NEW c \in x1
    PROVE  (\E i \in Scores!Finalized(After(p, s, c))' :
                Scores!OtherParty(i, After(p, s, c))' \notin Scores!ExcludeIds(x, moved)')
           <=> (\E i \in Scores!Finalized(c) :
                    Scores!OtherParty(i, c) \notin Scores!ExcludeIds(o, peers))
<1>1. /\ s \notin x1 /\ p \in x1 /\ o \in x1 /\ Scores!HeadOf(p) = p
      /\ \A q \in x1 : q \in Scores!LineageOf(x)' <=> q \in Scores!LineageOf(o)
      /\ s \in Scores!LineageOf(x)' <=> x = s
      /\ Scores!HeadOf(x)' = After(p, s, Scores!HeadOf(o))
      /\ \A y \in x1 : Scores!HeadOf(y) \in x1 /\ Scores!LineageOf(y) \subseteq x1
  BY WhoWas
<1>2. PICK d : d = After(p, s, c)
  OBVIOUS
<1>3. d \in x1 \cup {s} /\ c = IF d = s THEN p ELSE d
  BY <1>1, <1>2 DEF After
<1>4. /\ Scores!Finalized(d)' = Scores!Finalized(c)
      /\ Scores!Finalized(c) \subseteq DOMAIN x3
      /\ \A i \in DOMAIN x3 : /\ Scores!OtherParty(i, d)' = After(p, s, Scores!OtherParty(i, c))
                              /\ Scores!OtherParty(i, c) \in x1
  BY <1>3, SameRecords
<1>5. /\ Scores!ExcludeIds(x, moved)' =
            Scores!LineageOf(x)' \cup {Scores!HeadOf(x)'} \cup Scores!Range(moved)
      /\ Scores!ExcludeIds(o, peers) =
            Scores!LineageOf(o) \cup {Scores!HeadOf(o)} \cup Scores!Range(peers)
  BY DEF Scores!ExcludeIds, Scores!Range
<1>6. ASSUME NEW y \in x1
      PROVE  After(p, s, y) \in Scores!ExcludeIds(x, moved)' <=> y \in Scores!ExcludeIds(o, peers)
  <2>1. After(p, s, y) \in Scores!Range(moved) <=> y \in Scores!Range(peers)
    <3>1. \A i \in DOMAIN peers : After(p, s, y) = moved[i] <=> y = peers[i]
      BY <1>1, AfterInjective
    <3>2. DOMAIN moved = DOMAIN peers
      OBVIOUS
    <3> QED
      BY <3>1, <3>2 DEF Scores!Range
  <2>2. After(p, s, y) = Scores!HeadOf(x)' <=> y = Scores!HeadOf(o)
    <3>1. Scores!HeadOf(o) # s /\ y # s
      BY <1>1
    <3>2. PICK h : h = Scores!HeadOf(o)
      OBVIOUS
    <3>3. After(p, s, y) = After(p, s, h) <=> y = h
      BY <3>1, <3>2, AfterInjective
    <3> QED
      BY <1>1, <3>2, <3>3
  <2>3. CASE y # p
    <3>1. After(p, s, y) = y
      BY <2>3 DEF After
    <3> QED
      BY <1>1, <1>5, <2>1, <2>2, <3>1
  <2>4. CASE y = p
    <3>1. After(p, s, y) = s
      BY <2>4 DEF After
    <3>2. CASE x = s
      <4>1. p \in Scores!LineageOf(o)
        BY <3>2, Chains DEF ScoresInv
      <4> QED
        BY <1>1, <1>5, <2>4, <3>1, <3>2, <4>1
    <3>3. CASE x # s
      <4>1. p \in Scores!LineageOf(o) => Scores!HeadOf(o) = p
        BY <1>1, <3>3 DEF ScoresInv, ChainsSound
      <4> QED
        BY <1>1, <1>5, <2>1, <2>2, <2>4, <3>1, <3>3, <4>1
    <3> QED
      BY <3>2, <3>3
  <2> QED
    BY <2>3, <2>4
<1>7. \A i \in Scores!Finalized(c) :
        Scores!OtherParty(i, d)' \in Scores!ExcludeIds(x, moved)' <=>
            Scores!OtherParty(i, c) \in Scores!ExcludeIds(o, peers)
  BY <1>4, <1>6
<1> QED
  BY <1>2, <1>4, <1>7

LEMMA SamePeers ==
    ASSUME ScoresInv, NEW p \in Agent, NEW s \in Agent, Scores!ActivateSuccession(p, s),
           NEW x \in x1 \cup {s}, NEW o, o = IF x = s THEN p ELSE x,
           NEW peers, peers = Scores!Peers(o)
    PROVE  /\ DOMAIN peers = Scores!Finalized(o)
           /\ \A i \in DOMAIN peers : peers[i] \in x1
           /\ Scores!Peers(x)' = [i \in DOMAIN peers |-> After(p, s, peers[i])]
<1>1. /\ Scores!Finalized(x)' = Scores!Finalized(o)
      /\ Scores!Finalized(o) \subseteq DOMAIN x3
      /\ \A i \in DOMAIN x3 : /\ Scores!OtherParty(i, x)' = After(p, s, Scores!OtherParty(i, o))
                              /\ Scores!OtherParty(i, o) \in x1
  BY SameRecords
<1>2. peers = [i \in Scores!Finalized(o) |-> Scores!OtherParty(i, o)]
  BY DEF Scores!Peers
<1>3. Scores!Peers(x)' = [i \in Scores!Finalized(x)' |-> Scores!OtherParty(i, x)']
  BY DEF Scores!Peers
<1> QED
  BY <1>1, <1>2, <1>3

LEMMA SameUnanchored ==
    ASSUME ScoresInv, NEW p \in Agent, NEW s \in Agent, Scores!ActivateSuccession(p, s),
           NEW x \in x1 \cup {s}, NEW o, o = IF x = s THEN p ELSE x,
           NEW peers, \A i \in DOMAIN peers : peers[i] \in x1,
           NEW moved, moved = [i \in DOMAIN peers |-> After(p, s, peers[i])]
    PROVE  \A c \in x1 : After(p, s, c) \in Scores!Unanchored(x, moved)' <=>
                             c \in Scores!Unanchored(o, peers)
<1>1. s \notin x1
  BY WhoWas
<1> SUFFICES ASSUME NEW c \in x1
             PROVE  After(p, s, c) \in Scores!Unanchored(x, moved)' <=>
                        c \in Scores!Unanchored(o, peers)
  OBVIOUS
<1>2. PICK d : d = After(p, s, c)
  OBVIOUS
<1>3. d \in Scores!Range(moved) <=> c \in Scores!Range(peers)
  <2>1. \A i \in DOMAIN peers : d = moved[i] <=> c = peers[i]
    BY <1>1, <1>2, AfterInjective
  <2>2. DOMAIN moved = DOMAIN peers
    OBVIOUS
  <2> QED
    BY <2>1, <2>2 DEF Scores!Range
<1>4. Scores!PastColdStart(moved) <=> Scores!PastColdStart(peers)
  BY <1>1, SamePairs
<1>5. (\E i \in Scores!Finalized(d)' :
            Scores!OtherParty(i, d)' \notin Scores!ExcludeIds(x, moved)')
      <=> (\E i \in Scores!Finalized(c) :
                Scores!OtherParty(i, c) \notin Scores!ExcludeIds(o, peers))
  BY SMTT(60), <1>2, SameAnchors
<1>6. c \in Scores!Unanchored(o, peers) <=>
        /\ c \in Scores!Range(peers) /\ Scores!PastColdStart(peers)
        /\ ~ (\E i \in Scores!Finalized(c) :
                Scores!OtherParty(i, c) \notin Scores!ExcludeIds(o, peers))
  BY DEF Scores!Unanchored, Scores!IsAnchoredCounterparty
<1>7. d \in Scores!Unanchored(x, moved)' <=>
        /\ d \in Scores!Range(moved) /\ Scores!PastColdStart(moved)
        /\ ~ (\E i \in Scores!Finalized(d)' :
                Scores!OtherParty(i, d)' \notin Scores!ExcludeIds(x, moved)')
  BY DEF Scores!Unanchored, Scores!IsAnchoredCounterparty, Scores!Range, Scores!PastColdStart
<1> QED
  BY <1>2, <1>3, <1>4, <1>5, <1>6, <1>7

\* The result of a chain is the one it had under its former head.
LEMMA SameResult ==
    ASSUME ScoresInv, NEW p \in Agent, NEW s \in Agent, Scores!ActivateSuccession(p, s),
           NEW x \in x1 \cup {s}, NEW o, o = IF x = s THEN p ELSE x,
           NEW peers, peers = Scores!Peers(o),
           NEW moved, moved = [i \in DOMAIN peers |-> After(p, s, peers[i])],
           NEW unanchored, unanchored = Scores!Unanchored(o, peers),
           NEW apart, apart = Scores!Unanchored(x, moved)'
    PROVE  Scores!Result(x, moved, apart)' = Scores!Result(o, peers, unanchored)
<1>1. s \notin x1 /\ UNCHANGED <<x3, x4>> /\ x1 \subseteq Agent
  BY WhoWas
<1>2. /\ DOMAIN peers = Scores!Finalized(o) /\ DOMAIN moved = DOMAIN peers
      /\ \A i \in DOMAIN peers : peers[i] \in x1 /\ peers[i] # s
  BY <1>1, SamePeers
<1>3. /\ Scores!LineageReceipts(x)' = Scores!LineageReceipts(o)
      /\ Scores!NonPerformanceReports(x)' = Scores!NonPerformanceReports(o)
      /\ Scores!LineageReceipts(o) \subseteq DOMAIN x3
      /\ Scores!Finalized(o) \subseteq DOMAIN x3
      /\ Scores!NonPerformanceReports(o) \subseteq x4
      /\ \A i \in DOMAIN x3 :
            x3[i].b \in Scores!LineageOf(x)' <=> x3[i].b \in Scores!LineageOf(o)
  BY SameRecords
<1>4. \A c \in x1 : After(p, s, c) \in apart <=> c \in unanchored
  BY <1>2, SameUnanchored
<1>5. ASSUME NEW c \in x1
      PROVE  /\ Scores!PairReceipts(moved, After(p, s, c)) = Scores!PairReceipts(peers, c)
             /\ Scores!PastColdStart(moved) <=> Scores!PastColdStart(peers)
             /\ Scores!WeightCap(moved, After(p, s, c)) = Scores!WeightCap(peers, c)
  <2>1. c # s
    BY <1>1
  <2>2. \A i \in DOMAIN peers : peers[i] # s
    BY <1>2
  <2> QED
    BY <2>1, <2>2, SamePairs
<1>6. ASSUME NEW c \in x1 PROVE Scores!BaseTrust(After(p, s, c))' = Scores!BaseTrust(c)
  <2>1. PICK d : d = After(p, s, c)
    OBVIOUS
  <2>2. d \in x1 \cup {s} /\ c = IF d = s THEN p ELSE d
    BY <1>1, <2>1 DEF After
  <2>3. Scores!Finalized(d)' = Scores!Finalized(c)
    BY <2>2, SameRecords
  <2> QED
    BY <2>1, <2>3 DEF Scores!BaseTrust
<1>7. Scores!PastColdStart(moved) <=> Scores!PastColdStart(peers)
  BY <1>2 DEF Scores!PastColdStart
<1>8. \A some : Scores!MostOf(some, moved) <=> Scores!MostOf(some, peers)
  BY <1>2, <1>7 DEF Scores!MostOf
<1>9. ASSUME NEW i \in DOMAIN peers
      PROVE  /\ moved[i] = After(p, s, peers[i])
             /\ Scores!Weighted(moved, apart, i) <=> Scores!Weighted(peers, unanchored, i)
             /\ Scores!PairReceipts(moved, moved[i]) = Scores!PairReceipts(peers, peers[i])
             /\ Scores!BaseTrust(moved[i])' = Scores!BaseTrust(peers[i])
             /\ x3'[i].b \in Scores!LineageOf(x)' <=> x3[i].b \in Scores!LineageOf(o)
  <2>1. PICK c \in x1 : c = peers[i]
    BY <1>2
  <2>2. moved[i] = After(p, s, c)
    BY <2>1
  <2>3. /\ Scores!PairReceipts(moved, moved[i]) = Scores!PairReceipts(peers, peers[i])
        /\ Scores!WeightCap(moved, moved[i]) = Scores!WeightCap(peers, peers[i])
    BY <1>5, <2>1, <2>2
  <2>4. Scores!Weighted(moved, apart, i) <=> Scores!Weighted(peers, unanchored, i)
    BY <1>4, <1>7, <2>1, <2>2, <2>3 DEF Scores!Weighted
  <2>5. Scores!BaseTrust(moved[i])' = Scores!BaseTrust(peers[i])
    <3>1. PICK d : d = moved[i]
      OBVIOUS
    <3>2. Scores!BaseTrust(d)' = Scores!BaseTrust(c)
      BY <1>6, <2>2, <3>1
    <3> QED
      BY <2>1, <3>1, <3>2
  <2> QED
    BY <1>1, <1>2, <1>3, <2>1, <2>2, <2>3, <2>4, <2>5
<1>10. [i \in DOMAIN moved |->
            [weighted |-> Scores!Weighted(moved, apart, i),
             pair |-> Scores!PairReceipts(moved, moved[i]),
             trust |-> Scores!BaseTrust(moved[i])',
             asProvider |-> x3'[i].b \in Scores!LineageOf(x)',
             concentrated |-> Scores!MostOf(Scores!PairReceipts(moved, moved[i]), moved)]] =
       [i \in DOMAIN peers |->
            [weighted |-> Scores!Weighted(peers, unanchored, i),
             pair |-> Scores!PairReceipts(peers, peers[i]),
             trust |-> Scores!BaseTrust(peers[i]),
             asProvider |-> x3[i].b \in Scores!LineageOf(o),
             concentrated |-> Scores!MostOf(Scores!PairReceipts(peers, peers[i]), peers)]]
  <2>1. ASSUME NEW i \in DOMAIN peers
        PROVE  /\ Scores!Weighted(moved, apart, i) = Scores!Weighted(peers, unanchored, i)
               /\ (x3'[i].b \in Scores!LineageOf(x)') = (x3[i].b \in Scores!LineageOf(o))
               /\ Scores!MostOf(Scores!PairReceipts(moved, moved[i]), moved) =
                      Scores!MostOf(Scores!PairReceipts(peers, peers[i]), peers)
    <3>1. Scores!Weighted(moved, apart, i) = Scores!Weighted(peers, unanchored, i)
      BY <1>9 DEF Scores!Weighted
    <3>2. (x3'[i].b \in Scores!LineageOf(x)') = (x3[i].b \in Scores!LineageOf(o))
      BY <1>9
    <3>3. Scores!MostOf(Scores!PairReceipts(moved, moved[i]), moved) =
              Scores!MostOf(Scores!PairReceipts(peers, peers[i]), peers)
      BY <1>2, <1>7, <1>9 DEF Scores!MostOf
    <3> QED
      BY <3>1, <3>2, <3>3
  <2> QED
    BY <1>2, <1>9, <2>1
<1>11. /\ {i \in Scores!LineageReceipts(x)' : x3'[i].status = "draft"} =
              {i \in Scores!LineageReceipts(o) : x3[i].status = "draft"}
       /\ {i \in Scores!LineageReceipts(x)' : x3'[i].status = "disputed"} =
              {i \in Scores!LineageReceipts(o) : x3[i].status = "disputed"}
  BY <1>1, <1>3
<1>12. ASSUME NEW j \in Scores!NonPerformanceReports(o)
       PROVE  /\ Scores!HeadOf(j.poster) \in x1
              /\ Scores!HeadOf(j.poster)' = After(p, s, Scores!HeadOf(j.poster))
              /\ Scores!BaseTrust(Scores!HeadOf(j.poster))' =
                     Scores!BaseTrust(Scores!HeadOf(j.poster))
  <2>1. j.poster \in x1
    BY <1>3 DEF ScoresInv, PartiesSound
  <2>2. PICK y \in x1 : y = j.poster
    BY <2>1
  <2>3. PICK c \in x1 : c = Scores!HeadOf(y)
    BY WhoWas
  <2>4. PICK d : d = After(p, s, c)
    OBVIOUS
  <2>5. Scores!HeadOf(y)' = d
    BY <2>3, <2>4, WhoWas
  <2>6. Scores!BaseTrust(d)' = Scores!BaseTrust(c)
    BY <1>6, <2>4
  <2>7. Scores!BaseTrust(Scores!HeadOf(y))' = Scores!BaseTrust(d)'
    BY <2>5 DEF Scores!BaseTrust, Scores!Finalized, Scores!LineageReceipts, Scores!LineageOf,
                Scores!CountsTowardReputation
  <2> QED
    BY <2>2, <2>3, <2>4, <2>5, <2>6, <2>7
<1>13. [j \in Scores!NonPerformanceReports(x)' |-> Scores!BaseTrust(Scores!HeadOf(j.poster))'] =
       [j \in Scores!NonPerformanceReports(o) |-> Scores!BaseTrust(Scores!HeadOf(j.poster))]
  BY <1>3, <1>12
<1>14. Scores!Cardinality(Scores!ReportingPosters(x)') = Scores!Cardinality(Scores!ReportingPosters(o))
  <2>1. PICK R : R = Scores!ReportingPosters(o)
    OBVIOUS
  <2>2. R = {Scores!HeadOf(j.poster) : j \in Scores!NonPerformanceReports(o)}
    BY <2>1 DEF Scores!ReportingPosters
  <2>3. Scores!ReportingPosters(x)' =
            {Scores!HeadOf(j.poster)' : j \in Scores!NonPerformanceReports(x)'}
    BY DEF Scores!ReportingPosters
  <2>4. Scores!ReportingPosters(x)' = {After(p, s, c) : c \in R}
    BY <1>3, <1>12, <2>2, <2>3
  <2>5. R \subseteq x1
    BY <1>12, <2>2
  <2>6. IsFiniteSet(R)
    <3>1. IsFiniteSet(Scores!NonPerformanceReports(o))
      BY <1>3, FS_Subset DEF ScoresInv, PartiesSound
    <3>2. PICK N : N = Scores!NonPerformanceReports(o)
      OBVIOUS
    <3>3. PICK f : f = [j \in N |-> Scores!HeadOf(j.poster)]
      OBVIOUS
    <3>4. f \in Surjection(N, R)
      BY <2>2, <3>2, <3>3 DEF Surjection
    <3> QED
      BY <3>1, <3>2, <3>4, FS_Surjection
  <2>7. PICK S : S = {After(p, s, c) : c \in R}
    OBVIOUS
  <2>8. PICK g : g = [c \in R |-> After(p, s, c)]
    OBVIOUS
  <2>9. \A c, d \in R : After(p, s, c) = After(p, s, d) => c = d
    BY <1>1, <2>5, AfterInjective
  <2>10. g \in Bijection(R, S)
    BY <2>7, <2>8, <2>9 DEF Bijection, Injection, Surjection, IsInjective
  <2>11. Cardinality(S) = Cardinality(R)
    <3>1. ExistsBijection(R, S)
      BY <2>10 DEF ExistsBijection
    <3> QED
      BY <2>6, <3>1, FS_Bijection
  <2>12. Scores!Cardinality(S) = Cardinality(S) /\ Scores!Cardinality(R) = Cardinality(R)
    BY DEF Scores!Cardinality, Cardinality
  <2> QED
    BY <2>1, <2>4, <2>7, <2>11, <2>12
<1>15. Scores!MostOf({i \in DOMAIN moved : moved[i] \in apart}, moved) =
       Scores!MostOf({i \in DOMAIN peers : peers[i] \in unanchored}, peers)
  <2>1. {i \in DOMAIN moved : moved[i] \in apart} = {i \in DOMAIN peers : peers[i] \in unanchored}
    BY <1>2, <1>4, <1>9
  <2> QED
    BY <1>2, <1>7, <2>1 DEF Scores!MostOf
<1>16. Scores!Result(x, moved, apart)' =
        [receipts |->
            [i \in DOMAIN moved |->
                [weighted |-> Scores!Weighted(moved, apart, i),
                 pair |-> Scores!PairReceipts(moved, moved[i]),
                 trust |-> Scores!BaseTrust(moved[i])',
                 asProvider |-> x3'[i].b \in Scores!LineageOf(x)',
                 concentrated |-> Scores!MostOf(Scores!PairReceipts(moved, moved[i]), moved)]],
         declared |-> {i \in Scores!LineageReceipts(x)' : x3'[i].status = "draft"},
         inDispute |-> {i \in Scores!LineageReceipts(x)' : x3'[i].status = "disputed"},
         reports |-> [j \in Scores!NonPerformanceReports(x)' |->
                          Scores!BaseTrust(Scores!HeadOf(j.poster))'],
         reporters |-> Scores!Cardinality(Scores!ReportingPosters(x)'),
         unanchoredVolume |-> Scores!MostOf({i \in DOMAIN moved : moved[i] \in apart}, moved)]
  BY DEF Scores!Result, Scores!BaseTrust, Scores!Weighted, Scores!PairReceipts, Scores!MostOf,
         Scores!WeightCap, Scores!PastColdStart
<1> QED
  BY <1>10, <1>11, <1>13, <1>14, <1>15, <1>16 DEF Scores!Result

LEMMA EvidenceIs ==
    ASSUME NEW x, NEW peers, peers = Scores!Peers(x),
           NEW unanchored, unanchored = Scores!Unanchored(x, peers)
    PROVE  Scores!Evidence(x) = {Scores!Result(x, peers, unanchored)}
BY DEF Scores!Evidence

LEMMA EvidenceWillBe ==
    ASSUME NEW CONSTANT x, NEW CONSTANT peers, peers = Scores!Peers(x)',
           NEW CONSTANT unanchored, unanchored = Scores!Unanchored(x, peers)'
    PROVE  Scores!Evidence(x)' = {Scores!Result(x, peers, unanchored)'}
<1>1. Scores!Evidence(x)' =
        UNION {{Scores!Result(x, q, u)' : u \in {Scores!Unanchored(x, q)'}} :
                q \in {Scores!Peers(x)'}}
  BY DEF Scores!Evidence
<1> QED
  BY <1>1

LEMMA SameEvidence ==
    ASSUME ScoresInv, NEW p \in Agent, NEW s \in Agent, Scores!ActivateSuccession(p, s),
           NEW x \in x1 \cup {s}, NEW o, o = IF x = s THEN p ELSE x
    PROVE  Scores!Evidence(x)' = Scores!Evidence(o)
<1>1. PICK peers : peers = Scores!Peers(o)
  OBVIOUS
<1>2. PICK moved : moved = [i \in DOMAIN peers |-> After(p, s, peers[i])]
  OBVIOUS
<1>3. Scores!Peers(x)' = moved
  BY <1>1, <1>2, SamePeers
<1>4. PICK unanchored : unanchored = Scores!Unanchored(o, peers)
  OBVIOUS
<1>5. PICK apart : apart = Scores!Unanchored(x, moved)'
  OBVIOUS
<1>6. Scores!Result(x, moved, apart)' = Scores!Result(o, peers, unanchored)
  BY <1>1, <1>2, <1>4, <1>5, SameResult
<1>7. Scores!Evidence(o) = {Scores!Result(o, peers, unanchored)}
  BY <1>1, <1>4, EvidenceIs
<1>8. Scores!Evidence(x)' = {Scores!Result(x, moved, apart)'}
  BY <1>3, <1>5, EvidenceWillBe
<1> QED
  BY <1>6, <1>7, <1>8

LEMMA EvidenceStep ==
    ASSUME ScoresInv, [Scores!Next]_(Scores!vars)
    PROVE  Scores!EvidenceConserved
<1> SUFFICES ASSUME NEW p \in Agent, NEW s \in Agent, x2[p] = None, x2'[p] = s
             PROVE  /\ Scores!Evidence(s)' = Scores!Evidence(p)
                    /\ \A x \in x1 : Scores!Evidence(x)' = Scores!Evidence(x)
  BY DEF Scores!EvidenceConserved
<1>1. x2' # x2
  BY AgentNumbers
<1>2. PICK q \in Agent, t \in Agent : Scores!ActivateSuccession(q, t)
  BY <1>1 DEF Scores!Next, Scores!vars, Scores!RegisterAgent, Scores!CreateDraft,
              Scores!AcceptOffer, Scores!Countersign, Scores!OpenDispute, Scores!DisputeEnds,
              Scores!SetStatus, Scores!ReportNonPerformance
<1>3. x2' = [x2 EXCEPT ![q] = t] /\ x2 \in [Agent -> x1 \cup {None}]
  BY <1>2 DEF Scores!ActivateSuccession, ScoresInv, ChainsSound
<1>4. q = p /\ t = s
  BY <1>3, AgentNumbers
<1>5. Scores!ActivateSuccession(p, s)
  BY <1>2, <1>4
<1>6. s \notin x1
  BY <1>5, Succeeds DEF ScoresInv
<1>7. Scores!Evidence(s)' = Scores!Evidence(p)
  BY <1>5, SameEvidence
<1>8. ASSUME NEW x \in x1 PROVE Scores!Evidence(x)' = Scores!Evidence(x)
  BY <1>5, <1>6, SameEvidence
<1> QED
  BY <1>7, <1>8

\* A succession changes no score: the new ID has the evidence the old one had,
\* and nobody else, the old one included, gains or loses any, because receipts
\* are read by lineage and counterparties and posters named by the head of
\* their chain (reputationService.ts: lineageReceipts, otherParty,
\* isAnchoredCounterparty).
THEOREM SuccessionNeutralCorrect == Spec => SuccessionNeutral
<1> DEFINE I == service = "reputation" => ScoresInv
<1> DEFINE A == service = "reputation" => Scores!EvidenceConserved
<1>1. Init => I
  BY ChainsInit DEF Init
<1>2. [Next]_vars => \/ service' = service /\ service # "reputation"
                     \/ service' = service /\ [Scores!Next]_(Scores!vars)
  BY DEF Next, vars, Scores!vars
<1>3. I /\ [Next]_vars => I'
  <2> SUFFICES ASSUME I, [Next]_vars, service' = "reputation" PROVE ScoresInv'
    OBVIOUS
  <2>1. ScoresInv /\ [Scores!Next]_(Scores!vars)
    BY <1>2
  <2>2. CASE Scores!Next
    BY <2>1, <2>2, ScoresNext
  <2>3. CASE UNCHANGED Scores!vars
    <3>1. UNCHANGED <<x2, x3, x4>> /\ x1' = x1
      BY <2>3 DEF Scores!vars
    <3>2. ChainsSound /\ PartiesSound /\ x1 \subseteq x1' /\ x1' \subseteq Agent
      BY <2>1, <3>1 DEF ScoresInv, ChainsSound
    <3> QED
      BY <3>1, <3>2, ChainsStay, PartiesStay DEF ScoresInv
  <2> QED
    BY <2>1, <2>2, <2>3
<1>4. I /\ [Next]_vars => A
  BY <1>2, EvidenceStep
<1>5. I /\ [Next]_vars => [A]_vars
  BY <1>4
<1> QED
  BY <1>1, <1>3, <1>5, PTL DEF Spec, SuccessionNeutral
=============================================================================
