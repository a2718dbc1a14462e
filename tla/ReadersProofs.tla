----------------------------- MODULE ReadersProofs -----------------------------
(***************************************************************************)
(* The readers of the registry and the guards before its writes, one after *)
(* the other, for any values of their constants.                           *)
(***************************************************************************)
EXTENDS MCReaders, FiniteSetTheorems, SequenceTheorems, WellFoundedInduction, TLAPS

\* The part that runs is chosen once, and only its own steps move it.
LEMMA OnePart ==
    ASSUME [Next]_vars
    PROVE  /\ part' = part
           /\ part = "monitor" => [Monitor!Next]_(Monitor!vars)
           /\ part = "verifier" => [Audit!Next]_(Audit!vars)
           /\ part = "guards" => [Guards!Next]_(Guards!vars)
           /\ part = "gate" => [Gate!Next]_(Gate!vars)
           /\ part = "check" => [Check!Next]_(Check!vars)
           /\ part = "tab" => [Tab!Next]_(Tab!vars)
           /\ part = "http" => [Http!Next]_(Http!vars)
           /\ part = "sdk" => [Sdk!Next]_(Sdk!vars)
           /\ part = "verdict" => [Verdict!Next]_(Verdict!vars)
           /\ part = "score" => [Score!Next]_(Score!vars)
           /\ part = "list" => [List!Next]_(List!vars)
           /\ part = "stats" => [Figures!Next]_(Figures!vars)
<1>1. CASE Next
  BY <1>1 DEF Next
<1>2. CASE UNCHANGED vars
  BY <1>2 DEF vars, after3, Monitor!vars, Audit!vars, Audit!Bounds, Guards!vars, Gate!vars, Gate!registryVars,
       Check!vars, Check!registryVars, Tab!vars, Tab!viewerVars,
       Http!vars, Sdk!vars, Verdict!vars, Score!vars, List!vars,
       Figures!vars
<1> QED
  BY <1>1, <1>2

-----------------------------------------------------------------------------
(* The monitor of the log (LogMonitorProofs). *)

\* Whatever has been read of the table is a part of it until it is tampered with.
LEMMA MonitorInv == Spec => [](part = "monitor" => Monitor!Inv)
<1> DEFINE I == part = "monitor" => Monitor!Inv
<1>p. Monitor!Parameters
  BY ReadersAssumption DEF Monitor!Parameters
<1>1. Init => I
  BY Monitor!InitInv DEF Init
<1>2. I /\ [Next]_vars => I'
  BY <1>p, OnePart, Monitor!NextInv
<1> QED
  BY <1>1, <1>2, PTL DEF Spec

(* Whatever is appended between the calls of a run, the monitor fails only *)
(* if the table was tampered with (sth-monitor.ts, fail), for pages of any *)
(* size and logs of any length.                                            *)
THEOREM NoFalseAlarmCorrect == Spec => []NoFalseAlarm
<1>1. (part = "monitor" => Monitor!Inv) => NoFalseAlarm
  BY DEF NoFalseAlarm, Monitor!Inv
<1> QED
  BY <1>1, MonitorInv, PTL

(* Every head that gets into the file is of a log that extends the one     *)
(* that the head before was of, however the table was tampered with: only  *)
(* sizes, roots and a proof are compared (verifyConsistency).              *)
THEOREM HeadsExtendCorrect == Spec => HeadsExtend
<1> DEFINE I == part = "monitor" => Monitor!Inv
<1> DEFINE A == part = "monitor" => Monitor!Extends
<1>1. I /\ [Next]_vars => A
  BY OnePart, Monitor!StepExtends
<1>2. I /\ [Next]_vars => [A]_vars
  BY <1>1
<1> QED
  BY <1>2, MonitorInv, PTL DEF Spec, HeadsExtend

-----------------------------------------------------------------------------
(* The guards before every write (RequestGuardsProofs). *)

\* Whatever is kept in memory stands for a run that is remembered.
LEMMA GuardsInv == Spec => [](part = "guards" => Guards!Inv)
<1> DEFINE I == part = "guards" => Guards!Inv
<1>p. Guards!Parameters
  BY ReadersAssumption DEF Guards!Parameters
<1>1. Init => I
  BY <1>p, Guards!InitInv DEF Init
<1>2. I /\ [Next]_vars => I'
  BY <1>p, OnePart, Guards!NextInv
<1> QED
  BY <1>1, <1>2, PTL DEF Spec

(* An operation that succeeded runs again under its key only when the      *)
(* response has lapsed, for any lifetimes (requireIdempotencyKey).         *)
THEOREM RetryIsCachedCorrect == Spec => []RetryIsCached
<1>1. (part = "guards" => Guards!Inv) => RetryIsCached
  BY DEF RetryIsCached, Guards!Inv
<1> QED
  BY <1>1, GuardsInv, PTL

(* A signature changes its key only after its pairing lapsed, and only if  *)
(* it was dated at the time of that pairing or ahead of it                 *)
(* (signatureReplayCache).                                                 *)
THEOREM SignatureBoundCorrect == Spec => []SignatureBound
<1>1. (part = "guards" => Guards!Inv) => SignatureBound
  BY DEF SignatureBound, Guards!Inv
<1> QED
  BY <1>1, GuardsInv, PTL

(* The fixed window never lets through twice its limit within a window's   *)
(* length, for any limit and any length of it (createFixedWindowLimiter).  *)
THEOREM RateBoundedCorrect == Spec => []RateBounded
<1> DEFINE I == part = "guards" => Guards!Inv /\ Guards!RateInv
<1>p. Guards!Parameters
  BY ReadersAssumption DEF Guards!Parameters
<1>1. Init => I
  BY <1>p, Guards!InitInv, Guards!InitRate DEF Init
<1>2. I /\ [Next]_vars => I'
  BY <1>p, OnePart, Guards!NextInv, Guards!NextRate
<1>3. I => RateBounded
  BY <1>p, Guards!RateFollows DEF RateBounded
<1> QED
  BY <1>1, <1>2, <1>3, PTL DEF Spec
-----------------------------------------------------------------------------
(* The payment gate. *)

LEMMA GateInit == Gate!Init => Gate!Inv
<1> SUFFICES ASSUME Gate!Init PROVE Gate!Inv
  OBVIOUS
<1>1. Gate!Shape
  BY DEF Gate!Init, Gate!RegistryInit, Gate!Shape, Gate!Row, Gate!Appraisal, Gate!NoCall,
         Gate!Reason
<1>2. Gate!Remembered
  BY DEF Gate!Init, Gate!RegistryInit, Gate!Remembered
<1>3. Gate!AnswersOnceTrue /\ Gate!OfferPayable /\ Gate!PaidToProven
  BY DEF Gate!Init, Gate!NoCall, Gate!AnswersOnceTrue, Gate!OfferPayable, Gate!PaidToProven
<1> QED
  BY <1>1, <1>2, <1>3 DEF Gate!Inv

\* The registry moves on: the history of the call only grows.
LEMMA GateRegistry ==
    ASSUME Gate!Inv, Gate!RegistryChanges, UNCHANGED <<x6, x7, x8>>
    PROVE  Gate!Inv'
<1>1. x4 \subseteq x4' /\ x5 \subseteq x5'
  BY DEF Gate!RegistryChanges
<1>2. x1' \in [Payee -> Gate!Row] /\ x2' \in [Payee -> Gate!Appraisal]
  <2>0. x1 \in [Payee -> Gate!Row] /\ x2 \in [Payee -> Gate!Appraisal]
    BY DEF Gate!Inv, Gate!Shape
  <2>1. ASSUME NEW d \in Payee, NEW w \in Wallet, x1' = [x1 EXCEPT ![d].wallet = w], x2' = x2
        PROVE  x1' \in [Payee -> Gate!Row]
    BY <2>0, <2>1 DEF Gate!Row
  <2>2. ASSUME NEW d \in Payee, NEW s \in {"pending", "revoked", "succeeded"},
               x1' = [x1 EXCEPT ![d].standing = s], x2' = x2
        PROVE  x1' \in [Payee -> Gate!Row]
    BY <2>0, <2>2 DEF Gate!Row, Gate!Retired
  <2>3. ASSUME NEW d \in Payee, NEW p \in Gate!Appraisal, x2' = [x2 EXCEPT ![d] = p], x1' = x1
        PROVE  x2' \in [Payee -> Gate!Appraisal]
    BY <2>0, <2>3
  <2> QED
    BY <2>0, <2>1, <2>2, <2>3 DEF Gate!RegistryChanges
<1>3. Gate!Shape'
  BY <1>2 DEF Gate!Inv, Gate!Shape
<1>4. Gate!Remembered'
  BY DEF Gate!RegistryChanges, Gate!Remembered, Gate!ProvenNow, Gate!AppraisedNow
<1>5. Gate!AnswersOnceTrue'
  BY <1>1 DEF Gate!Inv, Gate!AnswersOnceTrue
<1>6. ASSUME NEW a, Gate!Payable(a) PROVE Gate!Payable(a)'
  BY <1>1, <1>6 DEF Gate!Payable, Gate!Appraisal, Gate!PolicyFailure
<1>7. Gate!OfferPayable' /\ Gate!PaidToProven'
  BY <1>6 DEF Gate!Inv, Gate!OfferPayable, Gate!PaidToProven
<1> QED
  BY <1>3, <1>4, <1>5, <1>7 DEF Gate!Inv

LEMMA GatePaymentRequired == ASSUME Gate!Inv, Gate!PaymentRequired PROVE Gate!Inv'
<1>0. PICK d \in Payee \cup {None}, accepts \in SUBSET (Wallet \cup {Stranger}) :
        x6' = [Gate!NoCall EXCEPT !.pc = IF d = None THEN "blocked" ELSE "asking",
                                  !.did = d, !.accepts = accepts,
                                  !.reason = IF d = None THEN "names no ID" ELSE None]
  BY DEF Gate!PaymentRequired
<1>1. /\ x6'.pc \in {"blocked", "asking"} /\ x6'.pc = "asking" => d # None
      /\ x6'.did = d /\ x6'.agent = None /\ x6'.reputation = None
  BY <1>0 DEF Gate!NoCall
<1>2. Gate!Shape'
  BY <1>0 DEF Gate!Inv, Gate!Shape, Gate!NoCall, Gate!Reason, Gate!PaymentRequired,
              Gate!CallBegins
<1>3. Gate!Remembered'
  BY DEF Gate!PaymentRequired, Gate!CallBegins, Gate!Remembered
<1>4. Gate!AnswersOnceTrue' /\ Gate!OfferPayable' /\ Gate!PaidToProven'
  BY <1>1 DEF Gate!AnswersOnceTrue, Gate!OfferPayable, Gate!PaidToProven, Gate!PaymentRequired
<1> QED
  BY <1>2, <1>3, <1>4 DEF Gate!Inv

\* A lookup is answered with what the registry says at that moment.
LEMMA GateLookups ==
    ASSUME Gate!Inv, Gate!GetAgent \/ Gate!GetReputation \/ Gate!LookupFails
    PROVE  Gate!Inv'
<1>0. UNCHANGED <<x1, x2, x4, x5, x8>> /\ x6.pc = "asking" /\ x6.did \in Payee
  BY DEF Gate!Inv, Gate!AnswersOnceTrue, Gate!GetAgent, Gate!GetReputation, Gate!LookupFails,
         Gate!registryVars
<1>s. Gate!Shape
  BY DEF Gate!Inv
<1>1. CASE Gate!GetAgent
  <2>1. x6' = [x6 EXCEPT !.agent = x1[x6.did]] /\ x1[x6.did] \in Gate!Row
    BY <1>0, <1>1, <1>s DEF Gate!GetAgent, Gate!Shape
  <2>2. Gate!Shape'
    BY <1>0, <1>s, <2>1 DEF Gate!Shape
  <2>3. /\ x6'.pc = "asking" /\ x6'.did = x6.did /\ x6'.agent = x1[x6.did]
        /\ x6'.reputation = x6.reputation
    BY <1>0, <1>s, <2>1 DEF Gate!Shape
  <2>4. Gate!AnswersOnceTrue'
    BY <1>0, <2>3 DEF Gate!Inv, Gate!AnswersOnceTrue, Gate!Remembered, Gate!ProvenNow
  <2>5. Gate!Remembered' /\ Gate!OfferPayable' /\ Gate!PaidToProven'
    BY <1>0, <2>3 DEF Gate!Inv, Gate!Remembered, Gate!OfferPayable, Gate!PaidToProven, Gate!Payable
  <2> QED
    BY <2>2, <2>4, <2>5 DEF Gate!Inv
<1>2. CASE Gate!GetReputation
  <2>1. x6' = [x6 EXCEPT !.reputation = x2[x6.did]] /\ x2[x6.did] \in Gate!Appraisal
    BY <1>0, <1>2, <1>s DEF Gate!GetReputation, Gate!Shape
  <2>2. Gate!Shape'
    BY <1>0, <1>s, <2>1 DEF Gate!Shape
  <2>3. /\ x6'.pc = "asking" /\ x6'.did = x6.did /\ x6'.agent = x6.agent
        /\ x6'.reputation = x2[x6.did]
    BY <1>0, <1>s, <2>1 DEF Gate!Shape
  <2>4. Gate!AnswersOnceTrue'
    BY <1>0, <2>3 DEF Gate!Inv, Gate!AnswersOnceTrue, Gate!Remembered, Gate!AppraisedNow
  <2>5. Gate!Remembered' /\ Gate!OfferPayable' /\ Gate!PaidToProven'
    BY <1>0, <2>3 DEF Gate!Inv, Gate!Remembered, Gate!OfferPayable, Gate!PaidToProven, Gate!Payable
  <2> QED
    BY <2>2, <2>4, <2>5 DEF Gate!Inv
<1>3. CASE Gate!LookupFails
  <2>0. PICK why \in {"not found", "unavailable"} :
          x6' = [x6 EXCEPT !.pc = "blocked", !.reason = why]
    BY <1>3 DEF Gate!LookupFails
  <2>1. Gate!Shape'
    BY <1>0, <1>s, <2>0 DEF Gate!Shape, Gate!Reason
  <2>2. /\ x6'.pc = "blocked" /\ x6'.did = x6.did /\ x6'.agent = x6.agent
        /\ x6'.reputation = x6.reputation
    BY <1>s, <2>0 DEF Gate!Shape
  <2>3. /\ Gate!Remembered' /\ Gate!AnswersOnceTrue' /\ Gate!OfferPayable'
        /\ Gate!PaidToProven'
    BY <1>0, <2>2 DEF Gate!Inv, Gate!Remembered, Gate!AnswersOnceTrue, Gate!OfferPayable,
                      Gate!PaidToProven, Gate!Payable
  <2> QED
    BY <2>1, <2>3 DEF Gate!Inv
<1> QED
  BY <1>1, <1>2, <1>3

\* An answer that meets the policy leaves one address: the one it was proven for.
LEMMA GateDecide == ASSUME Gate!Inv, Gate!Decide PROVE Gate!Inv'
<1> DEFINE refusal == Gate!DecideX402(x6.agent, x6.reputation, x6.accepts, MinEvidence,
                                      MinTrustScore)
<1>0. /\ UNCHANGED <<x1, x2, x4, x5, x8>> /\ x6.pc = "asking" /\ x6.did \in Payee
      /\ x6.agent # None /\ x6.reputation # None
      /\ x6' = IF refusal = None
               THEN [x6 EXCEPT !.pc = "offered", !.accepts = Gate!Narrowed]
               ELSE [x6 EXCEPT !.pc = "blocked", !.reason = refusal]
  BY DEF Gate!Inv, Gate!AnswersOnceTrue, Gate!Decide, Gate!registryVars
<1>s. Gate!Shape
  BY DEF Gate!Inv
<1>a. x6.agent \in Gate!Row /\ x6.reputation \in Gate!Appraisal
  BY <1>0, <1>s DEF Gate!Shape
<1>r. Gate!Remembered'
  BY <1>0 DEF Gate!Inv, Gate!Remembered
<1>1. CASE refusal = None
  <2>0. x6' = [x6 EXCEPT !.pc = "offered", !.accepts = Gate!Narrowed]
    BY <1>0, <1>1
  <2>1. Gate!Shape'
    <3>1. Gate!Narrowed \in SUBSET (Wallet \cup {Stranger})
      BY <1>s DEF Gate!Shape, Gate!Narrowed
    <3> QED
      BY <1>0, <1>s, <2>0, <3>1 DEF Gate!Shape
  <2>2. /\ x6'.pc = "offered" /\ x6'.did = x6.did /\ x6'.agent = x6.agent
        /\ x6'.reputation = x6.reputation /\ x6'.accepts \subseteq {x6.agent.wallet}
    BY <1>s, <2>0 DEF Gate!Shape, Gate!Narrowed
  <2>3. /\ x6.agent.standing \notin Gate!Retired
        /\ Gate!PolicyFailure(x6.reputation, MinEvidence, MinTrustScore) = None
    BY <1>1, ReadersAssumption DEF Gate!DecideX402, Gate!Retired
  <2>4. Gate!AnswersOnceTrue'
    BY <1>0, <2>2 DEF Gate!Inv, Gate!AnswersOnceTrue
  <2>5. Gate!OfferPayable' /\ Gate!PaidToProven'
    BY <1>0, <1>a, <2>2, <2>3 DEF Gate!Inv, Gate!AnswersOnceTrue, Gate!OfferPayable,
                               Gate!PaidToProven, Gate!Payable, Gate!PolicyFailure
  <2> QED
    BY <1>r, <2>1, <2>4, <2>5 DEF Gate!Inv
<1>2. CASE refusal # None
  <2>0. x6' = [x6 EXCEPT !.pc = "blocked", !.reason = refusal]
    BY <1>0, <1>2
  <2>1. refusal \in Gate!Reason
    BY <1>a DEF Gate!DecideX402, Gate!PolicyFailure, Gate!Reason, Gate!Row
  <2>2. Gate!Shape'
    BY <1>0, <1>s, <2>0, <2>1 DEF Gate!Shape
  <2>3. /\ x6'.pc = "blocked" /\ x6'.did = x6.did /\ x6'.agent = x6.agent
        /\ x6'.reputation = x6.reputation
    BY <1>s, <2>0 DEF Gate!Shape
  <2>4. Gate!AnswersOnceTrue' /\ Gate!OfferPayable' /\ Gate!PaidToProven'
    BY <1>0, <2>3 DEF Gate!Inv, Gate!AnswersOnceTrue, Gate!OfferPayable, Gate!PaidToProven,
                      Gate!Payable
  <2> QED
    BY <1>r, <2>2, <2>4 DEF Gate!Inv
<1> QED
  BY <1>1, <1>2

LEMMA GatePay == ASSUME Gate!Inv, Gate!Pay PROVE Gate!Inv'
<1>0. /\ UNCHANGED <<x1, x2, x4, x5>> /\ x6.pc = "offered" /\ x8' \in x6.accepts
      /\ x6' = [x6 EXCEPT !.pc = "retried"]
  BY DEF Gate!Pay, Gate!registryVars
<1>1. Gate!Shape'
  BY <1>0 DEF Gate!Inv, Gate!Shape
<1>2. /\ x6'.pc = "retried" /\ x6'.did = x6.did /\ x6'.agent = x6.agent
      /\ x6'.reputation = x6.reputation
  BY <1>0 DEF Gate!Inv, Gate!Shape
<1>3. PICK a : x8' = a /\ Gate!Payable(a)
  BY <1>0 DEF Gate!Inv, Gate!OfferPayable
<1>4. Gate!PaidToProven'
  BY SMTT(60), <1>0, <1>2, <1>3 DEF Gate!PaidToProven, Gate!Payable, Gate!Appraisal, Gate!PolicyFailure
<1>5. Gate!Remembered' /\ Gate!AnswersOnceTrue' /\ Gate!OfferPayable'
  BY <1>0, <1>2 DEF Gate!Inv, Gate!Remembered, Gate!AnswersOnceTrue, Gate!OfferPayable
<1> QED
  BY <1>1, <1>4, <1>5 DEF Gate!Inv

LEMMA GateAnswered == ASSUME Gate!Inv, Gate!Answered PROVE Gate!Inv'
<1>0. UNCHANGED <<x1, x2, x4, x5>> /\ x8' = None /\ x6' = Gate!NoCall
  BY DEF Gate!Answered, Gate!registryVars
<1>1. Gate!Shape'
  BY <1>0 DEF Gate!Inv, Gate!Shape, Gate!NoCall, Gate!Reason
<1>2. /\ Gate!Remembered' /\ Gate!AnswersOnceTrue' /\ Gate!OfferPayable'
      /\ Gate!PaidToProven'
  BY <1>0 DEF Gate!Inv, Gate!NoCall, Gate!Remembered, Gate!AnswersOnceTrue, Gate!OfferPayable,
              Gate!PaidToProven
<1> QED
  BY <1>1, <1>2 DEF Gate!Inv

LEMMA GateNext == ASSUME Gate!Inv, [Gate!Next]_(Gate!vars) PROVE Gate!Inv'
<1>1. CASE UNCHANGED Gate!vars
  BY <1>1 DEF Gate!vars, Gate!registryVars, Gate!Inv, Gate!Shape, Gate!Remembered,
              Gate!AnswersOnceTrue, Gate!OfferPayable, Gate!PaidToProven, Gate!Payable
<1>2. CASE Gate!Next
  BY <1>2, GateRegistry, GatePaymentRequired, GateLookups, GateDecide, GatePay, GateAnswered
     DEF Gate!Next
<1> QED
  BY <1>1, <1>2

(* Money only goes to an address that the named ID had proven while it was *)
(* not retired, with an appraisal that met the policy, for any policy and  *)
(* any number of calls and changes (withInamX402Gate, decideX402).         *)
THEOREM PaidToProvenCorrect == Spec => []PaidToProven
<1> DEFINE I == part = "gate" => Gate!Inv
<1>1. Init => I
  BY GateInit DEF Init
<1>2. I /\ [Next]_vars => I'
  BY OnePart, GateNext
<1>3. I => PaidToProven
  BY DEF PaidToProven, Gate!Inv
<1> QED
  BY <1>1, <1>2, <1>3, PTL DEF Spec

-----------------------------------------------------------------------------
(* The maintainers' verifier. *)

LEMMA AuditInit == Audit!Init => Audit!Inv
<1> SUFFICES ASSUME Audit!Init PROVE Audit!Inv
  OBVIOUS
<1>1. x8.pc = "idle" /\ x8.page = <<>> /\ x1 = <<>> /\ x6 = 0 /\ x5 = {}
  BY DEF Audit!Init, Audit!NoRun
<1>2. Audit!Shape
  BY DEF Audit!Init, Audit!Shape, Audit!NoRun
<1>3. Audit!PageFollows /\ Audit!EntryInHand /\ Audit!NothingPassedUnseen
  BY <1>1 DEF Audit!PageFollows, Audit!EntryInHand, Audit!NothingPassedUnseen
<1> QED
  BY <1>2, <1>3 DEF Audit!Inv

\* The registry moves on: the log grows, and what was in it stays where it was.
LEMMA AuditRegistry ==
    ASSUME Audit!Inv, UNCHANGED <<x5, x6, x7, x8>>,
           NEW c \in Drafted \cup {None}, x1' = Append(x1, c) \/ x1' = x1
    PROVE  Audit!Inv'
<1>1. /\ x1' \in Seq(Drafted \cup {None}) /\ Len(x1') >= Len(x1) /\ Len(x1) \in Nat
      /\ \A i \in 1 .. Len(x1) : x1'[i] = x1[i]
  BY SMTT(60) DEF Audit!Inv, Audit!Shape
<1>2. Audit!Shape'
  BY <1>1 DEF Audit!Inv, Audit!Shape
<1>3. x6 \in Nat /\ Len(x8.page) \in Nat /\ x6 + Len(x8.page) <= Len(x1)
  BY DEF Audit!Inv, Audit!Shape, Audit!PageFollows
<1>4. Audit!PageFollows'
  BY <1>1, <1>3 DEF Audit!Inv, Audit!PageFollows
<1>5. Audit!EntryInHand'
  BY DEF Audit!Inv, Audit!EntryInHand, Audit!Seen
<1>6. Audit!NothingPassedUnseen'
  BY <1>1, <1>3 DEF Audit!Inv, Audit!NothingPassedUnseen, Audit!Seen
<1> QED
  BY <1>2, <1>4, <1>5, <1>6 DEF Audit!Inv

\* Skips and decisions are only added, and no receipt gets a second decision:
\* a step that leaves the resume point is judged by the run it leaves behind.
LEMMA AuditRun ==
    ASSUME Audit!Inv, UNCHANGED <<x1, x6>>, x7 \subseteq x7', x5 \subseteq x5',
           \A d, e \in x5' : d.receipt = e.receipt => d = e,
           Audit!Shape', Audit!PageFollows', Audit!EntryInHand'
    PROVE  Audit!Inv'
BY DEF Audit!Inv, Audit!NothingPassedUnseen, Audit!Seen

\* A run that ends, or has nothing in hand.
LEMMA AuditNoRun ==
    ASSUME Audit!Inv, UNCHANGED <<x1, x6>>, x8' = Audit!NoRun \/ x8' = [Audit!NoRun EXCEPT !.pc = "fetch"]
    PROVE  Audit!Shape' /\ Audit!PageFollows' /\ Audit!EntryInHand'
<1>1. x8'.pc \in {"idle", "fetch"} /\ x8'.page = <<>>
  BY DEF Audit!NoRun
<1>2. Audit!Shape'
  <2>1. <<>> \in Seq(Drafted \cup {None})
    OBVIOUS
  <2>2. PICK pc \in {"idle", "fetch"} :
          x8' = [pc |-> pc, page |-> <<>>, hasMore |-> FALSE, result |-> None]
    BY DEF Audit!NoRun
  <2>3. x8' \in [pc : {"idle", "fetch", "entry", "hash", "submit", "advance"},
                 page : Seq(Drafted \cup {None}), hasMore : BOOLEAN,
                 result : {None, "verified", "rejected"}]
    BY <2>1, <2>2
  <2> QED
    BY <2>3 DEF Audit!Inv, Audit!Shape
<1>3. x6 \in Nat /\ x6 <= Len(x1)
  BY DEF Audit!Inv, Audit!Shape, Audit!PageFollows
<1>4. Audit!PageFollows' /\ Audit!EntryInHand'
  BY <1>1, <1>3 DEF Audit!PageFollows, Audit!EntryInHand
<1> QED
  BY <1>2, <1>4

\* The run keeps its page and goes on to another point of it.
LEMMA AuditSamePage ==
    ASSUME Audit!Inv, UNCHANGED <<x1, x6>>, NEW pc \in {"fetch", "entry", "hash", "submit", "advance"},
           NEW result \in {None, "verified", "rejected"},
           x8' = [x8 EXCEPT !.pc = pc, !.result = result],
           pc \in {"hash", "submit", "advance"} => x8.page # <<>>,
           pc = "advance" => Audit!Seen(Head(x8.page))'
    PROVE  Audit!Shape' /\ Audit!PageFollows' /\ Audit!EntryInHand'
<1>1. x8'.pc = pc /\ x8'.page = x8.page
  BY DEF Audit!Inv, Audit!Shape
<1>2. Audit!Shape'
  BY DEF Audit!Inv, Audit!Shape
<1>3. Audit!PageFollows'
  BY <1>1 DEF Audit!Inv, Audit!PageFollows
<1>4. Audit!EntryInHand'
  BY <1>1 DEF Audit!EntryInHand, Audit!Seen
<1> QED
  BY <1>2, <1>3, <1>4

\* The end of a page lies between the resume point and the end of the log.
LEMMA PageEnd ==
    ASSUME NEW from \in Nat, NEW size \in Nat, NEW length \in Nat, NEW left \in Nat,
           from + left <= length
    PROVE  /\ from <= length
           /\ \A end : end = (IF from + size < length THEN from + size ELSE length) =>
                end \in Nat /\ from <= end /\ end <= length
OBVIOUS

LEMMA AuditFetchPage == ASSUME Audit!Inv, Audit!FetchPage PROVE Audit!Inv'
<1> DEFINE end == IF x6 + PageSize < Len(x1) THEN x6 + PageSize ELSE Len(x1)
<1>0. /\ UNCHANGED <<x1, x5, x6, x7>>
      /\ x8' = [pc |-> "entry", page |-> SubSeq(x1, x6 + 1, end), hasMore |-> end < Len(x1),
                result |-> None]
  BY DEF Audit!FetchPage, Audit!Registry
<1>s. /\ x1 \in Seq(Drafted \cup {None}) /\ x6 \in Nat /\ Len(x1) \in Nat
      /\ x8.page \in Seq(Drafted \cup {None}) /\ x6 + Len(x8.page) <= Len(x1)
  BY DEF Audit!Inv, Audit!Shape, Audit!PageFollows
<1>1. x6 <= Len(x1) /\ end \in Nat /\ x6 <= end /\ end <= Len(x1)
  <2>1. Len(x8.page) \in Nat
    BY <1>s
  <2>2. PageSize \in Nat
    BY ReadersAssumption
  <2> QED
    BY <1>s, <2>1, <2>2, PageEnd
<1> HIDE DEF end
<1>2. /\ SubSeq(x1, x6 + 1, end) \in Seq(Drafted \cup {None})
      /\ Len(SubSeq(x1, x6 + 1, end)) = end - x6
      /\ \A i \in 1 .. end - x6 : SubSeq(x1, x6 + 1, end)[i] = x1[x6 + i]
  BY <1>s, <1>1
<1>3. Audit!Shape'
  BY <1>0, <1>s, <1>1, <1>2 DEF Audit!Shape
<1>4. Audit!PageFollows'
  BY <1>0, <1>s, <1>1, <1>2 DEF Audit!PageFollows
<1>5. Audit!EntryInHand'
  BY <1>0 DEF Audit!EntryInHand
<1> QED
  BY <1>0, <1>3, <1>4, <1>5, AuditRun DEF Audit!Inv, Audit!NothingPassedUnseen

\* Only a finalized receipt is hashed; what cannot be checked is skipped.
LEMMA AuditLooks ==
    ASSUME Audit!Inv,
           Audit!ReadReceipt \/ \E served \in {"match", "mismatch", "skip"} : Audit!HashRemote(served)
    PROVE  Audit!Inv'
<1>0. /\ UNCHANGED <<x1, x5, x6>> /\ x8.page # <<>>
      /\ \/ UNCHANGED x7 /\ \E pc \in {"hash", "submit"}, result \in {None, "verified", "rejected"} :
                              x8' = [x8 EXCEPT !.pc = pc, !.result = result]
         \/ /\ x8' = [x8 EXCEPT !.pc = "advance"]
            /\ x7 \subseteq x7' /\ (Head(x8.page) = None \/ Head(x8.page) \in x7')
  <2>r. x8 = [x8 EXCEPT !.result = x8.result] /\ x8.result \in {None, "verified", "rejected"}
    BY DEF Audit!Inv, Audit!Shape
  <2>1. CASE Audit!ReadReceipt
    <3>1. /\ UNCHANGED <<x1, x5, x6>> /\ x8.page # <<>>
          /\ \/ UNCHANGED x7 /\ x8' = [x8 EXCEPT !.pc = "hash"]
             \/ /\ x8' = [x8 EXCEPT !.pc = "advance"]
                /\ x7 \subseteq x7' /\ (Head(x8.page) = None \/ Head(x8.page) \in x7')
      BY <2>1 DEF Audit!ReadReceipt, Audit!Registry, Audit!Skip
    <3>2. [x8 EXCEPT !.pc = "hash"] = [x8 EXCEPT !.pc = "hash", !.result = x8.result]
      BY DEF Audit!Inv, Audit!Shape
    <3> QED
      BY <3>1, <3>2, <2>r
  <2>2. ASSUME NEW served \in {"match", "mismatch", "skip"}, Audit!HashRemote(served)
        PROVE  /\ UNCHANGED <<x1, x5, x6>> /\ x8.page # <<>>
               /\ \/ UNCHANGED x7 /\ \E result \in {"verified", "rejected"} :
                                        x8' = [x8 EXCEPT !.pc = "submit", !.result = result]
                  \/ /\ x8' = [x8 EXCEPT !.pc = "advance"]
                     /\ x7 \subseteq x7' /\ Head(x8.page) \in x7'
    BY <2>2 DEF Audit!HashRemote, Audit!Registry, Audit!Skip, Audit!Inv, Audit!EntryInHand
  <2> QED
    BY <2>1, <2>2
<1>u. \A d, e \in x5' : d.receipt = e.receipt => d = e
  BY <1>0 DEF Audit!Inv, Audit!NothingPassedUnseen
<1>1. CASE UNCHANGED x7 /\ \E pc \in {"hash", "submit"}, result \in {None, "verified", "rejected"} :
                              x8' = [x8 EXCEPT !.pc = pc, !.result = result]
  <2>1. Audit!Shape' /\ Audit!PageFollows' /\ Audit!EntryInHand'
    BY <1>0, <1>1, AuditSamePage
  <2> QED
    BY <1>0, <1>1, <1>u, <2>1, AuditRun
<1>2. CASE /\ x8' = [x8 EXCEPT !.pc = "advance"]
           /\ x7 \subseteq x7' /\ (Head(x8.page) = None \/ Head(x8.page) \in x7')
  <2>1. x8' = [x8 EXCEPT !.pc = "advance", !.result = x8.result]
        /\ x8.result \in {None, "verified", "rejected"}
    BY <1>2 DEF Audit!Inv, Audit!Shape
  <2>2. Head(x8.page) = Head(x8'.page)
    BY <2>1 DEF Audit!Inv, Audit!Shape
  <2>3. \E h : h = Head(x8.page) /\ h = Head(x8.page)' /\ Audit!Seen(h)'
    BY <1>2, <2>2 DEF Audit!Seen
  <2>4. Audit!Shape' /\ Audit!PageFollows' /\ Audit!EntryInHand'
    BY <1>0, <2>1, <2>3, AuditSamePage
  <2> QED
    BY <1>0, <1>2, <1>u, <2>4, AuditRun
<1> QED
  BY <1>0, <1>1, <1>2

\* A decision is taken once per receipt; a refusal of another kind ends the run.
LEMMA AuditDecides ==
    ASSUME Audit!Inv, Audit!SubmitVerification \/ Audit!AnswerLost PROVE Audit!Inv'
<1> DEFINE c == Head(x8.page)
<1>0. /\ UNCHANGED <<x1, x6, x7>> /\ x8.page # <<>>
      /\ \/ x5' = x5
         \/ /\ \A d \in x5 : d.receipt # c
            /\ x5' = x5 \cup {[receipt |-> c, result |-> x8.result]}
      /\ \/ x8' = Audit!NoRun
         \/ x8' = [x8 EXCEPT !.pc = "advance"] /\ \E d \in x5' : d.receipt = c
  <2>1. CASE Audit!SubmitVerification
    <3>1. /\ UNCHANGED <<x1, x6, x7>> /\ x8.page # <<>>
          /\ \/ x5' = x5 /\ x8' = Audit!NoRun
             \/ /\ x8' = [x8 EXCEPT !.pc = "advance"]
                /\ x5' = IF Audit!AlreadyDecided(c, x8.result) THEN x5
                         ELSE x5 \cup {[receipt |-> c, result |-> x8.result]}
      BY <2>1 DEF Audit!SubmitVerification, Audit!Registry, Audit!Inv, Audit!EntryInHand
    <3>2. CASE Audit!AlreadyDecided(c, x8.result)
      BY <3>1, <3>2 DEF Audit!AlreadyDecided
    <3>3. CASE ~Audit!AlreadyDecided(c, x8.result)
      <4>1. \A d \in x5 : d.receipt # c
        BY <3>3 DEF Audit!AlreadyDecided
      <4>2. [receipt |-> c, result |-> x8.result].receipt = c
        OBVIOUS
      <4> HIDE DEF c
      <4> QED
        BY <3>1, <3>3, <4>1, <4>2
    <3> QED
      BY <3>2, <3>3
  <2>2. CASE Audit!AnswerLost
    BY <2>2 DEF Audit!AnswerLost, Audit!AlreadyDecided, Audit!Registry, Audit!Inv,
                Audit!EntryInHand
  <2> QED
    BY <2>1, <2>2
<1>1. \A d, e \in x5' : d.receipt = e.receipt => d = e
  BY <1>0 DEF Audit!Inv, Audit!NothingPassedUnseen
<1>2. Audit!Shape' /\ Audit!PageFollows' /\ Audit!EntryInHand'
  <2>1. CASE x8' = Audit!NoRun
    BY <1>0, <2>1, AuditNoRun
  <2>2. CASE x8' = [x8 EXCEPT !.pc = "advance"] /\ \E d \in x5' : d.receipt = c
    <3>1. x8' = [x8 EXCEPT !.pc = "advance", !.result = x8.result]
          /\ x8.result \in {None, "verified", "rejected"} /\ c = Head(x8'.page)
      BY <2>2 DEF Audit!Inv, Audit!Shape
    <3>2. \E h : h = Head(x8.page) /\ h = Head(x8.page)' /\ Audit!Seen(h)'
      BY <2>2, <3>1 DEF Audit!Seen
    <3> QED
      BY <1>0, <3>1, <3>2, AuditSamePage
  <2> QED
    BY <1>0, <2>1, <2>2
<1> QED
  BY <1>0, <1>1, <1>2, AuditRun

\* The resume point moves over the entry in hand, and the page with it.
LEMMA AuditSaveState == ASSUME Audit!Inv, Audit!SaveState PROVE Audit!Inv'
<1>0. /\ UNCHANGED <<x1, x5, x7>> /\ x6' = x6 + 1 /\ x8.pc = "advance" /\ x8.page # <<>>
      /\ x8' = [x8 EXCEPT !.pc = "entry", !.page = Tail(@), !.result = None]
      /\ Audit!Seen(Head(x8.page))
  BY DEF Audit!SaveState, Audit!Registry, Audit!Inv, Audit!EntryInHand
<1>1. x8 \in [pc : {"idle", "fetch", "entry", "hash", "submit", "advance"},
              page : Seq(Drafted \cup {None}), hasMore : BOOLEAN,
              result : {None, "verified", "rejected"}]
      /\ x1 \in Seq(Drafted \cup {None}) /\ x6 \in Nat
  BY DEF Audit!Inv, Audit!Shape
<1>2. /\ Tail(x8.page) \in Seq(Drafted \cup {None}) /\ Len(Tail(x8.page)) = Len(x8.page) - 1
      /\ Len(x8.page) \in Nat \ {0} /\ Head(x8.page) = x8.page[1]
      /\ \A i \in 1 .. Len(x8.page) - 1 : Tail(x8.page)[i] = x8.page[i + 1]
  <2>1. PICK p \in Seq(Drafted \cup {None}) : p = x8.page /\ p # <<>>
    BY <1>0, <1>1
  <2>2. /\ Tail(p) \in Seq(Drafted \cup {None}) /\ Len(p) \in Nat \ {0}
        /\ Len(Tail(p)) = Len(p) - 1 /\ Head(p) = p[1]
    BY <2>1
  <2>3. \A i \in 1 .. Len(p) - 1 : Tail(p)[i] = p[i + 1]
    BY <2>1, <2>2
  <2> QED
    BY <2>1, <2>2, <2>3
<1>3. x8'.pc = "entry" /\ x8'.page = Tail(x8.page)
  BY <1>0, <1>1
<1>4. Audit!Shape'
  <2>1. x8' = [pc |-> "entry", page |-> Tail(x8.page), hasMore |-> x8.hasMore, result |-> None]
        /\ x8.hasMore \in BOOLEAN
    BY <1>0, <1>1
  <2>2. x1' = x1 /\ x6' = x6 + 1
    BY <1>0
  <2>3. x8' \in [pc : {"idle", "fetch", "entry", "hash", "submit", "advance"},
                 page : Seq(Drafted \cup {None}), hasMore : BOOLEAN,
                 result : {None, "verified", "rejected"}]
    BY <1>2, <2>1
  <2> QED
    BY <1>1, <2>2, <2>3 DEF Audit!Shape
<1>5. /\ x6 + Len(x8.page) <= Len(x1)
      /\ \A i \in 1 .. Len(x8.page) : x8.page[i] = x1[x6 + i]
  BY DEF Audit!Inv, Audit!PageFollows
<1>6. Audit!PageFollows'
  <2>1. Len(Tail(x8.page)) = Len(x8.page) - 1 /\ x1' = x1 /\ x6' = x6 + 1
    BY <1>0, <1>2
  <2>2. x6 + 1 + (Len(x8.page) - 1) <= Len(x1)
    BY <1>1, <1>2, <1>5
  <2>3. ASSUME NEW i \in 1 .. Len(x8.page) - 1
        PROVE  Tail(x8.page)[i] = x1[x6 + 1 + i]
    <3>1. i + 1 \in 1 .. Len(x8.page) /\ x6 + (i + 1) = x6 + 1 + i
      BY <1>1, <1>2
    <3> QED
      BY <1>2, <1>5, <3>1
  <2> QED
    BY <1>3, <2>1, <2>2, <2>3 DEF Audit!PageFollows
<1>7. Audit!EntryInHand'
  BY <1>3 DEF Audit!EntryInHand
<1>8. Audit!NothingPassedUnseen'
  BY <1>0, <1>1, <1>2, <1>5 DEF Audit!Inv, Audit!NothingPassedUnseen, Audit!Seen
<1> QED
  BY <1>4, <1>6, <1>7, <1>8 DEF Audit!Inv

LEMMA AuditNext == ASSUME Audit!Inv, [Audit!Next]_(Audit!vars) PROVE Audit!Inv'
<1>u. \A d, e \in x5 : d.receipt = e.receipt => d = e
  BY DEF Audit!Inv, Audit!NothingPassedUnseen
<1>1. CASE UNCHANGED Audit!vars
  BY <1>1, AuditRegistry DEF Audit!vars
<1>2. CASE Audit!StartRun \/ Audit!Die
  <2>1. UNCHANGED <<x1, x5, x6, x7>>
        /\ (x8' = Audit!NoRun \/ x8' = [Audit!NoRun EXCEPT !.pc = "fetch"])
    BY <1>2 DEF Audit!StartRun, Audit!Die, Audit!Registry
  <2> QED
    BY <2>1, <1>u, AuditNoRun, AuditRun
<1>3. CASE Audit!EndPage
  <2>0. UNCHANGED <<x1, x5, x6, x7>>
        /\ (x8' = Audit!NoRun \/ x8' = [x8 EXCEPT !.pc = "fetch"])
    BY <1>3 DEF Audit!EndPage, Audit!Registry
  <2>1. CASE x8' = Audit!NoRun
    BY <2>0, <2>1, <1>u, AuditNoRun, AuditRun
  <2>2. CASE x8' = [x8 EXCEPT !.pc = "fetch"]
    <3>1. x8' = [x8 EXCEPT !.pc = "fetch", !.result = x8.result]
          /\ x8.result \in {None, "verified", "rejected"}
      BY <2>2 DEF Audit!Inv, Audit!Shape
    <3>2. Audit!Shape' /\ Audit!PageFollows' /\ Audit!EntryInHand'
      BY <2>0, <3>1, AuditSamePage
    <3> QED
      BY <2>0, <3>2, <1>u, AuditRun
  <2> QED
    BY <2>0, <2>1, <2>2
<1>4. CASE Audit!SetVerifierStatus
  BY <1>4, AuditRegistry DEF Audit!SetVerifierStatus
<1>5. ASSUME NEW c \in Drafted, Audit!Finalize(c) \/ Audit!OpenDispute(c) \/ Audit!ResolveDispute(c)
      PROVE  Audit!Inv'
  BY <1>5, AuditRegistry DEF Audit!Finalize, Audit!OpenDispute, Audit!ResolveDispute
<1> QED
  BY <1>1, <1>2, <1>3, <1>4, <1>5, AuditFetchPage, AuditLooks, AuditDecides, AuditSaveState
     DEF Audit!Next, Audit!RunStep

(* The resume point passes no finalization neither decided nor skipped on  *)
(* purpose, and no receipt gets two decisions, for any page size and any   *)
(* number of deaths, disputes and lost grants (run, check).                *)
THEOREM NothingPassedUnseenCorrect == Spec => []NothingPassedUnseen
<1> DEFINE I == part = "verifier" => Audit!Inv
<1>1. Init => I
  BY AuditInit DEF Init
<1>2. I /\ [Next]_vars => I'
  BY OnePart, AuditNext
<1>3. I => NothingPassedUnseen
  BY DEF NothingPassedUnseen, Audit!Inv
<1> QED
  BY <1>1, <1>2, <1>3, PTL DEF Spec

-----------------------------------------------------------------------------
(* The SDKs' calls. *)

\* The calls, by what they do.
LEMMA SdkCallCases ==
    ASSUME NEW c \in Sdk!Call
    PROVE  \/ c = Sdk!CancelCall \/ c = Sdk!ReportCall
           \/ \E w \in Worker : c = Sdk!OfferCall(w) \/ c = Sdk!AcceptCall(w)
           \/ \E x \in Worker \cup {d1} : c = Sdk!RevokeCall(x)
           \/ \E w \in Worker, r \in Outcome :
                c = Sdk!SubmitWorkCall(w, r) \/ c = Sdk!AcceptWorkCall(w, r)
<1>1. ASSUME c \in UNION {{Sdk!OfferCall(w), Sdk!AcceptCall(w)} : w \in Worker}
      PROVE  \E w \in Worker : c = Sdk!OfferCall(w) \/ c = Sdk!AcceptCall(w)
  BY <1>1
<1>2. ASSUME c \in {Sdk!RevokeCall(x) : x \in Worker \cup {d1}}
      PROVE  \E x \in Worker \cup {d1} : c = Sdk!RevokeCall(x)
  BY <1>2
<1>3. ASSUME c \in UNION {{Sdk!SubmitWorkCall(w, r), Sdk!AcceptWorkCall(w, r)} :
                          w \in Worker, r \in Outcome}
      PROVE  \E w \in Worker, r \in Outcome :
                c = Sdk!SubmitWorkCall(w, r) \/ c = Sdk!AcceptWorkCall(w, r)
  BY <1>3
<1>4. \/ c \in {Sdk!CancelCall, Sdk!ReportCall}
      \/ c \in UNION {{Sdk!OfferCall(w), Sdk!AcceptCall(w)} : w \in Worker}
      \/ c \in {Sdk!RevokeCall(x) : x \in Worker \cup {d1}}
      \/ c \in UNION {{Sdk!SubmitWorkCall(w, r), Sdk!AcceptWorkCall(w, r)} :
                      w \in Worker, r \in Outcome}
  BY SMT DEF Sdk!Call
<1> QED
  BY <1>1, <1>2, <1>3, <1>4

LEMMA SdkCallTypes ==
    ASSUME NEW c \in Sdk!Call
    PROVE  /\ c.op \in {"offer", "accept", "cancel", "report", "revoke", "draft", "countersign"}
           /\ c.op = "offer" => c.by \in Worker
           /\ c.op = "accept" => c.of \in Worker
           /\ c.op \in {"draft", "countersign"} => c.of \in Worker \X Outcome
BY SdkCallCases DEF Sdk!CancelCall, Sdk!ReportCall, Sdk!OfferCall, Sdk!AcceptCall,
   Sdk!RevokeCall, Sdk!SubmitWorkCall, Sdk!AcceptWorkCall

\* Who calls, and the first word of a key, tell what the call does.
LEMMA SdkKeyNamesCall ==
    ASSUME NEW c \in Sdk!Call
    PROVE  /\ c.key[1] = CASE c.op = "draft" -> "receipt" [] OTHER -> c.op
           /\ c.op = "offer" => c = Sdk!OfferCall(c.by)
           /\ c.op = "accept" => c = Sdk!AcceptCall(c.key[2])
           /\ c.op = "cancel" => c = Sdk!CancelCall
           /\ c.op = "report" => c = Sdk!ReportCall
           /\ c.op = "revoke" => c = Sdk!RevokeCall(c.by)
           /\ c.op = "countersign" => c = Sdk!AcceptWorkCall(c.key[2], c.key[3])
<1>1. CASE c = Sdk!CancelCall \/ c = Sdk!ReportCall
  BY <1>1 DEF Sdk!CancelCall, Sdk!ReportCall
<1>2. ASSUME NEW w \in Worker, c = Sdk!OfferCall(w)
      PROVE  c.op = "offer" /\ c.key[1] = "offer" /\ c = Sdk!OfferCall(c.by)
  BY <1>2 DEF Sdk!OfferCall
<1>3. ASSUME NEW w \in Worker, c = Sdk!AcceptCall(w)
      PROVE  c.op = "accept" /\ c.key[1] = "accept" /\ c = Sdk!AcceptCall(c.key[2])
  BY <1>3 DEF Sdk!AcceptCall
<1>4. ASSUME NEW x, c = Sdk!RevokeCall(x)
      PROVE  c.op = "revoke" /\ c.key[1] = "revoke" /\ c = Sdk!RevokeCall(c.by)
  BY <1>4 DEF Sdk!RevokeCall
<1>5. ASSUME NEW w \in Worker, NEW r \in Outcome, c = Sdk!SubmitWorkCall(w, r)
      PROVE  c.op = "draft" /\ c.key[1] = "receipt"
  BY <1>5 DEF Sdk!SubmitWorkCall
<1>6. ASSUME NEW w \in Worker, NEW r \in Outcome, c = Sdk!AcceptWorkCall(w, r)
      PROVE  /\ c.op = "countersign" /\ c.key[1] = "countersign"
             /\ c = Sdk!AcceptWorkCall(c.key[2], c.key[3])
  BY <1>6 DEF Sdk!AcceptWorkCall
<1> QED
  BY <1>1, <1>2, <1>3, <1>4, <1>5, <1>6, SdkCallCases

\* One key stands for one call, but for results submitted for the same job.
LEMMA SdkKeyTellsCall ==
    ASSUME NEW c \in Sdk!Call, NEW d \in Sdk!Call, Sdk!CacheKey(c) = Sdk!CacheKey(d)
    PROVE  d = c \/ Sdk!SameKeyDraft(c, d)
<1>1. c.by = d.by /\ c.key = d.key
  BY DEF Sdk!CacheKey
<1>2. c.op = d.op
  BY <1>1, SdkKeyNamesCall, SdkCallTypes
<1>3. CASE c.op = "draft"
  BY <1>3 DEF Sdk!SameKeyDraft
<1>4. CASE c.op # "draft"
  BY <1>1, <1>2, <1>4, SdkKeyNamesCall, SdkCallTypes
<1> QED
  BY <1>3, <1>4

LEMMA SdkInit == Sdk!Init => Sdk!Inv
<1> SUFFICES ASSUME Sdk!Init PROVE Sdk!Inv
  OBVIOUS
<1>1. Sdk!Shape
  BY DEF Sdk!Init, Sdk!Shape
<1>2. /\ Sdk!EffectsPast /\ Sdk!RespondsToEffect /\ Sdk!ResponsesBacked
      /\ Sdk!CallsHonoured
  BY DEF Sdk!Init, Sdk!EffectsPast, Sdk!RespondsToEffect, Sdk!ResponsesBacked, Sdk!CallsHonoured
<1> QED
  BY <1>1, <1>2 DEF Sdk!Inv

\* What the rows rule out they rule out for ever.
LEMMA SdkPastStays ==
    ASSUME NEW c \in Sdk!Call, Sdk!Past(c),
           x1.offers \subseteq x1'.offers, x3 \subseteq x3',
           x1.status # "open" => x1'.status # "open",
           x1.status \notin {"open", "accepted"} => x1'.status \notin {"open", "accepted"},
           \A p \in Worker \X Outcome : /\ x2[p] # "none" => x2'[p] # "none"
                                        /\ x2[p] = "finalized" => x2'[p] = "finalized"
    PROVE  Sdk!Past(c)'
BY SdkCallTypes DEF Sdk!Past

\* A call that has taken effect, and one that is under way, are still so when
\* only more takes effect.
LEMMA SdkBacked ==
    ASSUME Sdk!Inv, \A c \in Sdk!Call : x7[c] = 1 => x7'[c] = 1, UNCHANGED <<x4, x8>>,
           \A c \in Sdk!Call : x7'[c] <= 1
    PROVE  Sdk!ResponsesBacked' /\ Sdk!CallsHonoured'
<1>1. Sdk!ResponsesBacked'
  BY DEF Sdk!Inv, Sdk!ResponsesBacked, Sdk!CacheKey
<1>2. Sdk!CallsHonoured'
  BY DEF Sdk!Inv, Sdk!CallsHonoured, Sdk!SameKeyDraft, Sdk!CacheKey
<1> QED
  BY <1>1, <1>2

\* Nothing takes effect: the rows stay or are only completed.
LEMMA SdkQuiet ==
    ASSUME Sdk!Inv, UNCHANGED <<x2, x3, x4, x7, x8>>,
           x1' = x1 \/ (x1.status = "accepted" /\ x1' = [x1 EXCEPT !.status = "completed"]),
           x5' \in [Sdk!Slot -> Sdk!InFlight \cup {None}],
           Sdk!RespondsToEffect'
    PROVE  Sdk!Inv'
<1>1. /\ x1' \in [status : {"open", "accepted", "completed", "cancelled", "nonperformed"},
                  acceptedAgentId : Worker \cup {None}, offers : SUBSET Worker]
      /\ x1'.offers = x1.offers /\ (x1'.status = x1.status \/ x1'.status = "completed")
      /\ x1.status = "open" => x1'.status = "open"
  BY DEF Sdk!Inv, Sdk!Shape
<1>2. Sdk!Shape'
  BY <1>1 DEF Sdk!Inv, Sdk!Shape
<1>3. Sdk!EffectsPast'
  <2> SUFFICES ASSUME NEW c \in Sdk!Call, x7[c] = 1 PROVE Sdk!Past(c)'
    BY DEF Sdk!EffectsPast
  <2>1. Sdk!Past(c)
    BY DEF Sdk!Inv, Sdk!EffectsPast
  <2>2. x1.status \notin {"open", "accepted"} => x1'.status \notin {"open", "accepted"}
    BY <1>1
  <2>3. x1.status # "open" => x1'.status # "open"
    BY <1>1
  <2> QED
    BY <1>1, <2>1, <2>2, <2>3, SdkPastStays
<1>4. \A c \in Sdk!Call : x7[c] <= 1
  BY DEF Sdk!Inv, Sdk!CallsHonoured
<1> QED
  BY <1>2, <1>3, <1>4, SdkBacked DEF Sdk!Inv

\* A write applies only to a call that has not taken effect, and rules itself
\* out for ever.
LEMMA SdkApplies ==
    ASSUME Sdk!Shape, NEW c \in Sdk!Call, Sdk!Applies(c),
           x1' = Sdk!JobAfter(c), x2' = Sdk!ReceiptsAfter(c),
           x3' = IF c.op = "revoke" THEN x3 \cup {c.by} ELSE x3
    PROVE  /\ ~Sdk!Past(c) /\ Sdk!Past(c)'
           /\ \A d \in Sdk!Call : Sdk!Past(d) => Sdk!Past(d)'
           /\ x1' \in [status : {"open", "accepted", "completed", "cancelled", "nonperformed"},
                       acceptedAgentId : Worker \cup {None}, offers : SUBSET Worker]
           /\ x2' \in [Worker \X Outcome -> {"none", "draft", "finalized"}]
<1>s. /\ x1 \in [status : {"open", "accepted", "completed", "cancelled", "nonperformed"},
                 acceptedAgentId : Worker \cup {None}, offers : SUBSET Worker]
      /\ x2 \in [Worker \X Outcome -> {"none", "draft", "finalized"}]
  BY DEF Sdk!Shape
<1>t. /\ c.op \in {"offer", "accept", "cancel", "report", "revoke", "draft", "countersign"}
      /\ c.op = "offer" => c.by \in Worker
      /\ c.op = "accept" => c.of \in Worker
      /\ c.op \in {"draft", "countersign"} => c.of \in Worker \X Outcome
  BY SdkCallTypes
<1> DEFINE Stays == /\ x1.offers \subseteq x1'.offers /\ x3 \subseteq x3'
                    /\ x1.status # "open" => x1'.status # "open"
                    /\ x1.status \notin {"open", "accepted"} =>
                            x1'.status \notin {"open", "accepted"}
                    /\ \A p \in Worker \X Outcome :
                            /\ x2[p] # "none" => x2'[p] # "none"
                            /\ x2[p] = "finalized" => x2'[p] = "finalized"
<1> DEFINE Typed == /\ x1' \in [status : {"open", "accepted", "completed", "cancelled",
                                           "nonperformed"},
                                acceptedAgentId : Worker \cup {None}, offers : SUBSET Worker]
                    /\ x2' \in [Worker \X Outcome -> {"none", "draft", "finalized"}]
<1>1. ASSUME c.op = "offer" PROVE ~Sdk!Past(c) /\ Sdk!Past(c)' /\ Stays /\ Typed
  <2>1. x1' = [x1 EXCEPT !.offers = @ \cup {c.by}] /\ UNCHANGED <<x2, x3>> /\ c.by \notin x1.offers
    BY <1>1 DEF Sdk!JobAfter, Sdk!ReceiptsAfter, Sdk!Applies
  <2>2. Typed
    BY <1>1, <1>s, <1>t, <2>1
  <2>3. Stays
    BY <1>1, <1>s, <1>t, <2>1
  <2>4. ~Sdk!Past(c) /\ Sdk!Past(c)'
    BY <1>1, <1>s, <1>t, <2>1 DEF Sdk!Past
  <2> QED
    BY <2>2, <2>3, <2>4
<1>2. ASSUME c.op = "accept" PROVE ~Sdk!Past(c) /\ Sdk!Past(c)' /\ Stays /\ Typed
  <2>1. x1' = [x1 EXCEPT !.status = "accepted", !.acceptedAgentId = c.of]
        /\ UNCHANGED <<x2, x3>> /\ x1.status = "open"
    BY <1>2 DEF Sdk!JobAfter, Sdk!ReceiptsAfter, Sdk!Applies, Sdk!Acceptable
  <2>2. Typed
    BY <1>2, <1>s, <1>t, <2>1
  <2>3. Stays
    BY <1>2, <1>s, <1>t, <2>1
  <2>4. ~Sdk!Past(c) /\ Sdk!Past(c)'
    BY <1>2, <1>s, <1>t, <2>1 DEF Sdk!Past
  <2> QED
    BY <2>2, <2>3, <2>4
<1>3. ASSUME c.op = "cancel" PROVE ~Sdk!Past(c) /\ Sdk!Past(c)' /\ Stays /\ Typed
  <2>1. x1' = [x1 EXCEPT !.status = "cancelled"]
        /\ UNCHANGED <<x2, x3>> /\ x1.status \in {"open", "accepted"}
    BY <1>3 DEF Sdk!JobAfter, Sdk!ReceiptsAfter, Sdk!Applies
  <2>2. Typed
    BY <1>3, <1>s, <1>t, <2>1
  <2>3. Stays
    BY <1>3, <1>s, <1>t, <2>1
  <2>4. ~Sdk!Past(c) /\ Sdk!Past(c)'
    BY <1>3, <1>s, <1>t, <2>1 DEF Sdk!Past
  <2> QED
    BY <2>2, <2>3, <2>4
<1>4. ASSUME c.op = "report" PROVE ~Sdk!Past(c) /\ Sdk!Past(c)' /\ Stays /\ Typed
  <2>1. x1' = [x1 EXCEPT !.status = "nonperformed"]
        /\ UNCHANGED <<x2, x3>> /\ x1.status = "accepted"
    BY <1>4 DEF Sdk!JobAfter, Sdk!ReceiptsAfter, Sdk!Applies
  <2>2. Typed
    BY <1>4, <1>s, <1>t, <2>1
  <2>3. Stays
    BY <1>4, <1>s, <1>t, <2>1
  <2>4. ~Sdk!Past(c) /\ Sdk!Past(c)'
    BY <1>4, <1>s, <1>t, <2>1 DEF Sdk!Past
  <2> QED
    BY <2>2, <2>3, <2>4
<1>5. ASSUME c.op = "revoke" PROVE ~Sdk!Past(c) /\ Sdk!Past(c)' /\ Stays /\ Typed
  <2>1. x3' = x3 \cup {c.by} /\ UNCHANGED <<x1, x2>> /\ c.by \notin x3
    BY <1>5 DEF Sdk!JobAfter, Sdk!ReceiptsAfter, Sdk!Applies
  <2>2. Typed
    BY <1>5, <1>s, <1>t, <2>1
  <2>3. Stays
    BY <1>5, <1>s, <1>t, <2>1
  <2>4. ~Sdk!Past(c) /\ Sdk!Past(c)'
    BY <1>5, <1>s, <1>t, <2>1 DEF Sdk!Past
  <2> QED
    BY <2>2, <2>3, <2>4
<1>6. ASSUME c.op = "draft" PROVE ~Sdk!Past(c) /\ Sdk!Past(c)' /\ Stays /\ Typed
  <2>1. x2' = [x2 EXCEPT ![c.of] = "draft"] /\ UNCHANGED <<x1, x3>> /\ x2[c.of] = "none"
    BY <1>6 DEF Sdk!JobAfter, Sdk!ReceiptsAfter, Sdk!Applies
  <2>2. Typed
    BY <1>6, <1>s, <1>t, <2>1
  <2>3. Stays
    BY <1>6, <1>s, <1>t, <2>1
  <2>4. ~Sdk!Past(c) /\ Sdk!Past(c)'
    BY <1>6, <1>s, <1>t, <2>1 DEF Sdk!Past
  <2> QED
    BY <2>2, <2>3, <2>4
<1>7. ASSUME c.op = "countersign" PROVE ~Sdk!Past(c) /\ Sdk!Past(c)' /\ Stays /\ Typed
  <2>1. x2' = [x2 EXCEPT ![c.of] = "finalized"] /\ UNCHANGED <<x1, x3>> /\ x2[c.of] = "draft"
    BY <1>7 DEF Sdk!JobAfter, Sdk!ReceiptsAfter, Sdk!Applies
  <2>2. Typed
    BY <1>7, <1>s, <1>t, <2>1
  <2>3. Stays
    BY <1>7, <1>s, <1>t, <2>1
  <2>4. ~Sdk!Past(c) /\ Sdk!Past(c)'
    BY <1>7, <1>s, <1>t, <2>1 DEF Sdk!Past
  <2> QED
    BY <2>2, <2>3, <2>4
<1>8. ~Sdk!Past(c) /\ Sdk!Past(c)' /\ Stays /\ Typed
  BY <1>t, <1>1, <1>2, <1>3, <1>4, <1>5, <1>6, <1>7
<1>9. \A d \in Sdk!Call : Sdk!Past(d) => Sdk!Past(d)'
  BY <1>8, SdkPastStays
<1> QED
  BY <1>8, <1>9

LEMMA SdkWrite == ASSUME Sdk!Inv, NEW s \in Sdk!Slot, Sdk!Write(s) PROVE Sdk!Inv'
<1>0. PICK c : c = x5[s].call
  OBVIOUS
<1>s. Sdk!Shape /\ x5[s] \in Sdk!InFlight /\ c \in Sdk!Call /\ UNCHANGED <<x4, x6, x8>>
  BY <1>0 DEF Sdk!Inv, Sdk!Shape, Sdk!Write, Sdk!InFlight
<1>1. CASE ~Sdk!Applies(c)
  <2>1. x5' = [x5 EXCEPT ![s] = None] /\ UNCHANGED <<x1, x2, x3, x7>>
    BY <1>0, <1>1 DEF Sdk!Write
  <2>2. x5' \in [Sdk!Slot -> Sdk!InFlight \cup {None}] /\ Sdk!RespondsToEffect'
    BY <1>s, <2>1 DEF Sdk!Inv, Sdk!Shape, Sdk!RespondsToEffect
  <2> QED
    BY <1>s, <2>1, <2>2, SdkQuiet
<1>2. CASE Sdk!Applies(c)
  <2>0. PICK pc \in {"complete", "respond"} : x5' = [x5 EXCEPT ![s].pc = pc]
    BY <1>0, <1>2 DEF Sdk!Write
  <2>1. /\ x1' = Sdk!JobAfter(c) /\ x2' = Sdk!ReceiptsAfter(c)
        /\ x3' = IF c.op = "revoke" THEN x3 \cup {c.by} ELSE x3
        /\ x7' = [x7 EXCEPT ![c] = @ + 1]
    BY <1>0, <1>2 DEF Sdk!Write
  <2>2. /\ ~Sdk!Past(c) /\ Sdk!Past(c)'
        /\ \A d \in Sdk!Call : Sdk!Past(d) => Sdk!Past(d)'
        /\ x1' \in [status : {"open", "accepted", "completed", "cancelled", "nonperformed"},
                    acceptedAgentId : Worker \cup {None}, offers : SUBSET Worker]
        /\ x2' \in [Worker \X Outcome -> {"none", "draft", "finalized"}]
    BY <1>s, <1>2, <2>1, SdkApplies
  <2>3. x7[c] = 0 /\ x7 \in [Sdk!Call -> {0, 1}]
    BY <1>s, <2>2 DEF Sdk!Inv, Sdk!EffectsPast, Sdk!Shape
  <2>4. /\ x7' \in [Sdk!Call -> {0, 1}] /\ x7'[c] = 1
        /\ \A d \in Sdk!Call : x7[d] = 1 => x7'[d] = 1
        /\ \A d \in Sdk!Call : d # c => x7'[d] = x7[d]
    BY <1>s, <2>1, <2>3
  <2>5. PICK new : new = [x5[s] EXCEPT !.pc = pc]
    OBVIOUS
  <2>6. x5' = [x5 EXCEPT ![s] = new] /\ new \in Sdk!InFlight /\ new.call = c
    BY <1>0, <1>s, <2>0, <2>5 DEF Sdk!InFlight
  <2>7. x5' \in [Sdk!Slot -> Sdk!InFlight \cup {None}] /\ x5'[s] = new
    BY <2>6 DEF Sdk!Inv, Sdk!Shape
  <2>8. Sdk!Shape'
    BY <2>2, <2>4, <2>7 DEF Sdk!Shape
  <2>9. Sdk!EffectsPast'
    <3> SUFFICES ASSUME NEW d \in Sdk!Call, x7'[d] = 1 PROVE Sdk!Past(d)'
      BY DEF Sdk!EffectsPast
    <3>1. CASE d = c
      BY <3>1, <2>2
    <3>2. CASE d # c
      BY <2>2, <2>4, <3>2 DEF Sdk!Inv, Sdk!EffectsPast
    <3> QED
      BY <3>1, <3>2
  <2>10. Sdk!RespondsToEffect'
    <3> SUFFICES ASSUME NEW t \in Sdk!Slot, x5'[t] # None, x5'[t].pc # "write"
                 PROVE  x7'[x5'[t].call] = 1
      BY DEF Sdk!RespondsToEffect
    <3>1. CASE t = s
      BY <3>1, <2>4, <2>6, <2>7
    <3>2. CASE t # s
      <4>1. x5'[t] = x5[t] /\ x5[t] \in Sdk!InFlight
        BY <3>2, <2>6 DEF Sdk!Inv, Sdk!Shape
      <4>2. x5[t].call \in Sdk!Call
        BY <4>1 DEF Sdk!InFlight
      <4> QED
        BY <4>1, <4>2, <2>4 DEF Sdk!Inv, Sdk!RespondsToEffect
    <3> QED
      BY <3>1, <3>2
  <2>11. Sdk!ResponsesBacked' /\ Sdk!CallsHonoured'
    <3>1. \A d \in Sdk!Call : x7'[d] <= 1
      BY <2>4
    <3> QED
      BY <1>s, <2>4, <3>1, SdkBacked
  <2> QED
    BY <2>8, <2>9, <2>10, <2>11 DEF Sdk!Inv
<1> QED
  BY <1>1, <1>2

LEMMA SdkRespond ==
    ASSUME Sdk!Inv, NEW s \in Sdk!Slot, NEW arrives \in BOOLEAN, Sdk!Respond(s, arrives)
    PROVE  Sdk!Inv'
<1>0. PICK c : c = x5[s].call
  OBVIOUS
<1>s. x5[s] \in Sdk!InFlight /\ x5[s].pc = "respond"
  BY DEF Sdk!Respond, Sdk!Inv, Sdk!Shape
<1>1. /\ c \in Sdk!Call /\ x7[c] = 1 /\ UNCHANGED <<x1, x2, x3, x6, x7>>
      /\ x5' = [x5 EXCEPT ![s] = None]
      /\ x4' = {e \in x4 : e.key # Sdk!CacheKey(c)} \cup {[key |-> Sdk!CacheKey(c), of |-> c]}
      /\ x8' = IF arrives THEN x8 \cup {c} ELSE x8
  BY <1>0, <1>s DEF Sdk!Respond, Sdk!Inv, Sdk!InFlight, Sdk!RespondsToEffect
<1>2. Sdk!Shape' /\ Sdk!RespondsToEffect'
  BY <1>1 DEF Sdk!Inv, Sdk!Shape, Sdk!RespondsToEffect
<1>3. Sdk!EffectsPast'
  BY <1>1 DEF Sdk!Inv, Sdk!EffectsPast, Sdk!Past
<1>4. Sdk!ResponsesBacked'
  <2>1. [key |-> Sdk!CacheKey(c), of |-> c].key = Sdk!CacheKey(c)
    OBVIOUS
  <2>2. ASSUME NEW e \in x4' PROVE \E d \in Sdk!Call : e.key = Sdk!CacheKey(d) /\ x7[d] = 1
    <3>1. CASE e \in x4
      BY <3>1 DEF Sdk!Inv, Sdk!ResponsesBacked
    <3>2. CASE e = [key |-> Sdk!CacheKey(c), of |-> c]
      BY <1>1, <2>1, <3>2
    <3> QED
      BY <1>1, <3>1, <3>2
  <2> QED
    BY <1>1, <2>2 DEF Sdk!ResponsesBacked, Sdk!CacheKey
<1>5. Sdk!CallsHonoured'
  BY <1>1 DEF Sdk!Inv, Sdk!CallsHonoured, Sdk!SameKeyDraft, Sdk!CacheKey
<1> QED
  BY <1>2, <1>3, <1>4, <1>5 DEF Sdk!Inv

\* An answer from the store is the answer to this call, or to another result
\* submitted under its key.
LEMMA SdkAnswerFromStore ==
    ASSUME Sdk!Inv, NEW c \in Sdk!Call, Sdk!AnswerFromStore(c) PROVE Sdk!Inv'
<1>1. UNCHANGED <<x1, x2, x3, x4, x5, x7>> /\ x8' = x8 \cup {c} /\ Sdk!Cached(c)
  BY DEF Sdk!AnswerFromStore
<1>2. PICK d \in Sdk!Call : Sdk!CacheKey(c) = Sdk!CacheKey(d) /\ x7[d] = 1
  BY <1>1 DEF Sdk!Inv, Sdk!ResponsesBacked, Sdk!Cached
<1>3. d = c \/ Sdk!SameKeyDraft(c, d)
  BY <1>2, SdkKeyTellsCall
<1>4. /\ Sdk!Shape' /\ Sdk!EffectsPast' /\ Sdk!RespondsToEffect'
      /\ Sdk!ResponsesBacked'
  BY <1>1 DEF Sdk!Inv, Sdk!Shape, Sdk!EffectsPast, Sdk!Past, Sdk!RespondsToEffect,
              Sdk!ResponsesBacked, Sdk!CacheKey
<1>5. Sdk!CallsHonoured'
  BY <1>1, <1>2, <1>3 DEF Sdk!Inv, Sdk!CallsHonoured, Sdk!SameKeyDraft, Sdk!CacheKey
<1> QED
  BY <1>4, <1>5 DEF Sdk!Inv

LEMMA SdkNext == ASSUME Sdk!Inv, [Sdk!Next]_(Sdk!vars) PROVE Sdk!Inv'
<1>1. CASE UNCHANGED Sdk!vars
  <2>1. Sdk!RespondsToEffect' /\ UNCHANGED <<x1, x2, x3, x4, x5, x7, x8>>
    BY <1>1 DEF Sdk!vars, Sdk!Inv, Sdk!RespondsToEffect
  <2> QED
    BY <2>1, SdkQuiet DEF Sdk!Inv, Sdk!Shape
<1>2. ASSUME NEW s \in Sdk!Slot, Sdk!Lose(s) PROVE Sdk!Inv'
  <2>1. x5' = [x5 EXCEPT ![s] = None] /\ UNCHANGED <<x1, x2, x3, x4, x7, x8>>
    BY <1>2 DEF Sdk!Lose
  <2>2. x5' \in [Sdk!Slot -> Sdk!InFlight \cup {None}] /\ Sdk!RespondsToEffect'
    BY <2>1 DEF Sdk!Inv, Sdk!Shape, Sdk!RespondsToEffect
  <2> QED
    BY <2>1, <2>2, SdkQuiet
<1>3. ASSUME NEW s \in Sdk!Slot, NEW c \in Sdk!Call, Sdk!Start(s, c) PROVE Sdk!Inv'
  <2>0. PICK new : new = [call |-> c, pc |-> "write"]
    OBVIOUS
  <2>1. x5' = [x5 EXCEPT ![s] = new] /\ UNCHANGED <<x1, x2, x3, x4, x7, x8>>
    BY <1>3, <2>0 DEF Sdk!Start
  <2>2. new \in Sdk!InFlight /\ new.pc = "write"
    BY <2>0 DEF Sdk!InFlight
  <2>3. x5' \in [Sdk!Slot -> Sdk!InFlight \cup {None}] /\ Sdk!RespondsToEffect'
    BY <2>1, <2>2 DEF Sdk!Inv, Sdk!Shape, Sdk!RespondsToEffect
  <2> QED
    BY <2>1, <2>3, SdkQuiet
<1>4. ASSUME NEW s \in Sdk!Slot, Sdk!CompleteJob(s) PROVE Sdk!Inv'
  <2>0. PICK new : new = [x5[s] EXCEPT !.pc = "respond"]
    OBVIOUS
  <2>1. /\ x5[s] \in Sdk!InFlight /\ x7[x5[s].call] = 1
        /\ x5' = [x5 EXCEPT ![s].pc = "respond"] /\ UNCHANGED <<x2, x3, x4, x7, x8>>
        /\ x1' = x1 \/ (x1.status = "accepted" /\ x1' = [x1 EXCEPT !.status = "completed"])
    BY <1>4 DEF Sdk!CompleteJob, Sdk!Inv, Sdk!Shape, Sdk!RespondsToEffect
  <2>2. x5' = [x5 EXCEPT ![s] = new] /\ new \in Sdk!InFlight /\ new.call = x5[s].call
    BY <2>0, <2>1 DEF Sdk!InFlight
  <2>3. x5' \in [Sdk!Slot -> Sdk!InFlight \cup {None}] /\ Sdk!RespondsToEffect'
    BY <2>1, <2>2 DEF Sdk!Inv, Sdk!Shape, Sdk!RespondsToEffect
  <2> QED
    BY <2>1, <2>3, SdkQuiet
<1> QED
  BY <1>1, <1>2, <1>3, <1>4, SdkWrite, SdkRespond, SdkAnswerFromStore DEF Sdk!Next

(* No call takes effect twice, and one answered with success has taken     *)
(* effect, except for a second result for the same job, for any number of  *)
(* workers, results, requests at once and repeats.                         *)
THEOREM CallsHonouredCorrect == Spec => []CallsHonoured
<1> DEFINE I == part = "sdk" => Sdk!Inv
<1>1. Init => I
  BY SdkInit DEF Init
<1>2. I /\ [Next]_vars => I'
  BY OnePart, SdkNext
<1>3. I => CallsHonoured
  BY DEF CallsHonoured, Sdk!Inv
<1> QED
  BY <1>1, <1>2, <1>3, PTL DEF Spec

-----------------------------------------------------------------------------
(* The statistics. *)

LEMMA FiguresInit == Figures!Init => Figures!Inv
BY DEF Figures!Init, Figures!Inv, Figures!Shape, Figures!ReadsSound, Figures!Row,
       Figures!Registered

\* Nobody unregisters or changes its flag, no verdict is taken back, and a
\* verdict that is added stands.
LEMMA FiguresRegistry ==
    ASSUME Figures!Shape, Figures!Registry
    PROVE  /\ x1' \in [Figures!Registered' -> Figures!Row]
           /\ Figures!Registered \subseteq Figures!Registered'
           /\ \A x \in Figures!Registered : x1'[x].flagged = x1[x].flagged
           /\ x3 \subseteq x3' /\ x3' \subseteq Did \X Drafted
           /\ \A v, r : <<v, r>> \in x3' \ x3 => r \in Figures!Standing'
<1>s. x1 \in [Figures!Registered -> Figures!Row] /\ x3 \subseteq Did \X Drafted
  BY DEF Figures!Shape
<1>1. ASSUME NEW x \in Did, NEW flagged \in BOOLEAN, Figures!RegisterAgent(x, flagged)
      PROVE  /\ x1' \in [Figures!Registered' -> Figures!Row]
             /\ Figures!Registered \subseteq Figures!Registered'
             /\ \A y \in Figures!Registered : x1'[y].flagged = x1[y].flagged
             /\ x3' = x3
  BY <1>1, <1>s DEF Figures!RegisterAgent, Figures!Set, Figures!Registered, Figures!Row
<1>2. ASSUME NEW x \in Did, NEW b \in BOOLEAN, Figures!SetVerifierStatus(x, b)
      PROVE  /\ x1' \in [Figures!Registered' -> Figures!Row]
             /\ Figures!Registered \subseteq Figures!Registered'
             /\ \A y \in Figures!Registered : x1'[y].flagged = x1[y].flagged
             /\ x3' = x3
  BY <1>2, <1>s DEF Figures!SetVerifierStatus, Figures!Registered, Figures!Row
<1>3. ASSUME NEW x \in Did, Figures!RevokeAgent(x)
      PROVE  /\ x1' \in [Figures!Registered' -> Figures!Row]
             /\ Figures!Registered \subseteq Figures!Registered'
             /\ \A y \in Figures!Registered : x1'[y].flagged = x1[y].flagged
             /\ x3' = x3
  BY <1>3, <1>s DEF Figures!RevokeAgent, Figures!Active, Figures!Registered, Figures!Row
<1>4. ASSUME NEW x \in Did, NEW r \in Drafted, Figures!Verify(x, r)
      PROVE  /\ UNCHANGED x1 /\ x3' = x3 \cup {<<x, r>>} /\ r \in Figures!Standing'
  BY <1>4 DEF Figures!Verify, Figures!Active, Figures!Registered, Figures!Standing
<1>5. ASSUME NEW r \in Drafted, NEW from, NEW to, Figures!ReceiptMoves(r, from, to)
      PROVE  UNCHANGED <<x1, x3>>
  BY <1>5 DEF Figures!ReceiptMoves
<1>6. CASE \E x \in Did : \/ Figures!RevokeAgent(x)
                          \/ \E b \in BOOLEAN : Figures!RegisterAgent(x, b)
                                                \/ Figures!SetVerifierStatus(x, b)
  BY <1>1, <1>2, <1>3, <1>6, <1>s
<1>7. CASE \E x \in Did, r \in Drafted : Figures!Verify(x, r)
  <2>1. PICK x \in Did, r \in Drafted : /\ UNCHANGED x1 /\ x3' = x3 \cup {<<x, r>>}
                                        /\ r \in Figures!Standing'
    BY <1>4, <1>7
  <2>2. \A v, q : <<v, q>> \in x3' \ x3 => q = r
    BY <2>1
  <2> QED
    BY <1>s, <2>1, <2>2 DEF Figures!Registered
<1>8. CASE UNCHANGED <<x1, x3>>
  BY <1>8, <1>s DEF Figures!Registered
<1> QED
  BY <1>5, <1>6, <1>7, <1>8 DEF Figures!Registry

LEMMA FiguresMoves == ASSUME Figures!Inv, Figures!RegistryMoves PROVE Figures!Inv'
<1>0. /\ UNCHANGED <<x4, x6>> /\ Figures!Registry
      /\ x5' = IF Figures!Underway THEN x5 \cup Figures!Standing' ELSE x5
  BY DEF Figures!RegistryMoves
<1>1. /\ x1' \in [Figures!Registered' -> Figures!Row]
      /\ Figures!Registered \subseteq Figures!Registered'
      /\ \A x \in Figures!Registered : x1'[x].flagged = x1[x].flagged
      /\ x3 \subseteq x3' /\ x3' \subseteq Did \X Drafted
      /\ \A v, r : <<v, r>> \in x3' \ x3 => r \in Figures!Standing'
  BY <1>0, FiguresRegistry DEF Figures!Inv
<1>2. Figures!Shape'
  BY <1>0, <1>1 DEF Figures!Inv, Figures!Shape
<1>3. CASE x4 = None
  BY <1>0, <1>2, <1>3 DEF Figures!Inv, Figures!ReadsSound
<1>4. CASE x4 # None
  <2>1. (Figures!Underway => Figures!Standing \subseteq x5)'
    BY <1>0 DEF Figures!Underway
  <2>2. ("agents" \in x4.out => x6 \subseteq Figures!Registered)'
    BY <1>0, <1>1, <1>4 DEF Figures!Inv, Figures!ReadsSound
  <2>3. ("agents" \notin x4.out => Figures!AgentsRead)'
    BY <1>0, <1>1, <1>4 DEF Figures!Inv, Figures!ReadsSound, Figures!AgentsRead
  <2>4. ("verifications" \notin x4.out => x4.verifications \subseteq x3)'
    BY <1>0, <1>1, <1>4 DEF Figures!Inv, Figures!ReadsSound
  <2>5. ASSUME "agents" \notin x4.out, "verifications" \in x4.out
        PROVE  Figures!VerdictsStood(x3)'
    <3>1. Figures!Underway
      BY <1>4, <2>5 DEF Figures!Underway
    <3> QED
      BY <1>0, <1>1, <1>4, <2>5, <3>1 DEF Figures!Inv, Figures!ReadsSound,
         Figures!VerdictsStood, Figures!Stands
  <2>6. ASSUME "agents" \notin x4.out, "verifications" \notin x4.out
        PROVE  Figures!VerdictsStood(x4.verifications)'
    BY <1>0, <1>4, <2>6 DEF Figures!Inv, Figures!ReadsSound, Figures!VerdictsStood, Figures!Stands
  <2>7. Figures!ReadsSound'
    BY <1>0, <1>4, <2>1, <2>2, <2>3, <2>4, <2>5, <2>6 DEF Figures!ReadsSound,
       Figures!VerdictsStood
  <2> QED
    BY <1>2, <2>7 DEF Figures!Inv
<1> QED
  BY <1>3, <1>4

LEMMA FiguresStart == ASSUME Figures!Inv, Figures!Start PROVE Figures!Inv'
<1>0. /\ UNCHANGED <<x1, x2, x3>> /\ x5' = Figures!Standing /\ x6' = Figures!Registered
      /\ x4' = [out |-> Figures!Queries, agents |-> None, receipts |-> None,
                verifications |-> None]
  BY DEF Figures!Start, Figures!registry
<1>1. x4'.out = Figures!Queries
  BY <1>0
<1>2. Figures!Shape'
  BY <1>0 DEF Figures!Inv, Figures!Shape, Figures!Registered
<1>3. Figures!Standing' = Figures!Standing
  BY <1>0 DEF Figures!Standing, Figures!Registered, Figures!Active
<1>4. Figures!ReadsSound'
  BY <1>0, <1>1, <1>3 DEF Figures!ReadsSound, Figures!Queries, Figures!Registered
<1> QED
  BY <1>2, <1>4 DEF Figures!Inv

LEMMA FiguresRead ==
    ASSUME Figures!Inv, NEW query \in Figures!Queries, Figures!Read(query) PROVE Figures!Inv'
<1>0. /\ UNCHANGED <<x1, x2, x3, x5, x6>> /\ Figures!Underway /\ query \in x4.out
      /\ x4' = [[x4 EXCEPT !.out = @ \ {query}] EXCEPT
                ![query] = CASE query = "agents" -> x1
                             [] query = "receipts" -> x2
                             [] query = "verifications" -> x3]
  BY DEF Figures!Read, Figures!registry
<1>s. /\ x4 # None /\ x4.out \subseteq Figures!Queries
      /\ x4 = [out |-> x4.out, agents |-> x4.agents, receipts |-> x4.receipts,
               verifications |-> x4.verifications]
      /\ Figures!ReadsSound
  BY <1>0 DEF Figures!Inv, Figures!Shape, Figures!Underway
<1>t. Figures!Standing' = Figures!Standing /\ Figures!Standing \subseteq x5
      /\ Figures!Registered' = Figures!Registered
  BY <1>0, <1>s DEF Figures!Standing, Figures!Registered, Figures!Active, Figures!ReadsSound
<1>1. PICK new : /\ new = x4'
                 /\ new = [out |-> x4.out \ {query},
                           agents |-> IF query = "agents" THEN x1 ELSE x4.agents,
                           receipts |-> IF query = "receipts" THEN x2 ELSE x4.receipts,
                           verifications |-> IF query = "verifications" THEN x3
                                             ELSE x4.verifications]
  <2>1. [x4 EXCEPT !.out = @ \ {query}]
            = [out |-> x4.out \ {query}, agents |-> x4.agents, receipts |-> x4.receipts,
               verifications |-> x4.verifications]
    BY <1>s
  <2>2. CASE query = "agents"
    <3>1. x4' = [[x4 EXCEPT !.out = @ \ {query}] EXCEPT !.agents = x1]
      BY <1>0, <2>2
    <3> QED
      BY <2>1, <2>2, <3>1
  <2>3. CASE query = "receipts"
    <3>1. x4' = [[x4 EXCEPT !.out = @ \ {query}] EXCEPT !.receipts = x2]
      BY <1>0, <2>3
    <3> QED
      BY <2>1, <2>3, <3>1
  <2>4. CASE query = "verifications"
    <3>1. x4' = [[x4 EXCEPT !.out = @ \ {query}] EXCEPT !.verifications = x3]
      BY <1>0, <2>4
    <3> QED
      BY <2>1, <2>4, <3>1
  <2> QED
    BY <2>2, <2>3, <2>4 DEF Figures!Queries
<1>2. Figures!Shape'
  <2>1. new = [out |-> new.out, agents |-> new.agents, receipts |-> new.receipts,
               verifications |-> new.verifications]
        /\ new.out \subseteq Figures!Queries
    BY <1>s, <1>1
  <2>2. x1 \in [Figures!Registered -> Figures!Row] /\ x3 \subseteq Did \X Drafted
    BY DEF Figures!Inv, Figures!Shape
  <2>3. Figures!Registered' = Figures!Registered /\ x1' = x1 /\ x3' = x3
    BY <1>0, <1>t
  <2> QED
    BY <1>1, <2>1, <2>2, <2>3 DEF Figures!Shape
<1>3. /\ new.out = x4.out \ {query}
      /\ query = "agents" => new.agents = x1 /\ new.verifications = x4.verifications
      /\ query = "receipts" => new.agents = x4.agents /\ new.verifications = x4.verifications
      /\ query = "verifications" => new.agents = x4.agents /\ new.verifications = x3
  BY <1>1
<1>4. ASSUME query = "agents" PROVE Figures!ReadsSound'
  <2>1. Figures!VerdictsStood(x3)'
    BY <1>0, <1>1, <1>3, <1>4, <1>t DEF Figures!VerdictsStood, Figures!Standing, Figures!Stands,
       Figures!Active, Figures!Registered
  <2>2. Figures!AgentsRead'
    BY <1>0, <1>1, <1>3, <1>4, <1>s DEF Figures!AgentsRead, Figures!ReadsSound, Figures!Registered
  <2>3. "verifications" \notin x4.out => x4.verifications \subseteq x3
    BY <1>s DEF Figures!ReadsSound
  <2>4. Figures!VerdictsStood(IF "verifications" \in x4.out THEN x3 ELSE x4.verifications)'
    BY <1>0, <1>1, <1>3, <1>4, <2>1, <2>3 DEF Figures!VerdictsStood
  <2> QED
    BY <1>0, <1>1, <1>3, <1>4, <1>t, <2>2, <2>3, <2>4 DEF Figures!ReadsSound
<1>5. ASSUME query = "verifications" PROVE Figures!ReadsSound'
  BY <1>0, <1>1, <1>3, <1>5, <1>s, <1>t DEF Figures!ReadsSound, Figures!AgentsRead,
     Figures!VerdictsStood, Figures!Stands
<1>6. ASSUME query = "receipts" PROVE Figures!ReadsSound'
  BY <1>0, <1>1, <1>3, <1>6, <1>s, <1>t DEF Figures!ReadsSound, Figures!AgentsRead,
     Figures!VerdictsStood, Figures!Stands
<1> QED
  BY <1>2, <1>4, <1>5, <1>6 DEF Figures!Inv, Figures!Queries

LEMMA FiguresNext == ASSUME Figures!Inv, [Figures!Next]_(Figures!vars) PROVE Figures!Inv'
<1>1. CASE UNCHANGED Figures!vars
  BY <1>1 DEF Figures!vars, Figures!Inv, Figures!Shape, Figures!ReadsSound, Figures!Registered,
     Figures!AgentsRead, Figures!VerdictsStood, Figures!Stands, Figures!Underway, Figures!Standing,
     Figures!Active
<1> QED
  BY <1>1, FiguresStart, FiguresMoves, FiguresRead DEF Figures!Next

\* When all has been read, what is counted was true.
LEMMA FiguresTruthful == Figures!Inv => Figures!StatsTruthful
<1> SUFFICES ASSUME Figures!Inv, x4 # None, x4.out = {}
             PROVE  /\ Figures!Attested(x4) \subseteq x5
                    /\ \A r \in Figures!IndependentReceipts(x4) :
                        \A x \in PartiesOf[r] \cap x6 : x \notin Operator /\ ~x1[x].flagged
  BY DEF Figures!StatsTruthful
<1>1. Figures!AgentsRead /\ Figures!VerdictsStood(x4.verifications)
      /\ x4.verifications \subseteq Did \X Drafted
  <2>1. Figures!VerdictsStood(IF "verifications" \in x4.out THEN x3 ELSE x4.verifications)
        /\ Figures!AgentsRead /\ x4.verifications \subseteq x3
    BY DEF Figures!Inv, Figures!ReadsSound
  <2>2. (IF "verifications" \in x4.out THEN x3 ELSE x4.verifications) = x4.verifications
    OBVIOUS
  <2> QED
    BY <2>1, <2>2 DEF Figures!Inv, Figures!Shape
<1>2. Figures!VerifiedBy(x4) \subseteq x5
  <2> SUFFICES ASSUME NEW w \in x4.verifications, w[1] \in DOMAIN x4.agents,
                      Figures!Stands(x4.agents[w[1]])
               PROVE  w[2] \in x5
    BY DEF Figures!VerifiedBy
  <2>1. w = <<w[1], w[2]>> /\ w[2] \in Drafted
    BY <1>1
  <2> QED
    BY <1>1, <2>1 DEF Figures!VerdictsStood
<1>3. Figures!Attested(x4) \subseteq x5
  BY <1>2 DEF Figures!Attested
<1>4. ASSUME NEW r \in Figures!IndependentReceipts(x4), NEW x \in PartiesOf[r] \cap x6
      PROVE  x \notin Operator /\ ~x1[x].flagged
  BY <1>1, <1>4 DEF Figures!IndependentReceipts, Figures!IsIndependent, Figures!Flagged,
     Figures!AgentsRead
<1> QED
  BY <1>3, <1>4

(* What the statistics count was true at some moment of the queries,       *)
(* whatever their order, for any agents, grants, parties and receipts      *)
(* (computeStats).                                                         *)
THEOREM StatsTruthfulCorrect == Spec => []StatsTruthful
<1> DEFINE I == part = "stats" => Figures!Inv
<1>1. Init => I
  BY FiguresInit DEF Init
<1>2. I /\ [Next]_vars => I'
  BY OnePart, FiguresNext
<1>3. I => StatsTruthful
  BY FiguresTruthful DEF StatsTruthful
<1> QED
  BY <1>1, <1>2, <1>3, PTL DEF Spec

-----------------------------------------------------------------------------
(* Receipts over HTTP. *)

LEMMA HttpInit == Http!Init => Http!Inv
BY DEF Http!Init, Http!Inv, Http!Shape, Http!SentForRequest, Http!AcceptsOwn, Http!SignedByCalls, Http!NewCall

\* A step is judged by the one call that moves: one that has signed stays as it
\* is but for its last step, and nothing else is signed.
LEMMA HttpStep ==
    ASSUME Http!Inv, NEW c \in Http!Call,
           NEW new \in [pc : {"new", "sent", "fetch", "accept", "countersign", "done"},
                        req : Request \cup {None}, res : Body \cup {None},
                        receipt : Http!Receipt \cup {None}, tries : Nat],
           x1' = [x1 EXCEPT ![c] = new],
           x2' \subseteq Http!Receipt, DOMAIN x3' \subseteq Http!Receipt,
           new.pc = "sent" => new.req \in Request,
           new.pc = "accept" => new.receipt \in Http!Receipt /\ new.receipt.spec = new.req,
           x1[c].pc \in {"countersign", "done"} =>
                /\ new.pc \in {"countersign", "done"}
                /\ new.receipt = x1[c].receipt /\ new.req = x1[c].req /\ new.res = x1[c].res,
           \/ x5' = x5
           \/ /\ x5' = x5 \cup {new.receipt} /\ new.pc = "countersign"
              /\ new.receipt.a = Requester
              /\ new.req = new.receipt.spec /\ new.res = new.receipt.out
    PROVE  Http!Inv'
<1>1. x1'[c] = new /\ \A d \in Http!Call : d # c => x1'[d] = x1[d]
  BY DEF Http!Inv, Http!Shape
<1>2. Http!Shape'
  BY DEF Http!Inv, Http!Shape
<1>3. Http!SentForRequest' /\ Http!AcceptsOwn'
  BY <1>1 DEF Http!Inv, Http!SentForRequest, Http!AcceptsOwn, Http!NamesRequest
<1>4. \A r, d : d \in Http!Call /\ Http!SignedIn(r, d) => Http!SignedIn(r, d)'
  BY <1>1 DEF Http!SignedIn
<1>5. Http!SignedByCalls'
  <2> SUFFICES ASSUME NEW r \in x5'
               PROVE  r.a = Requester /\ \E d \in Http!Call : Http!SignedIn(r, d)'
    BY DEF Http!SignedByCalls
  <2>1. CASE r \in x5
    BY <2>1, <1>4 DEF Http!Inv, Http!SignedByCalls
  <2>2. CASE r \notin x5
    BY <2>2, <1>1 DEF Http!SignedIn
  <2> QED
    BY <2>1, <2>2
<1> QED
  BY <1>2, <1>3, <1>5 DEF Http!Inv

\* The calls stay; what is drafted or in the registry are receipts.
LEMMA HttpWorkers ==
    ASSUME Http!Inv, UNCHANGED <<x1, x5>>, x2' \subseteq Http!Receipt,
           DOMAIN x3' \subseteq Http!Receipt
    PROVE  Http!Inv'
BY DEF Http!Inv, Http!Shape, Http!SentForRequest, Http!AcceptsOwn, Http!NamesRequest,
       Http!SignedByCalls, Http!SignedIn

\* A call goes on with what it has asked for and read.
LEMMA HttpMoves ==
    ASSUME Http!Inv, NEW c \in Http!Call, NEW old, old = x1[c],
           NEW new \in [pc : {"new", "sent", "fetch", "accept", "countersign", "done"},
                        req : Request \cup {None}, res : Body \cup {None},
                        receipt : Http!Receipt \cup {None}, tries : Nat],
           new.req = old.req, new.res = old.res, new.receipt = old.receipt,
           x1' = [x1 EXCEPT ![c] = new], UNCHANGED x2, DOMAIN x3' = DOMAIN x3,
           new.pc # "sent",
           new.pc = "accept" => old.receipt \in Http!Receipt /\ old.receipt.spec = old.req,
           old.pc \in {"countersign", "done"} => new.pc \in {"countersign", "done"},
           \/ x5' = x5
           \/ /\ x5' = x5 \cup {old.receipt} /\ new.pc = "countersign"
              /\ old.receipt.a = Requester
              /\ old.req = old.receipt.spec /\ old.res = old.receipt.out
    PROVE  Http!Inv'
<1>1. x2' \subseteq Http!Receipt /\ DOMAIN x3' \subseteq Http!Receipt
  BY DEF Http!Inv, Http!Shape
<1>2. x1[c].pc \in {"countersign", "done"} =>
                /\ new.pc \in {"countersign", "done"}
                /\ new.receipt = x1[c].receipt /\ new.req = x1[c].req /\ new.res = x1[c].res
  OBVIOUS
<1>3. \/ x5' = x5
      \/ /\ x5' = x5 \cup {new.receipt} /\ new.pc = "countersign"
         /\ new.receipt.a = Requester
         /\ new.req = new.receipt.spec /\ new.res = new.receipt.out
  OBVIOUS
<1>4. new.pc = "accept" => new.receipt \in Http!Receipt /\ new.receipt.spec = new.req
  OBVIOUS
<1> QED
  BY <1>1, <1>2, <1>3, <1>4, HttpStep

LEMMA HttpSend ==
    ASSUME Http!Inv, NEW c \in Http!Call, NEW q \in Request, Http!Send(c, q) PROVE Http!Inv'
<1>0. PICK old : old = x1[c]
  OBVIOUS
<1>s. old \in [pc : {"new", "sent", "fetch", "accept", "countersign", "done"},
               req : Request \cup {None}, res : Body \cup {None},
               receipt : Http!Receipt \cup {None}, tries : Nat]
      /\ x2 \subseteq Http!Receipt /\ DOMAIN x3 \subseteq Http!Receipt
  BY <1>0 DEF Http!Inv, Http!Shape
<1>1. PICK new : new = [old EXCEPT !.pc = "sent", !.req = q]
  OBVIOUS
<1>2. x1' = [x1 EXCEPT ![c] = new] /\ old.pc = "new" /\ UNCHANGED <<x2, x3, x5>>
  BY <1>0, <1>1 DEF Http!Send, Http!Step
<1>3. new.pc = "sent" /\ new.req = q
      /\ new \in [pc : {"new", "sent", "fetch", "accept", "countersign", "done"},
             req : Request \cup {None}, res : Body \cup {None},
             receipt : Http!Receipt \cup {None}, tries : Nat]
  BY <1>s, <1>1
<1> QED
  BY <1>0, <1>s, <1>2, <1>3, HttpStep

\* The worker's side: a call is answered.
LEMMA HttpAnswers ==
    ASSUME Http!Inv, NEW c \in Http!Call, NEW b \in Body,
           \/ \E j \in Job : Http!Handle(c, b, j)
           \/ \E r \in Http!Receipt : Http!AnswerForeign(c, b, r)
    PROVE  Http!Inv'
<1>0. PICK old : old = x1[c]
  OBVIOUS
<1>s. old \in [pc : {"new", "sent", "fetch", "accept", "countersign", "done"},
               req : Request \cup {None}, res : Body \cup {None},
               receipt : Http!Receipt \cup {None}, tries : Nat]
      /\ x2 \subseteq Http!Receipt /\ DOMAIN x3 \subseteq Http!Receipt
  BY <1>0 DEF Http!Inv, Http!Shape
<1>2. ASSUME NEW r, old.pc = "sent", r \in Http!Receipt,
             x1' = [x1 EXCEPT ![c] = [old EXCEPT !.pc = "fetch", !.res = b, !.receipt = r]],
             x2' \subseteq Http!Receipt, UNCHANGED <<x3, x5>>
      PROVE  Http!Inv'
  <2>1. PICK new : new = [old EXCEPT !.pc = "fetch", !.res = b, !.receipt = r]
    OBVIOUS
  <2>2. new.pc = "fetch" /\ new \in [pc : {"new", "sent", "fetch", "accept", "countersign", "done"},
               req : Request \cup {None}, res : Body \cup {None},
               receipt : Http!Receipt \cup {None}, tries : Nat]
    BY <1>2, <1>s, <2>1
  <2>3. x1' = [x1 EXCEPT ![c] = new]
    BY <1>2, <2>1
  <2> QED
    BY <1>0, <1>2, <1>s, <2>2, <2>3, HttpStep
<1>3. ASSUME NEW j \in Job, Http!Handle(c, b, j) PROVE Http!Inv'
  <2>1. PICK r : r = [job |-> j, a |-> Requester, spec |-> old.req, out |-> b]
    OBVIOUS
  <2>2. old.req \in Request
    BY <1>0, <1>3, <1>s DEF Http!Handle, Http!Inv, Http!SentForRequest
  <2>3. r \in Http!Receipt
    BY <2>1, <2>2 DEF Http!Receipt
  <2>4. /\ old.pc = "sent" /\ x2' = x2 \cup {r} /\ UNCHANGED <<x3, x5>>
        /\ x1' = [x1 EXCEPT ![c] = [old EXCEPT !.pc = "fetch", !.res = b, !.receipt = r]]
    BY <1>0, <1>3, <2>1 DEF Http!Handle, Http!Step
  <2> QED
    BY <1>2, <1>s, <2>3, <2>4
<1>4. ASSUME NEW r \in Http!Receipt, Http!AnswerForeign(c, b, r) PROVE Http!Inv'
  <2>1. /\ old.pc = "sent" /\ UNCHANGED <<x2, x3, x5>>
        /\ x1' = [x1 EXCEPT ![c] = [old EXCEPT !.pc = "fetch", !.res = b, !.receipt = r]]
    BY <1>0, <1>4 DEF Http!AnswerForeign, Http!Step
  <2> QED
    BY <1>2, <1>s, <2>1
<1> QED
  BY <1>3, <1>4

\* The requester's side: what it reads, and what it signs.
LEMMA HttpCountersigns ==
    ASSUME Http!Inv, NEW c \in Http!Call,
           \/ Http!ReturnPlain(c) \/ Http!Fetch(c) \/ Http!FetchFails(c)
           \/ Http!Decline(c) \/ Http!AcceptWork(c) \/ Http!Countersign(c)
    PROVE  Http!Inv'
<1>0. PICK old : old = x1[c]
  OBVIOUS
<1>s. old \in [pc : {"new", "sent", "fetch", "accept", "countersign", "done"},
               req : Request \cup {None}, res : Body \cup {None},
               receipt : Http!Receipt \cup {None}, tries : Nat]
      /\ DOMAIN x3 \subseteq Http!Receipt
  BY <1>0 DEF Http!Inv, Http!Shape
<1>a. old.pc = "accept" => old.receipt \in Http!Receipt /\ old.receipt.spec = old.req
  BY <1>0 DEF Http!Inv, Http!AcceptsOwn, Http!NamesRequest
<1>1. ASSUME x1' = [x1 EXCEPT ![c] = [old EXCEPT !.pc = "done"]], UNCHANGED <<x2, x5>>,
             DOMAIN x3' = DOMAIN x3
      PROVE  Http!Inv'
  <2>1. PICK new : new = [old EXCEPT !.pc = "done"]
    OBVIOUS
  <2>2. /\ new \in [pc : {"new", "sent", "fetch", "accept", "countersign", "done"},
                    req : Request \cup {None}, res : Body \cup {None},
                    receipt : Http!Receipt \cup {None}, tries : Nat]
        /\ new.req = old.req /\ new.res = old.res /\ new.receipt = old.receipt
        /\ new.pc = "done"
    BY <1>s, <2>1
  <2>3. x1' = [x1 EXCEPT ![c] = new]
    BY <1>1, <2>1
  <2> QED
    BY <1>0, <1>1, <2>2, <2>3, HttpMoves
<1>2. CASE Http!ReturnPlain(c) \/ Http!Decline(c)
  <2>1. x1' = [x1 EXCEPT ![c] = [old EXCEPT !.pc = "done"]] /\ UNCHANGED <<x2, x3, x5>>
    BY <1>0, <1>2 DEF Http!ReturnPlain, Http!Decline, Http!Step
  <2> QED
    BY <1>1, <2>1
<1>3. CASE Http!Fetch(c)
  <2>1. /\ UNCHANGED <<x2, x3, x5>> /\ old.pc = "fetch" /\ old.receipt \in DOMAIN x3
        /\ x1' = [x1 EXCEPT ![c] = [old EXCEPT !.pc =
                IF Http!NamesRequest(c, old.receipt) /\ x3[old.receipt] = "draft"
                THEN "accept" ELSE "done"]]
    BY <1>0, <1>3 DEF Http!Fetch, Http!Step, Http!Readable
  <2>2. CASE Http!NamesRequest(c, old.receipt) /\ x3[old.receipt] = "draft"
    <3>1. PICK new : new = [old EXCEPT !.pc = "accept"] /\ x1' = [x1 EXCEPT ![c] = new]
      BY <2>1, <2>2
    <3>3. /\ new \in [pc : {"new", "sent", "fetch", "accept", "countersign", "done"},
                      req : Request \cup {None}, res : Body \cup {None},
                      receipt : Http!Receipt \cup {None}, tries : Nat]
          /\ new.req = old.req /\ new.res = old.res /\ new.receipt = old.receipt
          /\ new.pc = "accept"
      BY <1>s, <3>1
    <3>2. old.receipt \in Http!Receipt /\ old.receipt.spec = old.req
      BY <1>0, <1>s, <2>1, <2>2 DEF Http!NamesRequest
    <3> QED
      BY <1>0, <2>1, <3>1, <3>2, <3>3, HttpMoves
  <2>3. CASE ~(Http!NamesRequest(c, old.receipt) /\ x3[old.receipt] = "draft")
    BY <1>1, <2>1, <2>3
  <2> QED
    BY <2>2, <2>3
<1>4. CASE Http!FetchFails(c)
  <2>1. /\ UNCHANGED <<x2, x3, x5>> /\ old.pc = "fetch"
        /\ x1' = [x1 EXCEPT ![c] = IF old.tries >= Retries
                                   THEN [old EXCEPT !.pc = "done"]
                                   ELSE [old EXCEPT !.tries = @ + 1]]
    BY <1>0, <1>4 DEF Http!FetchFails, Http!Step
  <2>2. CASE old.tries >= Retries
    BY <1>1, <2>1, <2>2
  <2>3. CASE ~(old.tries >= Retries)
    <3>1. PICK new : new = [old EXCEPT !.tries = @ + 1] /\ x1' = [x1 EXCEPT ![c] = new]
      BY <2>1, <2>3
    <3>2. /\ new \in [pc : {"new", "sent", "fetch", "accept", "countersign", "done"},
                      req : Request \cup {None}, res : Body \cup {None},
                      receipt : Http!Receipt \cup {None}, tries : Nat]
          /\ new.req = old.req /\ new.res = old.res /\ new.receipt = old.receipt
          /\ new.pc = "fetch"
      BY <1>s, <2>1, <3>1
    <3> QED
      BY <1>0, <2>1, <3>1, <3>2, HttpMoves
  <2> QED
    BY <2>2, <2>3
<1>5. CASE Http!AcceptWork(c)
  <2>0. old.pc = "accept" /\ UNCHANGED <<x2, x3>>
    BY <1>0, <1>5 DEF Http!AcceptWork
  <2>1. CASE Http!MayAccept(c, old.receipt)
    <3>1. PICK new : /\ new = [old EXCEPT !.pc = "countersign"]
                     /\ x1' = [x1 EXCEPT ![c] = new] /\ x5' = x5 \cup {old.receipt}
      BY <1>0, <1>5, <2>1 DEF Http!AcceptWork, Http!Step
    <3>2. old.receipt.a = Requester /\ old.res = old.receipt.out /\ old.req = old.receipt.spec
      BY <1>0, <1>a, <2>0, <2>1 DEF Http!MayAccept
    <3>3. /\ new \in [pc : {"new", "sent", "fetch", "accept", "countersign", "done"},
                      req : Request \cup {None}, res : Body \cup {None},
                      receipt : Http!Receipt \cup {None}, tries : Nat]
          /\ new.req = old.req /\ new.res = old.res /\ new.receipt = old.receipt
          /\ new.pc = "countersign"
      BY <1>s, <3>1
    <3> QED
      BY <1>0, <2>0, <3>1, <3>2, <3>3, HttpMoves
  <2>2. CASE ~Http!MayAccept(c, old.receipt)
    <3>1. x1' = [x1 EXCEPT ![c] = [old EXCEPT !.pc = "done"]] /\ UNCHANGED x5
      BY <1>0, <1>5, <2>2 DEF Http!AcceptWork, Http!Step
    <3> QED
      BY <1>1, <2>0, <3>1
  <2> QED
    BY <2>1, <2>2
<1>6. CASE Http!Countersign(c)
  <2>1. /\ x1' = [x1 EXCEPT ![c] = [old EXCEPT !.pc = "done"]] /\ UNCHANGED <<x2, x5>>
        /\ DOMAIN x3' = DOMAIN x3
    BY <1>0, <1>6 DEF Http!Countersign, Http!Step
  <2> QED
    BY <1>1, <2>1
<1> QED
  BY <1>2, <1>3, <1>4, <1>5, <1>6

LEMMA HttpNext == ASSUME Http!Inv, [Http!Next]_(Http!vars) PROVE Http!Inv'
<1>s. x2 \subseteq Http!Receipt /\ DOMAIN x3 \subseteq Http!Receipt
  BY DEF Http!Inv, Http!Shape
<1>1. CASE UNCHANGED Http!vars
  BY <1>1, <1>s, HttpWorkers DEF Http!vars
<1>2. ASSUME NEW r \in x2, Http!Draft(r) \/ Http!DraftFails(r) PROVE Http!Inv'
  <2>1. /\ UNCHANGED <<x1, x5>> /\ x2' = x2 \ {r}
        /\ x3' = x3 \/ x3' = [x \in DOMAIN x3 \cup {r} |-> IF x = r THEN "draft" ELSE x3[x]]
    BY <1>2 DEF Http!Draft, Http!DraftFails
  <2>2. DOMAIN x3' \subseteq DOMAIN x3 \cup {r}
    BY <2>1
  <2> QED
    BY <1>s, <1>2, <2>1, <2>2, HttpWorkers
<1>3. ASSUME NEW r \in Http!Receipt, Http!DraftForeign(r) PROVE Http!Inv'
  <2>1. /\ UNCHANGED <<x1, x2, x5>>
        /\ x3' = [x \in DOMAIN x3 \cup {r} |-> IF x = r THEN "draft" ELSE x3[x]]
    BY <1>3 DEF Http!DraftForeign
  <2>2. DOMAIN x3' \subseteq DOMAIN x3 \cup {r}
    BY <2>1
  <2> QED
    BY <1>s, <1>3, <2>1, <2>2, HttpWorkers
<1>4. ASSUME NEW c \in Http!Call, NEW q \in Request, Http!Send(c, q) PROVE Http!Inv'
  BY <1>4, HttpSend
<1> QED
  BY <1>1, <1>2, <1>3, <1>4, HttpAnswers, HttpCountersigns DEF Http!Next

\* Each receipt signed is the delivery of a call of its own.
LEMMA HttpDelivered == Http!Inv => Http!SignedForDelivered
<1> SUFFICES ASSUME Http!Inv, NEW q \in Request, NEW b \in Body
             PROVE  Http!Cardinality({r \in x5 : r.spec = q /\ r.out = b})
                        <= Http!Cardinality({c \in Http!Call : x1[c].req = q /\ x1[c].res = b})
  BY DEF Http!SignedForDelivered, Http!Inv, Http!SignedByCalls
<1> DEFINE S == {r \in x5 : r.spec = q /\ r.out = b}
           T == {c \in Http!Call : x1[c].req = q /\ x1[c].res = b}
           f == [r \in S |-> CHOOSE c \in Http!Call : Http!SignedIn(r, c)]
<1>1. \A r \in S : f[r] \in Http!Call /\ Http!SignedIn(r, f[r])
  BY DEF Http!Inv, Http!SignedByCalls
<1>2. \A r \in S : f[r] \in T /\ x1[f[r]].receipt = r
  BY <1>1 DEF Http!SignedIn
<1>3. f \in Injection(S, T)
  <2>1. f \in [S -> T]
    BY <1>2
  <2> HIDE DEF f, S, T
  <2>2. \A r, t \in S : f[r] = f[t] => r = t
    BY <1>2
  <2>3. DOMAIN f = S
    BY <2>1
  <2> QED
    BY <2>1, <2>2, <2>3 DEF Injection, IsInjective
<1>4. IsFiniteSet(T)
  <2>0. HttpCalls \in Nat
    BY ReadersAssumption
  <2>1. 1 \in Int /\ HttpCalls \in Int
    BY <2>0
  <2>2. IsFiniteSet(Http!Call)
    BY <2>1, FS_Interval DEF Http!Call
  <2>3. T \in SUBSET Http!Call
    OBVIOUS
  <2> HIDE DEF T
  <2> QED
    BY <2>2, <2>3, FS_Subset
<1>5. Cardinality(S) <= Cardinality(T)
  BY <1>3, <1>4, FS_Injection
<1> QED
  BY <1>5 DEF Http!Cardinality, Cardinality

(* The requester's signature stands only under receipts of what it asked   *)
(* for and was delivered, one per delivery, for any number of calls,       *)
(* requests, bodies and retries (countersign, acceptWork).                 *)
THEOREM SignedForDeliveredCorrect == Spec => []SignedForDelivered
<1> DEFINE I == part = "http" => Http!Inv
<1>1. Init => I
  BY HttpInit DEF Init
<1>2. I /\ [Next]_vars => I'
  BY OnePart, HttpNext
<1>3. I => SignedForDelivered
  BY HttpDelivered DEF SignedForDelivered
<1> QED
  BY <1>1, <1>2, <1>3, PTL DEF Spec

-----------------------------------------------------------------------------
(* The check of a receipt. *)

LEMMA VerdictInit == Verdict!Init => Verdict!Inv
BY DEF Verdict!Init, Verdict!Inv, Verdict!Shape, Verdict!ReceiptFirst, Verdict!ReadsSound,
       Verdict!VerdictHeld, Verdict!Row, Verdict!Party

\* The registry only adds revocations, lapses and leaves, and a dispute is
\* active no later than before unless it is opened now.
LEMMA VerdictRegistry ==
    ASSUME Verdict!Shape, Verdict!Registry
    PROVE  /\ x1' \in Verdict!Row /\ x3 \subseteq x3' /\ x3' \subseteq Verdict!Party
           /\ x2 \subseteq x2'
           /\ x4' \in Seq({"receipt", "other"}) /\ Len(x4) <= Len(x4')
           /\ Verdict!Range(x4) \subseteq Verdict!Range(x4')
<1>s. /\ x1 \in Verdict!Row /\ x3 \subseteq Verdict!Party
      /\ x4 \in Seq({"receipt", "other"})
  BY DEF Verdict!Shape
<1> DEFINE Same == x1' = x1 /\ x2' = x2 /\ x3' = x3 /\ x4' = x4
<1>1. ASSUME NEW leaf \in {"receipt", "other"}, x4' = Append(x4, leaf)
      PROVE  /\ x4' \in Seq({"receipt", "other"}) /\ Len(x4) <= Len(x4')
             /\ Verdict!Range(x4) \subseteq Verdict!Range(x4')
  <2>1. x4' \in Seq({"receipt", "other"}) /\ Len(x4') = Len(x4) + 1 /\ Len(x4) \in Nat
    BY <1>1, <1>s
  <2>2. \A i \in DOMAIN x4 : i \in DOMAIN x4' /\ x4'[i] = x4[i]
    BY <1>1, <1>s
  <2> QED
    BY <2>1, <2>2 DEF Verdict!Range
<1>2. CASE Verdict!Countersign
  BY <1>2, <1>s DEF Verdict!Countersign, Verdict!Row
<1>3. CASE Verdict!AppendFinalized \/ Verdict!AppendOther
  <2>1. UNCHANGED <<x1, x2, x3>> /\ \E leaf \in {"receipt", "other"} : x4' = Append(x4, leaf)
    BY <1>3 DEF Verdict!AppendFinalized, Verdict!AppendOther
  <2> QED
    BY <1>1, <1>s, <2>1
<1>4. ASSUME NEW p \in Verdict!Party, Verdict!OpenDispute(p)
      PROVE  x1' \in Verdict!Row /\ UNCHANGED <<x2, x3, x4>>
  BY <1>4, <1>s DEF Verdict!OpenDispute, Verdict!Row
<1>5. ASSUME NEW p \in Verdict!Party, Verdict!ResolveDispute(p)
      PROVE  x1' \in Verdict!Row /\ UNCHANGED <<x2, x3, x4>>
  BY <1>5, <1>s DEF Verdict!ResolveDispute, Verdict!Row
<1>6. ASSUME NEW p \in Verdict!Party, Verdict!Lapse(p)
      PROVE  x2 \subseteq x2' /\ UNCHANGED <<x1, x3, x4>>
  BY <1>6 DEF Verdict!Lapse
<1>7. ASSUME NEW p \in Verdict!Party, Verdict!RevokeAgent(p)
      PROVE  /\ x3 \subseteq x3' /\ x3' \subseteq Verdict!Party
             /\ UNCHANGED <<x1, x2, x4>>
  BY <1>7, <1>s DEF Verdict!RevokeAgent
<1> QED
  <2>1. Len(x4) <= Len(x4)
    BY <1>s
  <2> QED
    BY <1>2, <1>3, <1>4, <1>5, <1>6, <1>7, <1>s, <2>1 DEF Verdict!Registry

\* While a check runs, its history is of every moment up to now.
LEMMA VerdictRemember ==
    ASSUME Verdict!ReadsSound, x5 # None, Verdict!Remember
    PROVE  /\ x6 \subseteq x6' /\ x7 \subseteq x7'
           /\ Verdict!Underway =>
                Verdict!Clean' \subseteq x6' /\ (Verdict!Wrong \cup Verdict!Missing)' \subseteq x7'
BY DEF Verdict!Remember

LEMMA VerdictMoves ==
    ASSUME Verdict!Inv, Verdict!RegistryMoves, Verdict!Remember
    PROVE  Verdict!Inv'
<1>0. /\ Verdict!Shape /\ Verdict!ReceiptFirst /\ Verdict!ReadsSound /\ Verdict!VerdictHeld
      /\ Verdict!Registry /\ x5' = x5
  BY DEF Verdict!Inv, Verdict!RegistryMoves
<1>1. /\ x1' \in Verdict!Row /\ x3 \subseteq x3' /\ x3' \subseteq Verdict!Party
      /\ x2 \subseteq x2'
      /\ x4' \in Seq({"receipt", "other"}) /\ Len(x4) <= Len(x4')
      /\ Verdict!Range(x4) \subseteq Verdict!Range(x4')
  BY <1>0, VerdictRegistry
<1>2. Verdict!Shape' /\ Verdict!ReceiptFirst'
  BY <1>0, <1>1 DEF Verdict!Shape, Verdict!ReceiptFirst
<1>3. CASE x5 = None
  BY <1>0, <1>2, <1>3 DEF Verdict!Inv, Verdict!ReadsSound, Verdict!VerdictHeld
<1>4. CASE x5 # None
  <2>1. /\ x6 \subseteq x6' /\ x7 \subseteq x7'
        /\ Verdict!Underway =>
             Verdict!Clean' \subseteq x6' /\ (Verdict!Wrong \cup Verdict!Missing)' \subseteq x7'
    BY <1>0, <1>4, VerdictRemember
  <2>2. Verdict!Underway' <=> Verdict!Underway
    BY <1>0 DEF Verdict!Underway
  <2>3. x5.entry # None => x5.entry \in 1 .. Len(x4')
    <3>1. Len(x4) \in Nat /\ Len(x4') \in Nat
      BY <1>0, <1>1 DEF Verdict!Shape
    <3> QED
      BY <1>0, <1>1, <1>4, <3>1 DEF Verdict!ReadsSound
  <2>4. "receipt" \notin Verdict!Range(x5.todo) =>
            /\ Verdict!IsDisputeActive(x5.receipt)' => "no_active_dispute" \in x7'
            /\ \/ {"finalized", "parties_not_revoked"} \cap x5.failed # {}
               \/ x3' \cap Verdict!Range(x5.todo) # {}
               \/ Verdict!OpenedBy(x5.receipt) \in x6'
    BY <1>0, <1>1, <1>4, <2>1 DEF Verdict!ReadsSound, Verdict!IsDisputeActive
  <2>5. Verdict!ReadsSound'
    BY <1>0, <1>1, <1>4, <2>1, <2>2, <2>3, <2>4 DEF Verdict!ReadsSound
  <2>6. Verdict!VerdictHeld'
    BY <1>0, <1>1, <1>4, <2>1 DEF Verdict!VerdictHeld
  <2> QED
    BY <1>2, <2>5, <2>6 DEF Verdict!Inv
<1> QED
  BY <1>3, <1>4

\* Reading the first of what is left leaves the rest.
LEMMA VerdictTail ==
    ASSUME NEW s \in Seq(Verdict!Item), s # <<>>
    PROVE  /\ Tail(s) \in Seq(Verdict!Item)
           /\ Verdict!Range(s) = Verdict!Range(Tail(s)) \cup {Head(s)}
           /\ \A i \in DOMAIN Tail(s) : i + 1 \in DOMAIN s /\ i + 1 # 1 /\ Tail(s)[i] = s[i + 1]
<1>1. /\ Len(s) \in Nat \ {0} /\ DOMAIN s = 1 .. Len(s) /\ Head(s) = s[1]
      /\ Tail(s) \in Seq(Verdict!Item) /\ Len(Tail(s)) = Len(s) - 1
      /\ DOMAIN Tail(s) = 1 .. Len(Tail(s))
  OBVIOUS
<1>2. \A i \in 1 .. Len(s) - 1 : Tail(s)[i] = s[i + 1]
  BY <1>1
<1>3. ASSUME NEW i \in 1 .. Len(s), i # 1
      PROVE  \E j \in DOMAIN Tail(s) : Tail(s)[j] = s[i]
  <2>1. i - 1 \in 1 .. Len(s) - 1 /\ (i - 1) + 1 = i
    BY <1>1, <1>3
  <2> QED
    BY <1>1, <1>2, <2>1
<1>4. \A i \in DOMAIN Tail(s) : i + 1 \in DOMAIN s /\ i + 1 # 1 /\ Tail(s)[i] = s[i + 1]
  BY <1>1, <1>2
<1>5. ASSUME NEW y \in Verdict!Range(s)
      PROVE  y \in Verdict!Range(Tail(s)) \cup {Head(s)}
  <2>1. PICK i \in 1 .. Len(s) : y = s[i]
    BY <1>1 DEF Verdict!Range
  <2> QED
    BY <1>1, <1>3, <2>1 DEF Verdict!Range
<1>6. ASSUME NEW y \in Verdict!Range(Tail(s)) \cup {Head(s)}
      PROVE  y \in Verdict!Range(s)
  BY <1>1, <1>4 DEF Verdict!Range
<1> QED
  BY <1>1, <1>4, <1>5, <1>6

\* What a read does, whatever is read: one item less, maybe one check failed.
LEMMA VerdictStep ==
    ASSUME Verdict!Inv, Verdict!Underway, x5.todo # <<>>,
           UNCHANGED <<x1, x2, x3, x4>>, Verdict!Remember,
           x5' \in Verdict!Verdict, x5'.verdict = None, x5'.todo = Tail(x5.todo),
           x5.failed \subseteq x5'.failed,
           x5'.failed \subseteq x5.failed \cup Verdict!Wrong \cup Verdict!Missing,
           x5'.entry # None => x5'.entry \in 1 .. Len(x4),
           Head(x5.todo) # "receipt" => x5'.receipt = x5.receipt,
           Head(x5.todo) = "receipt" =>
               x5'.receipt = x1 /\ (x1.status = "draft" => "finalized" \in x5'.failed),
           Head(x5.todo) \in x3 => "parties_not_revoked" \in x5'.failed,
           Head(x5.todo) = "entry" =>
               "receipt" \in Verdict!Range(x4) \/ "transparency_log" \in x5'.failed
    PROVE  Verdict!Inv'
<1>0. /\ Verdict!Shape /\ Verdict!ReceiptFirst /\ Verdict!ReadsSound /\ x5 # None
      /\ x5 \in Verdict!Verdict /\ x5.todo \in Seq(Verdict!Item)
  BY DEF Verdict!Inv, Verdict!Shape, Verdict!Underway, Verdict!Verdict
<1>a. {d1, d2} \cap {"receipt", "entry", "leaves"} = {}
  BY ReadersAssumption
<1>1. /\ Verdict!Range(x5.todo) = Verdict!Range(x5'.todo) \cup {Head(x5.todo)}
      /\ \A i \in DOMAIN x5'.todo :
            i + 1 \in DOMAIN x5.todo /\ i + 1 # 1 /\ x5'.todo[i] = x5.todo[i + 1]
  BY <1>0, VerdictTail
<1>2. /\ x6 \subseteq x6' /\ x7 \subseteq x7'
      /\ Verdict!Clean' \subseteq x6' /\ (Verdict!Wrong \cup Verdict!Missing)' \subseteq x7'
  BY <1>0, VerdictRemember
<1>3. /\ Verdict!Clean' = Verdict!Clean /\ Verdict!Wrong' = Verdict!Wrong
      /\ Verdict!Missing' = Verdict!Missing
  BY DEF Verdict!Clean, Verdict!Wrong, Verdict!Missing, Verdict!IsDisputeActive, Verdict!OpenedBy
<1>4. Verdict!Shape'
  BY <1>0 DEF Verdict!Shape
<1>5. "receipt" \notin Verdict!Range(x5'.todo)
  <2>1. \A i \in DOMAIN x5'.todo : x5'.todo[i] # "receipt"
    BY <1>0, <1>1 DEF Verdict!ReceiptFirst
  <2> QED
    BY <2>1 DEF Verdict!Range
<1>6. Verdict!ReceiptFirst'
  BY <1>5 DEF Verdict!ReceiptFirst, Verdict!Range
<1>7. x5'.failed \subseteq x7'
  BY <1>0, <1>2, <1>3 DEF Verdict!ReadsSound
<1>8. /\ Verdict!IsDisputeActive(x5.receipt)' => "no_active_dispute" \in x7'
      /\ \/ {"finalized", "parties_not_revoked"} \cap x5'.failed # {}
         \/ x3 \cap Verdict!Range(x5'.todo) # {}
         \/ Verdict!OpenedBy(x5'.receipt) \in x6'
  <2>1. CASE Head(x5.todo) = "receipt"
    <3>1. x5'.receipt = x1
      BY <2>1
    <3>2. Verdict!IsDisputeActive(x1)' => "no_active_dispute" \in x7'
      <4>1. Verdict!IsDisputeActive(x1)' => Verdict!IsDisputeActive(x1)
        BY DEF Verdict!IsDisputeActive
      <4>2. Verdict!IsDisputeActive(x1) => "no_active_dispute" \in Verdict!Wrong
        BY DEF Verdict!Wrong
      <4> QED
        BY <1>2, <1>3, <4>1, <4>2
    <3>3. Verdict!Party \subseteq Verdict!Range(x5'.todo)
      <4>1. 1 \in DOMAIN x5.todo /\ x5.todo[1] = "receipt"
        BY <1>0, <2>1
      <4>2. Verdict!Party \subseteq Verdict!Range(x5.todo)
        BY <1>0, <4>1 DEF Verdict!ReceiptFirst
      <4> QED
        BY <1>1, <1>a, <2>1, <4>2 DEF Verdict!Party
    <3>4. CASE x3 # {}
      BY <1>0, <3>3, <3>4, <3>1, <3>2 DEF Verdict!Shape
    <3>5. CASE x3 = {}
      <4>1. CASE x1.status = "draft"
        BY <2>1, <4>1, <3>1, <3>2
      <4>2. CASE x1.status # "draft"
        BY <1>2, <1>3, <3>1, <3>2, <3>5, <4>2 DEF Verdict!Clean
      <4> QED
        BY <4>1, <4>2
    <3> QED
      BY <3>4, <3>5
  <2>2. CASE Head(x5.todo) # "receipt"
    <3>1. "receipt" \notin Verdict!Range(x5.todo) /\ x5'.receipt = x5.receipt
      BY <1>1, <1>5, <2>2
    <3>2. Verdict!IsDisputeActive(x5.receipt)' => Verdict!IsDisputeActive(x5.receipt)
      BY <3>1 DEF Verdict!IsDisputeActive
    <3> QED
      BY <1>0, <1>1, <1>2, <3>1, <3>2 DEF Verdict!ReadsSound
  <2> QED
    BY <2>1, <2>2
<1>9. "entry" \notin Verdict!Range(x5'.todo) =>
            "receipt" \in Verdict!Range(x4') \/ "transparency_log" \in x5'.failed
  BY <1>0, <1>1 DEF Verdict!ReadsSound
<1>10. Verdict!ReadsSound'
  BY <1>2, <1>5, <1>7, <1>8, <1>9 DEF Verdict!ReadsSound
<1> QED
  BY <1>4, <1>6, <1>10 DEF Verdict!Inv, Verdict!VerdictHeld

\* A set of natural numbers that is not empty has a least one.
LEMMA LeastNumber ==
    ASSUME NEW S \in SUBSET Nat, S # {}
    PROVE  \E i \in S : \A j \in S : i <= j
<1>1. PICK i \in S : \A j \in S : ~ (<<j, i>> \in OpToRel(<, Nat))
  BY NatLessThanWellFounded, WFMin
<1>2. \A j \in S : ~ (j < i)
  BY <1>1 DEF OpToRel
<1> QED
  BY <1>2

LEMMA VerdictStart ==
    ASSUME Verdict!Inv, Verdict!Start
    PROVE  Verdict!Inv'
<1>1. PICK p \in Verdict!Party, q \in Verdict!Party :
        /\ p # q
        /\ x5' = [todo |-> Verdict!Reads(p, q), receipt |-> None, entry |-> None, failed |-> {},
                  verdict |-> None]
  BY DEF Verdict!Start
<1>2. UNCHANGED <<x1, x2, x3, x4>> /\ x6' = Verdict!Clean /\ x7' = Verdict!Wrong \cup Verdict!Missing
  BY DEF Verdict!Start, Verdict!registry
<1>3. PICK s : s = Verdict!Reads(p, q)
  OBVIOUS
<1>a. {d1, d2} \cap {"receipt", "entry", "leaves"} = {}
  BY ReadersAssumption
<1>4. /\ s \in Seq(Verdict!Item) /\ DOMAIN s = 1 .. 5
      /\ s[1] = "receipt" /\ s[2] = "entry" /\ s[3] = "leaves" /\ s[4] = p /\ s[5] = q
  BY <1>1, <1>3 DEF Verdict!Reads, Verdict!Item
<1>5. /\ Verdict!Range(s) = {"receipt", "entry", "leaves", p, q}
      /\ \A i \in DOMAIN s : s[i] = "receipt" => i = 1
  <2>1. DOMAIN s = {1, 2, 3, 4, 5}
    BY <1>4
  <2>2. p # "receipt" /\ q # "receipt"
    BY <1>a DEF Verdict!Party
  <2> QED
    BY <1>4, <2>1, <2>2 DEF Verdict!Range
<1>6. Verdict!Party = {p, q}
  BY <1>1 DEF Verdict!Party
<1>7. Verdict!Shape'
  <2>1. x5' \in Verdict!Verdict
    BY <1>1, <1>3, <1>4 DEF Verdict!Verdict
  <2> QED
    BY <1>2, <2>1 DEF Verdict!Inv, Verdict!Shape
<1>8. Verdict!ReceiptFirst'
  BY <1>1, <1>3, <1>5, <1>6 DEF Verdict!ReceiptFirst
<1>9. Verdict!Clean' = x6' /\ (Verdict!Wrong \cup Verdict!Missing)' = x7'
  BY <1>2 DEF Verdict!Clean, Verdict!Wrong, Verdict!Missing, Verdict!IsDisputeActive,
     Verdict!OpenedBy
<1>10. Verdict!ReadsSound'
  BY <1>1, <1>3, <1>5, <1>9 DEF Verdict!ReadsSound
<1> QED
  BY <1>1, <1>7, <1>8, <1>10 DEF Verdict!Inv, Verdict!VerdictHeld

\* What one read of the check leaves of it: see VerdictStep.
LEMMA VerdictReads ==
    ASSUME Verdict!Inv, Verdict!CheckReceipt, Verdict!Remember, ~ Verdict!Answer
    PROVE  Verdict!Inv'
<1>a. {d1, d2} \cap {"receipt", "entry", "leaves"} = {} /\ None \notin {"pass", "fail"}
  BY ReadersAssumption
<1>0. /\ Verdict!Underway /\ x5.todo # <<>> /\ x5 \in Verdict!Verdict
      /\ Tail(x5.todo) \in Seq(Verdict!Item)
      /\ x1 \in Verdict!Row /\ x4 \in Seq({"receipt", "other"})
      /\ x5.entry # None => x5.entry \in 1 .. Len(x4)
  <2>1. Verdict!Underway /\ x5.todo # <<>> /\ x5 # None
    BY DEF Verdict!CheckReceipt, Verdict!ReadReceipt, Verdict!TransparencyEntryByRef,
       Verdict!TransparencyLeafHashes, Verdict!ReadParty, Verdict!NextIs, Verdict!Underway
  <2>2. x5 \in Verdict!Verdict /\ x5.todo \in Seq(Verdict!Item)
    BY <2>1 DEF Verdict!Inv, Verdict!Shape, Verdict!Verdict
  <2> QED
    BY <2>1, <2>2, VerdictTail DEF Verdict!Inv, Verdict!Shape, Verdict!ReadsSound
<1>f. x5.failed \in SUBSET Verdict!Failure
  BY <1>0 DEF Verdict!Verdict
<1>1. CASE Verdict!ReadReceipt
  <2>1. PICK failed : failed = IF x1.status = "draft" THEN x5.failed \cup {"finalized"}
                               ELSE x5.failed
    OBVIOUS
  <2>s. failed \in SUBSET Verdict!Failure
    BY <1>f, <2>1 DEF Verdict!Failure
  <2>2. /\ x5' = [x5 EXCEPT !.failed = failed, !.receipt = x1, !.todo = Tail(x5.todo)]
        /\ UNCHANGED <<x1, x2, x3, x4>> /\ Head(x5.todo) = "receipt"
    BY <1>1, <2>1, <1>0 DEF Verdict!ReadReceipt, Verdict!Step, Verdict!Fails, Verdict!NextIs,
       Verdict!registry, Verdict!Verdict
  <2>3. /\ x5' \in Verdict!Verdict /\ x5'.verdict = None /\ x5'.todo = Tail(x5.todo)
        /\ x5'.failed = failed /\ x5'.receipt = x1 /\ x5'.entry = x5.entry
    BY <1>0, <2>1, <2>s, <2>2 DEF Verdict!Verdict, Verdict!Underway
  <2>4. failed \subseteq x5.failed \cup Verdict!Wrong /\ "receipt" \notin x3
    BY <1>a, <2>1 DEF Verdict!Wrong, Verdict!Inv, Verdict!Shape, Verdict!Party
  <2> QED
    BY <1>0, <2>1, <2>2, <2>3, <2>4, VerdictStep
<1>2. CASE Verdict!TransparencyEntryByRef
  <2> DEFINE found == {i \in DOMAIN x4 : x4[i] = "receipt"}
  <2>1. PICK failed : failed = IF found = {} THEN x5.failed \cup {"transparency_log"}
                               ELSE x5.failed
    OBVIOUS
  <2>s. failed \in SUBSET Verdict!Failure
    BY <1>f, <2>1 DEF Verdict!Failure
  <2>2. PICK entry : entry = IF found = {} THEN None
                             ELSE CHOOSE i \in found : \A j \in found : i <= j
    OBVIOUS
  <2>3. /\ x5' = [x5 EXCEPT !.failed = failed, !.entry = entry, !.todo = Tail(x5.todo)]
        /\ UNCHANGED <<x1, x2, x3, x4>> /\ Head(x5.todo) = "entry"
    BY <1>2, <2>1, <2>2, <1>0 DEF Verdict!TransparencyEntryByRef, Verdict!Step, Verdict!Fails,
       Verdict!NextIs, Verdict!registry, Verdict!Verdict
  <2>4. /\ found \in SUBSET Nat /\ found \subseteq 1 .. Len(x4)
        /\ found # {} <=> "receipt" \in Verdict!Range(x4)
    BY <1>0 DEF Verdict!Range
  <2>5. entry # None => entry \in found
    <3>1. CASE found = {}
      BY <2>2, <3>1
    <3>2. CASE found # {}
      <4> HIDE DEF found
      <4>1. \E i \in found : \A j \in found : i <= j
        BY <2>4, <3>2, LeastNumber
      <4> QED
        BY <2>2, <3>2, <4>1
    <3> QED
      BY <3>1, <3>2
  <2>6. entry # None => entry \in 1 .. Len(x4)
    BY <2>4, <2>5
  <2> HIDE DEF found
  <2>7. /\ x5' \in Verdict!Verdict /\ x5'.verdict = None /\ x5'.todo = Tail(x5.todo)
        /\ x5'.failed = failed /\ x5'.receipt = x5.receipt /\ x5'.entry = entry
    <3>1. entry \in Nat \cup {None}
      BY <2>4, <2>5
    <3> QED
      BY <1>0, <2>s, <2>3, <3>1 DEF Verdict!Verdict, Verdict!Underway
  <2>8. failed \subseteq x5.failed \cup Verdict!Missing /\ "entry" \notin x3
    BY <1>a, <2>1, <2>4 DEF Verdict!Missing, Verdict!Inv, Verdict!Shape, Verdict!Party
  <2> QED
    BY <1>0, <2>1, <2>3, <2>4, <2>6, <2>7, <2>8, VerdictStep
<1>3. CASE Verdict!TransparencyLeafHashes
  <2>1. ~ (x5.entry # None /\ x5.entry > Len(x4))
    <3>1. Len(x4) \in Nat
      BY <1>0
    <3> QED
      BY <1>0, <3>1
  <2>2. /\ x5' = [x5 EXCEPT !.todo = Tail(x5.todo)]
        /\ UNCHANGED <<x1, x2, x3, x4>> /\ Head(x5.todo) = "leaves"
    BY <1>3, <2>1, <1>0 DEF Verdict!TransparencyLeafHashes, Verdict!Step, Verdict!Fails,
       Verdict!NextIs, Verdict!registry, Verdict!Verdict
  <2>3. /\ x5' \in Verdict!Verdict /\ x5'.verdict = None /\ x5'.todo = Tail(x5.todo)
        /\ x5'.failed = x5.failed /\ x5'.receipt = x5.receipt /\ x5'.entry = x5.entry
    BY <1>0, <2>2 DEF Verdict!Verdict, Verdict!Underway
  <2>4. "leaves" \in x3 => FALSE
    BY <1>a, ReadersAssumption DEF Verdict!Inv, Verdict!Shape, Verdict!Party
  <2> QED
    BY <1>0, <2>2, <2>3, <2>4, VerdictStep
<1>4. ASSUME NEW p \in Verdict!Party, Verdict!ReadParty(p) PROVE Verdict!Inv'
  <2>1. PICK failed : failed = IF p \in x3 THEN x5.failed \cup {"parties_not_revoked"}
                               ELSE x5.failed
    OBVIOUS
  <2>s. failed \in SUBSET Verdict!Failure
    BY <1>f, <2>1 DEF Verdict!Failure
  <2>2. /\ x5' = [x5 EXCEPT !.failed = failed, !.todo = Tail(x5.todo)]
        /\ UNCHANGED <<x1, x2, x3, x4>> /\ Head(x5.todo) = p
    BY <1>4, <2>1, <1>0 DEF Verdict!ReadParty, Verdict!Step, Verdict!Fails, Verdict!NextIs,
       Verdict!registry, Verdict!Verdict
  <2>3. /\ x5' \in Verdict!Verdict /\ x5'.verdict = None /\ x5'.todo = Tail(x5.todo)
        /\ x5'.failed = failed /\ x5'.receipt = x5.receipt /\ x5'.entry = x5.entry
    BY <1>0, <2>1, <2>s, <2>2 DEF Verdict!Verdict, Verdict!Underway
  <2>4. /\ failed \subseteq x5.failed \cup Verdict!Wrong
        /\ Head(x5.todo) # "receipt" /\ Head(x5.todo) # "entry"
    BY <1>a, <2>1, <2>2 DEF Verdict!Wrong, Verdict!Party
  <2> QED
    BY <1>0, <2>1, <2>2, <2>3, <2>4, VerdictStep
<1> QED
  BY <1>1, <1>2, <1>3, <1>4 DEF Verdict!CheckReceipt

\* A check that answers with a pass has read everything, and found nothing.
LEMMA VerdictAnswer ==
    ASSUME Verdict!Inv, Verdict!Answer, Verdict!Remember
    PROVE  Verdict!Inv'
<1>a. None \notin {"pass", "fail"}
  BY ReadersAssumption
<1>0. /\ Verdict!Shape /\ Verdict!ReadsSound /\ x5 # None /\ x5 \in Verdict!Verdict
      /\ Verdict!Underway /\ x5.todo = <<>> /\ UNCHANGED <<x1, x2, x3, x4>>
  BY DEF Verdict!Inv, Verdict!Shape, Verdict!Underway, Verdict!Answer, Verdict!registry
<1>f. x5.failed \in SUBSET Verdict!Failure
  BY <1>0 DEF Verdict!Verdict
<1>1. PICK failed : failed = IF Verdict!IsDisputeActive(x5.receipt)
                             THEN x5.failed \cup {"no_active_dispute"} ELSE x5.failed
  OBVIOUS
<1>s. failed \in SUBSET Verdict!Failure
  BY <1>f, <1>1 DEF Verdict!Failure
<1>2. x5' = [x5 EXCEPT !.failed = failed, !.verdict = IF failed = {} THEN "pass" ELSE "fail"]
  BY <1>0, <1>1 DEF Verdict!Answer, Verdict!Fails, Verdict!Verdict
<1>3. /\ x5' \in Verdict!Verdict /\ x5'.todo = <<>> /\ x5'.failed = failed
      /\ x5'.receipt = x5.receipt /\ x5'.entry = x5.entry
      /\ x5'.verdict = IF failed = {} THEN "pass" ELSE "fail"
  BY <1>0, <1>s, <1>2 DEF Verdict!Verdict
<1>4. /\ x6 \subseteq x6' /\ x7 \subseteq x7'
  BY <1>0, VerdictRemember
<1>5. /\ Verdict!Range(x5.todo) = {}
      /\ "receipt" \notin Verdict!Range(x5.todo) /\ "entry" \notin Verdict!Range(x5.todo)
  BY <1>0 DEF Verdict!Range
<1>6. /\ x5.failed \subseteq x7
      /\ Verdict!IsDisputeActive(x5.receipt) => "no_active_dispute" \in x7
      /\ \/ {"finalized", "parties_not_revoked"} \cap x5.failed # {}
         \/ Verdict!OpenedBy(x5.receipt) \in x6
      /\ "receipt" \in Verdict!Range(x4) \/ "transparency_log" \in x5.failed
  BY <1>0, <1>5 DEF Verdict!ReadsSound
<1>7. Verdict!Shape' /\ Verdict!ReceiptFirst'
  BY <1>0, <1>3, <1>5 DEF Verdict!Shape, Verdict!ReceiptFirst
<1>8. failed \subseteq x7
  BY <1>1, <1>6
<1>9. Verdict!ReadsSound'
  <2>1. ~ Verdict!Underway'
    BY <1>a, <1>3 DEF Verdict!Underway
  <2>2. Verdict!IsDisputeActive(x5.receipt)' => Verdict!IsDisputeActive(x5'.receipt)
    BY <1>0, <1>3 DEF Verdict!IsDisputeActive
  <2>3. x5.failed \subseteq failed
    BY <1>1
  <2> QED
    BY <1>0, <1>3, <1>4, <1>5, <1>6, <1>8, <2>1, <2>2, <2>3 DEF Verdict!ReadsSound
<1>10. Verdict!VerdictHeld'
  <2>1. ASSUME failed = {}
        PROVE  x6 \cap ({None} \cup x2) # {} /\ "receipt" \in Verdict!Range(x4)
    <3>1. x5.failed = {} /\ ~ Verdict!IsDisputeActive(x5.receipt)
      BY <1>1, <2>1
    <3> QED
      BY <1>6, <3>1 DEF Verdict!IsDisputeActive, Verdict!OpenedBy
  <2> QED
    BY <1>0, <1>3, <1>4, <1>8, <2>1 DEF Verdict!VerdictHeld
<1> QED
  BY <1>7, <1>9, <1>10 DEF Verdict!Inv

LEMMA VerdictNext ==
    ASSUME Verdict!Inv, [Verdict!Next]_(Verdict!vars)
    PROVE  Verdict!Inv'
<1>1. CASE UNCHANGED Verdict!vars
  BY <1>1 DEF Verdict!vars, Verdict!Inv, Verdict!Shape, Verdict!ReceiptFirst, Verdict!ReadsSound,
     Verdict!VerdictHeld, Verdict!Underway, Verdict!Clean, Verdict!Wrong, Verdict!Missing,
     Verdict!IsDisputeActive, Verdict!OpenedBy
<1>2. CASE Verdict!Next
  BY <1>2, VerdictStart, VerdictMoves, VerdictReads, VerdictAnswer DEF Verdict!Next
<1> QED
  BY <1>1, <1>2

(* A pass means that at one moment of the check the receipt was final, its *)
(* parties not revoked and no dispute of it open but one whose deadline    *)
(* had passed by the answer, and that the log has it; a check that failed  *)
(* was wrong at some moment.  For a log of any length and however the      *)
(* registry moves between the reads (checkReceipt).                        *)
THEOREM VerdictHeldCorrect == Spec => []VerdictHeld
<1> DEFINE I == part = "verdict" => Verdict!Inv
<1>1. Init => I
  BY VerdictInit DEF Init
<1>2. I /\ [Next]_vars => I'
  BY OnePart, VerdictNext
<1>3. I => VerdictHeld
  BY DEF VerdictHeld, Verdict!Inv
<1> QED
  BY <1>1, <1>2, <1>3, PTL DEF Spec

-----------------------------------------------------------------------------
(* The check of a target. *)

LEMMA CheckInit == Check!Init => Check!Inv
<1> SUFFICES ASSUME Check!Init PROVE Check!Inv
  OBVIOUS
<1>p. None # "pass"
  BY ReadersAssumption
<1>1. x6 \in Check!Report
  BY DEF Check!Init, Check!NoReport, Check!Report
<1>2. Check!Shape
  BY <1>1 DEF Check!Init, Check!RegistryInit, Check!Shape, Check!Row, Check!Appraisal
<1>3. Check!Remembered
  BY DEF Check!Init, Check!RegistryInit, Check!Remembered
<1>4. /\ x6.kind = "none" /\ x6.pc = "idle" /\ x6.accepts = {} /\ x6.linked = None
      /\ x6.agent = None /\ x6.reputation = None /\ x6.verdict = None /\ x6.current = None
  BY DEF Check!Init, Check!NoReport
<1>5. Check!Progress /\ Check!AnswersOnceTrue /\ Check!LinksOnceTrue
  BY <1>4 DEF Check!Progress, Check!AnswersOnceTrue, Check!LinksOnceTrue
<1>6. Check!LookedUp /\ Check!PassMeansProven
  BY <1>p, <1>4 DEF Check!LookedUp, Check!PassMeansProven
<1> QED
  BY <1>2, <1>3, <1>5, <1>6 DEF Check!Inv

\* The history of a check only grows, and whoever is retired stays so: nothing
\* that was vouched for or asked about is lost.
LEMMA CheckHistory ==
    ASSUME Check!Inv, x4 \subseteq x4', x5 \subseteq x5', x6' = x6,
           \A d \in Payee : x1[d].standing \in Check!Retired => x1'[d].standing \in Check!Retired
    PROVE  /\ Check!AnswersOnceTrue' /\ Check!LinksOnceTrue' /\ Check!LookedUp'
           /\ Check!PassMeansProven' /\ Check!Progress'
<1>1. /\ Check!AnswersOnceTrue /\ Check!LinksOnceTrue /\ Check!LookedUp /\ Check!PassMeansProven
      /\ Check!Progress
  BY DEF Check!Inv
<1>2. Check!AnswersOnceTrue' /\ Check!Progress'
  BY <1>1 DEF Check!AnswersOnceTrue, Check!Progress, Check!Retired
<1>3. \A d, w : Check!Owned(d, w) => Check!Owned(d, w)'
  BY DEF Check!Owned, Check!Retired
<1>4. Check!LinksOnceTrue'
  BY <1>1, <1>3 DEF Check!LinksOnceTrue
<1>5. \A d : Check!Verified(d) => Check!Verified(d)'
  BY DEF Check!Verified, Check!Appraisal
<1>6. \A w : Check!Vouched(w) => Check!Vouched(w)'
  BY <1>5 DEF Check!Vouched, Check!Proven
<1>7. \A w : Check!OwnerAsked(w) => Check!OwnerAsked(w)'
  <2> SUFFICES ASSUME NEW w, Check!OwnerAsked(w) PROVE Check!OwnerAsked(w)'
    OBVIOUS
  <2>1. Check!Owned(x6.current, w)'
    BY DEF Check!OwnerAsked, Check!Owned, Check!Retired
  <2> QED
    BY <2>1 DEF Check!OwnerAsked, Check!Retired
<1>8. Check!LookedUp'
  BY <1>1, <1>6, <1>7 DEF Check!LookedUp
<1>9. \A d, ws : Check!Proven(d, ws) => Check!Proven(d, ws)'
  BY DEF Check!Proven
<1>10. Check!PassMeansProven'
  BY <1>1, <1>5, <1>9 DEF Check!PassMeansProven
<1> QED
  BY <1>2, <1>4, <1>8, <1>10

LEMMA CheckRegistry ==
    ASSUME Check!Inv, Check!RegistryChanges, UNCHANGED x6
    PROVE  Check!Inv'
<1>1. x4 \subseteq x4' /\ x5 \subseteq x5'
  BY DEF Check!RegistryChanges
<1>0. x1 \in [Payee -> Check!Row] /\ x2 \in [Payee -> Check!Appraisal]
  BY DEF Check!Inv, Check!Shape
<1>2. /\ x1' \in [Payee -> Check!Row] /\ x2' \in [Payee -> Check!Appraisal]
      /\ \A d \in Payee : x1[d].standing \in Check!Retired => x1'[d].standing \in Check!Retired
  <2>1. ASSUME NEW d \in Payee, NEW w \in Wallet, x1' = [x1 EXCEPT ![d].wallet = w], x2' = x2
        PROVE  /\ x1' \in [Payee -> Check!Row]
               /\ \A e \in Payee : x1'[e].standing = x1[e].standing
    BY <1>0, <2>1 DEF Check!Row
  <2>2. ASSUME NEW d \in Payee, NEW s \in {"pending", "revoked", "succeeded"},
               x1[d].standing \notin Check!Retired,
               x1' = [x1 EXCEPT ![d].standing = s], x2' = x2
        PROVE  /\ x1' \in [Payee -> Check!Row]
               /\ \A e \in Payee \ {d} : x1'[e].standing = x1[e].standing
    BY <1>0, <2>2 DEF Check!Row, Check!Retired
  <2>3. ASSUME NEW d \in Payee, NEW p \in Check!Appraisal, x2' = [x2 EXCEPT ![d] = p], x1' = x1
        PROVE  x2' \in [Payee -> Check!Appraisal]
    BY <1>0, <2>3
  <2> QED
    BY <1>0, <2>1, <2>2, <2>3 DEF Check!RegistryChanges
<1>3. Check!Shape'
  BY <1>2 DEF Check!Inv, Check!Shape
<1>4. Check!Remembered'
  BY DEF Check!RegistryChanges, Check!Remembered, Check!ProvenNow, Check!AppraisedNow
<1> QED
  BY <1>1, <1>2, <1>3, <1>4, CheckHistory DEF Check!Inv

\* The worst of several statuses passes only if every one of them does.
LEMMA WorstPasses ==
    ASSUME NEW S, S \subseteq {"pass", "warn", "fail"}
    PROVE  /\ Check!Worst(S) \in {"pass", "warn", "fail"}
           /\ Check!Worst(S) = "pass" => S \subseteq {"pass"}
BY DEF Check!Worst

LEMMA SomeListed == Listed \in Seq(Payee) /\ Len(Listed) \in Nat /\ Len(Listed) > 0
<1>1. Listed \in Seq(Payee) /\ Listed # <<>>
  BY ReadersAssumption
<1> QED
  BY <1>1

\* A check that begins knows nothing yet.
LEMMA CheckBegins ==
    ASSUME Check!Inv, Check!CallBegins, x6' \in Check!Report, Check!Progress',
           x6'.agent = None, x6'.reputation = None, x6'.linked = None, x6'.verdict # "pass",
           x6'.worst = "pass" => x6'.accepts \cap Wallet \subseteq x6'.todo
    PROVE  Check!Inv'
<1>1. Check!Shape'
  BY DEF Check!Inv, Check!Shape, Check!CallBegins
<1>2. Check!Remembered'
  BY DEF Check!CallBegins, Check!Remembered
<1>3. Check!AnswersOnceTrue' /\ Check!LinksOnceTrue'
  BY DEF Check!AnswersOnceTrue, Check!LinksOnceTrue
<1>4. Check!LookedUp' /\ Check!PassMeansProven'
  BY DEF Check!LookedUp, Check!PassMeansProven
<1> QED
  BY <1>1, <1>2, <1>3, <1>4 DEF Check!Inv

LEMMA CheckUrlInv == ASSUME Check!Inv, Check!CheckUrl PROVE Check!Inv'
<1>p. None \notin {"pass", "fail"} /\ Len(Listed) \in Nat /\ Len(Listed) > 0
  BY ReadersAssumption, SomeListed
<1>1. ASSUME x6' = Check!Finish(Check!Push([Check!NoReport EXCEPT !.kind = "url"], {"fail"}))
      PROVE  Check!Inv'
  <2>1. Check!Worst({"pass"} \cup {"fail"}) = "fail"
    BY DEF Check!Worst
  <2>2. x6' = [kind |-> "url", pc |-> "done", accepts |-> {}, did |-> None, worst |-> "fail",
               rated |-> FALSE, linked |-> None, page |-> 0, todo |-> {}, current |-> None,
               agent |-> None, reputation |-> None, verdict |-> "fail"]
    BY <1>1, <2>1 DEF Check!Finish, Check!Push, Check!NoReport
  <2>3. x6' \in Check!Report /\ Check!Progress'
    BY <2>2 DEF Check!Report, Check!Progress
  <2> QED
    BY <2>2, <2>3, CheckBegins DEF Check!CheckUrl
<1>2. ASSUME NEW accepts \in SUBSET (Wallet \cup {NonEvm}), NEW did \in Payee \cup {Unknown, None},
             NEW side \in {"pass", "warn", "fail"}, NEW response \in {"pass", "warn", "fail"},
             x6' = Check!UrlReport(accepts, did, side, response)
      PROVE  Check!Inv'
  <2>1. PICK worst \in {"pass", "warn", "fail"} :
            worst = Check!Worst({"pass"} \cup {side, response})
    BY <1>2, WorstPasses
  <2>2. x6' = [kind |-> "url", pc |-> "walk", accepts |-> accepts, did |-> did, worst |-> worst,
               rated |-> FALSE, linked |-> None, page |-> 0, todo |-> accepts \cap Wallet,
               current |-> None, agent |-> None, reputation |-> None, verdict |-> None]
    BY <1>2, <2>1 DEF Check!UrlReport, Check!Push, Check!NoReport
  <2>3. x6' \in Check!Report
    BY <2>2 DEF Check!Report
  <2>4. Check!Progress'
    BY <1>p, <2>2 DEF Check!Progress
  <2> QED
    BY <1>p, <2>2, <2>3, <2>4, CheckBegins DEF Check!CheckUrl
<1>3. \A given, status, mcp, accepts :
        Check!ResponseStatus(given, status, mcp, accepts) \in {"pass", "warn", "fail"}
  BY DEF Check!ResponseStatus
<1>4. ASSUME NEW side \in {"pass", "warn", "fail"}, NEW response \in {"pass", "warn", "fail"},
             NEW accepts \in SUBSET (Wallet \cup {NonEvm}), NEW did \in Payee \cup {Unknown, None},
             x6' = Check!UrlReport(accepts, did, side, response)
      PROVE  Check!Inv'
  BY <1>2, <1>4
<1>5. ASSUME ~ (x6' = Check!Finish(Check!Push([Check!NoReport EXCEPT !.kind = "url"], {"fail"})))
      PROVE  \E side \in {"pass", "warn", "fail"}, response \in {"pass", "warn", "fail"},
                accepts \in SUBSET (Wallet \cup {NonEvm}), did \in Payee \cup {Unknown, None} :
                x6' = Check!UrlReport(accepts, did, side, response)
  <2>1. PICK side \in Check!SideStatus, given \in {"none", "GET", "POST"},
             get \in {"402", "404", "405", "406", "200"}, post \in {"402", "200"},
             mcp \in {"none", "note", "paid"}, accepts \in SUBSET (Wallet \cup {NonEvm}),
             did \in Payee \cup {Unknown, None} :
             x6' = Check!UrlReport(accepts, did, side,
                       Check!ResponseStatus(given, Check!StatusOf(given, get, post), mcp, accepts))
    BY <1>5 DEF Check!CheckUrl
  <2>2. PICK response \in {"pass", "warn", "fail"} :
             response = Check!ResponseStatus(given, Check!StatusOf(given, get, post), mcp, accepts)
    BY <1>3
  <2>3. x6' = Check!UrlReport(accepts, did, side, response)
    BY <2>1, <2>2
  <2> QED
    BY <2>3 DEF Check!SideStatus
<1> QED
  BY <1>1, <1>4, <1>5

LEMMA CheckOthers ==
    ASSUME Check!Inv, Check!CheckWallet \/ Check!CheckDid
    PROVE  Check!Inv'
<1>p. None \notin {"pass", "fail"} /\ Len(Listed) \in Nat /\ Len(Listed) > 0
  BY ReadersAssumption, SomeListed
<1>1. CASE Check!CheckWallet
  <2>1. PICK w \in Wallet : x6' = [Check!NoReport EXCEPT !.kind = "wallet", !.pc = "walk",
                                                         !.accepts = {w}, !.todo = {w}]
    BY <1>1 DEF Check!CheckWallet
  <2>2. x6' = [kind |-> "wallet", pc |-> "walk", accepts |-> {w}, did |-> None,
               worst |-> "pass", rated |-> FALSE, linked |-> None, page |-> 0, todo |-> {w},
               current |-> None, agent |-> None, reputation |-> None, verdict |-> None]
    BY <2>1 DEF Check!NoReport
  <2>3. x6' \in Check!Report
    BY <2>2 DEF Check!Report
  <2>4. Check!Progress'
    BY <1>p, <2>2 DEF Check!Progress
  <2> QED
    BY <1>1, <1>p, <2>2, <2>3, <2>4, CheckBegins DEF Check!CheckWallet
<1>2. CASE Check!CheckDid
  <2>1. PICK d \in Payee \cup {Unknown} :
            x6' = [Check!NoReport EXCEPT !.kind = "did", !.pc = "ask", !.did = d, !.current = d]
    BY <1>2 DEF Check!CheckDid
  <2>2. x6' = [kind |-> "did", pc |-> "ask", accepts |-> {}, did |-> d,
               worst |-> "pass", rated |-> FALSE, linked |-> None, page |-> 0, todo |-> {},
               current |-> d, agent |-> None, reputation |-> None, verdict |-> None]
    BY <2>1 DEF Check!NoReport
  <2>3. x6' \in Check!Report
    BY <2>2 DEF Check!Report
  <2>4. Check!Progress'
    BY <1>p, <2>2 DEF Check!Progress
  <2> QED
    BY <1>2, <1>p, <2>2, <2>3, <2>4, CheckBegins DEF Check!CheckDid
<1> QED
  BY <1>1, <1>2

\* The walk over the linked agents, and one that fails.
LEMMA CheckWalks ==
    ASSUME Check!Inv, Check!LinkedPage \/ Check!LinkedFails
    PROVE  Check!Inv'
<1>0. /\ Check!Shape /\ Check!Progress /\ Check!Remembered /\ Check!AnswersOnceTrue
      /\ Check!LinksOnceTrue /\ Check!LookedUp /\ Check!PassMeansProven
      /\ x6 \in Check!Report /\ x6.pc = "walk" /\ UNCHANGED <<x1, x2, x4, x5>>
      /\ x1 \in [Payee -> Check!Row]
  BY DEF Check!Inv, Check!Shape, Check!LinkedPage, Check!LinkedFails, Check!registryVars
<1>p. Listed \in Seq(Payee) /\ Len(Listed) \in Nat
  BY SomeListed
<1>1. ASSUME NEW linked \in [Wallet -> Payee \cup {None}] \cup {None}, NEW page \in Nat,
             NEW pc \in {"walk", "wallets"},
             x6' = [x6 EXCEPT !.page = page, !.linked = linked, !.pc = pc],
             pc = "walk" => page < Len(Listed),
             linked # None =>
                \A w \in Wallet : linked[w] # None => Check!Owned(linked[w], w)
      PROVE  Check!Inv'
  <2>1. /\ x6' \in Check!Report /\ x6'.pc = pc /\ x6'.linked = linked /\ x6'.page = page
        /\ x6'.kind = x6.kind /\ x6'.did = x6.did /\ x6'.accepts = x6.accepts
        /\ x6'.worst = x6.worst /\ x6'.todo = x6.todo /\ x6'.current = x6.current
        /\ x6'.agent = x6.agent /\ x6'.reputation = x6.reputation /\ x6'.verdict = x6.verdict
    BY <1>0, <1>1 DEF Check!Report
  <2>2. Check!Shape' /\ Check!Remembered'
    BY <1>0, <2>1 DEF Check!Shape, Check!Remembered
  <2>3. Check!Progress'
    BY <1>0, <1>1, <2>1 DEF Check!Progress
  <2>4. Check!AnswersOnceTrue' /\ Check!LinksOnceTrue'
    BY <1>0, <1>1, <2>1 DEF Check!AnswersOnceTrue, Check!LinksOnceTrue, Check!Owned, Check!Retired
  <2>5. Check!LookedUp'
    BY <1>0, <2>1 DEF Check!LookedUp, Check!Vouched, Check!OwnerAsked, Check!Proven,
       Check!Verified
  <2>6. Check!PassMeansProven'
    BY <1>0, <2>1 DEF Check!PassMeansProven, Check!Proven, Check!Verified
  <2> QED
    BY <2>2, <2>3, <2>4, <2>5, <2>6 DEF Check!Inv
<1>2. CASE Check!LinkedFails
  <2>1. x6' = [x6 EXCEPT !.page = x6.page, !.linked = None, !.pc = "wallets"] /\ x6.page \in Nat
    BY <1>0, <1>2 DEF Check!LinkedFails, Check!Report
  <2> QED
    BY <1>1, <2>1
<1>3. CASE Check!LinkedPage
  <2>1. PICK d : d = Listed[x6.page + 1]
    OBVIOUS
  <2>2. PICK linked : linked = IF x6.linked = None THEN Check!Nobody ELSE x6.linked
    OBVIOUS
  <2>3. PICK after : after = IF x1[d].wallet = None THEN linked
                             ELSE [linked EXCEPT ![x1[d].wallet] = d]
    OBVIOUS
  <2>4. x6.page \in Nat /\ x6.page + 1 \in Nat /\ x6.page < Len(Listed)
    BY <1>0 DEF Check!Report, Check!Progress
  <2>5. PICK pc \in {"walk", "wallets"} :
            pc = IF x6.page + 1 = Len(Listed) THEN "wallets" ELSE "walk"
    OBVIOUS
  <2>6. x6' = [x6 EXCEPT !.page = x6.page + 1, !.linked = after, !.pc = pc]
    BY <1>3, <2>1, <2>2, <2>3, <2>5 DEF Check!LinkedPage
  <2>7. pc = "walk" => x6.page + 1 < Len(Listed)
    BY <1>p, <2>4, <2>5
  <2>8. d \in Payee /\ x1[d] \in Check!Row
    BY <1>0, <1>p, <2>1, <2>4
  <2>9. /\ linked \in [Wallet -> Payee \cup {None}]
        /\ \A w \in Wallet : linked[w] # None => Check!Owned(linked[w], w)
    BY <1>0, <2>2 DEF Check!Report, Check!Nobody, Check!LinksOnceTrue
  <2>10. Check!Owned(d, x1[d].wallet)
    BY <1>0, <2>8 DEF Check!Owned, Check!Remembered, Check!ProvenNow
  <2>11. after \in [Wallet -> Payee \cup {None}] /\ x1[d].wallet \in Wallet \cup {None}
    BY <2>3, <2>8, <2>9 DEF Check!Row
  <2>12. \A w \in Wallet : after[w] # None => Check!Owned(after[w], w)
    BY <2>3, <2>9, <2>10, <2>11
  <2> QED
    BY <1>1, <2>4, <2>6, <2>7, <2>11, <2>12
<1> QED
  BY <1>2, <1>3

\* A set of numbers up to a bound that is not empty has a greatest one.
LEMMA GreatestNumber ==
    ASSUME NEW n \in Nat, NEW S \in SUBSET (1 .. n), S # {}
    PROVE  \E i \in S : \A j \in S : j <= i
<1> DEFINE T == {n - i : i \in S}
<1>1. T \in SUBSET Nat /\ T # {}
  OBVIOUS
<1> HIDE DEF T
<1>2. PICK m \in T : \A k \in T : m <= k
  BY <1>1, LeastNumber
<1> USE DEF T
<1>3. PICK i \in S : m = n - i
  BY <1>2
<1>4. ASSUME NEW j \in S PROVE j <= i
  <2>1. n - j \in T
    OBVIOUS
  <2>2. n - i <= n - j
    BY <1>2, <1>3, <2>1
  <2>3. n \in Nat /\ i \in 1 .. n /\ j \in 1 .. n
    OBVIOUS
  <2> HIDE DEF T
  <2> QED
    BY <2>2, <2>3
<1> QED
  BY <1>3, <1>4

\* Whoever one wallet's own walk finds has it now.
LEMMA CheckLinkedNow ==
    ASSUME Check!Inv, NEW w \in Wallet
    PROVE  Check!LinkedNow(w) # None => Check!Owned(Check!LinkedNow(w), w)
<1> DEFINE owners == {i \in DOMAIN Listed : x1[Listed[i]].wallet = w}
<1>1. Listed \in Seq(Payee) /\ Len(Listed) \in Nat /\ DOMAIN Listed = 1 .. Len(Listed)
  BY SomeListed
<1>2. ASSUME owners # {}
      PROVE  \E i \in owners : Check!LinkedNow(w) = Listed[i]
  <2>1. owners \in SUBSET (1 .. Len(Listed))
    BY <1>1
  <2>2. Check!LinkedNow(w) = Listed[CHOOSE i \in owners : \A j \in owners : j <= i]
    BY <1>2 DEF Check!LinkedNow
  <2> HIDE DEF owners
  <2>3. \E i \in owners : \A j \in owners : j <= i
    BY <1>1, <1>2, <2>1, GreatestNumber
  <2> QED
    BY <2>2, <2>3
<1>3. CASE owners = {}
  BY <1>3 DEF Check!LinkedNow
<1>4. CASE owners # {}
  <2>1. PICK i \in DOMAIN Listed : Check!LinkedNow(w) = Listed[i] /\ x1[Listed[i]].wallet = w
    BY <1>2, <1>4
  <2>2. Listed[i] \in Payee
    BY <1>1, <2>1
  <2> QED
    BY <2>1, <2>2 DEF Check!Inv, Check!Remembered, Check!ProvenNow, Check!Owned
<1> QED
  BY <1>3, <1>4

LEMMA CheckWalletLooked ==
    ASSUME Check!Inv, NEW w \in Wallet, Check!WalletLooked(w)
    PROVE  Check!Inv'
<1>0. /\ Check!Shape /\ Check!Progress /\ Check!Remembered /\ Check!AnswersOnceTrue
      /\ Check!LinksOnceTrue /\ Check!LookedUp /\ Check!PassMeansProven
      /\ x6 \in Check!Report /\ x6.pc = "wallets" /\ w \in x6.todo /\ UNCHANGED <<x1, x2, x4, x5>>
  BY DEF Check!Inv, Check!Shape, Check!WalletLooked, Check!registryVars
<1>1. ASSUME NEW owner \in Payee \cup {None}, NEW erc \in Check!Erc8004Status,
             Check!Look(w, owner, erc), owner # None => Check!Owned(owner, w)
      PROVE  Check!Inv'
  <2>1. PICK statuses : statuses = {erc, IF owner = None THEN "warn" ELSE "pass"}
    OBVIOUS
  <2>2. /\ statuses \subseteq {"pass", "warn", "fail"}
        /\ statuses \subseteq {"pass"} => owner # None
    BY <2>1 DEF Check!Erc8004Status
  <2>3. x6.worst \in {"pass", "warn", "fail"}
    BY <1>0 DEF Check!Report
  <2>4. PICK worst \in {"pass", "warn", "fail"} :
            /\ worst = Check!Worst({x6.worst} \cup statuses)
            /\ worst = "pass" => {x6.worst} \cup statuses \subseteq {"pass"}
    BY <2>2, <2>3, WorstPasses
  <2>5. PICK todo \in SUBSET Wallet : todo = x6.todo \ {w}
    BY <1>0 DEF Check!Report
  <2>6. PICK pc \in {"wallets", "ask"} : pc = IF owner = None THEN "wallets" ELSE "ask"
    OBVIOUS
  <2>7. x6' = [x6 EXCEPT !.todo = todo, !.current = owner, !.pc = pc, !.worst = worst]
    BY <1>0, <1>1, <2>1, <2>4, <2>5, <2>6 DEF Check!Look, Check!Push, Check!Report
  <2>8. /\ x6' \in Check!Report /\ x6'.pc = pc /\ x6'.todo = todo /\ x6'.current = owner
        /\ x6'.worst = worst /\ x6'.linked = x6.linked /\ x6'.page = x6.page
        /\ x6'.kind = x6.kind /\ x6'.did = x6.did /\ x6'.accepts = x6.accepts
        /\ x6'.agent = x6.agent /\ x6'.reputation = x6.reputation /\ x6'.verdict = x6.verdict
    BY <1>0, <2>7 DEF Check!Report
  <2>9. Check!Shape' /\ Check!Remembered' /\ Check!LinksOnceTrue'
    BY <1>0, <2>8 DEF Check!Shape, Check!Remembered, Check!LinksOnceTrue, Check!Owned
  <2>10. Check!Progress' /\ Check!PassMeansProven'
    <3>1. x6.verdict = None /\ None # "pass"
      BY <1>0, ReadersAssumption DEF Check!Progress
    <3> QED
      BY <1>0, <2>6, <2>8, <3>1 DEF Check!Progress, Check!PassMeansProven
  <2>11. Check!AnswersOnceTrue'
    BY <1>0, <2>8 DEF Check!AnswersOnceTrue, Check!Progress
  <2>12. Check!LookedUp'
    <3> SUFFICES ASSUME worst = "pass", NEW v \in (x6.accepts \cap Wallet) \ todo
                 PROVE  Check!Vouched(v)' \/ Check!OwnerAsked(v)'
      BY <2>8 DEF Check!LookedUp
    <3>1. owner # None /\ pc = "ask" /\ x6.worst = "pass"
      BY <2>2, <2>4, <2>6
    <3>2. CASE v = w
      BY <1>0, <1>1, <2>8, <3>1, <3>2 DEF Check!OwnerAsked, Check!Owned, Check!Progress
    <3>3. CASE v # w
      <4>1. Check!Vouched(v)
        BY <1>0, <2>5, <3>1, <3>3 DEF Check!LookedUp, Check!OwnerAsked
      <4> QED
        BY <1>0, <4>1 DEF Check!Vouched, Check!Proven, Check!Verified
    <3> QED
      BY <3>2, <3>3
  <2> QED
    BY <2>9, <2>10, <2>11, <2>12 DEF Check!Inv
<1>2. \E owner \in Payee \cup {None}, erc \in Check!Erc8004Status :
        Check!Look(w, owner, erc) /\ (owner # None => Check!Owned(owner, w))
  <2>1. PICK erc \in Check!Erc8004Status :
            IF x6.linked # None THEN Check!Look(w, x6.linked[w], erc)
            ELSE \/ x6.kind = "url" /\ Check!Look(w, Check!LinkedNow(w), erc)
                 \/ Check!Look(w, None, erc)
    BY DEF Check!WalletLooked
  <2>2. x6.linked # None =>
            /\ x6.linked[w] \in Payee \cup {None}
            /\ x6.linked[w] # None => Check!Owned(x6.linked[w], w)
    BY <1>0 DEF Check!Report, Check!LinksOnceTrue
  <2>3. Check!LinkedNow(w) # None => Check!Owned(Check!LinkedNow(w), w)
    BY CheckLinkedNow
  <2> QED
    BY <2>1, <2>2, <2>3 DEF Check!Owned
<1> QED
  BY <1>1, <1>2

LEMMA CheckAnswers ==
    ASSUME Check!Inv, Check!AgentAnswers \/ Check!ReputationAnswers
    PROVE  Check!Inv'
<1>0. /\ Check!Shape /\ Check!Progress /\ Check!Remembered /\ Check!AnswersOnceTrue
      /\ Check!LinksOnceTrue /\ Check!LookedUp /\ Check!PassMeansProven
      /\ x6 \in Check!Report /\ x6.pc \in {"ask", "extension"} /\ x6.current \in Payee
      /\ UNCHANGED <<x1, x2, x4, x5>>
  BY DEF Check!Inv, Check!Shape, Check!AgentAnswers, Check!ReputationAnswers, Check!registryVars
<1>1. /\ x1[x6.current] \in Check!Row /\ x2[x6.current] \in Check!Appraisal
      /\ x1[x6.current].standing \notin Check!Retired =>
            <<x6.current, x1[x6.current].wallet>> \in x4
      /\ <<x6.current, x2[x6.current]>> \in x5
  BY <1>0 DEF Check!Shape, Check!Remembered, Check!ProvenNow, Check!AppraisedNow
<1>2. PICK a, p :
        /\ a = IF Check!AgentAnswers THEN x1[x6.current] ELSE x6.agent
        /\ p = IF Check!AgentAnswers THEN x6.reputation ELSE x2[x6.current]
  OBVIOUS
<1>3. x6' = [x6 EXCEPT !.agent = a, !.reputation = p]
  BY ZenonT(60), <1>0, <1>2 DEF Check!AgentAnswers, Check!ReputationAnswers, Check!Report
<1>4. a \in Check!Row \cup {None} /\ p \in Check!Appraisal \cup {None}
  BY <1>0, <1>1, <1>2 DEF Check!Report
<1>5. /\ x6' \in Check!Report /\ x6'.agent = a /\ x6'.reputation = p
      /\ x6'.pc = x6.pc /\ x6'.todo = x6.todo /\ x6'.current = x6.current
      /\ x6'.worst = x6.worst /\ x6'.linked = x6.linked /\ x6'.page = x6.page
      /\ x6'.kind = x6.kind /\ x6'.did = x6.did /\ x6'.accepts = x6.accepts
      /\ x6'.verdict = x6.verdict
  BY <1>0, <1>3, <1>4 DEF Check!Report
<1>6. /\ Check!Shape' /\ Check!Progress' /\ Check!Remembered' /\ Check!LinksOnceTrue'
      /\ Check!PassMeansProven'
  BY <1>0, <1>5 DEF Check!Shape, Check!Progress, Check!Remembered, Check!LinksOnceTrue,
     Check!Owned, Check!PassMeansProven, Check!Proven, Check!Verified
<1>7. Check!AnswersOnceTrue'
  BY <1>0, <1>1, <1>2, <1>5 DEF Check!AnswersOnceTrue
<1>8. Check!LookedUp'
  <2>1. ASSUME NEW w, Check!OwnerAsked(w) PROVE Check!OwnerAsked(w)'
    BY <1>0, <1>2, <1>5, <2>1 DEF Check!OwnerAsked, Check!Owned
  <2>2. ASSUME NEW w, Check!Vouched(w) PROVE Check!Vouched(w)'
    BY <1>0, <2>2 DEF Check!Vouched, Check!Proven, Check!Verified
  <2> QED
    BY <1>0, <1>5, <2>1, <2>2 DEF Check!LookedUp
<1> QED
  BY <1>6, <1>7, <1>8 DEF Check!Inv

\* Lookups that are over: what the report must have found to go on passing.
LEMMA CheckForgets ==
    ASSUME Check!Inv, x6.pc \in {"ask", "extension"}, UNCHANGED <<x1, x2, x4, x5>>,
           x6' \in Check!Report, x6'.kind = x6.kind, x6'.did = x6.did, x6'.accepts = x6.accepts,
           x6'.todo = x6.todo, x6'.linked \in {x6.linked, None},
           x6'.agent = None, x6'.reputation = None, x6'.current = None,
           \/ x6'.pc = "wallets" /\ x6'.verdict = None /\ x6.kind # "did"
           \/ x6'.pc = "done" /\ x6'.verdict = x6'.worst,
           x6'.worst = "pass" =>
               /\ x6.worst = "pass"
               /\ \A w \in Wallet : Check!OwnerAsked(w) => Check!Vouched(w),
           x6'.pc = "done" /\ x6'.worst = "pass" =>
               /\ x6.accepts \cap x6.todo = {}
               /\ x6.kind = "url" /\ x6.did # None => Check!Proven(x6.did, x6.accepts)
               /\ x6.kind = "did" =>
                    Check!Proven(x6.did, Wallet \cup {None}) /\ Check!Verified(x6.did)
    PROVE  Check!Inv'
<1>0. /\ Check!Shape /\ Check!Progress /\ Check!Remembered /\ Check!LinksOnceTrue
      /\ Check!LookedUp /\ None # "pass"
  BY ReadersAssumption DEF Check!Inv
<1>1. Check!Shape' /\ Check!Progress' /\ Check!Remembered' /\ Check!AnswersOnceTrue'
  BY <1>0 DEF Check!Shape, Check!Progress, Check!Remembered, Check!AnswersOnceTrue
<1>2. Check!LinksOnceTrue'
  BY <1>0 DEF Check!LinksOnceTrue, Check!Owned
<1>3. x6'.worst = "pass" => \A w \in (x6.accepts \cap Wallet) \ x6.todo : Check!Vouched(w)'
  <2> SUFFICES ASSUME x6'.worst = "pass", NEW w \in (x6.accepts \cap Wallet) \ x6.todo
               PROVE  Check!Vouched(w)'
    OBVIOUS
  <2>1. Check!Vouched(w)
    BY <1>0 DEF Check!LookedUp
  <2> QED
    BY <2>1 DEF Check!Vouched, Check!Proven, Check!Verified
<1>4. Check!LookedUp'
  BY <1>3 DEF Check!LookedUp
<1>5. Check!PassMeansProven'
  <2>1. ASSUME x6'.verdict = "pass" PROVE x6'.pc = "done" /\ x6'.worst = "pass"
    BY <1>0, <2>1
  <2>2. ASSUME x6'.verdict = "pass" PROVE \A w \in x6.accepts \cap Wallet : Check!Vouched(w)'
    BY <1>3, <2>1, <2>2
  <2> QED
    BY <2>1, <2>2 DEF Check!PassMeansProven, Check!Vouched, Check!Proven, Check!Verified
<1> QED
  BY <1>1, <1>2, <1>4, <1>5 DEF Check!Inv

\* The default policy allows only an agent that is not retired and was verified.
LEMMA AllowMeansVerified ==
    ASSUME Check!Inv, x6.agent # None, x6.reputation # None,
           Check!ReputationStatus(x6.agent, x6.reputation) = "pass"
    PROVE  /\ x6.agent.standing \notin Check!Retired /\ Check!Verified(x6.current)
           /\ <<x6.current, x6.agent.wallet>> \in x4
<1>1. /\ x6.reputation \in Check!Appraisal /\ <<x6.current, x6.reputation>> \in x5
      /\ x6.agent.standing \notin Check!Retired => <<x6.current, x6.agent.wallet>> \in x4
  BY DEF Check!Inv, Check!Shape, Check!Report, Check!AnswersOnceTrue
<1>2. Check!DecideTrust(x6.agent, x6.reputation) = "allow"
  BY DEF Check!ReputationStatus
<1>3. /\ x6.agent.standing \notin Check!Retired
      /\ Check!PolicyFailure(x6.reputation, 2, 0) = None
  BY <1>2 DEF Check!DecideTrust
<1>4. x6.reputation.evidence = 2
  <2>1. x6.reputation.evidence \in 0 .. 2
    BY <1>1 DEF Check!Appraisal
  <2>2. None # "evidence"
    BY ReadersAssumption
  <2>3. ~ (x6.reputation.evidence < 2)
    BY <1>3, <2>2 DEF Check!PolicyFailure
  <2> QED
    BY <2>1, <2>3
<1> QED
  BY <1>1, <1>3, <1>4 DEF Check!Verified

LEMMA CheckBothAnswered == ASSUME Check!Inv, Check!BothAnswered PROVE Check!Inv'
<1>0. /\ Check!Progress /\ Check!AnswersOnceTrue /\ x6 \in Check!Report
      /\ x6.pc \in {"ask", "extension"} /\ x6.agent # None /\ x6.reputation # None
      /\ x6.agent \in Check!Row /\ x6.current \in Payee
      /\ UNCHANGED <<x1, x2, x4, x5>>
  BY DEF Check!Inv, Check!Shape, Check!BothAnswered, Check!registryVars, Check!AnswersOnceTrue,
     Check!Report
<1>1. PICK rest : rest = Check!Forget(x6)
  OBVIOUS
<1>2. /\ rest \in Check!Report /\ rest.kind = x6.kind /\ rest.did = x6.did
      /\ rest.accepts = x6.accepts /\ rest.todo = x6.todo /\ rest.linked = x6.linked
      /\ rest.agent = None /\ rest.reputation = None /\ rest.current = None
      /\ rest.pc = "wallets" /\ rest.worst = x6.worst /\ rest.verdict = x6.verdict
      /\ rest.worst \in {"pass", "warn", "fail"}
  BY <1>0, <1>1 DEF Check!Forget, Check!Report
<1>v. x6.verdict = None
  BY <1>0 DEF Check!Progress
<1>3. ASSUME NEW statuses, statuses \subseteq {"pass", "warn", "fail"}
      PROVE  \E worst \in {"pass", "warn", "fail"} :
                /\ Check!Push(rest, statuses) = [rest EXCEPT !.worst = worst]
                /\ worst = "pass" => x6.worst = "pass" /\ statuses \subseteq {"pass"}
  <2>s. PICK S : S = {rest.worst} \cup statuses
    OBVIOUS
  <2>0. S \subseteq {"pass", "warn", "fail"}
    BY <1>2, <1>3, <2>s
  <2>1. PICK worst \in {"pass", "warn", "fail"} :
            worst = Check!Worst(S) /\ (worst = "pass" => S \subseteq {"pass"})
    BY <2>0, WorstPasses
  <2>2. Check!Push(rest, statuses) = [rest EXCEPT !.worst = worst]
    BY <1>2, <2>s, <2>1 DEF Check!Push, Check!Report
  <2>3. worst = "pass" => x6.worst = "pass" /\ statuses \subseteq {"pass"}
    BY <1>2, <2>s, <2>1
  <2> QED
    BY <2>2, <2>3
<1>4. PICK rated : rated = Check!ReputationStatus(x6.agent, x6.reputation)
  OBVIOUS
<1>5. /\ rated \in {"pass", "warn", "fail"}
      /\ rated = "pass" =>
            /\ Check!Verified(x6.current)
            /\ \A w \in Wallet : Check!OwnerAsked(w) => Check!Vouched(w)
  <2>1. rated \in {"pass", "warn", "fail"}
    BY <1>4 DEF Check!ReputationStatus
  <2>2. rated = "pass" => x6.agent.standing \notin Check!Retired /\ Check!Verified(x6.current)
    BY <1>0, <1>4, AllowMeansVerified
  <2>3. ASSUME rated = "pass", NEW w \in Wallet, Check!OwnerAsked(w) PROVE Check!Vouched(w)
    BY <1>0, <2>2, <2>3 DEF Check!OwnerAsked, Check!Owned, Check!Vouched, Check!Proven
  <2> QED
    BY <2>1, <2>2, <2>3
<1>6. ASSUME NEW statuses, statuses \subseteq {"pass", "warn", "fail"},
             x6' = Check!Finish(Check!Push(rest, statuses)),
             x6.worst = "pass" /\ statuses \subseteq {"pass"} =>
               /\ \A w \in Wallet : Check!OwnerAsked(w) => Check!Vouched(w)
               /\ x6.accepts \cap x6.todo = {}
               /\ x6.kind = "url" /\ x6.did # None => Check!Proven(x6.did, x6.accepts)
               /\ x6.kind = "did" =>
                    Check!Proven(x6.did, Wallet \cup {None}) /\ Check!Verified(x6.did)
      PROVE  Check!Inv'
  <2>1. PICK worst \in {"pass", "warn", "fail"} :
            /\ Check!Push(rest, statuses) = [rest EXCEPT !.worst = worst]
            /\ worst = "pass" => x6.worst = "pass" /\ statuses \subseteq {"pass"}
    BY <1>3, <1>6
  <2>2. x6' = [rest EXCEPT !.worst = worst, !.pc = "done", !.linked = None, !.verdict = worst]
    BY <1>2, <1>6, <2>1 DEF Check!Finish, Check!Report
  <2>3. /\ x6' \in Check!Report /\ x6'.kind = x6.kind /\ x6'.did = x6.did
        /\ x6'.accepts = x6.accepts /\ x6'.todo = x6.todo /\ x6'.linked = None
        /\ x6'.agent = None /\ x6'.reputation = None /\ x6'.current = None
        /\ x6'.pc = "done" /\ x6'.worst = worst /\ x6'.verdict = worst
    BY <1>2, <2>2 DEF Check!Report
  <2> QED
    BY <1>0, <1>6, <2>1, <2>3, CheckForgets
<1>7. CASE x6.kind = "did"
  <2>1. PICK erc \in Check!WalletStatus(x6.agent) :
            x6' = Check!Finish(Check!Push(rest, {Check!AgentStatus(x6.agent), rated, erc}))
    BY <1>0, <1>1, <1>4, <1>7 DEF Check!BothAnswered, Check!Progress
  <2>2. PICK statuses : statuses = {Check!AgentStatus(x6.agent), rated, erc}
    OBVIOUS
  <2>3. statuses \subseteq {"pass", "warn", "fail"}
    BY <1>5, <2>1, <2>2 DEF Check!AgentStatus, Check!WalletStatus, Check!Erc8004Status
  <2>4. x6.current = x6.did /\ x6.accepts = {}
    BY <1>0, <1>7 DEF Check!Progress
  <2>5. ASSUME statuses \subseteq {"pass"}
        PROVE  Check!Proven(x6.did, Wallet \cup {None}) /\ Check!Verified(x6.did)
    <3>1. rated = "pass" /\ Check!ReputationStatus(x6.agent, x6.reputation) = "pass"
      BY <1>4, <2>2, <2>5
    <3>2. <<x6.current, x6.agent.wallet>> \in x4 /\ Check!Verified(x6.current)
      BY <1>0, <3>1, AllowMeansVerified
    <3>3. x6.agent.wallet \in Wallet \cup {None}
      BY <1>0 DEF Check!Row
    <3> QED
      BY <2>4, <3>2, <3>3 DEF Check!Proven
  <2>6. ASSUME statuses \subseteq {"pass"}
        PROVE  \A w \in Wallet : Check!OwnerAsked(w) => Check!Vouched(w)
    BY <1>7 DEF Check!OwnerAsked
  <2> QED
    BY <1>6, <1>7, <2>1, <2>2, <2>3, <2>4, <2>5, <2>6
<1>8. CASE x6.pc = "extension"
  <2>1. PICK statuses : statuses = {Check!ExtensionStatus(x6.agent, x6.reputation)} \cup
                                   (IF x6.rated THEN {} ELSE {rated})
    OBVIOUS
  <2>2. x6.kind # "did" /\ x6.current = x6.did /\ x6.todo = {}
    BY <1>0, <1>8 DEF Check!Progress
  <2>3. x6' = Check!Finish(Check!Push(rest, statuses))
    BY <1>1, <1>4, <1>8, <2>1, <2>2 DEF Check!BothAnswered
  <2>4. statuses \subseteq {"pass", "warn", "fail"}
    BY <1>5, <2>1 DEF Check!ExtensionStatus
  <2>5. ASSUME statuses \subseteq {"pass"} PROVE Check!Proven(x6.did, x6.accepts)
    <3>1. Check!DecideX402(x6.agent, x6.reputation, x6.accepts, 0, 0) = None
      BY <2>1, <2>5 DEF Check!ExtensionStatus
    <3>2. x6.agent.standing \notin Check!Retired /\ x6.agent.wallet \in x6.accepts
      BY <3>1, ReadersAssumption DEF Check!DecideX402, Check!Retired
    <3> QED
      BY <1>0, <2>2, <3>2 DEF Check!AnswersOnceTrue, Check!Proven
  <2>6. \A w \in Wallet : ~ Check!OwnerAsked(w)
    BY <1>8 DEF Check!OwnerAsked
  <2> QED
    BY <1>6, <2>2, <2>3, <2>4, <2>5, <2>6
<1>9. CASE x6.kind # "did" /\ x6.pc = "ask"
  <2>1. x6' = [Check!Push(rest, {rated}) EXCEPT !.rated = TRUE]
    BY <1>1, <1>4, <1>9 DEF Check!BothAnswered
  <2>2. PICK worst \in {"pass", "warn", "fail"} :
            /\ Check!Push(rest, {rated}) = [rest EXCEPT !.worst = worst]
            /\ worst = "pass" => x6.worst = "pass" /\ {rated} \subseteq {"pass"}
    BY <1>3, <1>5
  <2>3. x6' = [rest EXCEPT !.worst = worst, !.rated = TRUE]
    BY <1>2, <2>1, <2>2 DEF Check!Report
  <2>4. /\ x6' \in Check!Report /\ x6'.kind = x6.kind /\ x6'.did = x6.did
        /\ x6'.accepts = x6.accepts /\ x6'.todo = x6.todo /\ x6'.linked = x6.linked
        /\ x6'.agent = None /\ x6'.reputation = None /\ x6'.current = None
        /\ x6'.pc = "wallets" /\ x6'.worst = worst /\ x6'.verdict = None
    BY <1>2, <1>v, <2>3 DEF Check!Report
  <2> QED
    BY <1>0, <1>5, <1>9, <2>2, <2>4, CheckForgets
<1> QED
  BY <1>0, <1>7, <1>8, <1>9

LEMMA CheckLookupMisses == ASSUME Check!Inv, Check!LookupMisses PROVE Check!Inv'
<1>0. /\ Check!Progress /\ x6 \in Check!Report /\ x6.pc \in {"ask", "extension"}
      /\ UNCHANGED <<x1, x2, x4, x5>> /\ x6.verdict = None
  BY DEF Check!Inv, Check!Shape, Check!LookupMisses, Check!registryVars, Check!Progress
<1>1. PICK forgot : forgot = Check!Forget(x6)
  OBVIOUS
<1>2. /\ forgot \in Check!Report /\ forgot.kind = x6.kind /\ forgot.did = x6.did
      /\ forgot.accepts = x6.accepts /\ forgot.todo = x6.todo /\ forgot.linked = x6.linked
      /\ forgot.agent = None /\ forgot.reputation = None /\ forgot.current = None
      /\ forgot.pc = "wallets" /\ forgot.verdict = None
      /\ forgot.worst \in {"pass", "warn", "fail"}
  BY ZenonT(60), <1>0, <1>1 DEF Check!Forget, Check!Report
<1>3. PICK outcome \in {"down", "unknown"} :
        x6' = LET rest == Check!Push(forgot, Check!MissStatus(outcome)) IN
              IF x6.kind = "did" \/ x6.pc = "extension" THEN Check!Finish(rest)
              ELSE [rest EXCEPT !.rated = TRUE]
  BY <1>1 DEF Check!LookupMisses
<1>4. PICK worst \in {"warn", "fail"} :
        Check!Push(forgot, Check!MissStatus(outcome)) = [forgot EXCEPT !.worst = worst]
  <2>1. PICK worst : worst = Check!Worst({forgot.worst} \cup Check!MissStatus(outcome))
    OBVIOUS
  <2>2. worst \in {"warn", "fail"}
    BY <2>1 DEF Check!Worst, Check!MissStatus
  <2>3. Check!Push(forgot, Check!MissStatus(outcome)) = [forgot EXCEPT !.worst = worst]
    BY <1>2, <2>1 DEF Check!Push, Check!Report
  <2> QED
    BY <2>2, <2>3
<1>5. CASE x6.kind = "did" \/ x6.pc = "extension"
  <2>1. x6' = [forgot EXCEPT !.worst = worst, !.pc = "done", !.linked = None, !.verdict = worst]
    BY <1>2, <1>3, <1>4, <1>5 DEF Check!Finish, Check!Report
  <2>2. /\ x6' \in Check!Report /\ x6'.kind = x6.kind /\ x6'.did = x6.did
        /\ x6'.accepts = x6.accepts /\ x6'.todo = x6.todo /\ x6'.linked = None
        /\ x6'.agent = None /\ x6'.reputation = None /\ x6'.current = None
        /\ x6'.pc = "done" /\ x6'.worst = worst /\ x6'.verdict = worst
    BY <1>2, <2>1 DEF Check!Report
  <2> QED
    BY <1>0, <2>2, CheckForgets
<1>6. CASE ~ (x6.kind = "did" \/ x6.pc = "extension")
  <2>1. x6' = [forgot EXCEPT !.worst = worst, !.rated = TRUE]
    BY <1>2, <1>3, <1>4, <1>6 DEF Check!Report
  <2>2. /\ x6' \in Check!Report /\ x6'.kind = x6.kind /\ x6'.did = x6.did
        /\ x6'.accepts = x6.accepts /\ x6'.todo = x6.todo /\ x6'.linked = x6.linked
        /\ x6'.agent = None /\ x6'.reputation = None /\ x6'.current = None
        /\ x6'.pc = "wallets" /\ x6'.worst = worst /\ x6'.verdict = None
    BY <1>2, <2>1 DEF Check!Report
  <2> QED
    BY <1>0, <1>6, <2>2, CheckForgets
<1> QED
  BY <1>5, <1>6

LEMMA CheckWalletsDone == ASSUME Check!Inv, Check!WalletsDone PROVE Check!Inv'
<1>0. /\ Check!Shape /\ Check!Progress /\ Check!Remembered /\ Check!AnswersOnceTrue
      /\ Check!LinksOnceTrue /\ Check!LookedUp /\ x6 \in Check!Report /\ x6.pc = "wallets"
      /\ x6.todo = {} /\ UNCHANGED <<x1, x2, x4, x5>> /\ x6.verdict = None /\ x6.kind # "did"
      /\ x6.agent = None /\ x6.reputation = None
  BY DEF Check!Inv, Check!Shape, Check!WalletsDone, Check!registryVars, Check!Progress
<1>1. x6.worst = "pass" => \A w \in x6.accepts \cap Wallet : Check!Vouched(w)
  BY <1>0 DEF Check!LookedUp, Check!OwnerAsked
<1>2. PICK pc \in {"done", "extension"}, current \in Payee \cup {Unknown, None},
           verdict \in {x6.worst, None} :
        /\ x6' = [x6 EXCEPT !.pc = pc, !.linked = None, !.current = current, !.verdict = verdict]
        /\ x6.did = None => pc = "done"
        /\ x6.did # None => pc = "extension" /\ current = x6.did /\ verdict = None
  <2>1. CASE x6.did = None
    <3>1. x6' = [x6 EXCEPT !.pc = "done", !.linked = None, !.current = x6.current,
                           !.verdict = x6.worst]
      BY <1>0, <2>1 DEF Check!WalletsDone, Check!Finish, Check!Report
    <3> QED
      BY <1>0, <2>1, <3>1 DEF Check!Report
  <2>2. CASE x6.did # None
    <3>1. x6' = [x6 EXCEPT !.pc = "extension", !.linked = None, !.current = x6.did,
                           !.verdict = None]
      BY <1>0, <2>2 DEF Check!WalletsDone, Check!Report
    <3> QED
      BY <1>0, <2>2, <3>1 DEF Check!Report
  <2> QED
    BY <2>1, <2>2
<1>3. /\ x6' \in Check!Report /\ x6'.pc = pc /\ x6'.todo = {} /\ x6'.current = current
      /\ x6'.worst = x6.worst /\ x6'.linked = None /\ x6'.page = x6.page
      /\ x6'.kind = x6.kind /\ x6'.did = x6.did /\ x6'.accepts = x6.accepts
      /\ x6'.agent = None /\ x6'.reputation = None /\ x6'.verdict = verdict
  BY <1>0, <1>2 DEF Check!Report
<1>4. Check!Shape' /\ Check!Remembered' /\ Check!AnswersOnceTrue' /\ Check!LinksOnceTrue'
  BY <1>0, <1>3 DEF Check!Shape, Check!Remembered, Check!AnswersOnceTrue, Check!LinksOnceTrue
<1>5. Check!Progress'
  BY <1>0, <1>2, <1>3 DEF Check!Progress
<1>6. x6.worst = "pass" => \A w \in x6.accepts \cap Wallet : Check!Vouched(w)'
  BY <1>0, <1>1 DEF Check!Vouched, Check!Proven, Check!Verified
<1>7. Check!LookedUp'
  BY <1>3, <1>6 DEF Check!LookedUp
<1>8. Check!PassMeansProven'
  <2>1. None # "pass"
    BY ReadersAssumption
  <2>2. ASSUME verdict = "pass" PROVE x6.worst = "pass" /\ x6.did = None
    BY <1>2, <2>1, <2>2
  <2>3. x6.worst = "pass" => \A w \in x6.accepts \cap Wallet : \E d \in Payee :
                                (Check!Proven(d, {w}) /\ Check!Verified(d))'
    BY <1>6 DEF Check!Vouched
  <2> QED
    BY <1>0, <1>3, <2>2, <2>3 DEF Check!PassMeansProven
<1> QED
  BY <1>4, <1>5, <1>7, <1>8 DEF Check!Inv

LEMMA CheckNext ==
    ASSUME Check!Inv, [Check!Next]_(Check!vars)
    PROVE  Check!Inv'
<1>1. CASE UNCHANGED Check!vars
  <2>1. UNCHANGED <<x1, x2, x4, x5, x6>>
    BY <1>1 DEF Check!vars, Check!registryVars
  <2>2. Check!Shape' /\ Check!Remembered'
    BY <2>1 DEF Check!Inv, Check!Shape, Check!Remembered
  <2> QED
    BY <2>1, <2>2, CheckHistory DEF Check!Inv
<1>2. CASE Check!Next
  BY <1>2, CheckUrlInv, CheckOthers, CheckWalks, CheckWalletLooked, CheckAnswers,
     CheckBothAnswered, CheckLookupMisses, CheckWalletsDone, CheckRegistry DEF Check!Next
<1> QED
  BY <1>1, <1>2

(* A check passes only if every address that may be paid was proven by an  *)
(* independently verified agent and the agent named or checked was not     *)
(* retired, each at some moment of the check: for any number of agents,    *)
(* wallets and changes of the registry between the lookups                 *)
(* (agentAndReputation, walletInam, checkUrl, checkDid).                   *)
THEOREM PassMeansProvenCorrect == Spec => []PassMeansProven
<1> DEFINE I == part = "check" => Check!Inv
<1>1. Init => I
  BY CheckInit DEF Init
<1>2. I /\ [Next]_vars => I'
  BY OnePart, CheckNext
<1>3. I => PassMeansProven
  BY DEF PassMeansProven, Check!Inv
<1> QED
  BY <1>1, <1>2, <1>3, PTL DEF Spec

-----------------------------------------------------------------------------
(* The explorer's tab. *)

LEMMA TabInit == Tab!Init => Tab!Inv
<1> SUFFICES ASSUME Tab!Init PROVE Tab!Inv
  OBVIOUS
<1>1. Tab!Shape
  BY DEF Tab!Init, Tab!Shape, Tab!Lookup
<1>2. Tab!LoadsOfPage /\ Tab!BodyShowsPage /\ Tab!RowsTrue /\ Tab!BodyFilled /\ Tab!FormWired
  BY DEF Tab!Init, Tab!LoadsOfPage, Tab!BodyShowsPage, Tab!RowsTrue, Tab!BodyFilled,
     Tab!FormWired, Tab!NoElement, Tab!Spinner, Tab!Content, Tab!Detail, Tab!Search
<1>3. Tab!PanelsFilled
  BY DEF Tab!Init, Tab!PanelsFilled, Tab!NoElement, Tab!Spinner, Tab!Content
<1> QED
  BY <1>1, <1>2, <1>3 DEF Tab!Inv

LEMMA TabContents ==
    /\ Tab!Spinner # Tab!NoElement
    /\ Tab!Spinner.kind \notin Tab!Detail \cup {"tiles", "rows", "error", "stalled"}
    /\ Tab!NoElement.kind \notin Tab!Detail \cup {"tiles", "rows", "error", "stalled"}
    /\ Tab!Detail \cap Tab!PanelName = {} /\ Tab!Search \cap Tab!PanelName = {}
    /\ \A kind, of : /\ Tab!Content(kind, of).kind = kind /\ Tab!Content(kind, of).of = of
                     /\ kind # "loading" => Tab!Content(kind, of) # Tab!Spinner
BY DEF Tab!Spinner, Tab!NoElement, Tab!Content, Tab!Detail, Tab!Search, Tab!PanelName

\* A page that begins: whatever was in flight belongs to a page before it.
LEMMA TabRoute ==
    ASSUME Tab!Inv, NEW view, NEW id, NEW content, NEW label, NEW started,
           Tab!Route(view, id, content, label, started),
           content \in {Tab!Spinner, Tab!NoElement},
           \A l \in started :
               /\ l = [what |-> l.what, of |-> l.of, nav |-> l.nav, rows |-> l.rows,
                       serial |-> l.serial]
               /\ l.what \in Tab!Main /\ l.nav = x1 + 1 /\ l.rows = <<>>
               /\ l.what \in Tab!Detail => view = l.what /\ id = l.of
               /\ l.what \in Tab!Search => view = l.what
               /\ l.what \in {"entries", "rows"} => view = "activity"
               /\ l.what \in {"registry", "external"} => view = "stats",
           content = Tab!Spinner => started # {}
    PROVE  Tab!Inv'
<1>0. /\ x1' = x1 + 1 /\ x2' = [view |-> view, id |-> id] /\ x3' = content
      /\ x4' = [p \in Tab!PanelName |-> Tab!NoElement] /\ x9' = x9 \cup started
      /\ UNCHANGED <<x10, x11>>
  BY DEF Tab!Route, Tab!Shown, Tab!viewerVars
<1>s. /\ x1 \in Nat /\ x11 \in Seq(Payee) /\ x10 \in [Payee -> Tab!Lookup] /\ Len(x11) \in Nat
      /\ \A l \in x9 : Tab!Loaded(l)
  BY DEF Tab!Inv, Tab!Shape
<1>1. \A l \in x9 : Tab!Loaded(l)' /\ l.nav # x1 + 1
  <2> SUFFICES ASSUME NEW l \in x9 PROVE Tab!Loaded(l)' /\ l.nav # x1 + 1
    OBVIOUS
  <2>1. l.nav \in Nat /\ l.nav <= x1
    BY <1>s DEF Tab!Loaded
  <2>2. l.nav <= x1 + 1 /\ l.nav # x1 + 1
    BY <1>s, <2>1
  <2> QED
    BY <1>0, <1>s, <2>2 DEF Tab!Loaded
<1>2. \A l \in started : Tab!Loaded(l)'
  <2> SUFFICES ASSUME NEW l \in started PROVE Tab!Loaded(l)'
    OBVIOUS
  <2>0. <<>> \in Seq(Tab!RowState) /\ Len(<<>>) = 0
    OBVIOUS
  <2>r. l.rows = <<>>
    OBVIOUS
  <2>n. Len(x11) \in Nat
    BY <1>s
  <2>1. l.rows \in Seq(Tab!RowState) /\ Len(l.rows) <= Len(x11)
    <3>1. 0 <= Len(x11)
      BY <2>n
    <3> QED
      BY <2>0, <2>r, <3>1
  <2>2. l.nav \in Nat /\ l.nav <= x1'
    BY <1>0, <1>s
  <2> QED
    BY <1>0, <2>1, <2>2 DEF Tab!Loaded
<1>3. Tab!Shape'
  BY <1>0, <1>s, <1>1, <1>2 DEF Tab!Shape
<1>4. Tab!LoadsOfPage'
  BY <1>0, <1>1 DEF Tab!LoadsOfPage, Tab!OfPage
<1>5. Tab!BodyShowsPage' /\ Tab!RowsTrue' /\ Tab!FormWired' /\ Tab!PanelsFilled'
  BY <1>0, TabContents DEF Tab!BodyShowsPage, Tab!RowsTrue, Tab!FormWired, Tab!PanelsFilled
<1>6. Tab!BodyFilled'
  <2>1. \A l \in started : l.what \notin Tab!PanelName
    BY DEF Tab!Main, Tab!Detail, Tab!Search, Tab!PanelName
  <2> QED
    BY <1>0, <2>1 DEF Tab!BodyFilled
<1> QED
  BY <1>3, <1>4, <1>5, <1>6 DEF Tab!Inv

LEMMA TabRoutes ==
    ASSUME Tab!Inv,
           \/ \E v \in Tab!Detail, i \in Id : Tab!RenderDetail(v, i)
           \/ \E v \in Tab!Search : Tab!RenderSearch(v)
           \/ Tab!RenderActivity \/ Tab!RenderLookup \/ Tab!RenderStats
    PROVE  Tab!Inv'
<1>m. /\ Tab!Detail \subseteq Tab!Main /\ Tab!Search \subseteq Tab!Main
      /\ {"entries", "registry", "external"} \subseteq Tab!Main
      /\ Tab!Detail \cap Tab!Search = {}
      /\ {"entries", "rows", "registry", "external"} \cap (Tab!Detail \cup Tab!Search) = {}
  BY DEF Tab!Main, Tab!Detail, Tab!Search
<1>1. ASSUME NEW view, NEW id, NEW what \in Tab!Main, NEW of, NEW label,
             NEW started, started = {Tab!Load(what, of, x1 + 1)},
             Tab!Route(view, id, Tab!Spinner, label, started),
             /\ what \in Tab!Detail => view = what /\ id = of
             /\ what \in Tab!Search => view = what
             /\ what \in {"entries", "rows"} => view = "activity"
             /\ what \in {"registry", "external"} => view = "stats"
      PROVE  Tab!Inv'
  <2>1. PICK l : l = Tab!Load(what, of, x1 + 1)
    OBVIOUS
  <2>2. /\ l = [what |-> l.what, of |-> l.of, nav |-> l.nav, rows |-> l.rows,
                serial |-> l.serial]
        /\ l.what = what /\ l.nav = x1 + 1 /\ l.rows = <<>> /\ l.of = of
    BY <2>1 DEF Tab!Load
  <2>3. started = {l}
    BY <1>1, <2>1
  <2>4. \A m \in started :
            /\ m = [what |-> m.what, of |-> m.of, nav |-> m.nav, rows |-> m.rows,
                    serial |-> m.serial]
            /\ m.what \in Tab!Main /\ m.nav = x1 + 1 /\ m.rows = <<>>
            /\ m.what \in Tab!Detail => view = m.what /\ id = m.of
            /\ m.what \in Tab!Search => view = m.what
            /\ m.what \in {"entries", "rows"} => view = "activity"
            /\ m.what \in {"registry", "external"} => view = "stats"
    <3>1. /\ l.what \in Tab!Main /\ (l.what \in Tab!Detail => view = l.what /\ id = l.of)
          /\ (l.what \in Tab!Search => view = l.what)
          /\ (l.what \in {"entries", "rows"} => view = "activity")
          /\ (l.what \in {"registry", "external"} => view = "stats")
      BY <1>1, <2>2
    <3> QED
      BY <2>2, <2>3, <3>1
  <2>5. started # {}
    BY <2>3
  <2> QED
    BY <1>1, <2>4, <2>5, TabRoute
<1>2. ASSUME NEW v \in Tab!Detail, NEW i \in Id, Tab!RenderDetail(v, i) PROVE Tab!Inv'
  <2>1. PICK started : started = {Tab!Load(v, i, x1 + 1)}
    OBVIOUS
  <2>2. Tab!Route(v, i, Tab!Spinner, Tab!NoElement, started)
    BY <1>2, <2>1 DEF Tab!RenderDetail
  <2> QED
    BY <1>m, <1>1, <2>1, <2>2
<1>3. ASSUME NEW v \in Tab!Search, Tab!RenderSearch(v) PROVE Tab!Inv'
  <2>1. PICK started : started = {Tab!Load(v, None, x1 + 1)}
    OBVIOUS
  <2>2. Tab!Route(v, None, Tab!Spinner, Tab!NoElement, started)
    BY <1>3, <2>1 DEF Tab!RenderSearch
  <2> QED
    BY <1>m, <1>1, <2>1, <2>2
<1>4. CASE Tab!RenderActivity
  <2>1. PICK started : started = {Tab!Load("entries", None, x1 + 1)}
    OBVIOUS
  <2>2. Tab!Route("activity", None, Tab!Spinner, Tab!NoElement, started)
    BY <1>4, <2>1 DEF Tab!RenderActivity
  <2> QED
    BY <1>m, <1>1, <2>1, <2>2
<1>5. CASE Tab!RenderLookup
  <2>1. Tab!Route("lookup", None, Tab!NoElement, Tab!NoElement, {})
    BY <1>5 DEF Tab!RenderLookup
  <2> QED
    BY <2>1, TabRoute, TabContents
<1>6. CASE Tab!RenderStats
  <2>1. CASE x8 = None
    <3>1. PICK of : of = <<x1 + 1, 0>>
      OBVIOUS
    <3>2. PICK started : started = {Tab!Load("registry", of, x1 + 1)}
      OBVIOUS
    <3>3. Tab!Route("stats", None, Tab!Spinner, Tab!Spinner, started)
      BY <1>6, <2>1, <3>1, <3>2 DEF Tab!RenderStats
    <3> QED
      BY <1>m, <1>1, <3>2, <3>3
  <2>2. CASE x8 # None
    <3>1. PICK of, label : of = x8 /\ label = Tab!Content("label", x8)
      OBVIOUS
    <3>2. PICK started : started = {Tab!Load("external", of, x1 + 1)}
      OBVIOUS
    <3>3. Tab!Route("stats", None, Tab!Spinner, label, started)
      BY <1>6, <2>2, <3>1, <3>2 DEF Tab!RenderStats
    <3> QED
      BY <1>m, <1>1, <3>2, <3>3
  <2> QED
    BY <2>1, <2>2
<1> QED
  BY <1>2, <1>3, <1>4, <1>5, <1>6

\* A request answered: its element is written if it is still in the document,
\* and the requests that follow it belong to the same page.
LEMMA TabArrives ==
    ASSUME Tab!Inv, NEW l \in x9, NEW new, x9' = (x9 \ {l}) \cup new,
           UNCHANGED <<x1, x2, x11>>,
           \A m \in new : Tab!Loaded(m) /\ m.nav = l.nav /\ (Tab!OfPage(l) => Tab!OfPage(m)),
           x10' \in [Payee -> Tab!Lookup],
           \A a \in Payee : x10[a] = "failed" => x10'[a] = "failed",
           \/ x3' = x3 /\ (x5' = x5 \/ x5' = "wired")
           \/ /\ l.nav = x1 /\ x3' # Tab!Spinner
              /\ Tab!BodyShowsPage' /\ Tab!RowsTrue' /\ Tab!FormWired',
           \/ x3' # Tab!Spinner
           \/ l.what \in Tab!PanelName
           \/ l.nav # x1
           \/ \E m \in new : m.what \notin Tab!PanelName,
           x4' = [p \in Tab!PanelName |-> x4'[p]],
           \A p \in Tab!PanelName : x4'[p] = Tab!Spinner =>
               \/ x4[p] = Tab!Spinner /\ l.what # p
               \/ l.nav = x1 /\ \E m \in new : m.what = p
    PROVE  Tab!Inv'
<1>s. /\ Tab!Shape /\ Tab!LoadsOfPage /\ Tab!BodyShowsPage /\ Tab!RowsTrue /\ Tab!BodyFilled
      /\ Tab!PanelsFilled /\ Tab!FormWired
  BY DEF Tab!Inv
<1>1. Tab!Shape'
  BY <1>s DEF Tab!Shape, Tab!Loaded
<1>2. Tab!LoadsOfPage'
  BY <1>s DEF Tab!LoadsOfPage, Tab!OfPage
<1>3. Tab!BodyShowsPage' /\ Tab!FormWired'
  BY <1>s DEF Tab!BodyShowsPage, Tab!FormWired
<1>4. Tab!RowsTrue'
  <2>1. x11 \in Seq(Payee)
    BY <1>s DEF Tab!Shape
  <2> QED
    BY <1>s, <2>1 DEF Tab!RowsTrue
<1>5. Tab!BodyFilled'
  <2> SUFFICES ASSUME x3' = Tab!Spinner
               PROVE  \E m \in x9' : m.nav = x1 /\ m.what \notin Tab!PanelName
    BY DEF Tab!BodyFilled, Tab!Spinner, Tab!Content
  <2>1. x3' = x3
    OBVIOUS
  <2>2. PICK m \in x9 : m.nav = x1 /\ m.what \notin Tab!PanelName
    BY <1>s, <2>1 DEF Tab!BodyFilled
  <2> QED
    BY <2>1, <2>2
<1>6. Tab!PanelsFilled'
  <2> SUFFICES ASSUME NEW p \in Tab!PanelName, x4'[p] = Tab!Spinner
               PROVE  \E m \in x9' : m.nav = x1 /\ m.what = p
    BY DEF Tab!PanelsFilled, Tab!Spinner, Tab!Content
  <2>1. CASE x4[p] = Tab!Spinner /\ l.what # p
    BY <1>s, <2>1 DEF Tab!PanelsFilled
  <2>2. CASE l.nav = x1 /\ \E m \in new : m.what = p
    BY <2>2
  <2> QED
    BY <2>1, <2>2
<1> QED
  BY <1>1, <1>2, <1>3, <1>4, <1>5, <1>6 DEF Tab!Inv

\* The last of its answers.
LEMMA TabEnds ==
    ASSUME Tab!Inv, NEW l \in x9, x9' = x9 \ {l}, UNCHANGED <<x1, x2, x10, x11>>,
           \/ x3' = x3 /\ (l.nav # x1 \/ l.what \in Tab!PanelName) /\ (x5' = x5 \/ x5' = "wired")
           \/ /\ l.nav = x1 /\ x3' # Tab!Spinner
              /\ Tab!BodyShowsPage' /\ Tab!RowsTrue' /\ Tab!FormWired',
           x4' = [p \in Tab!PanelName |-> x4'[p]],
           \A p \in Tab!PanelName : x4'[p] = Tab!Spinner => x4[p] = Tab!Spinner /\ l.what # p
    PROVE  Tab!Inv'
<1>1. PICK new : new = {}
  OBVIOUS
<1>2. x9' = (x9 \ {l}) \cup new
  BY <1>1
<1>3. \A m \in new : Tab!Loaded(m) /\ m.nav = l.nav /\ (Tab!OfPage(l) => Tab!OfPage(m))
  BY <1>1
<1>4. /\ x10' \in [Payee -> Tab!Lookup]
      /\ \A a \in Payee : x10[a] = "failed" => x10'[a] = "failed"
  BY DEF Tab!Inv, Tab!Shape
<1>5. \/ x3' = x3 /\ (x5' = x5 \/ x5' = "wired")
      \/ /\ l.nav = x1 /\ x3' # Tab!Spinner
         /\ Tab!BodyShowsPage' /\ Tab!RowsTrue' /\ Tab!FormWired'
  OBVIOUS
<1>6. x3' # Tab!Spinner \/ l.what \in Tab!PanelName \/ l.nav # x1
  OBVIOUS
<1> QED
  BY <1>2, <1>3, <1>4, <1>5, <1>6, TabArrives

LEMMA TabLoad ==
    ASSUME Tab!Inv, NEW l \in x9
    PROVE  /\ Tab!Loaded(l) /\ (l.nav = x1 => Tab!OfPage(l))
           /\ x10 \in [Payee -> Tab!Lookup] /\ x11 \in Seq(Payee)
           /\ x4 = [p \in Tab!PanelName |-> x4[p]]
           /\ Tab!PanelName \cap Tab!Main = {}
BY DEF Tab!Inv, Tab!Shape, Tab!LoadsOfPage, Tab!PanelName, Tab!Main, Tab!Detail, Tab!Search

\* What is written into the body is of the page it is written into.
LEMMA TabWrite ==
    ASSUME Tab!Inv, NEW l \in x9, NEW kind, NEW of, Tab!Write(l, Tab!Content(kind, of)),
           UNCHANGED <<x1, x2>>, kind # "loading",
           l.nav = x1 =>
               /\ kind \in Tab!Detail => x2.view = kind /\ x2.id = of
               /\ kind = "stalled" => x2.view \in Tab!Detail /\ x2.id = of
               /\ kind = "tiles" => x2.view = "stats"
               /\ kind = "rows" => x2.view \in Tab!Search \cup {"activity"}
               /\ kind = "rows" /\ x2.view = "activity" => Tab!RowsTrue'
               /\ kind \in {"rows", "error"} /\ x2.view \in Tab!Search => x5' = "wired"
    PROVE  \/ x3' = x3 /\ l.nav # x1
           \/ /\ l.nav = x1 /\ x3' # Tab!Spinner
              /\ Tab!BodyShowsPage' /\ Tab!RowsTrue' /\ Tab!FormWired'
<1>1. CASE l.nav # x1
  BY <1>1 DEF Tab!Write, Tab!Captured
<1>2. CASE l.nav = x1
  <2>1. x3' = Tab!Content(kind, of)
    BY <1>2 DEF Tab!Write, Tab!Captured
  <2>2. x3'.kind = kind /\ x3'.of = of /\ x3' # Tab!Spinner
    BY <2>1, TabContents
  <2>3. Tab!BodyShowsPage' /\ Tab!FormWired'
    BY <1>2, <2>2 DEF Tab!BodyShowsPage, Tab!FormWired
  <2>4. Tab!RowsTrue'
    <3>1. ~ (kind = "rows" /\ x2.view = "activity") => Tab!RowsTrue'
      BY <2>2 DEF Tab!RowsTrue
    <3> QED
      BY <1>2, <3>1
  <2> QED
    BY <1>2, <2>2, <2>3, <2>4
<1> QED
  BY <1>1, <1>2

LEMMA TabDetail == ASSUME Tab!Inv, NEW l \in x9, Tab!DetailArrives(l) PROVE Tab!Inv'
<1>0. /\ Tab!Loaded(l) /\ (l.nav = x1 => Tab!OfPage(l))
      /\ x10 \in [Payee -> Tab!Lookup] /\ x4 = [p \in Tab!PanelName |-> x4[p]]
      /\ l.what \in Tab!Detail /\ l.what \notin Tab!PanelName
      /\ UNCHANGED <<x1, x2, x5, x10, x11>>
  BY TabLoad, TabContents DEF Tab!DetailArrives, Tab!viewerVars
<1>v. l.nav = x1 => x2.view = l.what /\ x2.id = l.of /\ x2.view \notin Tab!Search
  BY <1>0 DEF Tab!OfPage, Tab!Detail, Tab!Search
<1>1. ASSUME NEW kind, kind \in {"error", "stalled", l.what},
             Tab!Write(l, Tab!Content(kind, l.of))
      PROVE  \/ x3' = x3 /\ l.nav # x1
             \/ /\ l.nav = x1 /\ x3' # Tab!Spinner
                /\ Tab!BodyShowsPage' /\ Tab!RowsTrue' /\ Tab!FormWired'
  <2>1. /\ kind # "loading" /\ kind # "tiles" /\ kind # "rows"
        /\ {"error", "stalled"} \cap Tab!Detail = {}
    BY <1>0, <1>1 DEF Tab!Detail
  <2> QED
    BY <1>0, <1>1, <1>v, <2>1, TabWrite
<1>2. ASSUME NEW kind \in {"error", "stalled"}, Tab!Write(l, Tab!Content(kind, l.of)),
             x9' = x9 \ {l}, UNCHANGED x4
      PROVE  Tab!Inv'
  <2>3. x4' = [p \in Tab!PanelName |-> x4'[p]]
    BY <1>0, <1>2
  <2>4. \/ x3' = x3 /\ l.nav # x1
        \/ /\ l.nav = x1 /\ x3' # Tab!Spinner
           /\ Tab!BodyShowsPage' /\ Tab!RowsTrue' /\ Tab!FormWired'
    BY <1>1, <1>2
  <2>6. \A p \in Tab!PanelName : x4'[p] = Tab!Spinner => x4[p] = Tab!Spinner /\ l.what # p
    BY <1>0, <1>2
  <2> QED
    BY <1>0, <1>2, <2>3, <2>4, <2>6, TabEnds
<1>3. CASE /\ Tab!Write(l, Tab!Content(l.what, l.of))
           /\ x4' = IF Tab!Captured(l)
                    THEN [p \in Tab!PanelName |-> IF p \in Tab!PanelsOf(l.what) THEN Tab!Spinner
                                                  ELSE Tab!NoElement]
                    ELSE x4
           /\ x9' = (x9 \ {l}) \cup {Tab!Load(p, l.of, l.nav) : p \in Tab!PanelsOf(l.what)}
  <2>1. PICK new : new = {Tab!Load(p, l.of, l.nav) : p \in Tab!PanelsOf(l.what)}
    OBVIOUS
  <2>2. /\ Tab!PanelsOf(l.what) \subseteq Tab!PanelName /\ Tab!PanelsOf(l.what) # {}
        /\ Tab!PanelName \cap Tab!Main = {} /\ Tab!Detail \cup Tab!Search \subseteq Tab!Main
    BY <1>0, TabLoad DEF Tab!PanelsOf, Tab!PanelName, Tab!Detail, Tab!Main
  <2>3. \A m \in new :
            /\ m = [what |-> m.what, of |-> m.of, nav |-> m.nav, rows |-> m.rows,
                    serial |-> m.serial]
            /\ m.what \in Tab!PanelsOf(l.what) /\ m.nav = l.nav /\ m.rows = <<>>
    BY <2>1 DEF Tab!Load
  <2>4. ASSUME NEW p \in Tab!PanelsOf(l.what) PROVE \E m \in new : m.what = p
    <3>1. Tab!Load(p, l.of, l.nav) \in new /\ Tab!Load(p, l.of, l.nav).what = p
      BY <2>1 DEF Tab!Load
    <3> QED
      BY <3>1
  <2>5. \A m \in new : Tab!OfPage(m)
    BY <2>2, <2>3 DEF Tab!OfPage, Tab!Main
  <2>6. \A m \in new : Tab!Loaded(m)
    <3>1. <<>> \in Seq(Tab!RowState) /\ Len(<<>>) = 0
      OBVIOUS
    <3>2. Len(x11) \in Nat
      BY TabLoad
    <3>3. 0 <= Len(x11)
      BY <3>2
    <3> QED
      BY <1>0, <2>2, <2>3, <3>1, <3>3 DEF Tab!Loaded
  <2>7. x4' = [p \in Tab!PanelName |-> x4'[p]]
    BY <1>0, <1>3
  <2>8. \/ x3' = x3 /\ l.nav # x1
        \/ /\ l.nav = x1 /\ x3' # Tab!Spinner
           /\ Tab!BodyShowsPage' /\ Tab!RowsTrue' /\ Tab!FormWired'
    BY <1>1, <1>3
  <2>9. \A p \in Tab!PanelName : x4'[p] = Tab!Spinner =>
               \/ x4[p] = Tab!Spinner /\ l.what # p
               \/ l.nav = x1 /\ \E m \in new : m.what = p
    BY <1>0, <1>3, <2>4, TabContents DEF Tab!Captured
  <2>10. x9' = (x9 \ {l}) \cup new
    BY <1>3, <2>1
  <2>11. \A m \in new : Tab!Loaded(m) /\ m.nav = l.nav /\ (Tab!OfPage(l) => Tab!OfPage(m))
    BY <2>3, <2>5, <2>6
  <2>12. x3' # Tab!Spinner \/ l.what \in Tab!PanelName \/ l.nav # x1
    BY <2>8
  <2>13. /\ x10' \in [Payee -> Tab!Lookup]
         /\ \A a \in Payee : x10[a] = "failed" => x10'[a] = "failed"
    BY <1>0
  <2>14. \/ x3' = x3 /\ (x5' = x5 \/ x5' = "wired")
         \/ /\ l.nav = x1 /\ x3' # Tab!Spinner
            /\ Tab!BodyShowsPage' /\ Tab!RowsTrue' /\ Tab!FormWired'
    BY <1>0, <2>8
  <2> QED
    BY <1>0, <2>7, <2>9, <2>10, <2>11, <2>12, <2>13, <2>14, TabArrives
<1> QED
  BY <1>2, <1>3 DEF Tab!DetailArrives, Tab!Stalled

LEMMA TabPanel == ASSUME Tab!Inv, NEW l \in x9, Tab!PanelArrives(l) PROVE Tab!Inv'
<1>0. /\ x10 \in [Payee -> Tab!Lookup] /\ x4 = [p \in Tab!PanelName |-> x4[p]]
      /\ l.what \in Tab!PanelName /\ x9' = x9 \ {l}
      /\ UNCHANGED <<x1, x2, x3, x5, x10, x11>>
  BY TabLoad DEF Tab!PanelArrives, Tab!viewerVars
<1>1. PICK answer : answer = Tab!Content("answer", l.of)
  OBVIOUS
<1>2. answer # Tab!Spinner
  BY <1>1, TabContents
<1>3. x4' = IF x4[l.what] = Tab!NoElement THEN x4 ELSE [x4 EXCEPT ![l.what] = answer]
  BY <1>1 DEF Tab!PanelArrives
<1>4. x4' = [p \in Tab!PanelName |-> x4'[p]]
  BY <1>0, <1>3
<1>5. \A p \in Tab!PanelName : x4'[p] = Tab!Spinner => x4[p] = Tab!Spinner /\ l.what # p
  BY <1>0, <1>2, <1>3, TabContents
<1> QED
  BY <1>0, <1>4, <1>5, TabEnds

LEMMA TabSearch == ASSUME Tab!Inv, NEW l \in x9, Tab!SearchArrives(l) PROVE Tab!Inv'
<1>0. /\ (l.nav = x1 => Tab!OfPage(l))
      /\ x10 \in [Payee -> Tab!Lookup] /\ x4 = [p \in Tab!PanelName |-> x4[p]]
      /\ l.what \in Tab!Search /\ l.what \notin Tab!PanelName /\ x9' = x9 \ {l}
      /\ UNCHANGED <<x1, x2, x4, x10, x11>>
  BY TabLoad, TabContents DEF Tab!SearchArrives, Tab!viewerVars
<1>1. PICK kind \in {"rows", "empty", "error"} :
        /\ Tab!Write(l, Tab!Content(kind, None))
        /\ x5' = IF kind # "empty" /\ x2.view = l.what THEN "wired" ELSE x5
  BY DEF Tab!SearchArrives
<1>2. /\ l.nav = x1 => x2.view = l.what /\ x2.view # "activity"
      /\ kind \notin Tab!Detail \cup {"tiles", "loading"}
  BY <1>0, <1>1 DEF Tab!OfPage, Tab!Search, Tab!Detail
<1>3. \/ x3' = x3 /\ l.nav # x1
      \/ /\ l.nav = x1 /\ x3' # Tab!Spinner
         /\ Tab!BodyShowsPage' /\ Tab!RowsTrue' /\ Tab!FormWired'
  BY <1>0, <1>1, <1>2, TabWrite
<1>4. /\ x4' = [p \in Tab!PanelName |-> x4'[p]]
      /\ \A p \in Tab!PanelName : x4'[p] = Tab!Spinner => x4[p] = Tab!Spinner /\ l.what # p
      /\ x5' = x5 \/ x5' = "wired"
  BY <1>0, <1>1
<1> QED
  BY <1>0, <1>3, <1>4, TabEnds

\* One more answer to come: the request goes on as m, of the same page.
LEMMA TabGoesOn ==
    ASSUME Tab!Inv, NEW l \in x9, NEW m, x9' = (x9 \ {l}) \cup {m},
           UNCHANGED <<x1, x2, x3, x4, x5, x11>>,
           Tab!Loaded(m), m.nav = l.nav, Tab!OfPage(l) => Tab!OfPage(m),
           l.what \notin Tab!PanelName, m.what \notin Tab!PanelName,
           x10' \in [Payee -> Tab!Lookup],
           \A a \in Payee : x10[a] = "failed" => x10'[a] = "failed"
    PROVE  Tab!Inv'
<1>1. PICK new : new = {m}
  OBVIOUS
<1>2. x9' = (x9 \ {l}) \cup new
  BY <1>1
<1>3. /\ \A n \in new : Tab!Loaded(n) /\ n.nav = l.nav /\ (Tab!OfPage(l) => Tab!OfPage(n))
      /\ \E n \in new : n.what \notin Tab!PanelName
  BY <1>1
<1>4. /\ x4' = [p \in Tab!PanelName |-> x4'[p]]
      /\ \A p \in Tab!PanelName : x4'[p] = Tab!Spinner => x4[p] = Tab!Spinner /\ l.what # p
  BY TabLoad
<1>5. \/ x3' = x3 /\ (x5' = x5 \/ x5' = "wired")
      \/ /\ l.nav = x1 /\ x3' # Tab!Spinner
         /\ Tab!BodyShowsPage' /\ Tab!RowsTrue' /\ Tab!FormWired'
  OBVIOUS
<1> QED
  BY <1>2, <1>3, <1>4, <1>5, TabArrives

LEMMA TabMain ==
    ASSUME NEW l, l.what \in {"entries", "rows", "registry", "external"}
    PROVE  l.what \notin Tab!PanelName \cup Tab!Detail \cup Tab!Search /\ l.what \in Tab!Main
BY DEF Tab!PanelName, Tab!Detail, Tab!Search, Tab!Main

LEMMA TabEntries == ASSUME Tab!Inv, NEW l \in x9, Tab!EntriesArrive(l) PROVE Tab!Inv'
<1>0. /\ Tab!Loaded(l) /\ (l.nav = x1 => Tab!OfPage(l)) /\ x11 \in Seq(Payee)
      /\ x10 \in [Payee -> Tab!Lookup] /\ x4 = [p \in Tab!PanelName |-> x4[p]]
      /\ l.what = "entries" /\ l.what \notin Tab!PanelName
      /\ UNCHANGED <<x1, x2, x4, x5, x10, x11>>
  BY TabLoad, TabMain DEF Tab!EntriesArrive, Tab!viewerVars
<1>v. l.nav = x1 => x2.view = "activity" /\ x2.view \notin Tab!Search
  BY <1>0 DEF Tab!OfPage, Tab!Search
<1>1. CASE Tab!Write(l, Tab!Content("error", None)) /\ x9' = x9 \ {l}
  <2>1. "error" \notin Tab!Detail
    BY DEF Tab!Detail
  <2>2. \/ x3' = x3 /\ l.nav # x1
        \/ /\ l.nav = x1 /\ x3' # Tab!Spinner
           /\ Tab!BodyShowsPage' /\ Tab!RowsTrue' /\ Tab!FormWired'
    BY <1>0, <1>1, <1>v, <2>1, TabWrite
  <2>3. /\ x4' = [p \in Tab!PanelName |-> x4'[p]]
        /\ \A p \in Tab!PanelName : x4'[p] = Tab!Spinner => x4[p] = Tab!Spinner /\ l.what # p
    BY <1>0
  <2> QED
    BY <1>0, <1>1, <2>2, <2>3, TabEnds
<1>2. ASSUME ~ (Tab!Write(l, Tab!Content("error", None)) /\ x9' = x9 \ {l}) PROVE Tab!Inv'
  <2>1. Len(l.rows) \in Nat /\ Len(x11) \in Nat
    BY <1>0 DEF Tab!Loaded
  <2>2. PICK read \in Nat :
            /\ read = IF Len(l.rows) < Len(x11) THEN Len(l.rows) + 1 ELSE Len(x11)
            /\ read <= Len(x11)
    BY <2>1
  <2>3. PICK rows : rows = [i \in 1 .. read |-> "asked"]
    OBVIOUS
  <2>4. rows \in Seq(Tab!RowState) /\ Len(rows) = read
    BY <2>3 DEF Tab!RowState
  <2>5. PICK what \in {"entries", "rows"} : what = IF read < Len(x11) THEN "entries" ELSE "rows"
    OBVIOUS
  <2>6. PICK m : m = [l EXCEPT !.rows = rows, !.what = what]
    OBVIOUS
  <2>7. x3' = x3 /\ x9' = (x9 \ {l}) \cup {m}
    BY <1>2, <2>2, <2>3, <2>5, <2>6 DEF Tab!EntriesArrive
  <2>8. /\ m = [what |-> m.what, of |-> m.of, nav |-> m.nav, rows |-> m.rows,
                serial |-> m.serial]
        /\ m.what = what /\ m.rows = rows /\ m.nav = l.nav
    BY <1>0, <2>6 DEF Tab!Loaded
  <2>9. m.what \notin Tab!PanelName \cup Tab!Detail \cup Tab!Search /\ m.what \in Tab!Main
    BY <2>8, TabMain
  <2>10. Tab!Loaded(m)
    BY <1>0, <2>2, <2>4, <2>8, <2>9 DEF Tab!Loaded
  <2>11. Tab!OfPage(l) => Tab!OfPage(m)
    BY <1>0, <2>8, <2>9 DEF Tab!OfPage
  <2> QED
    BY <1>0, <2>7, <2>8, <2>9, <2>10, <2>11, TabGoesOn
<1> QED
  BY <1>1, <1>2

LEMMA TabReceipt ==
    ASSUME Tab!Inv, NEW l \in x9, NEW i \in DOMAIN l.rows, Tab!ReceiptArrives(l, i)
    PROVE  Tab!Inv'
<1>0. /\ Tab!Loaded(l) /\ x11 \in Seq(Payee) /\ x10 \in [Payee -> Tab!Lookup]
      /\ l.what = "rows" /\ l.what \in Tab!Main
      /\ l.what \notin Tab!PanelName \cup Tab!Detail \cup Tab!Search
      /\ UNCHANGED <<x1, x2, x3, x4, x5, x11>>
  BY TabLoad, TabMain DEF Tab!ReceiptArrives, Tab!viewerVars
<1>1. PICK row \in Tab!RowState : x9' = (x9 \ {l}) \cup {[l EXCEPT !.rows[i] = row]}
  BY DEF Tab!ReceiptArrives, Tab!RowState
<1>2. PICK rows : rows = [l.rows EXCEPT ![i] = row]
  OBVIOUS
<1>3. /\ l.rows \in Seq(Tab!RowState) /\ Len(l.rows) <= Len(x11)
      /\ rows \in Seq(Tab!RowState) /\ Len(rows) = Len(l.rows)
  BY <1>0, <1>2 DEF Tab!Loaded
<1>4. PICK m : m = [l EXCEPT !.rows = rows]
  OBVIOUS
<1>5. x9' = (x9 \ {l}) \cup {m}
  BY <1>1, <1>2, <1>4
<1>6. /\ m = [what |-> m.what, of |-> m.of, nav |-> m.nav, rows |-> m.rows, serial |-> m.serial]
      /\ m.what = l.what /\ m.rows = rows /\ m.nav = l.nav
  BY <1>0, <1>4 DEF Tab!Loaded
<1>7. Tab!Loaded(m)
  BY <1>0, <1>3, <1>6 DEF Tab!Loaded
<1>8. Tab!OfPage(l) => Tab!OfPage(m)
  BY <1>0, <1>6 DEF Tab!OfPage
<1>9. x11[i] \in Payee
  <2>1. i \in 1 .. Len(l.rows) /\ Len(l.rows) \in Nat /\ Len(x11) \in Nat
    BY <1>0, <1>3
  <2>2. i \in 1 .. Len(x11)
    BY <1>3, <2>1
  <2> QED
    BY <1>0, <2>2
<1>10. /\ x10' \in [Payee -> Tab!Lookup]
       /\ \A a \in Payee : x10[a] = "failed" => x10'[a] = "failed"
  BY <1>0, <1>9 DEF Tab!ReceiptArrives, Tab!Lookup
<1> QED
  BY <1>0, <1>5, <1>6, <1>7, <1>8, <1>10, TabGoesOn

LEMMA TabDraw == ASSUME Tab!Inv, NEW l \in x9, Tab!Draw(l) PROVE Tab!Inv'
<1>0. /\ Tab!Loaded(l) /\ (l.nav = x1 => Tab!OfPage(l)) /\ x11 \in Seq(Payee)
      /\ x4 = [p \in Tab!PanelName |-> x4[p]]
      /\ l.what = "rows" /\ l.what \notin Tab!PanelName
      /\ UNCHANGED <<x1, x2, x4, x5, x10, x11>> /\ x9' = x9 \ {l}
      /\ Tab!Settled(l)
  BY TabLoad, TabMain DEF Tab!Draw, Tab!viewerVars
<1>v. l.nav = x1 => x2.view = "activity" /\ x2.view \notin Tab!Search
  BY <1>0 DEF Tab!OfPage, Tab!Search
<1>1. PICK labels : labels = Tab!Labels(l)
  OBVIOUS
<1>2. Tab!Write(l, Tab!Content("rows", labels))
  BY <1>1 DEF Tab!Draw
<1>3. DOMAIN labels \subseteq DOMAIN x11
  <2>1. /\ l.rows \in Seq(Tab!RowState) /\ Len(l.rows) <= Len(x11)
        /\ Len(l.rows) \in Nat /\ Len(x11) \in Nat
    BY <1>0 DEF Tab!Loaded
  <2>2. DOMAIN labels = 1 .. Len(l.rows) /\ DOMAIN x11 = 1 .. Len(x11)
    BY <1>0, <1>1, <2>1 DEF Tab!Labels
  <2> QED
    BY <2>1, <2>2
<1>4. \A i \in DOMAIN labels : labels[i] = "live" =>
        x11[i] \notin DemoAgent \/ x10[x11[i]] = "failed"
  BY <1>0, <1>1 DEF Tab!Labels, Tab!Label, Tab!Settled
<1>5. l.nav = x1 => Tab!RowsTrue'
  <2>1. l.nav = x1 => x3'.of = labels
    BY <1>2, TabContents DEF Tab!Write, Tab!Captured
  <2> QED
    BY <1>0, <1>3, <1>4, <2>1 DEF Tab!RowsTrue
<1>6. "rows" \notin Tab!Detail
  BY DEF Tab!Detail
<1>8. \/ x3' = x3 /\ l.nav # x1
      \/ /\ l.nav = x1 /\ x3' # Tab!Spinner
         /\ Tab!BodyShowsPage' /\ Tab!RowsTrue' /\ Tab!FormWired'
  BY <1>0, <1>2, <1>v, <1>5, <1>6, TabWrite
<1>9. /\ x4' = [p \in Tab!PanelName |-> x4'[p]]
      /\ \A p \in Tab!PanelName : x4'[p] = Tab!Spinner => x4[p] = Tab!Spinner /\ l.what # p
  BY <1>0
<1> QED
  BY <1>0, <1>8, <1>9, TabEnds

LEMMA TabStats ==
    ASSUME Tab!Inv, NEW l \in x9, Tab!RegistryArrives(l) \/ Tab!ExternalArrives(l)
    PROVE  Tab!Inv'
<1>0. /\ Tab!Loaded(l) /\ (l.nav = x1 => Tab!OfPage(l))
      /\ x10 \in [Payee -> Tab!Lookup] /\ x4 = [p \in Tab!PanelName |-> x4[p]]
      /\ l.what \in {"registry", "external"}
      /\ l.what \notin Tab!PanelName \cup Tab!Detail \cup Tab!Search
      /\ UNCHANGED <<x1, x2, x4, x5, x10, x11>>
  BY TabLoad, TabMain DEF Tab!RegistryArrives, Tab!ExternalArrives, Tab!viewerVars
<1>v. l.nav = x1 => x2.view = "stats" /\ x2.view \notin Tab!Search
  BY <1>0 DEF Tab!OfPage, Tab!Search
<1>1. ASSUME NEW kind \in {"error", "tiles"}, NEW of, Tab!Write(l, Tab!Content(kind, of)),
             x9' = x9 \ {l}
      PROVE  Tab!Inv'
  <2>1. kind \notin Tab!Detail /\ kind # "loading" /\ kind # "rows"
    BY DEF Tab!Detail
  <2>2. \/ x3' = x3 /\ l.nav # x1
        \/ /\ l.nav = x1 /\ x3' # Tab!Spinner
           /\ Tab!BodyShowsPage' /\ Tab!RowsTrue' /\ Tab!FormWired'
    BY <1>0, <1>1, <1>v, <2>1, TabWrite
  <2>3. /\ x4' = [p \in Tab!PanelName |-> x4'[p]]
        /\ \A p \in Tab!PanelName : x4'[p] = Tab!Spinner => x4[p] = Tab!Spinner /\ l.what # p
    BY <1>0
  <2> QED
    BY <1>0, <1>1, <2>2, <2>3, TabEnds
<1>2. ASSUME l.what = "registry", x3' = x3, x9' = (x9 \ {l}) \cup {[l EXCEPT !.what = "external"]}
      PROVE  Tab!Inv'
  <2>1. PICK m : m = [l EXCEPT !.what = "external"]
    OBVIOUS
  <2>2. /\ m = [what |-> m.what, of |-> m.of, nav |-> m.nav, rows |-> m.rows,
                serial |-> m.serial]
        /\ m.what = "external" /\ m.rows = l.rows /\ m.nav = l.nav
    BY <1>0, <2>1 DEF Tab!Loaded
  <2>3. m.what \notin Tab!PanelName \cup Tab!Detail \cup Tab!Search /\ m.what \in Tab!Main
    BY <2>2, TabMain
  <2>4. Tab!Loaded(m) /\ (Tab!OfPage(l) => Tab!OfPage(m))
    BY <1>0, <1>2, <2>2, <2>3 DEF Tab!Loaded, Tab!OfPage
  <2>5. x9' = (x9 \ {l}) \cup {m}
    BY <1>2, <2>1
  <2> QED
    BY <1>0, <1>2, <2>2, <2>3, <2>4, <2>5, TabGoesOn
<1>3. CASE Tab!RegistryArrives(l)
  BY <1>1, <1>2, <1>3 DEF Tab!RegistryArrives
<1>4. CASE Tab!ExternalArrives(l)
  BY <1>1, <1>4 DEF Tab!ExternalArrives
<1> QED
  BY <1>3, <1>4

\* What the viewer does on a page, and what the registry and the lookups do.
LEMMA TabOthers ==
    ASSUME Tab!Inv,
           \/ \E a \in Payee : Tab!AgentArrives(a)
           \/ Tab!Toggle \/ Tab!Refresh \/ Tab!StatsExpire \/ Tab!LogGrows
    PROVE  Tab!Inv'
<1>s. /\ Tab!Shape /\ Tab!LoadsOfPage /\ Tab!BodyShowsPage /\ Tab!RowsTrue /\ Tab!BodyFilled
      /\ Tab!PanelsFilled /\ Tab!FormWired
      /\ x11 \in Seq(Payee) /\ Len(x11) \in Nat /\ x1 \in Nat /\ x10 \in [Payee -> Tab!Lookup]
  BY DEF Tab!Inv, Tab!Shape
<1>1. ASSUME UNCHANGED <<x1, x2, x3, x4, x5>>, x9 \subseteq x9',
             \A l \in x9' \ x9 : Tab!Loaded(l) /\ Tab!OfPage(l),
             x11' \in Seq(Payee), Len(x11) <= Len(x11'),
             \A i \in DOMAIN x11 : i \in DOMAIN x11' /\ x11'[i] = x11[i],
             x10' \in [Payee -> Tab!Lookup],
             \A a \in Payee : x10[a] = "failed" => x10'[a] = "failed"
      PROVE  Tab!Inv'
  <2>1. \A l \in x9' : Tab!Loaded(l) /\ (l.nav = x1 => Tab!OfPage(l))
    BY <1>1, <1>s DEF Tab!Shape, Tab!LoadsOfPage
  <2>2. ASSUME NEW l \in x9' PROVE Tab!Loaded(l)'
    <3>1. Len(l.rows) \in Nat /\ Len(x11') \in Nat /\ Tab!Loaded(l)
      BY <1>1, <2>1 DEF Tab!Loaded
    <3>2. Len(l.rows) <= Len(x11')
      BY <1>1, <1>s, <3>1 DEF Tab!Loaded
    <3> QED
      BY <1>1, <3>1, <3>2 DEF Tab!Loaded
  <2>3. Tab!Shape'
    BY <1>1, <1>s, <2>2 DEF Tab!Shape
  <2>4. Tab!LoadsOfPage' /\ Tab!BodyShowsPage' /\ Tab!FormWired'
    BY <1>1, <1>s, <2>1 DEF Tab!LoadsOfPage, Tab!OfPage, Tab!BodyShowsPage, Tab!FormWired
  <2>5. Tab!RowsTrue'
    BY <1>1, <1>s DEF Tab!RowsTrue
  <2>6. Tab!BodyFilled' /\ Tab!PanelsFilled'
    BY <1>1, <1>s DEF Tab!BodyFilled, Tab!PanelsFilled, Tab!Spinner, Tab!Content
  <2> QED
    BY <2>3, <2>4, <2>5, <2>6 DEF Tab!Inv
<1>l. Len(x11) <= Len(x11)
  BY <1>s
<1>2. ASSUME NEW a \in Payee, Tab!AgentArrives(a) PROVE Tab!Inv'
  <2>1. /\ UNCHANGED <<x1, x2, x3, x4, x5, x9, x11>>
        /\ x10' \in [Payee -> Tab!Lookup]
        /\ \A b \in Payee : x10[b] = "failed" => x10'[b] = "failed"
    BY <1>2, <1>s DEF Tab!AgentArrives, Tab!viewerVars, Tab!Lookup
  <2> QED
    BY <1>1, <1>l, <1>s, <2>1
<1>3. CASE Tab!Toggle \/ Tab!StatsExpire
  <2>1. UNCHANGED <<x1, x2, x3, x4, x5, x9, x10, x11>>
    BY <1>3 DEF Tab!Toggle, Tab!StatsExpire, Tab!viewerVars
  <2> QED
    BY <1>1, <1>l, <1>s, <2>1
<1>4. CASE Tab!Refresh
  <2>1. PICK m : m = [Tab!Load("registry", <<x1, x13 + 1>>, x1) EXCEPT !.serial = x13 + 1]
    OBVIOUS
  <2>2. UNCHANGED <<x1, x2, x3, x4, x5, x10, x11>> /\ x9' = x9 \cup {m} /\ x2.view = "stats"
    BY <1>4, <2>1 DEF Tab!Refresh
  <2>3. /\ m = [what |-> m.what, of |-> m.of, nav |-> m.nav, rows |-> m.rows,
                serial |-> m.serial]
        /\ m.what = "registry" /\ m.nav = x1 /\ m.rows = <<>>
    BY <2>1 DEF Tab!Load
  <2>4. m.what \notin Tab!PanelName \cup Tab!Detail \cup Tab!Search /\ m.what \in Tab!Main
    BY <2>3, TabMain
  <2>5. <<>> \in Seq(Tab!RowState) /\ Len(<<>>) = 0 /\ 0 <= Len(x11) /\ x1 <= x1
    BY <1>s
  <2>6. Tab!Loaded(m) /\ Tab!OfPage(m)
    BY <1>s, <2>2, <2>3, <2>4, <2>5 DEF Tab!Loaded, Tab!OfPage
  <2> QED
    BY <1>1, <1>l, <1>s, <2>2, <2>6
<1>5. CASE Tab!LogGrows
  <2>1. PICK a \in Payee : x11' = Append(x11, a)
    BY <1>5 DEF Tab!LogGrows
  <2>2. UNCHANGED <<x1, x2, x3, x4, x5, x9, x10>>
    BY <1>5 DEF Tab!LogGrows
  <2>3. x11' \in Seq(Payee) /\ Len(x11') = Len(x11) + 1
    BY <1>s, <2>1
  <2>4. Len(x11) <= Len(x11')
    BY <1>s, <2>3
  <2>5. \A i \in DOMAIN x11 : i \in DOMAIN x11' /\ x11'[i] = x11[i]
    BY <1>s, <2>1
  <2> QED
    BY <1>1, <1>s, <2>2, <2>3, <2>4, <2>5
<1> QED
  BY <1>2, <1>3, <1>4, <1>5

LEMMA TabNext == ASSUME Tab!Inv, [Tab!Next]_(Tab!vars) PROVE Tab!Inv'
<1>1. CASE UNCHANGED Tab!vars
  BY <1>1 DEF Tab!vars, Tab!viewerVars, Tab!Inv, Tab!Shape, Tab!Loaded, Tab!LoadsOfPage,
     Tab!OfPage, Tab!BodyShowsPage, Tab!RowsTrue, Tab!BodyFilled, Tab!PanelsFilled, Tab!FormWired
<1>2. CASE Tab!Next
  <2>1. CASE \E l \in x9 : Tab!Arrives(l)
    BY <2>1, TabDetail, TabPanel, TabSearch, TabEntries, TabReceipt, TabDraw, TabStats
    DEF Tab!Arrives
  <2> QED
    BY <1>2, <2>1, TabRoutes, TabOthers DEF Tab!Next
<1> QED
  BY <1>1, <1>2

(* The tab tells the truth about the page it shows: the body is of that    *)
(* page, a row without a label has no demo agent for a party unless its    *)
(* lookup failed, whatever spins is waited for unless it is a detail page  *)
(* whose answer could not be read, and a search that ended can be          *)
(* repeated.  For any number of agents, receipts, requests in flight and   *)
(* changes of the hash (route, apiGet, the render functions).              *)
THEOREM TabTruthfulCorrect == Spec => []TabTruthful
<1> DEFINE I == part = "tab" => Tab!Inv
<1>1. Init => I
  BY TabInit DEF Init
<1>2. I /\ [Next]_vars => I'
  BY OnePart, TabNext
<1>3. I => TabTruthful
  <2>1. Tab!Inv => Tab!RowsLabelled
    BY DEF Tab!Inv, Tab!RowsTrue, Tab!RowsLabelled, Tab!Visible
  <2>2. Tab!Inv => Tab!NothingHangs
    BY DEF Tab!Inv, Tab!BodyFilled, Tab!PanelsFilled, Tab!NothingHangs
  <2> QED
    BY <2>1, <2>2 DEF TabTruthful, Tab!TabTruthful, Tab!Inv
<1> QED
  BY <1>1, <1>2, <1>3, PTL DEF Spec

-----------------------------------------------------------------------------
(* The list read page by page (Listing).                                   *)

ListRow == [demo : BOOLEAN, linked : BOOLEAN, retired : BOOLEAN]
ListWalk == [query : List!Query, limit : RawLimit, offset : Nat, seen : SUBSET Nat,
             asked : SUBSET Nat, gone : SUBSET Nat, done : BOOLEAN]

\* What was asked for and is still in the list, and the part of it that the
\* walk has gone by without showing.
ListHeld == IF x2.query.includeRevoked THEN x2.asked ELSE x2.asked \ x2.gone
ListBehind == {i \in ListHeld \ x2.seen : List!Place(i, List!SearchAgents(x2.query)) <= x2.offset}

ListInv ==
    /\ x1 \in Seq(ListRow)
    /\ x2 # None =>
        /\ x2 \in ListWalk
        /\ x2.gone \subseteq {i \in DOMAIN x1 : x1[i].retired}
        /\ ~x2.done => /\ ListHeld \subseteq List!SearchAgents(x2.query)
                       /\ Cardinality(ListBehind) <=
                              IF x2.query.includeRevoked THEN 0 ELSE Cardinality(x2.gone)
        /\ List!ListingComplete

\* The instance counts as the library does.
LEMMA ListCounts ==
    /\ \A S : List!Cardinality(S) = Cardinality(S)
    /\ \A i, S : List!Place(i, S) = Cardinality({j \in S : j <= i})
BY DEF List!Place, List!Cardinality, Cardinality

\* The list is finite, a set of row numbers.
LEMMA ListFinite ==
    ASSUME x1 \in Seq(ListRow), NEW query
    PROVE  /\ List!SearchAgents(query) \subseteq Nat
           /\ IsFiniteSet(List!SearchAgents(query))
<1>1. List!SearchAgents(query) \subseteq 1 .. Len(x1) /\ Len(x1) \in Nat
  BY DEF List!SearchAgents
<1>2. IsFiniteSet(1 .. Len(x1))
  BY <1>1, FS_Interval
<1> QED
  BY <1>1, <1>2, FS_Subset

\* A place in a larger list is no earlier, and none is past the end.
LEMMA PlaceGrows ==
    ASSUME NEW T, IsFiniteSet(T), NEW S \in SUBSET T, NEW i
    PROVE  /\ List!Place(i, S) \in Nat /\ List!Place(i, T) \in Nat
           /\ List!Place(i, S) <= List!Place(i, T)
           /\ Cardinality(T) \in Nat /\ List!Place(i, T) <= Cardinality(T)
<1> DEFINE A == {j \in S : j <= i}
           B == {j \in T : j <= i}
<1>1. A \subseteq B /\ B \subseteq T
  OBVIOUS
<1>2. IsFiniteSet(B) /\ Cardinality(B) <= Cardinality(T)
  BY <1>1, FS_Subset
<1>3. IsFiniteSet(A) /\ Cardinality(A) <= Cardinality(B)
  BY <1>1, <1>2, FS_Subset
<1>4. Cardinality(A) \in Nat /\ Cardinality(B) \in Nat /\ Cardinality(T) \in Nat
  BY <1>2, <1>3, FS_CardinalityType
<1> QED
  BY <1>2, <1>3, <1>4, ListCounts

\* One row that leaves moves those after it up by one place.
LEMMA PlaceDrops ==
    ASSUME NEW T, IsFiniteSet(T), NEW i, NEW j
    PROVE  List!Place(i, T) <= List!Place(i, T \ {j}) + 1
<1> DEFINE A == {k \in T \ {j} : k <= i}
           B == {k \in T : k <= i}
<1>1. A \subseteq T /\ B \subseteq A \cup {j}
  OBVIOUS
<1>2. IsFiniteSet(A)
  BY <1>1, FS_Subset
<1>3. /\ IsFiniteSet(A \cup {j}) /\ Cardinality(A) \in Nat
      /\ Cardinality(A \cup {j}) = Cardinality(A) \/ Cardinality(A \cup {j}) = Cardinality(A) + 1
  BY <1>2, FS_AddElement, FS_CardinalityType
<1>4. IsFiniteSet(B) /\ Cardinality(B) <= Cardinality(A \cup {j})
  BY <1>1, <1>3, FS_Subset
<1>5. Cardinality(B) \in Nat
  BY <1>4, FS_CardinalityType
<1>6. Cardinality(B) <= Cardinality(A) + 1
  <2> HIDE DEF A, B
  <2> QED
    BY <1>3, <1>4, <1>5
<1> QED
  BY <1>6, ListCounts

\* No two rows of a list have the same place.
LEMMA PlaceRises ==
    ASSUME NEW S \in SUBSET Nat, IsFiniteSet(S), NEW i \in S, NEW k \in S, i < k
    PROVE  List!Place(i, S) # List!Place(k, S)
<1> DEFINE A == {j \in S : j <= i}
           B == {j \in S : j <= k}
<1>1. A \subseteq S /\ B \subseteq S /\ k \in B /\ k \notin A
  OBVIOUS
<1>4. A \subseteq B
  <2>1. ASSUME NEW j \in S, j <= i PROVE j <= k
    <3>1. j \in Nat /\ i \in Nat /\ k \in Nat
      OBVIOUS
    <3> QED
      BY <2>1, <3>1
  <2> QED
    BY <2>1
<1>2. IsFiniteSet(A) /\ IsFiniteSet(B) /\ Cardinality(A) \in Nat
  BY <1>1, FS_Subset, FS_CardinalityType
<1>3. Cardinality(A) # Cardinality(B)
  BY <1>1, <1>2, <1>4, FS_Subset
<1> QED
  BY <1>3, ListCounts

LEMMA PlaceApart ==
    ASSUME NEW S \in SUBSET Nat, IsFiniteSet(S), NEW i \in S, NEW k \in S,
           List!Place(i, S) = List!Place(k, S)
    PROVE  i = k
<1>1. i < k \/ k < i \/ i = k
  OBVIOUS
<1> QED
  BY <1>1, PlaceRises

\* A page is what was asked for: the route does not shorten the clients' limits.
LEMMA LimitKept ==
    ASSUME NEW raw \in RawLimit
    PROVE  List!ParseLimit(raw) = raw \div 2 /\ raw \div 2 \in Nat
<1>1. raw \in Nat \ {0} /\ raw \div 2 <= PageLimit /\ PageLimit \in Nat
  BY ReadersAssumption DEF ReadersAssumption
<1>2. raw \div 2 \in Nat
  BY <1>1
<1>3. ~(raw <= 0) /\ ~(raw \div 2 > PageLimit)
  <2>1. PICK half : half = raw \div 2
    OBVIOUS
  <2>2. half \in Nat /\ half <= PageLimit /\ PageLimit \in Nat
    BY <1>1, <1>2, <2>1
  <2>3. ~(half > PageLimit)
    BY <2>2
  <2> QED
    BY <1>1, <2>1, <2>3
<1> QED
  BY <1>2, <1>3 DEF List!ParseLimit

\* While a walk is under way the list it reads may lose a row, and gain many.
LEMMA ListStays ==
    ASSUME ListInv, x1' \in Seq(ListRow), UNCHANGED x2,
           \A i \in DOMAIN x1 : /\ i \in DOMAIN x1'
                                /\ x1'[i].demo = x1[i].demo
                                /\ x1'[i].retired = x1[i].retired
                                /\ x1[i].linked => x1'[i].linked
    PROVE  ListInv'
<1> SUFFICES ASSUME x2 # None PROVE ListInv'
  BY DEF ListInv
<1>1. /\ x2 \in ListWalk /\ x2'.gone \subseteq {i \in DOMAIN x1' : x1'[i].retired}
      /\ List!ListingComplete'
  BY DEF ListInv, List!ListingComplete, List!Missed
<1>2. ASSUME ~x2.done
      PROVE  /\ ListHeld' \subseteq List!SearchAgents(x2.query)'
             /\ Cardinality(ListBehind)' <=
                    IF x2.query.includeRevoked THEN 0 ELSE Cardinality(x2.gone)
  <2> DEFINE S == List!SearchAgents(x2.query)
             T == List!SearchAgents(x2.query)'
  <2>1. S \subseteq T
    BY DEF List!SearchAgents, List!Matches
  <2>2. IsFiniteSet(T)
    <3>1. PICK query : query = x2.query
      OBVIOUS
    <3>2. T = {i \in DOMAIN x1' : List!Matches(x1'[i], query)}
      BY <3>1 DEF List!SearchAgents
    <3>3. T \subseteq 1 .. Len(x1') /\ Len(x1') \in Nat
      BY <3>2
    <3>4. IsFiniteSet(1 .. Len(x1'))
      BY <3>3, FS_Interval
    <3> QED
      BY <3>3, <3>4, FS_Subset
  <2>3. ListHeld' = ListHeld
    BY DEF ListHeld
  <2>4. ListHeld \subseteq S /\ IsFiniteSet(S)
    BY <1>2, <2>1, <2>2, FS_Subset DEF ListInv
  <2>5. ListBehind' \subseteq ListBehind
    <3>1. PICK p : p = x2.offset
      OBVIOUS
    <3>2. /\ ListBehind = {i \in ListHeld \ x2.seen : List!Place(i, S) <= p}
          /\ ListBehind' = {i \in ListHeld \ x2.seen : List!Place(i, T) <= p}
      BY <2>3, <3>1, ListCounts DEF ListBehind
    <3>3. ASSUME NEW i, List!Place(i, T) <= p PROVE List!Place(i, S) <= p
      <4>1. /\ List!Place(i, S) \in Nat /\ List!Place(i, T) \in Nat
            /\ List!Place(i, S) <= List!Place(i, T)
        BY <2>1, <2>2, PlaceGrows
      <4>2. p \in Nat
        BY <1>1, <3>1 DEF ListWalk
      <4> QED
        BY <3>3, <4>1, <4>2
    <3> QED
      BY <3>2, <3>3
  <2>6. IsFiniteSet(ListBehind) /\ ListBehind \subseteq S
    BY <2>4, FS_Subset DEF ListBehind
  <2>7. Cardinality(ListBehind') <= Cardinality(ListBehind)
    BY <2>5, <2>6, FS_Subset
  <2>8. /\ Cardinality(ListBehind') \in Nat /\ Cardinality(ListBehind) \in Nat
        /\ IF x2.query.includeRevoked THEN TRUE ELSE Cardinality(x2.gone) \in Nat
    <3>1. IsFiniteSet(ListBehind')
      BY <2>5, <2>6, FS_Subset
    <3>2. x2.gone \subseteq 1 .. Len(x1) /\ Len(x1) \in Nat
      BY DEF ListInv
    <3>4. IsFiniteSet(1 .. Len(x1))
      BY <3>2, FS_Interval
    <3>3. IsFiniteSet(x2.gone)
      BY <3>2, <3>4, FS_Subset
    <3> QED
      BY <2>6, <3>1, <3>3, FS_CardinalityType
  <2>9. Cardinality(ListBehind) <= IF x2.query.includeRevoked THEN 0 ELSE Cardinality(x2.gone)
    BY <1>2 DEF ListInv
  <2>10. Cardinality(ListBehind)' = Cardinality(ListBehind')
    OBVIOUS
  <2> QED
    BY <2>1, <2>3, <2>4, <2>7, <2>8, <2>9, <2>10
<1> QED
  BY <1>1, <1>2 DEF ListInv

LEMMA ListRegister == ASSUME ListInv, NEW demo \in BOOLEAN, List!Register(demo) PROVE ListInv'
<1>1. PICK row : row = [demo |-> demo, linked |-> FALSE, retired |-> FALSE]
  OBVIOUS
<1>2. row \in ListRow /\ x1 \in Seq(ListRow) /\ x1' = Append(x1, row) /\ UNCHANGED x2
  BY <1>1 DEF ListRow, ListInv, List!Register
<1>3. /\ x1' \in Seq(ListRow) /\ Len(x1') = Len(x1) + 1 /\ Len(x1) \in Nat
      /\ \A i \in 1 .. Len(x1) : x1'[i] = x1[i]
  BY <1>2
<1>4. \A i \in DOMAIN x1 : i \in DOMAIN x1' /\ x1'[i] = x1[i]
  BY <1>2, <1>3
<1> QED
  BY <1>2, <1>3, <1>4, ListStays

LEMMA ListLink == ASSUME ListInv, NEW i \in DOMAIN x1, List!Link(i) PROVE ListInv'
<1>1. /\ x1 \in Seq(ListRow) /\ UNCHANGED x2 /\ x1' = [x1 EXCEPT ![i].linked = TRUE]
      /\ Len(x1) \in Nat /\ DOMAIN x1 = 1 .. Len(x1)
  BY DEF ListInv, List!Link
<1>2. PICK row : row = [x1[i] EXCEPT !.linked = TRUE]
  OBVIOUS
<1>3. x1[i] \in ListRow
  BY <1>1
<1>4. /\ row \in ListRow /\ row.linked
      /\ row.demo = x1[i].demo /\ row.retired = x1[i].retired
  BY <1>2, <1>3 DEF ListRow
<1>5. x1' = [x1 EXCEPT ![i] = row]
  BY <1>1, <1>2
<1>6. x1' \in Seq(ListRow) /\ DOMAIN x1' = DOMAIN x1
  <2>1. i \in 1 .. Len(x1)
    BY <1>1
  <2>2. [x1 EXCEPT ![i] = row] \in Seq(ListRow)
    BY <1>1, <1>4, <2>1, ExceptSeq
  <2> QED
    BY <1>1, <1>5, <2>2
<1>7. \A j \in DOMAIN x1 : /\ j \in DOMAIN x1' /\ x1'[j].demo = x1[j].demo
                           /\ x1'[j].retired = x1[j].retired
                           /\ x1[j].linked => x1'[j].linked
  BY <1>1, <1>4, <1>5, <1>6
<1> QED
  BY <1>1, <1>6, <1>7, ListStays

LEMMA ListStart ==
    ASSUME ListInv, NEW query \in List!Query, NEW raw \in RawLimit, List!StartWalk(query, raw)
    PROVE  ListInv'
<1>1. PICK items : items = List!SearchAgents(query)
  OBVIOUS
<1>2. PICK new : new = [query |-> query, limit |-> raw, offset |-> 0, seen |-> {},
                        asked |-> items, gone |-> {}, done |-> FALSE]
  OBVIOUS
<1>3. x2' = new /\ x1' = x1 /\ x1 \in Seq(ListRow)
  BY <1>1, <1>2 DEF List!StartWalk, ListInv
<1>4. items \subseteq Nat /\ IsFiniteSet(items)
  BY <1>1, <1>3, ListFinite
<1>5. new \in ListWalk
  BY <1>2, <1>4 DEF ListWalk
<1>6. List!SearchAgents(x2.query)' = items
  BY <1>1, <1>2, <1>3 DEF List!SearchAgents
<1>7. x2'.query = query /\ ~x2'.done /\ x2'.gone = {} /\ x2'.seen = {} /\ x2'.offset = 0
      /\ x2'.asked = items
  BY <1>2, <1>3
<1>8. ListHeld' = items
  BY <1>7 DEF ListHeld
<1>9. ListBehind' = {}
  <2>1. ASSUME NEW i \in items PROVE ~(List!Place(i, items) <= 0)
    <3> DEFINE A == {j \in items : j <= i}
    <3>1. i \in A /\ A \subseteq items
      BY <1>4
    <3>2. IsFiniteSet(A) /\ Cardinality(A) \in Nat
      BY <1>4, <3>1, FS_Subset, FS_CardinalityType
    <3>3. Cardinality(A) # 0
      BY <3>1, <3>2, FS_EmptySet
    <3>4. List!Place(i, items) = Cardinality(A)
      BY ListCounts
    <3> HIDE DEF A
    <3> QED
      BY <3>2, <3>3, <3>4
  <2>2. ListBehind' = {i \in ListHeld' \ x2'.seen :
                          List!Place(i, List!SearchAgents(x2.query)') <= x2'.offset}
    BY ListCounts DEF ListBehind
  <2> QED
    BY <1>6, <1>7, <1>8, <2>1, <2>2
<1>10. Cardinality({}) = 0
  BY FS_EmptySet
<1>11. List!ListingComplete'
  BY <1>7 DEF List!ListingComplete
<1> QED
  BY <1>3, <1>5, <1>6, <1>7, <1>8, <1>9, <1>10, <1>11 DEF ListInv

LEMMA ListNextPage == ASSUME ListInv, List!NextPage PROVE ListInv'
<1>1. PICK q, items, s, a, g, p, n :
        /\ q = x2.query /\ s = x2.seen /\ a = x2.asked /\ g = x2.gone
        /\ items = List!SearchAgents(q) /\ p = x2.offset /\ n = x2.limit \div 2
  OBVIOUS
<1>2. PICK page : page = {i \in items : /\ p < List!Place(i, items)
                                        /\ List!Place(i, items) <= p + n}
  OBVIOUS
<1>3. PICK more \in BOOLEAN : more = (p + n < Cardinality(items))
  <2>1. CASE p + n < Cardinality(items)
    <3>1. TRUE = (p + n < Cardinality(items))
      BY <2>1
    <3> QED
      BY <3>1
  <2>2. CASE ~(p + n < Cardinality(items))
    <3>1. FALSE = (p + n < Cardinality(items))
      BY <2>2
    <3> QED
      BY <3>1
  <2> QED
    BY <2>1, <2>2
<1>4. /\ x2 \in ListWalk /\ ~x2.done /\ x2 # None /\ x1' = x1 /\ x1 \in Seq(ListRow)
      /\ x2.gone \subseteq {i \in DOMAIN x1 : x1[i].retired}
      /\ ListHeld \subseteq items
      /\ Cardinality(ListBehind) <= IF q.includeRevoked THEN 0 ELSE Cardinality(g)
  BY <1>1 DEF ListInv, List!NextPage, List!Underway
<1>5. /\ p \in Nat /\ n \in Nat /\ List!ParseLimit(x2.limit) = n
      /\ s \in SUBSET Nat /\ a \in SUBSET Nat /\ g \in SUBSET Nat
  BY <1>1, <1>4, LimitKept DEF ListWalk
<1>6. items \subseteq Nat /\ IsFiniteSet(items)
  BY <1>1, <1>4, ListFinite
<1>7. page \subseteq Nat
  BY <1>2, <1>6
<1>8. List!Paginate(items, n, p) = [page |-> page, hasMore |-> more]
  BY <1>2, <1>3, ListCounts DEF List!Paginate
<1>9. x2' = [x2 EXCEPT !.offset = p + n, !.seen = s \cup page, !.done = ~more]
  <2>1. x2' = [x2 EXCEPT !.offset = @ + x2.limit \div 2,
                         !.seen = @ \cup List!Paginate(items, n, p).page,
                         !.done = ~List!Paginate(items, n, p).hasMore]
    BY <1>1, <1>5 DEF List!NextPage
  <2>2. List!Paginate(items, n, p).page = page /\ List!Paginate(items, n, p).hasMore = more
    BY <1>8
  <2> QED
    BY <1>1, <1>4, <2>1, <2>2 DEF ListWalk
<1>10. /\ x2' \in ListWalk /\ x2'.query = q /\ x2'.asked = a /\ x2'.gone = g
       /\ x2'.offset = p + n /\ x2'.seen = s \cup page /\ x2'.done = ~more
  <2>1. (~more) \in BOOLEAN /\ p + n \in Nat /\ s \cup page \in SUBSET Nat
    <3>1. (~more) \in BOOLEAN
      OBVIOUS
    <3>2. p + n \in Nat
      BY <1>5
    <3>3. s \cup page \in SUBSET Nat
      BY <1>5, <1>7
    <3> QED
      BY <3>1, <3>2, <3>3
  <2>2. PICK over : over = ~more
    OBVIOUS
  <2>3. x2' = [x2 EXCEPT !.offset = p + n, !.seen = s \cup page, !.done = over]
    BY <1>9, <2>2
  <2> QED
    BY <1>1, <1>4, <2>1, <2>2, <2>3 DEF ListWalk
<1>11. List!SearchAgents(x2.query)' = items
  BY <1>1, <1>4, <1>10 DEF List!SearchAgents
<1>12. PICK held : held = ListHeld
  OBVIOUS
<1>13. ListHeld' = held /\ held = (IF q.includeRevoked THEN a ELSE a \ g) /\ held \subseteq items
  BY <1>1, <1>4, <1>10, <1>12 DEF ListHeld
<1>14. /\ ListBehind = {i \in held \ s : List!Place(i, items) <= p}
       /\ ListBehind' = {i \in held \ (s \cup page) : List!Place(i, items) <= p + n}
  <2>1. ListBehind' = {i \in ListHeld' \ x2'.seen :
                          List!Place(i, List!SearchAgents(x2.query)') <= x2'.offset}
    BY ListCounts DEF ListBehind
  <2> QED
    BY <1>1, <1>10, <1>11, <1>12, <1>13, <2>1 DEF ListBehind
<1>15. \A i : List!Place(i, items) \in Nat /\ List!Place(i, items) <= Cardinality(items)
  BY <1>6, PlaceGrows
<1>16. ListBehind' \subseteq ListBehind
  <2>1. ASSUME NEW i \in held \ (s \cup page), List!Place(i, items) <= p + n
        PROVE  List!Place(i, items) <= p
    <3>1. i \in items /\ i \notin page
      BY <1>13
    <3>2. ~(p < List!Place(i, items))
      BY <1>2, <2>1, <3>1
    <3> QED
      BY <1>5, <1>15, <3>2
  <2> QED
    BY <1>14, <2>1
<1>17. /\ IsFiniteSet(ListBehind) /\ Cardinality(ListBehind) \in Nat
       /\ IsFiniteSet(ListBehind') /\ Cardinality(ListBehind') \in Nat
       /\ Cardinality(ListBehind') <= Cardinality(ListBehind)
  BY <1>6, <1>13, <1>14, <1>16, FS_Subset, FS_CardinalityType
<1>18. /\ IsFiniteSet(g) /\ Cardinality(g) \in Nat
  <2>1. x2.gone \subseteq 1 .. Len(x1) /\ Len(x1) \in Nat
    BY <1>4
  <2>2. IsFiniteSet(1 .. Len(x1))
    BY <2>1, FS_Interval
  <2> QED
    BY <1>1, <2>1, <2>2, FS_Subset, FS_CardinalityType
<1>19. Cardinality(ListBehind') <= IF q.includeRevoked THEN 0 ELSE Cardinality(g)
  BY <1>4, <1>17, <1>18
<1>20. List!ListingComplete'
  <2> SUFFICES ASSUME ~more PROVE List!ListingComplete'
    BY <1>10 DEF List!ListingComplete
  <2>1. Cardinality(items) <= p + n
    <3>1. ~(p + n < Cardinality(items))
      BY <1>3
    <3>2. Cardinality(items) \in Nat
      BY <1>6, FS_CardinalityType
    <3> QED
      BY <1>5, <3>1, <3>2
  <2>2. held \ (s \cup page) \subseteq ListBehind'
    <3>1. ASSUME NEW i \in held PROVE List!Place(i, items) <= p + n
      <4>1. Cardinality(items) \in Nat
        BY <1>6, FS_CardinalityType
      <4> QED
        BY <1>5, <1>15, <2>1, <4>1
    <3> QED
      BY <1>14, <3>1
  <2>3. List!Missed' = a \ (s \cup page)
    BY <1>10 DEF List!Missed
  <2>4. CASE q.includeRevoked
    <3>1. ListBehind' = {}
      BY <1>17, <1>19, <2>4, FS_EmptySet
    <3>2. List!Missed' = {}
      BY <1>13, <2>2, <2>3, <2>4, <3>1
    <3> QED
      BY <1>10, <2>4, <3>2 DEF List!ListingComplete
  <2>5. CASE ~q.includeRevoked
    <3>1. List!Missed' \ g \subseteq ListBehind'
      BY <1>13, <2>2, <2>3, <2>5
    <3>2. Cardinality(List!Missed' \ g) <= Cardinality(g)
      <4>1. /\ IsFiniteSet(List!Missed' \ g)
            /\ Cardinality(List!Missed' \ g) <= Cardinality(ListBehind')
        BY <1>17, <3>1, FS_Subset
      <4>2. Cardinality(List!Missed' \ g) \in Nat
        BY <4>1, FS_CardinalityType
      <4> QED
        BY <1>17, <1>18, <1>19, <2>5, <4>1, <4>2
    <3> QED
      BY <1>10, <2>5, <3>2, ListCounts DEF List!ListingComplete
  <2> QED
    BY <2>4, <2>5
<1>21. Cardinality(ListBehind)' = Cardinality(ListBehind')
  OBVIOUS
<1> QED
  BY <1>1, <1>4, <1>10, <1>11, <1>13, <1>19, <1>20, <1>21 DEF ListInv

\* An agent that retires takes at most one agent past the walk, the one whose
\* place was next.
LEMMA ListRetire == ASSUME ListInv, NEW j \in DOMAIN x1, List!Retire(j) PROVE ListInv'
<1>1. /\ x1 \in Seq(ListRow) /\ ~x1[j].retired /\ x1' = [x1 EXCEPT ![j].retired = TRUE]
      /\ Len(x1) \in Nat /\ DOMAIN x1 = 1 .. Len(x1) /\ j \in Nat
  BY DEF ListInv, List!Retire
<1>2. PICK row : row = [x1[j] EXCEPT !.retired = TRUE]
  OBVIOUS
<1>3. x1[j] \in ListRow
  BY <1>1
<1>4. /\ row \in ListRow /\ row.retired
      /\ row.demo = x1[j].demo /\ row.linked = x1[j].linked
  BY <1>2, <1>3 DEF ListRow
<1>5. x1' = [x1 EXCEPT ![j] = row]
  BY <1>1, <1>2
<1>6. x1' \in Seq(ListRow) /\ DOMAIN x1' = DOMAIN x1
  <2>1. j \in 1 .. Len(x1)
    BY <1>1
  <2>2. [x1 EXCEPT ![j] = row] \in Seq(ListRow)
    BY <1>1, <1>4, <2>1, ExceptSeq
  <2> QED
    BY <1>1, <1>5, <2>2
<1>7. \A i \in DOMAIN x1 : x1'[i] = IF i = j THEN row ELSE x1[i]
  BY <1>1, <1>5
<1>8. CASE ~List!Underway
  <2>1. UNCHANGED x2 /\ (x2 # None => x2.done)
    BY <1>8 DEF List!Retire, List!Underway
  <2>2. x2 # None => x2'.gone \subseteq {i \in DOMAIN x1' : x1'[i].retired}
    BY <1>4, <1>6, <1>7, <2>1 DEF ListInv
  <2>3. List!ListingComplete'
    BY <2>1 DEF ListInv, List!ListingComplete, List!Missed
  <2> QED
    BY <1>6, <2>1, <2>2, <2>3 DEF ListInv
<1>9. CASE List!Underway
  <2>1. PICK q, items, s, a, g, p :
          /\ q = x2.query /\ s = x2.seen /\ a = x2.asked /\ g = x2.gone
          /\ items = List!SearchAgents(q) /\ p = x2.offset
    OBVIOUS
  <2>2. /\ x2 \in ListWalk /\ ~x2.done /\ x2 # None
        /\ g \subseteq {i \in DOMAIN x1 : x1[i].retired}
        /\ ListHeld \subseteq items
        /\ Cardinality(ListBehind) <= IF q.includeRevoked THEN 0 ELSE Cardinality(g)
    BY <1>9, <2>1 DEF ListInv, List!Underway
  <2>3. /\ p \in Nat /\ s \in SUBSET Nat /\ a \in SUBSET Nat /\ g \in SUBSET Nat
    BY <2>1, <2>2 DEF ListWalk
  <2>4. items \subseteq Nat /\ IsFiniteSet(items)
    BY <1>1, <2>1, ListFinite
  <2>5. x2' = [x2 EXCEPT !.gone = g \cup {j}]
    BY <1>9, <2>1 DEF List!Retire
  <2>6. /\ x2' \in ListWalk /\ x2'.query = q /\ x2'.asked = a /\ x2'.gone = g \cup {j}
        /\ x2'.offset = p /\ x2'.seen = s /\ ~x2'.done
    BY <1>1, <2>1, <2>2, <2>3, <2>5 DEF ListWalk
  <2>7. x2'.gone \subseteq {i \in DOMAIN x1' : x1'[i].retired}
    BY <1>4, <1>6, <1>7, <2>2, <2>6
  <2>8. List!ListingComplete'
    BY <2>6 DEF List!ListingComplete
  <2>9. List!SearchAgents(x2.query)' = IF q.includeRevoked THEN items ELSE items \ {j}
    <3>1. items = {i \in DOMAIN x1 : List!Matches(x1[i], q)}
      BY <2>1 DEF List!SearchAgents
    <3>2. List!SearchAgents(x2.query)' = {i \in DOMAIN x1 : List!Matches(x1'[i], q)}
      BY <1>6, <2>6 DEF List!SearchAgents
    <3>3. \A i \in DOMAIN x1 :
            List!Matches(x1'[i], q) <=> /\ List!Matches(x1[i], q)
                                        /\ q.includeRevoked \/ i # j
      BY <1>1, <1>4, <1>7 DEF List!Matches
    <3> QED
      BY <3>1, <3>2, <3>3
  <2>10. IsFiniteSet(g) /\ Cardinality(g) \in Nat /\ Cardinality(g \cup {j}) = Cardinality(g) + 1
    <3>1. g \subseteq 1 .. Len(x1) /\ j \notin g
      BY <1>1, <2>2
    <3>2. IsFiniteSet(1 .. Len(x1))
      BY <1>1, FS_Interval
    <3>3. IsFiniteSet(g)
      BY <3>1, <3>2, FS_Subset
    <3> QED
      BY <3>1, <3>3, FS_AddElement, FS_CardinalityType
  <2>11. PICK held : held = ListHeld
    OBVIOUS
  <2>12. /\ held = (IF q.includeRevoked THEN a ELSE a \ g) /\ held \subseteq items
         /\ ListHeld' = IF q.includeRevoked THEN held ELSE held \ {j}
    BY <2>1, <2>2, <2>6, <2>11 DEF ListHeld
  <2>13. ListBehind = {i \in held \ s : List!Place(i, items) <= p}
    BY <2>1, <2>11 DEF ListBehind
  <2>14. IsFiniteSet(ListBehind) /\ Cardinality(ListBehind) \in Nat
    BY <2>4, <2>12, <2>13, FS_Subset, FS_CardinalityType
  <2>15. ListBehind' = {i \in ListHeld' \ x2'.seen :
                           List!Place(i, List!SearchAgents(x2.query)') <= x2'.offset}
    BY ListCounts DEF ListBehind
  <2>16. /\ ListHeld' \subseteq List!SearchAgents(x2.query)'
         /\ Cardinality(ListBehind') <= IF q.includeRevoked THEN 0 ELSE Cardinality(x2'.gone)
    <3>1. CASE q.includeRevoked
      <4>1. ListBehind' = ListBehind
        BY <2>6, <2>9, <2>12, <2>13, <2>15, <3>1
      <4> QED
        BY <2>2, <2>9, <2>12, <3>1, <4>1
    <3>2. CASE ~q.includeRevoked
      <4> DEFINE next == {i \in items : List!Place(i, items) = p + 1}
      <4>1. ListHeld' \subseteq List!SearchAgents(x2.query)'
        BY <2>9, <2>12, <3>2
      <4>2. ListBehind' = {i \in (held \ {j}) \ s : List!Place(i, items \ {j}) <= p}
        BY <2>6, <2>9, <2>12, <2>15, <3>2
      <4>3. ListBehind' \subseteq ListBehind \cup next
        <5>1. ASSUME NEW i \in (held \ {j}) \ s, List!Place(i, items \ {j}) <= p
              PROVE  i \in ListBehind \/ i \in next
          <6>1. /\ List!Place(i, items \ {j}) \in Nat /\ List!Place(i, items) \in Nat
            BY <2>4, PlaceGrows
          <6>2. List!Place(i, items) <= List!Place(i, items \ {j}) + 1
            BY <2>4, PlaceDrops
          <6>3. List!Place(i, items) <= p \/ List!Place(i, items) = p + 1
            BY <2>3, <5>1, <6>1, <6>2
          <6> QED
            BY <2>12, <2>13, <6>3
        <5> QED
          BY <4>2, <5>1
      <4>4. \A i, k \in next : i = k
        BY <2>4, PlaceApart
      <4>5. Cardinality(ListBehind') <= Cardinality(ListBehind) + 1
        <5>1. CASE next = {}
          BY <2>14, <4>3, <5>1, FS_Subset, FS_CardinalityType
        <5>2. CASE next # {}
          <6>1. PICK k : next = {k}
            BY <4>4, <5>2
          <6>2. /\ IsFiniteSet(ListBehind \cup {k})
                /\ \/ Cardinality(ListBehind \cup {k}) = Cardinality(ListBehind)
                   \/ Cardinality(ListBehind \cup {k}) = Cardinality(ListBehind) + 1
            BY <2>14, FS_AddElement
          <6>3. /\ IsFiniteSet(ListBehind')
                /\ Cardinality(ListBehind') <= Cardinality(ListBehind \cup {k})
            BY <4>3, <6>1, <6>2, FS_Subset
          <6>4. Cardinality(ListBehind') \in Nat
            BY <6>3, FS_CardinalityType
          <6> QED
            BY <2>14, <6>2, <6>3, <6>4
        <5> QED
          BY <5>1, <5>2
      <4>6. Cardinality(ListBehind') \in Nat
        <5>1. ListBehind' \subseteq items
          BY <2>12, <4>2
        <5> QED
          BY <2>4, <5>1, FS_Subset, FS_CardinalityType
      <4> QED
        BY <2>2, <2>6, <2>10, <2>14, <3>2, <4>1, <4>5, <4>6
    <3> QED
      BY <3>1, <3>2
  <2>17. Cardinality(ListBehind)' = Cardinality(ListBehind')
    OBVIOUS
  <2> QED
    BY <1>6, <2>1, <2>2, <2>6, <2>7, <2>8, <2>16, <2>17 DEF ListInv
<1> QED
  BY <1>8, <1>9

(* A walk over the pages of a list misses nobody, if it asks for the       *)
(* retired too, and otherwise at most one agent for each that retires      *)
(* meanwhile, for any limits (searchAgents, paginate, inamLinkedWallets,   *)
(* fetchAll).                                                              *)
THEOREM ListingCompleteCorrect == Spec => []ListingComplete
<1> DEFINE I == part = "list" => ListInv
<1>1. Init => I
  <2>1. ASSUME part = "list", List!Init PROVE ListInv
    BY <2>1 DEF List!Init, ListInv
  <2> QED
    BY <2>1 DEF Init
<1>2. I /\ [Next]_vars => I'
  <2> SUFFICES ASSUME I, [Next]_vars, part = "list", ListInv, [List!Next]_(List!vars) PROVE ListInv'
    BY OnePart
  <2>1. CASE UNCHANGED List!vars
    <3>1. x1' = x1 /\ x2' = x2 /\ x1 \in Seq(ListRow)
      BY <2>1 DEF List!vars, ListInv
    <3> QED
      BY <3>1, ListStays
  <2>2. CASE List!Next
    BY <2>2, ListRegister, ListLink, ListRetire, ListStart, ListNextPage DEF List!Next
  <2> QED
    BY <2>1, <2>2
<1>3. I => ListingComplete
  BY DEF ListInv, ListingComplete, List!ListingComplete
<1> QED
  BY <1>1, <1>2, <1>3, PTL DEF Spec

-----------------------------------------------------------------------------
(* The Worker's reputation (WorkerReputationProofs). *)

\* The Worker's loops over sorted lists, with their counters, caches and
\* early returns, give every ID the weights, flags and reports that the sets
\* of Reputation say, whatever receipts, disputes, reports
\* and successions led there (computeReputation).
THEOREM RuntimesAgreeCorrect == Spec => []RuntimesAgree
<1> DEFINE I == part = "score" => Score!ScoreInv
<1>1. Init => I
  BY Score!ScoreInit DEF Init
<1>2. I /\ [Next]_vars => I'
  <2> SUFFICES ASSUME part = "score", Score!ScoreInv, [Score!Next]_(Score!vars)
               PROVE  Score!ScoreInv'
    BY OnePart
  <2> QED
    BY Score!ScoreNext
<1>3. I => RuntimesAgree
  BY Score!ScoreAgrees DEF RuntimesAgree
<1> QED
  BY <1>1, <1>2, <1>3, PTL DEF Spec
=============================================================================
