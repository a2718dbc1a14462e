--------------------------- MODULE RegistryProofs ---------------------------
(***************************************************************************)
(* Safety of the Node registry, for every number of identities, jobs and   *)
(* receipts, every length of the windows and every bound: the tables keep  *)
(* their types, the log agrees with them, receipts and jobs agree with     *)
(* each other, and disputes are bounded in time.  Then the log as an       *)
(* auditor reads it: it tells every succession, successors being unique    *)
(* and new; no event is logged twice; the events of a receipt are in       *)
(* order; and what it tells of receipts is a behaviour of                  *)
(* ReceiptLifecycle.                                                       *)
(***************************************************************************)
EXTENDS Registry, TLAPS

USE AgentsAssumption, JobsAssumption, ContentAssumption

-----------------------------------------------------------------------------
(* Type correctness. *)

\* An appended leaf of the right shape keeps a log well typed.
LEMMA AppendType ==
    ASSUME NEW l \in Seq(Entry), NEW t \in EntryType, NEW r \in Did \cup JobId \cup Content,
           NEW d \in Did \cup {None, "authorized", "unauthorized"}
    PROVE  Append(l, Leaf(t, r, d)) \in Seq(Entry)
  BY DEF Leaf, Entry

\* The rows the handlers write have the shape of their table.
LEMMA AcceptedRow ==
    ASSUME NEW row \in Job, NEW w \in Did, NEW t \in Nat
    PROVE  [row EXCEPT !.status = "accepted", !.acceptedAgentId = w, !.acceptedAt = t] \in Job
  BY DEF Job, Time

LEMMA CompletedRow ==
    ASSUME NEW row \in Job, NEW c \in Content
    PROVE  [row EXCEPT !.status = "completed", !.receiptId = c] \in Job
  BY DEF Job

LEMMA FinalizedRow ==
    ASSUME NEW row \in Receipt, NEW t \in Nat
    PROVE  [row EXCEPT !.status = "finalized", !.disputeStatus = "none",
                       !.windowClosesAt = t] \in Receipt
  BY DEF Receipt, Time

LEMMA DisputedRow ==
    ASSUME NEW row \in Receipt, NEW p \in Did, NEW t \in Nat
    PROVE  [row EXCEPT !.status = "disputed", !.disputeStatus = "open",
                       !.openedBy = p, !.resolutionDeadline = t] \in Receipt
  BY DEF Receipt, Time

LEMMA ResolvedRow ==
    ASSUME NEW row \in Receipt, NEW p \in Did
    PROVE  [row EXCEPT !.status = "finalized", !.disputeStatus = "resolved",
                       !.usedBy = row.usedBy \cup {p}] \in Receipt
  BY DEF Receipt

\* The initial tables are well typed.
LEMMA InitType == Init => TypeOK
  BY DEF Init, LogInit, AgentsInit, JobsInit, ReceiptsInit, TypeOK, Time, NoTime,
         Succession, NoSuccession, Job, NoJob, Receipt, NoReceipt

\* No handler of an agent breaks the type of a table.
LEMMA AgentStepType == TypeOK /\ AgentStep => TypeOK'
<1> SUFFICES ASSUME TypeOK, AgentStep PROVE TypeOK'
  OBVIOUS
<1>0. /\ log \in Seq(Entry)
      /\ now \in Nat
      /\ pendingSuccession \in [Did -> Succession]
  BY DEF TypeOK
<1>1. CASE \E a \in Did : RegisterAgent(a)
  BY <1>1 DEF RegisterAgent, AgentStep, TypeOK
<1>2. CASE \E a \in Did : RevokeAgent(a)
  <2> PICK a \in Did : RevokeAgent(a)
    BY <1>2
  <2>1. log' \in Seq(Entry)
    <3>1. CASE pendingSuccession[a].successor = None
      BY <1>0, <3>1 DEF RevokeAgent
    <3>2. CASE pendingSuccession[a].successor # None
      <4>1. pendingSuccession[a].successor \in Did
        BY <1>0, <3>2 DEF Succession
      <4> QED
        BY SMTT(60), <1>0, <3>2, <4>1, AppendType DEF RevokeAgent, AppendEntry, EntryType
    <3> QED
      BY <3>1, <3>2
  <2>2. pendingSuccession' \in [Did -> Succession]
    BY <1>0 DEF RevokeAgent, Succession, NoSuccession, Time, NoTime
  <2> QED
    BY <2>1, <2>2 DEF RevokeAgent, AgentStep, TypeOK
<1>3. CASE \E p \in Did : ActivateDueSuccession(p)
  <2> PICK p \in Did : ActivateDueSuccession(p)
    BY <1>3
  <2>1. pendingSuccession[p].successor \in Did
    BY <1>0 DEF ActivateDueSuccession, DueSuccessions, Succession
  <2>2. log' \in Seq(Entry)
    BY <1>0, <2>1, AppendType DEF ActivateDueSuccession, AppendEntry, EntryType
  <2>3. pendingSuccession' \in [Did -> Succession]
    BY <1>0 DEF ActivateDueSuccession, Succession, NoSuccession, Time, NoTime
  <2> QED
    BY <2>1, <2>2, <2>3 DEF ActivateDueSuccession, AgentStep, TypeOK
<1>4. CASE \E a, s \in Did : RequestSuccession(a, s)
  <2> PICK a \in Did, s \in Did : RequestSuccession(a, s)
    BY <1>4
  <2>1. log' \in Seq(Entry)
    BY <1>0, AppendType DEF RequestSuccession, AppendEntry, EntryType
  <2>2. pendingSuccession' \in [Did -> Succession]
    BY <1>0 DEF RequestSuccession, Succession, Time
  <2> QED
    BY <2>1, <2>2 DEF RequestSuccession, AgentStep, TypeOK
<1>5. CASE \E a \in Did, target \in Did, g \in BOOLEAN : SetVerifierStatus(a, target, g)
  <2> PICK a \in Did, target \in Did, g \in BOOLEAN : SetVerifierStatus(a, target, g)
    BY <1>5
  <2>1. log' \in Seq(Entry)
    BY <1>0, AppendType DEF SetVerifierStatus, GrantOf, AppendEntry, EntryType
  <2> QED
    BY <2>1 DEF SetVerifierStatus, AgentStep, TypeOK
<1> QED
  BY <1>1, <1>2, <1>3, <1>4, <1>5 DEF AgentStep, AgentsNext

\* No handler of a job breaks the type of a table.
LEMMA JobStepType == TypeOK /\ JobStep => TypeOK'
<1> SUFFICES ASSUME TypeOK, NEW a \in Did, NEW j \in JobId, JobHandler(a, j),
                    UNCHANGED receipts
             PROVE  TypeOK'
  BY DEF JobStep
<1>0. log \in Seq(Entry) /\ now \in Nat /\ jobs \in [JobId -> Job]
  BY DEF TypeOK
<1>1. CASE \E e \in Expiry : PostFreshJob(a, j, e)
  <2> PICK e \in Expiry : PostFreshJob(a, j, e)
    BY <1>1
  <2>1. jobs' \in [JobId -> Job]
    BY <1>0 DEF PostFreshJob, PostJob, NoJob, Job, Time, NoTime
  <2> QED
    BY <2>1 DEF PostFreshJob, PostJob, TypeOK, agentVars
<1>2. CASE SubmitOffer(a, j)
  <2>1. jobs' \in [JobId -> Job]
    BY <1>0, <1>2 DEF SubmitOffer, Job
  <2> QED
    BY <1>2, <2>1 DEF SubmitOffer, TypeOK, agentVars
<1>3. CASE \E w \in Did : AcceptOffer(a, j, w)
  <2> PICK w \in Did : AcceptOffer(a, j, w)
    BY <1>3
  <2>1. jobs' \in [JobId -> Job]
    BY <1>0, AcceptedRow DEF AcceptOffer
  <2> QED
    BY <2>1 DEF AcceptOffer, TypeOK, agentVars
<1>4. CASE CancelJob(a, j)
  <2>1. jobs' \in [JobId -> Job]
    BY <1>0, <1>4 DEF CancelJob, Job
  <2> QED
    BY <1>4, <2>1 DEF CancelJob, TypeOK, agentVars
<1>5. CASE ReportNonPerformance(a, j)
  <2>1. jobs' \in [JobId -> Job]
    BY <1>0, <1>5 DEF ReportNonPerformance, Job
  <2>2. log' \in Seq(Entry)
    BY <1>0, <1>5, AppendType DEF ReportNonPerformance, AppendEntry, EntryType
  <2> QED
    BY <1>5, <2>1, <2>2 DEF ReportNonPerformance, TypeOK, agentVars
<1> QED
  BY <1>1, <1>2, <1>3, <1>4, <1>5 DEF JobHandler

\* No handler of a receipt breaks the type of a table.
LEMMA ReceiptStepType == TypeOK /\ ReceiptStep => TypeOK'
<1> SUFFICES ASSUME TypeOK, NEW a \in Did, NEW c \in Content, ReceiptHandler(a, c)
             PROVE  TypeOK'
  BY DEF ReceiptStep
<1>0. /\ log \in Seq(Entry)
      /\ now \in Nat
      /\ jobs \in [JobId -> Job]
      /\ receipts \in [Content -> Receipt]
      /\ receipts[c] \in Receipt
      /\ now + DisputeWindow \in Nat
  BY DEF TypeOK
<1>1. CASE CreateDraft(a, c)
  <2>1. receipts' \in [Content -> Receipt]
    BY <1>0, <1>1 DEF CreateDraft, Receipt
  <2> QED
    BY <1>1, <2>1 DEF CreateDraft, TypeOK, agentVars
<1>2. CASE Countersign(a, c)
  <2>1. log' \in Seq(Entry)
    BY <1>0, <1>2, AppendType DEF Countersign, AppendEntry, EntryType
  <2>2. jobs' \in [JobId -> Job]
    <3>1. c.jobId \in JobId
      OBVIOUS
    <3>2. [jobs[c.jobId] EXCEPT !.status = "completed", !.receiptId = c] \in Job
      BY <1>0, <3>1, CompletedRow
    <3> QED
      BY <1>0, <1>2, <3>2 DEF Countersign, MarkCompletedByReceipt
  <2>3. receipts' \in [Content -> Receipt]
    <3>1. [receipts[c] EXCEPT !.status = "finalized", !.disputeStatus = "none",
                              !.windowClosesAt = now + DisputeWindow] \in Receipt
      BY <1>0, FinalizedRow
    <3> QED
      BY <1>0, <1>2, <3>1 DEF Countersign
  <2> QED
    BY <1>2, <2>1, <2>2, <2>3 DEF Countersign, TypeOK, agentVars
<1>3. CASE OpenDispute(a, c)
  <2>1. log' \in Seq(Entry)
    BY <1>0, <1>3, AppendType DEF OpenDispute, AppendEntry, EntryType
  <2>2. receipts' \in [Content -> Receipt]
    <3>1. [receipts[c] EXCEPT !.status = "disputed", !.disputeStatus = "open",
                              !.openedBy = a,
                              !.resolutionDeadline = now + DisputeWindow] \in Receipt
      BY <1>0, DisputedRow
    <3> QED
      BY <1>0, <1>3, <3>1 DEF OpenDispute
  <2> QED
    BY <1>3, <2>1, <2>2 DEF OpenDispute, TypeOK, agentVars
<1>4. CASE ResolveDispute(a, c)
  <2>1. log' \in Seq(Entry)
    BY <1>0, <1>4, AppendType DEF ResolveDispute, AppendEntry, EntryType
  <2>2. receipts' \in [Content -> Receipt]
    <3>1. [receipts[c] EXCEPT !.status = "finalized", !.disputeStatus = "resolved",
                              !.usedBy = receipts[c].usedBy \cup {a}] \in Receipt
      BY <1>0, ResolvedRow
    <3> QED
      BY <1>0, <1>4, <3>1 DEF ResolveDispute
  <2> QED
    BY <1>4, <2>1, <2>2 DEF ResolveDispute, TypeOK, agentVars
<1> QED
  BY <1>1, <1>2, <1>3, <1>4 DEF ReceiptHandler

\* The tables keep their shape forever.
THEOREM TypeCorrect == Spec => []TypeOK
<1>1. TypeOK /\ [Next]_vars => TypeOK'
  <2> SUFFICES ASSUME TypeOK, [Next]_vars PROVE TypeOK'
    OBVIOUS
  <2>1. CASE TimeStep
    BY <2>1 DEF TimeStep, Tick, TypeOK, agentVars
  <2>2. CASE UNCHANGED vars
    BY <2>2 DEF vars, TypeOK, agentVars
  <2> QED
    BY <2>1, <2>2, AgentStepType, JobStepType, ReceiptStepType DEF Next
<1> QED
  BY InitType, <1>1, PTL DEF Spec

-----------------------------------------------------------------------------
(* What a step does to the log. *)

\* After an append every old row keeps its place and the new leaf is last.
LEMMA AppendRows ==
    ASSUME log \in Seq(Entry), NEW e \in Entry, log' = Append(log, e)
    PROVE  /\ Len(log) \in Nat
           /\ Len(log') = Len(log) + 1
           /\ \A i \in 1 .. Len(log) : log'[i] = log[i]
           /\ log'[Len(log) + 1] = e
  OBVIOUS

\* After an append the log holds what it held before, and the new leaf.
LEMMA LoggedAppend ==
    ASSUME log \in Seq(Entry), NEW t, NEW r, NEW d, Leaf(t, r, d) \in Entry,
           AppendEntry(t, r, d)
    PROVE  \A tt, rr, dd :
              Logged(tt, rr, dd)' <=> Logged(tt, rr, dd) \/ (tt = t /\ rr = r /\ dd = d)
<1>1. log' = Append(log, Leaf(t, r, d))
  BY DEF AppendEntry
<1>2. /\ Len(log) \in Nat
      /\ Len(log') = Len(log) + 1
      /\ \A i \in 1 .. Len(log) : log'[i] = log[i]
      /\ log'[Len(log) + 1] = Leaf(t, r, d)
  BY <1>1
<1> TAKE tt, rr, dd
<1>3. Logged(tt, rr, dd) => Logged(tt, rr, dd)'
  BY <1>2 DEF Logged
<1>4. Leaf(tt, rr, dd) = Leaf(t, r, d) <=> tt = t /\ rr = r /\ dd = d
  BY DEF Leaf
<1>5. Leaf(tt, rr, dd) = Leaf(t, r, d) => Logged(tt, rr, dd)'
  BY <1>2 DEF Logged
<1>6. Logged(tt, rr, dd)' => Logged(tt, rr, dd) \/ Leaf(tt, rr, dd) = Leaf(t, r, d)
  <2> SUFFICES ASSUME NEW i \in 1 .. Len(log'), log'[i] = Leaf(tt, rr, dd)
               PROVE  Logged(tt, rr, dd) \/ Leaf(tt, rr, dd) = Leaf(t, r, d)
    BY DEF Logged
  <2>1. CASE i \in 1 .. Len(log)
    BY <1>2, <2>1 DEF Logged
  <2>2. CASE i = Len(log) + 1
    BY <1>2, <2>2
  <2> QED
    BY <1>2, <2>1, <2>2
<1> QED
  BY <1>3, <1>4, <1>5, <1>6

\* If the log stays, so does what is logged.
LEMMA LoggedSame ==
    ASSUME UNCHANGED log
    PROVE  \A t, r, d : Logged(t, r, d)' <=> Logged(t, r, d)
  BY DEF Logged

ReceiptTypes == {"receipt_finalized", "dispute_opened", "dispute_resolved"}

AgentTypes == {"verifier_status_changed", "agent_succession_pending",
               "agent_succession_cancelled", "agent_succeeded"}

\* A step that is not a receipt handler.
OtherStep == AgentStep \/ JobStep \/ TimeStep \/ UNCHANGED vars

\* Every step is a receipt handler or one of the others.
LEMMA StepCases ==
    [Next]_vars => OtherStep \/ \E a \in Did, c \in Content : ReceiptHandler(a, c)
  BY DEF Next, ReceiptStep, OtherStep

\* A handler of an agent logs nothing, or one leaf about agents.
LEMMA AgentStepLog ==
    ASSUME TypeOK, AgentStep
    PROVE  \/ UNCHANGED log
           \/ \E t \in AgentTypes : \E r, d : Leaf(t, r, d) \in Entry /\ AppendEntry(t, r, d)
<1>0. pendingSuccession \in [Did -> Succession]
  BY DEF TypeOK
<1>1. CASE \E a \in Did : RegisterAgent(a)
  BY <1>1 DEF RegisterAgent
<1>2. CASE \E a \in Did : RevokeAgent(a)
  <2> PICK a \in Did : RevokeAgent(a)
    BY <1>2
  <2> DEFINE s == pendingSuccession[a].successor
  <2>1. CASE s = None
    BY <2>1 DEF RevokeAgent
  <2>2. CASE s # None
    <3>1. s \in Did
      BY <1>0, <2>2 DEF Succession
    <3>2. Leaf("agent_succession_cancelled", a, s) \in Entry
      BY <3>1 DEF Leaf, Entry, EntryType
    <3> QED
      BY <2>2, <3>2 DEF RevokeAgent, AgentTypes
  <2> QED
    BY <2>1, <2>2
<1>3. CASE \E p \in Did : ActivateDueSuccession(p)
  <2> PICK p \in Did : ActivateDueSuccession(p)
    BY <1>3
  <2> DEFINE s == pendingSuccession[p].successor
  <2>1. s \in Did
    BY <1>0 DEF ActivateDueSuccession, DueSuccessions, Succession
  <2>2. Leaf("agent_succeeded", p, s) \in Entry
    BY <2>1 DEF Leaf, Entry, EntryType
  <2> QED
    BY <2>2 DEF ActivateDueSuccession, AgentTypes
<1>4. CASE \E a, s \in Did : RequestSuccession(a, s)
  <2> PICK a \in Did, s \in Did : RequestSuccession(a, s)
    BY <1>4
  <2>1. Leaf("agent_succession_pending", a, s) \in Entry
    BY DEF Leaf, Entry, EntryType
  <2> QED
    BY <2>1 DEF RequestSuccession, AgentTypes
<1>5. CASE \E a \in Did, target \in Did, g \in BOOLEAN : SetVerifierStatus(a, target, g)
  <2> PICK a \in Did, target \in Did, g \in BOOLEAN : SetVerifierStatus(a, target, g)
    BY <1>5
  <2>1. Leaf("verifier_status_changed", target, GrantOf(g)) \in Entry
    BY DEF Leaf, Entry, EntryType, GrantOf
  <2> QED
    BY <2>1 DEF SetVerifierStatus, AgentTypes
<1> QED
  BY <1>1, <1>2, <1>3, <1>4, <1>5 DEF AgentStep, AgentsNext

\* A handler of a job logs nothing, or the report it makes.
LEMMA JobStepLog ==
    ASSUME JobStep
    PROVE  \/ UNCHANGED log
           \/ \E j \in JobId : /\ Leaf("nonperformance_reported", j, None) \in Entry
                               /\ AppendEntry("nonperformance_reported", j, None)
<1> PICK a \in Did, j \in JobId : JobHandler(a, j)
  BY DEF JobStep
<1>1. Leaf("nonperformance_reported", j, None) \in Entry
  BY DEF Leaf, Entry, EntryType
<1> QED
  BY <1>1 DEF JobHandler, PostFreshJob, PostJob, SubmitOffer, AcceptOffer, CancelJob,
              ReportNonPerformance

\* Whatever is not a receipt handler leaves the receipts and their leaves
\* alone.
LEMMA NoReceiptLeaf ==
    ASSUME TypeOK, OtherStep
    PROVE  /\ receipts' = receipts
           /\ \A t \in ReceiptTypes : \A r, d : Logged(t, r, d)' <=> Logged(t, r, d)
<1>0. log \in Seq(Entry)
  BY DEF TypeOK
<1>1. receipts' = receipts
  BY DEF OtherStep, AgentStep, JobStep, TimeStep, vars
<1>2. CASE UNCHANGED log
  BY <1>1, <1>2, LoggedSame
<1>3. CASE \E t \in AgentTypes : \E r, d : Leaf(t, r, d) \in Entry /\ AppendEntry(t, r, d)
  BY <1>0, <1>1, <1>3, LoggedAppend DEF AgentTypes, ReceiptTypes
<1>4. CASE \E j \in JobId : /\ Leaf("nonperformance_reported", j, None) \in Entry
                            /\ AppendEntry("nonperformance_reported", j, None)
  BY <1>0, <1>1, <1>4, LoggedAppend DEF ReceiptTypes
<1> QED
  BY <1>2, <1>3, <1>4, AgentStepLog, JobStepLog DEF OtherStep, TimeStep, Tick, vars

-----------------------------------------------------------------------------
(* What each receipt handler does. *)

\* A draft appears, and nothing is logged.
LEMMA CreateDraftEffect ==
    ASSUME TypeOK, NEW a \in Did, NEW c \in Content, CreateDraft(a, c)
    PROVE  /\ receipts[c].status = "absent"
           /\ receipts'[c].status = "draft"
           /\ receipts'[c].usedBy = receipts[c].usedBy
           /\ \A x \in Content : x # c => receipts'[x] = receipts[x]
           /\ \A t, r, d : Logged(t, r, d)' <=> Logged(t, r, d)
<1>1. receipts \in [Content -> Receipt]
  BY DEF TypeOK
<1>2. UNCHANGED log
  BY DEF CreateDraft
<1> QED
  BY <1>1, <1>2, LoggedSame DEF CreateDraft, Receipt

\* The draft is finalized, and one leaf says so.
LEMMA CountersignEffect ==
    ASSUME TypeOK, NEW a \in Did, NEW c \in Content, Countersign(a, c)
    PROVE  /\ receipts[c].status = "draft"
           /\ receipts'[c].status = "finalized"
           /\ receipts'[c].usedBy = receipts[c].usedBy
           /\ \A x \in Content : x # c => receipts'[x] = receipts[x]
           /\ \A t, r, d : Logged(t, r, d)' <=>
                Logged(t, r, d) \/ (t = "receipt_finalized" /\ r = c /\ d = None)
<1>1. receipts \in [Content -> Receipt] /\ log \in Seq(Entry)
  BY DEF TypeOK
<1>2. Leaf("receipt_finalized", c, None) \in Entry
  BY DEF Leaf, Entry, EntryType
<1>3. AppendEntry("receipt_finalized", c, None)
  BY DEF Countersign
<1>4. \A t, r, d : Logged(t, r, d)' <=>
                Logged(t, r, d) \/ (t = "receipt_finalized" /\ r = c /\ d = None)
  BY <1>1, <1>2, <1>3, LoggedAppend
<1> QED
  BY <1>1, <1>4 DEF Countersign, Receipt

\* A party that has not spent its right opens a dispute inside the window.
LEMMA OpenDisputeEffect ==
    ASSUME TypeOK, NEW a \in Did, NEW c \in Content, OpenDispute(a, c)
    PROVE  /\ receipts[c].status = "finalized"
           /\ a \in Parties(c) \ receipts[c].usedBy
           /\ now < receipts[c].windowClosesAt
           /\ receipts[c].windowClosesAt \in Nat
           /\ receipts'[c].status = "disputed"
           /\ receipts'[c].disputeStatus = "open"
           /\ receipts'[c].openedBy = a
           /\ receipts'[c].usedBy = receipts[c].usedBy
           /\ receipts'[c].windowClosesAt = receipts[c].windowClosesAt
           /\ receipts'[c].resolutionDeadline = now + DisputeWindow
           /\ \A x \in Content : x # c => receipts'[x] = receipts[x]
           /\ \A t, r, d : Logged(t, r, d)' <=>
                Logged(t, r, d) \/ (t = "dispute_opened" /\ r = c /\ d = a)
<1>1. receipts \in [Content -> Receipt] /\ log \in Seq(Entry)
  BY DEF TypeOK
<1>2. Leaf("dispute_opened", c, a) \in Entry
  BY DEF Leaf, Entry, EntryType
<1>3. AppendEntry("dispute_opened", c, a)
  BY DEF OpenDispute
<1>4. \A t, r, d : Logged(t, r, d)' <=>
                Logged(t, r, d) \/ (t = "dispute_opened" /\ r = c /\ d = a)
  BY <1>1, <1>2, <1>3, LoggedAppend
<1>5. /\ now < receipts[c].windowClosesAt
      /\ receipts[c].windowClosesAt \in Nat
  BY <1>1 DEF OpenDispute, IsDisputeWindowOpen, Receipt, Time
<1>6. /\ receipts[c].status = "finalized"
      /\ a \in Parties(c) \ receipts[c].usedBy
  BY DEF OpenDispute, HasUsedDisputeRight
<1> QED
  BY <1>1, <1>4, <1>5, <1>6 DEF OpenDispute, Receipt

\* The opener withdraws its dispute and has spent its right.
LEMMA ResolveDisputeEffect ==
    ASSUME TypeOK, NEW a \in Did, NEW c \in Content, ResolveDispute(a, c)
    PROVE  /\ receipts[c].status = "disputed"
           /\ receipts[c].openedBy = a
           /\ receipts'[c].status = "finalized"
           /\ receipts'[c].usedBy = receipts[c].usedBy \cup {a}
           /\ \A x \in Content : x # c => receipts'[x] = receipts[x]
           /\ \A t, r, d : Logged(t, r, d)' <=>
                Logged(t, r, d) \/ (t = "dispute_resolved" /\ r = c /\ d = a)
<1>1. receipts \in [Content -> Receipt] /\ log \in Seq(Entry)
  BY DEF TypeOK
<1>2. Leaf("dispute_resolved", c, a) \in Entry
  BY DEF Leaf, Entry, EntryType
<1>3. AppendEntry("dispute_resolved", c, a)
  BY DEF ResolveDispute
<1>4. \A t, r, d : Logged(t, r, d)' <=>
                Logged(t, r, d) \/ (t = "dispute_resolved" /\ r = c /\ d = a)
  BY <1>1, <1>2, <1>3, LoggedAppend
<1> QED
  BY <1>1, <1>4 DEF ResolveDispute, Receipt

-----------------------------------------------------------------------------
(* Disputes are held by parties with an unspent right and lapse in time. *)

\* One step keeps the invariant about open disputes.
LEMMA OpenerUnspentStep ==
    ASSUME TypeOK, OpenerUnspent, [Next]_vars
    PROVE  OpenerUnspent'
<1>1. CASE OtherStep
  BY <1>1, NoReceiptLeaf DEF OpenerUnspent, Parties
<1>2. ASSUME NEW a \in Did, NEW c \in Content, CreateDraft(a, c)
      PROVE  OpenerUnspent'
  BY <1>2, CreateDraftEffect DEF OpenerUnspent, Parties
<1>3. ASSUME NEW a \in Did, NEW c \in Content, Countersign(a, c)
      PROVE  OpenerUnspent'
  BY <1>3, CountersignEffect DEF OpenerUnspent, Parties
<1>4. ASSUME NEW a \in Did, NEW c \in Content, OpenDispute(a, c)
      PROVE  OpenerUnspent'
  BY <1>4, OpenDisputeEffect DEF OpenerUnspent, Parties
<1>5. ASSUME NEW a \in Did, NEW c \in Content, ResolveDispute(a, c)
      PROVE  OpenerUnspent'
  BY <1>5, ResolveDisputeEffect DEF OpenerUnspent, Parties
<1> QED
  BY <1>1, <1>2, <1>3, <1>4, <1>5, StepCases DEF ReceiptHandler

DeadlineBound ==
    \A c \in Content : receipts[c].status = "disputed" =>
        /\ receipts[c].windowClosesAt \in Nat
        /\ receipts[c].resolutionDeadline \in Nat
        /\ receipts[c].resolutionDeadline < receipts[c].windowClosesAt + DisputeWindow

\* One step keeps the deadline of every open dispute inside the second window.
LEMMA DeadlineBoundStep ==
    ASSUME TypeOK, DeadlineBound, [Next]_vars
    PROVE  DeadlineBound'
<1>1. CASE OtherStep
  BY <1>1, NoReceiptLeaf DEF DeadlineBound
<1>2. ASSUME NEW a \in Did, NEW c \in Content, CreateDraft(a, c)
      PROVE  DeadlineBound'
  BY <1>2, CreateDraftEffect DEF DeadlineBound
<1>3. ASSUME NEW a \in Did, NEW c \in Content, Countersign(a, c)
      PROVE  DeadlineBound'
  BY <1>3, CountersignEffect DEF DeadlineBound
<1>4. ASSUME NEW a \in Did, NEW c \in Content, OpenDispute(a, c)
      PROVE  DeadlineBound'
  <2>1. now \in Nat
    BY DEF TypeOK
  <2>2. /\ receipts'[c].windowClosesAt = receipts[c].windowClosesAt
        /\ receipts[c].windowClosesAt \in Nat
        /\ now < receipts[c].windowClosesAt
        /\ receipts'[c].resolutionDeadline = now + DisputeWindow
    BY <1>4, OpenDisputeEffect
  <2>3. /\ receipts'[c].windowClosesAt \in Nat
        /\ receipts'[c].resolutionDeadline \in Nat
        /\ receipts'[c].resolutionDeadline < receipts'[c].windowClosesAt + DisputeWindow
    BY <2>1, <2>2
  <2>4. \A x \in Content : x # c => receipts'[x] = receipts[x]
    BY <1>4, OpenDisputeEffect
  <2> QED
    BY <2>3, <2>4 DEF DeadlineBound
<1>5. ASSUME NEW a \in Did, NEW c \in Content, ResolveDispute(a, c)
      PROVE  DeadlineBound'
  BY <1>5, ResolveDisputeEffect DEF DeadlineBound
<1> QED
  BY <1>1, <1>2, <1>3, <1>4, <1>5, StepCases DEF ReceiptHandler

-----------------------------------------------------------------------------
(* The log agrees with the receipts. *)

\* One step keeps finalizations and the log in agreement.
LEMMA FinalizationsLoggedStep ==
    ASSUME TypeOK, FinalizationsLogged, [Next]_vars
    PROVE  FinalizationsLogged'
<1> USE DEF Finalized
<1>1. CASE OtherStep
  BY <1>1, NoReceiptLeaf DEF FinalizationsLogged, ReceiptTypes
<1>2. ASSUME NEW a \in Did, NEW c \in Content, CreateDraft(a, c)
      PROVE  FinalizationsLogged'
  BY <1>2, CreateDraftEffect DEF FinalizationsLogged
<1>3. ASSUME NEW a \in Did, NEW c \in Content, Countersign(a, c)
      PROVE  FinalizationsLogged'
  BY <1>3, CountersignEffect DEF FinalizationsLogged
<1>4. ASSUME NEW a \in Did, NEW c \in Content, OpenDispute(a, c)
      PROVE  FinalizationsLogged'
  BY <1>4, OpenDisputeEffect DEF FinalizationsLogged
<1>5. ASSUME NEW a \in Did, NEW c \in Content, ResolveDispute(a, c)
      PROVE  FinalizationsLogged'
  BY <1>5, ResolveDisputeEffect DEF FinalizationsLogged
<1> QED
  BY <1>1, <1>2, <1>3, <1>4, <1>5, StepCases DEF ReceiptHandler

\* One step keeps disputes and the log in agreement.
LEMMA DisputesLoggedStep ==
    ASSUME TypeOK, DisputesLogged, [Next]_vars
    PROVE  DisputesLogged'
<1>1. CASE OtherStep
  BY <1>1, NoReceiptLeaf DEF DisputesLogged, ReceiptTypes
<1>2. ASSUME NEW a \in Did, NEW c \in Content, CreateDraft(a, c)
      PROVE  DisputesLogged'
  BY <1>2, CreateDraftEffect DEF DisputesLogged
<1>3. ASSUME NEW a \in Did, NEW c \in Content, Countersign(a, c)
      PROVE  DisputesLogged'
  BY <1>3, CountersignEffect DEF DisputesLogged
<1>4. ASSUME NEW a \in Did, NEW c \in Content, OpenDispute(a, c)
      PROVE  DisputesLogged'
  BY <1>4, OpenDisputeEffect DEF DisputesLogged
<1>5. ASSUME NEW a \in Did, NEW c \in Content, ResolveDispute(a, c)
      PROVE  DisputesLogged'
  BY <1>5, ResolveDisputeEffect DEF DisputesLogged
<1> QED
  BY <1>1, <1>2, <1>3, <1>4, <1>5, StepCases DEF ReceiptHandler

-----------------------------------------------------------------------------
(* Jobs. *)

\* A countersignature claims the job it names if that is accepted; no other
\* receipt handler touches a job.
LEMMA ReceiptHandlerJobs ==
    ASSUME TypeOK, NEW a \in Did, NEW c \in Content, ReceiptHandler(a, c)
    PROVE  \/ UNCHANGED jobs
           \/ /\ Countersign(a, c)
              /\ jobs[c.jobId].status = "accepted"
              /\ jobs'[c.jobId].status = "completed"
              /\ jobs'[c.jobId].receiptId = c
              /\ jobs'[c.jobId].postedBy = jobs[c.jobId].postedBy
              /\ jobs'[c.jobId].acceptedAgentId = jobs[c.jobId].acceptedAgentId
              /\ jobs'[c.jobId].offers = jobs[c.jobId].offers
              /\ \A j \in JobId : j # c.jobId => jobs'[j] = jobs[j]
<1>1. jobs \in [JobId -> Job] /\ c.jobId \in JobId
  BY DEF TypeOK
<1>2. CASE Countersign(a, c)
  BY <1>1, <1>2 DEF Countersign, MarkCompletedByReceipt, Job
<1>3. CASE CreateDraft(a, c) \/ OpenDispute(a, c) \/ ResolveDispute(a, c)
  BY <1>3 DEF CreateDraft, OpenDispute, ResolveDispute
<1> QED
  BY <1>2, <1>3 DEF ReceiptHandler

\* The moves a job handler can make on its job.
LEMMA JobHandlerEffect ==
    ASSUME TypeOK, NEW a \in Did, NEW j \in JobId, JobHandler(a, j)
    PROVE  /\ \A x \in JobId : x # j => jobs'[x] = jobs[x]
           /\ \/ /\ jobs[j].status = "absent"
                 /\ jobs'[j].status = "open"
                 /\ \A c \in Content : c.jobId = j => receipts[c].status = "absent"
                 /\ UNCHANGED log
              \/ /\ jobs[j].status = "open"
                 /\ jobs'[j].status = "open"
                 /\ UNCHANGED log
              \/ /\ jobs[j].status = "open"
                 /\ jobs'[j].status = "accepted"
                 /\ jobs'[j].acceptedAgentId \in jobs'[j].offers
                 /\ UNCHANGED log
              \/ /\ jobs[j].status \in {"open", "accepted"}
                 /\ jobs'[j].status = "cancelled"
                 /\ jobs'[j].postedBy = jobs[j].postedBy
                 /\ jobs'[j].acceptedAgentId = jobs[j].acceptedAgentId
                 /\ UNCHANGED log
              \/ /\ jobs[j].status = "accepted"
                 /\ jobs'[j].status = "nonperformed"
                 /\ jobs'[j].postedBy = jobs[j].postedBy
                 /\ jobs'[j].acceptedAgentId = jobs[j].acceptedAgentId
                 /\ jobs'[j].offers = jobs[j].offers
                 /\ AppendEntry("nonperformance_reported", j, None)
<1>1. jobs \in [JobId -> Job]
  BY DEF TypeOK
<1>2. CASE \E e \in Expiry : PostFreshJob(a, j, e)
  BY <1>1, <1>2 DEF PostFreshJob, PostJob, NoJob
<1>3. CASE SubmitOffer(a, j)
  BY <1>1, <1>3 DEF SubmitOffer, Job
<1>4. CASE \E w \in Did : AcceptOffer(a, j, w)
  BY <1>1, <1>4 DEF AcceptOffer, Job
<1>5. CASE CancelJob(a, j)
  BY <1>1, <1>5 DEF CancelJob, Job
<1>6. CASE ReportNonPerformance(a, j)
  BY <1>1, <1>6 DEF ReportNonPerformance, Job
<1> QED
  BY <1>2, <1>3, <1>4, <1>5, <1>6 DEF JobHandler

\* One step keeps the reports and the log in agreement.
LEMMA ReportsLoggedStep ==
    ASSUME TypeOK, ReportsLogged, [Next]_vars
    PROVE  ReportsLogged'
<1>0. jobs \in [JobId -> Job] /\ log \in Seq(Entry)
  BY DEF TypeOK
<1>1. CASE AgentStep
  <2>1. UNCHANGED jobs
    BY <1>1 DEF AgentStep
  <2>2. \A j : Logged("nonperformance_reported", j, None)' <=>
               Logged("nonperformance_reported", j, None)
    BY <1>0, <1>1, AgentStepLog, LoggedAppend, LoggedSame DEF AgentTypes
  <2> QED
    BY <2>1, <2>2 DEF ReportsLogged
<1>2. CASE TimeStep \/ UNCHANGED vars
  BY <1>2, LoggedSame DEF TimeStep, Tick, vars, ReportsLogged
<1>3. ASSUME NEW a \in Did, NEW j \in JobId, JobHandler(a, j)
      PROVE  ReportsLogged'
  <2>1. CASE UNCHANGED log
    <3>1. ~AppendEntry("nonperformance_reported", j, None)
      BY <1>0, <2>1 DEF AppendEntry
    <3> QED
      BY <1>3, <2>1, <3>1, JobHandlerEffect, LoggedSame DEF ReportsLogged
  <2>2. CASE AppendEntry("nonperformance_reported", j, None)
    <3>1. Leaf("nonperformance_reported", j, None) \in Entry
      BY DEF Leaf, Entry, EntryType
    <3>2. \A t, r, d : Logged(t, r, d)' <=>
             Logged(t, r, d) \/ (t = "nonperformance_reported" /\ r = j /\ d = None)
      BY <1>0, <2>2, <3>1, LoggedAppend
    <3>3. log' # log
      BY <1>0, <2>2 DEF AppendEntry
    <3>4. /\ jobs'[j].status = "nonperformed"
          /\ \A x \in JobId : x # j => jobs'[x] = jobs[x]
      BY <1>3, <3>3, JobHandlerEffect
    <3> QED
      BY <3>2, <3>4 DEF ReportsLogged
  <2> QED
    BY <1>3, <2>1, <2>2, JobHandlerEffect
<1>4. ASSUME NEW a \in Did, NEW c \in Content, ReceiptHandler(a, c)
      PROVE  ReportsLogged'
  <2>1. \A j \in JobId : jobs'[j].status = "nonperformed" <=> jobs[j].status = "nonperformed"
    BY <1>0, <1>4, ReceiptHandlerJobs DEF Job
  <2>2. \A j : Logged("nonperformance_reported", j, None)' <=>
               Logged("nonperformance_reported", j, None)
    <3>1. CASE CreateDraft(a, c)
      BY <3>1, CreateDraftEffect
    <3>2. CASE Countersign(a, c)
      BY <3>2, CountersignEffect
    <3>3. CASE OpenDispute(a, c)
      BY <3>3, OpenDisputeEffect
    <3>4. CASE ResolveDispute(a, c)
      BY <3>4, ResolveDisputeEffect
    <3> QED
      BY <1>4, <3>1, <3>2, <3>3, <3>4 DEF ReceiptHandler
  <2> QED
    BY <2>1, <2>2 DEF ReportsLogged
<1> QED
  BY <1>1, <1>2, <1>3, <1>4, StepCases DEF OtherStep, JobStep

JobInv == TypeOK /\ JobFollowsReceipt

\* A job handler keeps jobs and receipts in agreement.
LEMMA JobHandlerFollows ==
    ASSUME JobInv, NEW a \in Did, NEW j \in JobId, JobHandler(a, j), UNCHANGED receipts
    PROVE  JobFollowsReceipt'
<1>0. \A c \in Content : c.jobId \in JobId
  OBVIOUS
<1>1. TypeOK
  BY DEF JobInv
<1>2. ReceiptsMatchJobs'
  BY <1>0, <1>1, JobHandlerEffect DEF JobInv, JobFollowsReceipt, ReceiptsMatchJobs,
     FinalizedClosesJob, Finalized
<1>3. WorkersOffered'
  BY <1>1, JobHandlerEffect DEF JobInv, JobFollowsReceipt, WorkersOffered
<1>4. CompletedByReceipt'
  BY <1>1, JobHandlerEffect DEF JobInv, JobFollowsReceipt, CompletedByReceipt, Finalized
<1>5. FinalizedClosesJob'
  BY <1>0, <1>1, JobHandlerEffect DEF JobInv, JobFollowsReceipt, FinalizedClosesJob, Finalized
<1> QED
  BY <1>2, <1>3, <1>4, <1>5 DEF JobFollowsReceipt

\* What a receipt handler does to the receipt it names.
LEMMA ReceiptHandlerEffect ==
    ASSUME TypeOK, NEW a \in Did, NEW c \in Content, ReceiptHandler(a, c)
    PROVE  /\ \A x \in Content : x # c => receipts'[x] = receipts[x]
           /\ Finalized(c) => Finalized(c)'
           /\ \/ /\ CreateDraft(a, c)
                 /\ receipts'[c].status = "draft"
              \/ /\ receipts[c].status = "draft"
                 /\ Countersign(a, c)
                 /\ Finalized(c)'
              \/ /\ Finalized(c) /\ Finalized(c)'
                 /\ ~Countersign(a, c)
<1>1. CASE CreateDraft(a, c)
  BY <1>1, CreateDraftEffect DEF Finalized
<1>2. CASE Countersign(a, c)
  BY <1>2, CountersignEffect DEF Finalized
<1>3. CASE OpenDispute(a, c)
  BY <1>3, OpenDisputeEffect DEF Finalized, Countersign
<1>4. CASE ResolveDispute(a, c)
  BY <1>4, ResolveDisputeEffect DEF Finalized, Countersign
<1> QED
  BY <1>1, <1>2, <1>3, <1>4 DEF ReceiptHandler

\* A receipt handler keeps jobs and receipts in agreement.
LEMMA ReceiptHandlerFollows ==
    ASSUME JobInv, NEW a \in Did, NEW c \in Content, ReceiptHandler(a, c)
    PROVE  JobFollowsReceipt'
<1>0. TypeOK /\ \A x \in Content : x.jobId \in JobId
  BY DEF JobInv
<1> USE DEF JobInv, JobFollowsReceipt
<1>1. CASE UNCHANGED jobs
  <2>1. ReceiptsMatchJobs'
    <3>1. CASE CreateDraft(a, c)
      <4>1. /\ jobs[c.jobId].status # "absent" =>
                 /\ jobs[c.jobId].status = "accepted"
                 /\ jobs[c.jobId].postedBy = c.agentA
                 /\ jobs[c.jobId].acceptedAgentId = c.agentB
        BY <3>1 DEF CreateDraft, ReceiptMatchesJob
      <4> QED
        BY <1>0, <1>1, <3>1, <4>1, ReceiptHandlerEffect DEF ReceiptsMatchJobs
    <3>2. CASE ~CreateDraft(a, c)
      <4>1. receipts[c].status # "absent"
        BY <1>0, <3>2, ReceiptHandlerEffect DEF Finalized
      <4> QED
        BY <1>0, <1>1, <4>1, ReceiptHandlerEffect DEF ReceiptsMatchJobs
    <3> QED
      BY <3>1, <3>2
  <2>2. WorkersOffered'
    BY <1>1 DEF WorkersOffered
  <2>3. CompletedByReceipt'
    BY <1>0, <1>1, ReceiptHandlerEffect DEF CompletedByReceipt, Finalized
  <2>4. FinalizedClosesJob'
    <3>1. CASE Countersign(a, c)
      <4>1. jobs[c.jobId].status # "accepted"
        <5>1. SUFFICES ASSUME jobs[c.jobId].status = "accepted" PROVE FALSE
          OBVIOUS
        <5>2. jobs'[c.jobId].status = "completed"
          <6>1. jobs \in [JobId -> Job]
            BY <1>0 DEF TypeOK
          <6> QED
            BY <1>0, <3>1, <5>1, <6>1 DEF Countersign, MarkCompletedByReceipt, Job
        <5> QED
          BY <1>1, <5>1, <5>2
      <4>2. receipts[c].status # "absent"
        BY <1>0, <3>1, CountersignEffect
      <4>3. jobs[c.jobId].status # "open"
        BY <4>2 DEF ReceiptsMatchJobs
      <4> QED
        BY <1>0, <1>1, <4>1, <4>3, ReceiptHandlerEffect DEF FinalizedClosesJob, Finalized
    <3>2. CASE ~Countersign(a, c)
      BY <1>0, <1>1, <3>2, ReceiptHandlerEffect DEF FinalizedClosesJob, Finalized
    <3> QED
      BY <3>1, <3>2
  <2> QED
    BY <2>1, <2>2, <2>3, <2>4
<1>2. CASE ~UNCHANGED jobs
  <2>1. /\ Countersign(a, c)
        /\ jobs[c.jobId].status = "accepted"
        /\ jobs'[c.jobId].status = "completed"
        /\ jobs'[c.jobId].receiptId = c
        /\ jobs'[c.jobId].postedBy = jobs[c.jobId].postedBy
        /\ jobs'[c.jobId].acceptedAgentId = jobs[c.jobId].acceptedAgentId
        /\ jobs'[c.jobId].offers = jobs[c.jobId].offers
        /\ \A j \in JobId : j # c.jobId => jobs'[j] = jobs[j]
    BY <1>0, <1>2, ReceiptHandlerJobs
  <2>2. /\ receipts[c].status = "draft"
        /\ Finalized(c)'
        /\ \A x \in Content : x # c => receipts'[x] = receipts[x]
    BY <1>0, <2>1, CountersignEffect DEF Finalized
  <2>3. ReceiptsMatchJobs'
    BY <1>0, <2>1, <2>2 DEF ReceiptsMatchJobs
  <2>4. WorkersOffered'
    BY <1>0, <2>1 DEF WorkersOffered
  <2>5. CompletedByReceipt'
    BY <1>0, <2>1, <2>2 DEF CompletedByReceipt, Finalized
  <2>6. FinalizedClosesJob'
    BY <1>0, <2>1, <2>2 DEF FinalizedClosesJob, Finalized
  <2> QED
    BY <2>3, <2>4, <2>5, <2>6
<1> QED
  BY <1>1, <1>2

\* One step keeps jobs and receipts in agreement.
LEMMA JobFollowsReceiptStep ==
    ASSUME JobInv, [Next]_vars
    PROVE  JobFollowsReceipt'
<1>1. CASE AgentStep \/ TimeStep \/ UNCHANGED vars
  <2>1. UNCHANGED <<jobs, receipts>>
    BY <1>1 DEF AgentStep, TimeStep, vars
  <2> QED
    BY <2>1 DEF JobInv, JobFollowsReceipt, ReceiptsMatchJobs, WorkersOffered,
                CompletedByReceipt, FinalizedClosesJob, Finalized
<1>2. CASE JobStep
  BY <1>2, JobHandlerFollows DEF JobStep
<1> QED
  BY <1>1, <1>2, ReceiptHandlerFollows, StepCases DEF OtherStep

\* A job keeps its outcome.
LEMMA OutcomeStep ==
    ASSUME TypeOK, [Next]_vars, NEW j \in JobId, jobs[j].status \in TerminalStatus
    PROVE  jobs'[j].status = jobs[j].status /\ jobs'[j].receiptId = jobs[j].receiptId
<1> USE DEF TerminalStatus
<1>1. CASE AgentStep \/ TimeStep \/ UNCHANGED vars
  BY <1>1 DEF AgentStep, TimeStep, vars
<1>2. CASE JobStep
  BY <1>2, JobHandlerEffect DEF JobStep
<1>3. ASSUME NEW a \in Did, NEW c \in Content, ReceiptHandler(a, c)
      PROVE  jobs'[j].status = jobs[j].status /\ jobs'[j].receiptId = jobs[j].receiptId
  BY <1>3, ReceiptHandlerJobs
<1> QED
  BY <1>1, <1>2, <1>3, StepCases DEF OtherStep

-----------------------------------------------------------------------------
(* The theorems. *)

\* The log tells the state of every receipt and of every reported job, and
\* nothing else (createDraft .. resolveDispute in receiptService.ts,
\* reportNonPerformance in jobService.ts).
THEOREM LogFaithfulCorrect == Spec => []LogFaithful
<1>1. Init => LogFaithful
  BY DEF Init, LogInit, JobsInit, ReceiptsInit, NoJob, NoReceipt, LogFaithful,
     FinalizationsLogged, DisputesLogged, ReportsLogged, Finalized, Logged
<1>2. TypeOK /\ LogFaithful /\ [Next]_vars => LogFaithful'
  BY FinalizationsLoggedStep, DisputesLoggedStep, ReportsLoggedStep DEF LogFaithful
<1> QED
  BY <1>1, <1>2, TypeCorrect, PTL DEF Spec

\* Whoever holds a dispute open has not spent its right before (openDispute,
\* resolveDispute).
THEOREM OpenerCorrect == Spec => []OpenerUnspent
<1>1. Init => OpenerUnspent
  BY DEF Init, ReceiptsInit, NoReceipt, OpenerUnspent
<1>2. TypeOK /\ OpenerUnspent /\ [Next]_vars => OpenerUnspent'
  BY OpenerUnspentStep
<1> QED
  BY <1>1, <1>2, TypeCorrect, PTL DEF Spec

\* No dispute withholds a receipt for two windows, whatever the clock does
\* between its opening and its deadline (openDispute, isDisputeActive).
THEOREM HostageCorrect == Spec => []HostageBound
<1>1. Init => DeadlineBound
  BY DEF Init, ReceiptsInit, NoReceipt, DeadlineBound
<1>2. TypeOK /\ DeadlineBound /\ [Next]_vars => DeadlineBound'
  BY DeadlineBoundStep
<1>3. TypeOK /\ DeadlineBound => HostageBound
  <2> SUFFICES ASSUME TypeOK, DeadlineBound, NEW c \in Content,
                      receipts[c].status = "disputed"
               PROVE  /\ receipts[c].resolutionDeadline
                             < receipts[c].windowClosesAt + DisputeWindow
                      /\ IsDisputeActive(c) =>
                             now < receipts[c].windowClosesAt + DisputeWindow
    BY DEF HostageBound
  <2>1. now \in Nat
    BY DEF TypeOK
  <2>2. /\ receipts[c].windowClosesAt \in Nat
        /\ receipts[c].resolutionDeadline \in Nat
        /\ receipts[c].resolutionDeadline < receipts[c].windowClosesAt + DisputeWindow
    BY DEF DeadlineBound
  <2> QED
    BY <2>1, <2>2 DEF IsDisputeActive
<1> QED
  BY <1>1, <1>2, <1>3, TypeCorrect, PTL DEF Spec

\* Jobs and receipts agree, for any number of receipts that name one job
\* (createDraft, countersign, cancelJob, reportNonPerformance).
THEOREM JobsCorrect == Spec => []JobFollowsReceipt
<1>1. Init => JobFollowsReceipt
  BY DEF Init, JobsInit, ReceiptsInit, NoJob, NoReceipt, JobFollowsReceipt,
     ReceiptsMatchJobs, WorkersOffered, CompletedByReceipt, FinalizedClosesJob, Finalized
<1>2. TypeOK /\ JobFollowsReceipt /\ [Next]_vars => JobFollowsReceipt'
  BY JobFollowsReceiptStep DEF JobInv
<1> QED
  BY <1>1, <1>2, TypeCorrect, PTL DEF Spec

\* A job keeps its outcome (markCompletedByReceipt, cancelJob,
\* reportNonPerformance).
THEOREM OutcomeCorrect == Spec => OutcomeIsFinal
<1>1. TypeOK /\ [Next]_vars => [OutcomeStays]_vars
  BY OutcomeStep DEF OutcomeStays
<1> QED
  BY <1>1, TypeCorrect, PTL DEF Spec, OutcomeIsFinal

-----------------------------------------------------------------------------
(* The transparency log as an auditor reads it. *)

\* The successor a pending succession of p names, if any.
Heir(p) == pendingSuccession[p].successor

-----------------------------------------------------------------------------
(* What each agent handler does. *)

\* Only the four agent leaves can be appended by agents, and by nobody else.
LEMMA NoAgentLeaf ==
    ASSUME TypeOK, [Next]_vars, ~AgentStep
    PROVE  /\ UNCHANGED agentVars
           /\ \A t \in AgentTypes : \A r, d : Logged(t, r, d)' <=> Logged(t, r, d)
<1>0. log \in Seq(Entry)
  BY DEF TypeOK
<1>1. CASE TimeStep \/ UNCHANGED vars
  BY <1>1, LoggedSame DEF TimeStep, Tick, vars, agentVars
<1>2. CASE JobStep
  <2>1. UNCHANGED agentVars
    BY <1>2 DEF JobStep, JobHandler, PostFreshJob, PostJob, SubmitOffer, AcceptOffer,
                CancelJob, ReportNonPerformance
  <2> QED
    BY <1>0, <1>2, <2>1, JobStepLog, LoggedAppend, LoggedSame DEF AgentTypes
<1>3. ASSUME NEW a \in Did, NEW c \in Content, ReceiptHandler(a, c)
      PROVE  /\ UNCHANGED agentVars
             /\ \A t \in AgentTypes : \A r, d : Logged(t, r, d)' <=> Logged(t, r, d)
  <2>1. CASE CreateDraft(a, c)
    BY <2>1, LoggedSame DEF CreateDraft
  <2>2. CASE Countersign(a, c)
    <3>1. Leaf("receipt_finalized", c, None) \in Entry
      BY DEF Leaf, Entry, EntryType
    <3> QED
      BY <1>0, <2>2, <3>1, LoggedAppend DEF Countersign, AgentTypes
  <2>3. CASE OpenDispute(a, c)
    <3>1. Leaf("dispute_opened", c, a) \in Entry
      BY DEF Leaf, Entry, EntryType
    <3> QED
      BY <1>0, <2>3, <3>1, LoggedAppend DEF OpenDispute, AgentTypes
  <2>4. CASE ResolveDispute(a, c)
    <3>1. Leaf("dispute_resolved", c, a) \in Entry
      BY DEF Leaf, Entry, EntryType
    <3> QED
      BY <1>0, <2>4, <3>1, LoggedAppend DEF ResolveDispute, AgentTypes
  <2> QED
    BY <1>3, <2>1, <2>2, <2>3, <2>4 DEF ReceiptHandler
<1> QED
  BY <1>1, <1>2, <1>3, StepCases DEF OtherStep

\* The old key is burned; a pending succession is dropped and the log says so.
LEMMA RevokeAgentEffect ==
    ASSUME TypeOK, NEW a \in Did, RevokeAgent(a)
    PROVE  /\ ~Retired(a)
           /\ revoked' = revoked \cup {a}
           /\ Heir(a)' = None
           /\ \A x \in Did : x # a => Heir(x)' = Heir(x)
           /\ UNCHANGED <<registered, verifiers, succeededBy>>
           /\ \A t, r, d : Logged(t, r, d)' <=>
                \/ Logged(t, r, d)
                \/ /\ Heir(a) # None
                   /\ t = "agent_succession_cancelled" /\ r = a /\ d = Heir(a)
<1>1. log \in Seq(Entry) /\ pendingSuccession \in [Did -> Succession]
  BY DEF TypeOK
<1>2. \A t, r, d : Logged(t, r, d)' <=>
                \/ Logged(t, r, d)
                \/ /\ Heir(a) # None
                   /\ t = "agent_succession_cancelled" /\ r = a /\ d = Heir(a)
  <2>1. CASE Heir(a) = None
    BY <2>1, LoggedSame DEF RevokeAgent, Heir
  <2>2. CASE Heir(a) # None
    <3>1. Heir(a) \in Did
      BY <1>1, <2>2 DEF Heir, Succession
    <3>2. Leaf("agent_succession_cancelled", a, Heir(a)) \in Entry
      BY <3>1 DEF Leaf, Entry, EntryType
    <3>3. AppendEntry("agent_succession_cancelled", a, Heir(a))
      BY <2>2 DEF RevokeAgent, Heir
    <3> QED
      BY <1>1, <2>2, <3>2, <3>3, LoggedAppend
  <2> QED
    BY <2>1, <2>2
<1>3. Heir(a)' = None /\ \A x \in Did : x # a => Heir(x)' = Heir(x)
  BY <1>1 DEF RevokeAgent, Heir, NoSuccession
<1> QED
  BY <1>2, <1>3 DEF RevokeAgent, SignedRequest

\* A succession is noted, to a successor that nobody knows yet.
LEMMA RequestSuccessionEffect ==
    ASSUME TypeOK, NEW a \in Did, NEW s \in Did, RequestSuccession(a, s)
    PROVE  /\ ~Retired(a)
           /\ a \in registered
           /\ s \notin registered
           /\ s # None
           /\ Heir(a) = None
           /\ \A x \in Did : Heir(x) # s
           /\ Heir(a)' = s
           /\ \A x \in Did : x # a => Heir(x)' = Heir(x)
           /\ UNCHANGED <<registered, revoked, verifiers, succeededBy>>
           /\ \A t, r, d : Logged(t, r, d)' <=>
                \/ Logged(t, r, d)
                \/ t = "agent_succession_pending" /\ r = a /\ d = s
<1>1. log \in Seq(Entry) /\ pendingSuccession \in [Did -> Succession]
  BY DEF TypeOK
<1>2. Leaf("agent_succession_pending", a, s) \in Entry
  BY DEF Leaf, Entry, EntryType
<1>3. AppendEntry("agent_succession_pending", a, s)
  BY DEF RequestSuccession
<1>4. \A t, r, d : Logged(t, r, d)' <=>
                \/ Logged(t, r, d)
                \/ t = "agent_succession_pending" /\ r = a /\ d = s
  BY <1>1, <1>2, <1>3, LoggedAppend
<1>5. Heir(a)' = s /\ \A x \in Did : x # a => Heir(x)' = Heir(x)
  BY <1>1 DEF RequestSuccession, Heir
<1> QED
  BY <1>4, <1>5 DEF RequestSuccession, SignedRequest, IsPendingSuccessor, Heir

\* A due succession takes effect: the successor is registered without a grant.
LEMMA ActivateEffect ==
    ASSUME TypeOK, NEW p \in Did, ActivateDueSuccession(p)
    PROVE  /\ Heir(p) \in Did
           /\ Heir(p) # None
           /\ succeededBy' = [succeededBy EXCEPT ![p] = Heir(p)]
           /\ registered' = registered \cup {Heir(p)}
           /\ verifiers' = verifiers \ {Heir(p)}
           /\ Heir(p)' = None
           /\ \A x \in Did : x # p => Heir(x)' = Heir(x)
           /\ UNCHANGED revoked
           /\ \A t, r, d : Logged(t, r, d)' <=>
                \/ Logged(t, r, d)
                \/ t = "agent_succeeded" /\ r = p /\ d = Heir(p)
<1>1. log \in Seq(Entry) /\ pendingSuccession \in [Did -> Succession]
  BY DEF TypeOK
<1>2. Heir(p) \in Did /\ Heir(p) # None
  BY <1>1 DEF ActivateDueSuccession, DueSuccessions, Succession, Heir
<1>3. Leaf("agent_succeeded", p, Heir(p)) \in Entry
  BY <1>2 DEF Leaf, Entry, EntryType
<1>4. AppendEntry("agent_succeeded", p, Heir(p))
  BY DEF ActivateDueSuccession, Heir
<1>5. \A t, r, d : Logged(t, r, d)' <=>
                \/ Logged(t, r, d)
                \/ t = "agent_succeeded" /\ r = p /\ d = Heir(p)
  BY <1>1, <1>3, <1>4, LoggedAppend
<1>6. Heir(p)' = None /\ \A x \in Did : x # p => Heir(x)' = Heir(x)
  BY <1>1 DEF ActivateDueSuccession, Heir, NoSuccession
<1> QED
  BY <1>2, <1>5, <1>6 DEF ActivateDueSuccession, Heir

\* A new identity that no succession names; nothing is logged.
LEMMA RegisterAgentEffect ==
    ASSUME NEW a \in Did, RegisterAgent(a)
    PROVE  /\ a \notin registered
           /\ \A x \in Did : Heir(x) # a
           /\ registered' = registered \cup {a}
           /\ \A x : Heir(x)' = Heir(x)
           /\ UNCHANGED <<revoked, verifiers, succeededBy>>
           /\ \A t, r, d : Logged(t, r, d)' <=> Logged(t, r, d)
  BY LoggedSame DEF RegisterAgent, IsPendingSuccessor, Heir

\* A grant or its withdrawal; no succession is touched.
LEMMA SetVerifierStatusEffect ==
    ASSUME TypeOK, NEW a \in Did, NEW target \in Did, NEW g \in BOOLEAN,
           SetVerifierStatus(a, target, g)
    PROVE  /\ \A x : Heir(x)' = Heir(x)
           /\ target \in registered
           /\ UNCHANGED <<registered, revoked, succeededBy>>
           /\ AppendEntry("verifier_status_changed", target, GrantOf(g))
           /\ \A t, r, d : Logged(t, r, d)' <=>
                \/ Logged(t, r, d)
                \/ t = "verifier_status_changed" /\ r = target /\ d = GrantOf(g)
<1>1. log \in Seq(Entry)
  BY DEF TypeOK
<1>2. Leaf("verifier_status_changed", target, GrantOf(g)) \in Entry
  BY DEF Leaf, Entry, EntryType, GrantOf
<1>3. AppendEntry("verifier_status_changed", target, GrantOf(g))
  BY DEF SetVerifierStatus
<1>4. \A t, r, d : Logged(t, r, d)' <=>
                \/ Logged(t, r, d)
                \/ t = "verifier_status_changed" /\ r = target /\ d = GrantOf(g)
  BY <1>1, <1>2, <1>3, LoggedAppend
<1> QED
  BY <1>3, <1>4 DEF SetVerifierStatus, Heir

\* Every step of an agent is one of the five handlers.
LEMMA AgentCases ==
    ASSUME AgentStep
    PROVE  \/ \E a \in Did : RegisterAgent(a) \/ RevokeAgent(a) \/ ActivateDueSuccession(a)
           \/ \E a, s \in Did : RequestSuccession(a, s)
           \/ \E a, target \in Did, g \in BOOLEAN : SetVerifierStatus(a, target, g)
  BY DEF AgentStep, AgentsNext

-----------------------------------------------------------------------------
(* Successors are unique and new. *)

\* One step keeps successions sound.
LEMMA SuccessionSoundStep ==
    ASSUME TypeOK, SuccessionSound, [Next]_vars
    PROVE  SuccessionSound'
<1>0. succeededBy \in [Did -> Did \cup {None}]
  BY DEF TypeOK
<1>1. CASE ~AgentStep
  <2>1. UNCHANGED agentVars
    BY <1>1, NoAgentLeaf
  <2> QED
    BY <2>1 DEF SuccessionSound, Retired, agentVars
<1>2. ASSUME NEW a \in Did, RegisterAgent(a) PROVE SuccessionSound'
  BY <1>2, RegisterAgentEffect DEF SuccessionSound, Retired, Heir
<1>3. ASSUME NEW a \in Did, RevokeAgent(a) PROVE SuccessionSound'
  BY <1>3, RevokeAgentEffect DEF SuccessionSound, Retired, Heir
<1>4. ASSUME NEW p \in Did, ActivateDueSuccession(p) PROVE SuccessionSound'
  <2>1. /\ ~Retired(p)
        /\ Heir(p) \notin registered
        /\ \A q \in Did : Heir(p) = Heir(q) => p = q
    BY <1>4, ActivateEffect DEF SuccessionSound, Heir
  <2>2. \A q \in Did : succeededBy[q] # None => succeededBy[q] # Heir(p)
    BY <2>1 DEF SuccessionSound
  <2>3. succeededBy'[p] = Heir(p) /\ \A q \in Did : q # p => succeededBy'[q] = succeededBy[q]
    BY <1>0, <1>4, ActivateEffect
  <2>4. \A q, r \in Did : succeededBy'[q] # None /\ succeededBy'[q] = succeededBy'[r] => q = r
    BY <2>2, <2>3 DEF SuccessionSound
  <2>5. \A q, r \in Did : Heir(q)' # None =>
          /\ q \in registered'
          /\ ~Retired(q)'
          /\ Heir(q)' \notin registered'
          /\ Heir(q)' = Heir(r)' => q = r
    BY <1>4, <2>1, <2>3, ActivateEffect DEF SuccessionSound, Retired, Heir
  <2>6. \A q \in Did : succeededBy'[q] # None => q \notin revoked' /\ succeededBy'[q] \in registered'
    BY <1>4, <2>1, <2>3, ActivateEffect DEF SuccessionSound, Retired
  <2> QED
    BY <2>4, <2>5, <2>6 DEF SuccessionSound, Heir
<1>5. ASSUME NEW a \in Did, NEW s \in Did, RequestSuccession(a, s) PROVE SuccessionSound'
  BY <1>5, RequestSuccessionEffect DEF SuccessionSound, Retired, Heir
<1>6. ASSUME NEW a \in Did, NEW target \in Did, NEW g \in BOOLEAN,
             SetVerifierStatus(a, target, g)
      PROVE  SuccessionSound'
  BY <1>6, SetVerifierStatusEffect DEF SuccessionSound, Retired, Heir
<1> QED
  BY <1>1, <1>2, <1>3, <1>4, <1>5, <1>6, AgentCases

\* One step keeps successions and the log in agreement.
LEMMA SuccessionLoggedStep ==
    ASSUME TypeOK, SuccessionSound, SuccessionLogged, [Next]_vars
    PROVE  SuccessionLogged'
<1>0. succeededBy \in [Did -> Did \cup {None}]
  BY DEF TypeOK
<1>1. CASE ~AgentStep
  <2>1. UNCHANGED agentVars
    BY <1>1, NoAgentLeaf
  <2>2. \A t \in AgentTypes : \A r, d : Logged(t, r, d)' <=> Logged(t, r, d)
    BY <1>1, NoAgentLeaf
  <2> QED
    BY <2>1, <2>2 DEF SuccessionLogged, agentVars, AgentTypes
<1>2. ASSUME NEW a \in Did, RegisterAgent(a) PROVE SuccessionLogged'
  BY <1>2, RegisterAgentEffect DEF SuccessionLogged, Heir
<1>3. ASSUME NEW a \in Did, RevokeAgent(a) PROVE SuccessionLogged'
  BY <1>3, RevokeAgentEffect DEF SuccessionLogged, Heir
<1>4. ASSUME NEW p \in Did, ActivateDueSuccession(p) PROVE SuccessionLogged'
  <2>1. succeededBy[p] = None
    BY <1>4, ActivateEffect DEF SuccessionSound, Retired, Heir
  <2>2. succeededBy'[p] = Heir(p) /\ \A q \in Did : q # p => succeededBy'[q] = succeededBy[q]
    BY <1>0, <1>4, ActivateEffect
  <2> QED
    BY <1>4, <2>1, <2>2, ActivateEffect DEF SuccessionLogged, Heir
<1>5. ASSUME NEW a \in Did, NEW s \in Did, RequestSuccession(a, s) PROVE SuccessionLogged'
  BY <1>5, RequestSuccessionEffect DEF SuccessionLogged, Heir
<1>6. ASSUME NEW a \in Did, NEW target \in Did, NEW g \in BOOLEAN,
             SetVerifierStatus(a, target, g)
      PROVE  SuccessionLogged'
  BY <1>6, SetVerifierStatusEffect DEF SuccessionLogged, Heir
<1> QED
  BY <1>1, <1>2, <1>3, <1>4, <1>5, <1>6, AgentCases

\* At the start nothing is logged and nobody is succeeded.
LEMMA InitSuccession == Init => SuccessionSound /\ SuccessionLogged
  BY DEF Init, AgentsInit, LogInit, SuccessionSound, SuccessionLogged, Logged, Retired,
         NoSuccession

\* The two are one invariant: each needs the other to be kept by a step.
LEMMA SuccessionInv == Spec => [](SuccessionSound /\ SuccessionLogged)
<1> DEFINE Inv == TypeOK /\ SuccessionSound /\ SuccessionLogged
<1>1. Inv /\ [Next]_vars => (SuccessionSound /\ SuccessionLogged)'
  BY SuccessionSoundStep, SuccessionLoggedStep
<1> QED
  BY <1>1, InitSuccession, TypeCorrect, PTL DEF Spec

\* Every identity has at most one successor and at most one predecessor, and
\* whoever is retired has no succession pending (requestSuccession,
\* revokeAgent and activateDueSuccessions in agentService.ts).
THEOREM SuccessionCorrect == Spec => []SuccessionSound
  BY SuccessionInv, PTL

\* The log tells every succession: which were requested, which took effect,
\* and which were cancelled by a revocation (the same handlers).
THEOREM SuccessionLoggedCorrect == Spec => []SuccessionLogged
  BY SuccessionInv, PTL

-----------------------------------------------------------------------------
(* The verifiers can be recomputed from the log. *)

Grant(a) == Leaf("verifier_status_changed", a, "authorized")
Withdrawal(a) == Leaf("verifier_status_changed", a, "unauthorized")

\* A leaf about something else does not change whose grant stands last.
LEMMA OtherLeafKeepsGrants ==
    ASSUME log \in Seq(Entry), NEW e \in Entry, log' = Append(log, e), NEW a,
           e # Grant(a), e # Withdrawal(a)
    PROVE  LastGrantStands(a)' <=> LastGrantStands(a)
<1>1. /\ Len(log) \in Nat
      /\ Len(log') = Len(log) + 1
      /\ \A i \in 1 .. Len(log) : log'[i] = log[i]
      /\ log'[Len(log) + 1] = e
  BY AppendRows
<1>2. ASSUME LastGrantStands(a) PROVE LastGrantStands(a)'
  <2>1. PICK i \in 1 .. Len(log) :
            /\ log[i] = Grant(a)
            /\ \A k \in i + 1 .. Len(log) : log[k] # Withdrawal(a)
    BY <1>2 DEF LastGrantStands, Grant, Withdrawal
  <2>2. \A k \in i + 1 .. Len(log') : log'[k] # Withdrawal(a)
    <3> TAKE k \in i + 1 .. Len(log')
    <3>1. CASE k \in 1 .. Len(log)
      BY <1>1, <2>1, <3>1
    <3>2. CASE k = Len(log) + 1
      BY <1>1, <3>2
    <3> QED
      BY <1>1, <2>1, <3>1, <3>2
  <2> QED
    BY <1>1, <2>1, <2>2 DEF LastGrantStands, Grant, Withdrawal
<1>3. ASSUME LastGrantStands(a)' PROVE LastGrantStands(a)
  <2>1. PICK i \in 1 .. Len(log') :
            /\ log'[i] = Grant(a)
            /\ \A k \in i + 1 .. Len(log') : log'[k] # Withdrawal(a)
    BY <1>3 DEF LastGrantStands, Grant, Withdrawal
  <2>2. i \in 1 .. Len(log)
    BY <1>1, <2>1
  <2>3. log[i] = Grant(a)
    BY <1>1, <2>1, <2>2
  <2>4. \A k \in i + 1 .. Len(log) : log[k] # Withdrawal(a)
    <3> TAKE k \in i + 1 .. Len(log)
    <3>1. k \in 1 .. Len(log) /\ k \in i + 1 .. Len(log')
      BY <1>1, <2>2
    <3> QED
      BY <1>1, <2>1, <3>1
  <2> QED
    BY <2>2, <2>3, <2>4 DEF LastGrantStands, Grant, Withdrawal
<1> QED
  BY <1>2, <1>3

\* A grant stands once it is logged.
LEMMA GrantStands ==
    ASSUME log \in Seq(Entry), NEW a, Grant(a) \in Entry, log' = Append(log, Grant(a))
    PROVE  LastGrantStands(a)'
<1>1. /\ Len(log) \in Nat
      /\ Len(log') = Len(log) + 1
      /\ log'[Len(log) + 1] = Grant(a)
  BY AppendRows
<1>2. \A k \in Len(log) + 2 .. Len(log') : log'[k] # Withdrawal(a)
  BY <1>1
<1> QED
  BY <1>1, <1>2 DEF LastGrantStands, Grant, Withdrawal

\* A withdrawal ends every earlier grant.
LEMMA WithdrawalEndsGrant ==
    ASSUME log \in Seq(Entry), NEW a, Withdrawal(a) \in Entry,
           log' = Append(log, Withdrawal(a))
    PROVE  ~LastGrantStands(a)'
<1>1. /\ Len(log) \in Nat
      /\ Len(log') = Len(log) + 1
      /\ log'[Len(log) + 1] = Withdrawal(a)
  BY AppendRows
<1>2. Grant(a) # Withdrawal(a)
  BY DEF Grant, Withdrawal, Leaf
<1> SUFFICES ASSUME NEW i \in 1 .. Len(log'), log'[i] = Grant(a),
                    \A k \in i + 1 .. Len(log') : log'[k] # Withdrawal(a)
             PROVE  FALSE
  BY DEF LastGrantStands, Grant, Withdrawal
<1> QED
  BY <1>1, <1>2

\* Whatever is not a decision about a verifier logs nothing, or one leaf of
\* another type.
LEMMA OnceLeaf ==
    ASSUME TypeOK, [Next]_vars,
           ~\E a, target \in Did, g \in BOOLEAN : SetVerifierStatus(a, target, g)
    PROVE  \/ UNCHANGED log
           \/ \E t \in OnceTypes : \E r, d : Leaf(t, r, d) \in Entry /\ AppendEntry(t, r, d)
<1>0. pendingSuccession \in [Did -> Succession]
  BY DEF TypeOK
<1>1. CASE AgentStep
  <2>1. ASSUME NEW a \in Did, RegisterAgent(a) PROVE UNCHANGED log
    BY <2>1 DEF RegisterAgent
  <2>2. ASSUME NEW a \in Did, RevokeAgent(a), pendingSuccession[a].successor # None
        PROVE  /\ Leaf("agent_succession_cancelled", a, pendingSuccession[a].successor) \in Entry
               /\ AppendEntry("agent_succession_cancelled", a, pendingSuccession[a].successor)
    BY <1>0, <2>2 DEF RevokeAgent, Leaf, Entry, EntryType, Succession
  <2>3. ASSUME NEW a \in Did, RevokeAgent(a), pendingSuccession[a].successor = None
        PROVE  UNCHANGED log
    BY <2>3 DEF RevokeAgent
  <2>4. ASSUME NEW p \in Did, ActivateDueSuccession(p)
        PROVE  /\ Leaf("agent_succeeded", p, pendingSuccession[p].successor) \in Entry
               /\ AppendEntry("agent_succeeded", p, pendingSuccession[p].successor)
    BY <1>0, <2>4 DEF ActivateDueSuccession, DueSuccessions, Leaf, Entry, EntryType, Succession
  <2>5. ASSUME NEW a \in Did, NEW s \in Did, RequestSuccession(a, s)
        PROVE  /\ Leaf("agent_succession_pending", a, s) \in Entry
               /\ AppendEntry("agent_succession_pending", a, s)
    BY <2>5 DEF RequestSuccession, Leaf, Entry, EntryType
  <2>6. /\ "agent_succession_cancelled" \in OnceTypes
        /\ "agent_succeeded" \in OnceTypes
        /\ "agent_succession_pending" \in OnceTypes
    BY DEF OnceTypes, EntryType
  <2> QED
    BY <1>1, <2>1, <2>2, <2>3, <2>4, <2>5, <2>6 DEF AgentStep, AgentsNext
<1>2. CASE JobStep
  BY <1>2, JobStepLog DEF OnceTypes, EntryType
<1>3. CASE TimeStep \/ UNCHANGED vars
  BY <1>3 DEF TimeStep, Tick, vars
<1>4. ASSUME NEW a \in Did, NEW c \in Content, ReceiptHandler(a, c)
      PROVE  \/ UNCHANGED log
             \/ \E t \in OnceTypes : \E r, d : Leaf(t, r, d) \in Entry /\ AppendEntry(t, r, d)
  <2>1. /\ Leaf("receipt_finalized", c, None) \in Entry
        /\ Leaf("dispute_opened", c, a) \in Entry
        /\ Leaf("dispute_resolved", c, a) \in Entry
    BY DEF Leaf, Entry, EntryType
  <2> QED
    BY <1>4, <2>1 DEF ReceiptHandler, CreateDraft, Countersign, OpenDispute,
                      ResolveDispute, OnceTypes, EntryType
<1> QED
  BY <1>1, <1>2, <1>3, <1>4, StepCases DEF OtherStep

VerifiersRegistered == verifiers \subseteq registered

\* A verifier is a registered agent.
LEMMA VerifiersRegisteredStep ==
    ASSUME TypeOK, VerifiersRegistered, [Next]_vars
    PROVE  VerifiersRegistered'
<1>1. CASE ~AgentStep
  BY <1>1, NoAgentLeaf DEF VerifiersRegistered, agentVars
<1>2. CASE AgentStep
  BY <1>2, AgentCases DEF VerifiersRegistered, RegisterAgent, RevokeAgent,
     ActivateDueSuccession, RequestSuccession, SetVerifierStatus
<1> QED
  BY <1>1, <1>2

\* One step keeps the grants and the log in agreement.
LEMMA VerifiersLoggedStep ==
    ASSUME TypeOK, SuccessionSound, VerifiersRegistered, VerifiersLogged, [Next]_vars
    PROVE  VerifiersLogged'
<1>0. log \in Seq(Entry)
  BY DEF TypeOK
<1>1. ASSUME NEW a \in Did, NEW target \in Did, NEW g \in BOOLEAN,
             SetVerifierStatus(a, target, g)
      PROVE  VerifiersLogged'
  <2>1. /\ Grant(target) \in Entry
        /\ Withdrawal(target) \in Entry
        /\ \A x : x # target => /\ Grant(target) # Grant(x)
                                /\ Grant(target) # Withdrawal(x)
                                /\ Withdrawal(target) # Grant(x)
                                /\ Withdrawal(target) # Withdrawal(x)
    BY DEF Grant, Withdrawal, Leaf, Entry, EntryType
  <2>2. CASE g
    <3>1. log' = Append(log, Grant(target)) /\ verifiers' = verifiers \cup {target}
      BY <1>1, <2>2 DEF SetVerifierStatus, GrantOf, AppendEntry, Grant
    <3>2. LastGrantStands(target)'
      BY <1>0, <2>1, <3>1, GrantStands
    <3>3. \A x \in Did : x # target => (LastGrantStands(x)' <=> LastGrantStands(x))
      BY <1>0, <2>1, <3>1, OtherLeafKeepsGrants
    <3> QED
      BY <3>1, <3>2, <3>3 DEF VerifiersLogged
  <2>3. CASE ~g
    <3>1. log' = Append(log, Withdrawal(target)) /\ verifiers' = verifiers \ {target}
      BY <1>1, <2>3 DEF SetVerifierStatus, GrantOf, AppendEntry, Withdrawal
    <3>2. ~LastGrantStands(target)'
      BY <1>0, <2>1, <3>1, WithdrawalEndsGrant
    <3>3. \A x \in Did : x # target => (LastGrantStands(x)' <=> LastGrantStands(x))
      BY <1>0, <2>1, <3>1, OtherLeafKeepsGrants
    <3> QED
      BY <3>1, <3>2, <3>3 DEF VerifiersLogged
  <2> QED
    BY <2>2, <2>3
<1>2. ASSUME ~\E a, target \in Did, g \in BOOLEAN : SetVerifierStatus(a, target, g)
      PROVE  VerifiersLogged'
  <2>1. verifiers' = verifiers
    <3>1. CASE AgentStep
      <4>1. ASSUME NEW p \in Did, ActivateDueSuccession(p) PROVE verifiers' = verifiers
        <5>1. Heir(p) \in Did /\ Heir(p) # None /\ verifiers' = verifiers \ {Heir(p)}
          BY <4>1, ActivateEffect
        <5>2. Heir(p) \notin registered
          BY <5>1 DEF SuccessionSound, Heir
        <5> QED
          BY <5>1, <5>2 DEF VerifiersRegistered
      <4> QED
        BY <1>2, <3>1, <4>1, AgentCases DEF RegisterAgent, RevokeAgent, RequestSuccession
    <3>2. CASE ~AgentStep
      BY <3>2, NoAgentLeaf DEF agentVars
    <3> QED
      BY <3>1, <3>2
  <2>2. CASE UNCHANGED log
    BY <2>1, <2>2 DEF VerifiersLogged, LastGrantStands
  <2>3. ASSUME NEW t \in OnceTypes, NEW r, NEW d,
               Leaf(t, r, d) \in Entry, AppendEntry(t, r, d)
        PROVE  VerifiersLogged'
    <3>1. t # "verifier_status_changed"
      BY <2>3 DEF OnceTypes
    <3>2. \A x : Leaf(t, r, d) # Grant(x) /\ Leaf(t, r, d) # Withdrawal(x)
      BY <3>1 DEF Grant, Withdrawal, Leaf
    <3>3. log' = Append(log, Leaf(t, r, d))
      BY <2>3 DEF AppendEntry
    <3>4. \A x \in Did : LastGrantStands(x)' <=> LastGrantStands(x)
      BY <1>0, <2>3, <3>2, <3>3, OtherLeafKeepsGrants
    <3> QED
      BY <2>1, <3>4 DEF VerifiersLogged
  <2> QED
    BY <1>2, <2>2, <2>3, OnceLeaf
<1> QED
  BY <1>1, <1>2

\* The set of authorized verifiers can be recomputed from the log, whatever
\* revocations and successions happened in between (setVerifierStatus,
\* revokeAgent and activateDueSuccessions in agentService.ts).
THEOREM VerifiersCorrect == Spec => []VerifiersLogged
<1>1. Init => VerifiersRegistered /\ VerifiersLogged
  BY DEF Init, AgentsInit, LogInit, VerifiersRegistered, VerifiersLogged, LastGrantStands
<1>2. /\ TypeOK /\ SuccessionSound /\ SuccessionLogged
      /\ VerifiersRegistered /\ VerifiersLogged
      /\ [Next]_vars
      => (VerifiersRegistered /\ VerifiersLogged)'
  BY VerifiersRegisteredStep, VerifiersLoggedStep
<1> QED
  BY <1>1, <1>2, TypeCorrect, SuccessionInv, PTL DEF Spec

-----------------------------------------------------------------------------
(* The log as a whole. *)

\* The invariant the proofs below rest on.
TablesInv ==
    /\ TypeOK
    /\ FinalizationsLogged
    /\ DisputesLogged
    /\ ReportsLogged
    /\ OpenerUnspent
    /\ SuccessionSound
    /\ SuccessionLogged

-----------------------------------------------------------------------------
(* No event is logged twice. *)

\* A leaf of an agent handler says something new, or is a grant.
LEMMA FreshAgentLeaf ==
    ASSUME TablesInv, AgentStep
    PROVE  \/ UNCHANGED log
           \/ \E t \in EntryType : \E r, d :
                 /\ Leaf(t, r, d) \in Entry
                 /\ AppendEntry(t, r, d)
                 /\ t \in OnceTypes => ~Logged(t, r, d)
<1>0. /\ TypeOK
      /\ SuccessionSound
      /\ SuccessionLogged
      /\ pendingSuccession \in [Did -> Succession]
  BY DEF TablesInv, TypeOK
<1>1. ASSUME NEW a \in Did, RegisterAgent(a) PROVE UNCHANGED log
  BY <1>1 DEF RegisterAgent
<1>2. ASSUME NEW a \in Did, RevokeAgent(a), pendingSuccession[a].successor # None
      PROVE  LET s == pendingSuccession[a].successor IN
             /\ Leaf("agent_succession_cancelled", a, s) \in Entry
             /\ AppendEntry("agent_succession_cancelled", a, s)
             /\ ~Logged("agent_succession_cancelled", a, s)
  <2> DEFINE s == pendingSuccession[a].successor
  <2>1. s \in Did
    BY <1>0, <1>2 DEF Succession
  <2>2. a \notin revoked
    BY <1>0, <1>2 DEF SuccessionSound, Retired
  <2>3. ~Logged("agent_succession_cancelled", a, s)
    BY <1>0, <2>1, <2>2 DEF SuccessionLogged
  <2> QED
    BY <1>2, <2>1, <2>3 DEF RevokeAgent, Leaf, Entry, EntryType
<1>3. ASSUME NEW a \in Did, RevokeAgent(a), pendingSuccession[a].successor = None
      PROVE  UNCHANGED log
  BY <1>3 DEF RevokeAgent
<1>4. ASSUME NEW p \in Did, ActivateDueSuccession(p)
      PROVE  LET s == pendingSuccession[p].successor IN
             /\ Leaf("agent_succeeded", p, s) \in Entry
             /\ AppendEntry("agent_succeeded", p, s)
             /\ ~Logged("agent_succeeded", p, s)
  <2> DEFINE s == pendingSuccession[p].successor
  <2>1. s \in Did /\ s # None
    BY <1>0, <1>4 DEF ActivateDueSuccession, DueSuccessions, Succession
  <2>2. succeededBy[p] = None
    BY <1>0, <2>1 DEF SuccessionSound, Retired
  <2>3. ~Logged("agent_succeeded", p, s)
    BY <1>0, <2>1, <2>2 DEF SuccessionLogged
  <2> QED
    BY <1>4, <2>1, <2>3 DEF ActivateDueSuccession, Leaf, Entry, EntryType
<1>5. ASSUME NEW a \in Did, NEW s \in Did, RequestSuccession(a, s)
      PROVE  /\ Leaf("agent_succession_pending", a, s) \in Entry
             /\ AppendEntry("agent_succession_pending", a, s)
             /\ ~Logged("agent_succession_pending", a, s)
  <2>1. /\ pendingSuccession[a].successor = None
        /\ a \notin revoked
        /\ succeededBy[a] = None
    BY <1>5 DEF RequestSuccession, SignedRequest, Retired
  <2>2. ~Logged("agent_succession_pending", a, s)
    BY <1>0, <2>1 DEF SuccessionLogged
  <2> QED
    BY <1>5, <2>2 DEF RequestSuccession, Leaf, Entry, EntryType
<1>6. ASSUME NEW a \in Did, NEW target \in Did, NEW g \in BOOLEAN,
             SetVerifierStatus(a, target, g)
      PROVE  /\ Leaf("verifier_status_changed", target, GrantOf(g)) \in Entry
             /\ AppendEntry("verifier_status_changed", target, GrantOf(g))
  BY <1>6 DEF SetVerifierStatus, GrantOf, Leaf, Entry, EntryType
<1>7. /\ "agent_succession_cancelled" \in EntryType
      /\ "agent_succeeded" \in EntryType
      /\ "agent_succession_pending" \in EntryType
      /\ "verifier_status_changed" \in EntryType
      /\ "verifier_status_changed" \notin OnceTypes
  BY DEF OnceTypes, EntryType
<1>8. CASE \E a \in Did : RevokeAgent(a)
  BY <1>2, <1>3, <1>7, <1>8
<1>9. CASE \E p \in Did : ActivateDueSuccession(p)
  BY <1>4, <1>7, <1>9
<1>10. CASE \E a, s \in Did : RequestSuccession(a, s)
  BY <1>5, <1>7, <1>10
<1>11. CASE \E a, target \in Did, g \in BOOLEAN : SetVerifierStatus(a, target, g)
  BY <1>6, <1>7, <1>11
<1> QED
  BY <1>1, <1>8, <1>9, <1>10, <1>11, AgentCases

\* A leaf of a receipt handler says something new.
LEMMA FreshReceiptLeaf ==
    ASSUME TablesInv, NEW a \in Did, NEW c \in Content, ReceiptHandler(a, c)
    PROVE  \/ UNCHANGED log
           \/ \E t \in ReceiptTypes : \E d :
                 /\ Leaf(t, c, d) \in Entry
                 /\ AppendEntry(t, c, d)
                 /\ ~Logged(t, c, d)
<1>0. TypeOK
  BY DEF TablesInv
<1>1. /\ Leaf("receipt_finalized", c, None) \in Entry
      /\ Leaf("dispute_opened", c, a) \in Entry
      /\ Leaf("dispute_resolved", c, a) \in Entry
  BY DEF Leaf, Entry, EntryType
<1>2. CASE CreateDraft(a, c)
  BY <1>2 DEF CreateDraft
<1>3. CASE Countersign(a, c)
  <2>1. ~Logged("receipt_finalized", c, None)
    BY <1>0, <1>3, CountersignEffect DEF TablesInv, FinalizationsLogged, Finalized
  <2>2. AppendEntry("receipt_finalized", c, None)
    BY <1>3 DEF Countersign
  <2> QED
    BY <1>1, <2>1, <2>2 DEF ReceiptTypes
<1>4. CASE OpenDispute(a, c)
  <2>1. ~Logged("dispute_opened", c, a)
    BY <1>0, <1>4, OpenDisputeEffect DEF TablesInv, DisputesLogged
  <2>2. AppendEntry("dispute_opened", c, a)
    BY <1>4 DEF OpenDispute
  <2> QED
    BY <1>1, <2>1, <2>2 DEF ReceiptTypes
<1>5. CASE ResolveDispute(a, c)
  <2>1. ~Logged("dispute_resolved", c, a)
    BY <1>0, <1>5, ResolveDisputeEffect DEF TablesInv, DisputesLogged, OpenerUnspent
  <2>2. AppendEntry("dispute_resolved", c, a)
    BY <1>5 DEF ResolveDispute
  <2> QED
    BY <1>1, <2>1, <2>2 DEF ReceiptTypes
<1> QED
  BY <1>2, <1>3, <1>4, <1>5 DEF ReceiptHandler

\* A report says something new.
LEMMA FreshJobLeaf ==
    ASSUME TablesInv, NEW a \in Did, NEW j \in JobId, JobHandler(a, j)
    PROVE  \/ UNCHANGED log
           \/ /\ Leaf("nonperformance_reported", j, None) \in Entry
              /\ AppendEntry("nonperformance_reported", j, None)
              /\ ~Logged("nonperformance_reported", j, None)
<1>0. TypeOK
  BY DEF TablesInv
<1>1. Leaf("nonperformance_reported", j, None) \in Entry
  BY DEF Leaf, Entry, EntryType
<1>2. CASE ReportNonPerformance(a, j)
  <2>1. /\ jobs[j].status = "accepted"
        /\ AppendEntry("nonperformance_reported", j, None)
    BY <1>2 DEF ReportNonPerformance
  <2> QED
    BY <1>1, <2>1 DEF TablesInv, ReportsLogged
<1>3. CASE ~ReportNonPerformance(a, j)
  BY <1>3 DEF JobHandler, PostFreshJob, PostJob, SubmitOffer, AcceptOffer, CancelJob
<1> QED
  BY <1>2, <1>3

\* Every step logs nothing, or one leaf that is new unless it is about a grant.
LEMMA FreshLeaf ==
    ASSUME TablesInv, [Next]_vars
    PROVE  \/ UNCHANGED log
           \/ \E t \in EntryType : \E r, d :
                 /\ Leaf(t, r, d) \in Entry
                 /\ AppendEntry(t, r, d)
                 /\ t \in OnceTypes => ~Logged(t, r, d)
<1>1. CASE TimeStep \/ UNCHANGED vars
  BY <1>1 DEF TimeStep, Tick, vars
<1>2. CASE JobStep
  BY <1>2, FreshJobLeaf DEF JobStep, EntryType
<1>3. CASE \E a \in Did, c \in Content : ReceiptHandler(a, c)
  BY <1>3, FreshReceiptLeaf DEF ReceiptTypes, EntryType
<1> QED
  BY <1>1, <1>2, <1>3, FreshAgentLeaf, StepCases DEF OtherStep

\* One step logs no event a second time.
LEMMA LogOnceStep ==
    ASSUME TablesInv, LogOnce, [Next]_vars
    PROVE  LogOnce'
<1>0. log \in Seq(Entry)
  BY DEF TablesInv, TypeOK
<1>1. CASE UNCHANGED log
  BY <1>1 DEF LogOnce
<1>2. ASSUME NEW t \in EntryType, NEW r, NEW d,
             Leaf(t, r, d) \in Entry, AppendEntry(t, r, d),
             t \in OnceTypes => ~Logged(t, r, d)
      PROVE  LogOnce'
  <2> DEFINE e == Leaf(t, r, d)
  <2>1. /\ Len(log) \in Nat
        /\ Len(log') = Len(log) + 1
        /\ \A i \in 1 .. Len(log) : log'[i] = log[i]
        /\ log'[Len(log) + 1] = e
    BY <1>0, <1>2, AppendRows DEF AppendEntry
  <2>2. e.entryType \in OnceTypes => \A i \in 1 .. Len(log) : log[i] # e
    BY <1>2 DEF Logged, Leaf
  <2> HIDE DEF e
  <2> SUFFICES ASSUME NEW i \in 1 .. Len(log'), NEW k \in 1 .. Len(log'),
                      log'[i].entryType \in OnceTypes, log'[i] = log'[k]
               PROVE  i = k
    BY DEF LogOnce
  <2>3. CASE i \in 1 .. Len(log) /\ k \in 1 .. Len(log)
    BY <2>1, <2>3 DEF LogOnce
  <2>4. CASE i = Len(log) + 1 /\ k \in 1 .. Len(log)
    BY <2>1, <2>2, <2>4
  <2>5. CASE i \in 1 .. Len(log) /\ k = Len(log) + 1
    BY <2>1, <2>2, <2>5
  <2> QED
    BY <2>1, <2>3, <2>4, <2>5
<1> QED
  BY <1>1, <1>2, FreshLeaf

-----------------------------------------------------------------------------
(* The events of a receipt are in order. *)

\* A dispute is logged after the finalization, a withdrawal after the dispute.
LEMMA OrderedLeaf ==
    ASSUME TablesInv, [Next]_vars
    PROVE  \/ UNCHANGED log
           \/ \E t \in EntryType : \E r, d :
                 /\ Leaf(t, r, d) \in Entry
                 /\ AppendEntry(t, r, d)
                 /\ t = "dispute_opened" => Logged("receipt_finalized", r, None)
                 /\ t = "dispute_resolved" => Logged("dispute_opened", r, d)
<1>0. TypeOK
  BY DEF TablesInv
<1>1. CASE TimeStep \/ UNCHANGED vars
  BY <1>1 DEF TimeStep, Tick, vars
<1>2. CASE JobStep
  BY <1>2, JobStepLog DEF EntryType
<1>3. CASE AgentStep
  BY <1>0, <1>3, AgentStepLog DEF AgentTypes, EntryType
<1>4. ASSUME NEW a \in Did, NEW c \in Content, ReceiptHandler(a, c)
      PROVE  \/ UNCHANGED log
             \/ \E t \in EntryType : \E r, d :
                   /\ Leaf(t, r, d) \in Entry
                   /\ AppendEntry(t, r, d)
                   /\ t = "dispute_opened" => Logged("receipt_finalized", r, None)
                   /\ t = "dispute_resolved" => Logged("dispute_opened", r, d)
  <2>1. /\ Leaf("receipt_finalized", c, None) \in Entry
        /\ Leaf("dispute_opened", c, a) \in Entry
        /\ Leaf("dispute_resolved", c, a) \in Entry
    BY DEF Leaf, Entry, EntryType
  <2>2. CASE CreateDraft(a, c)
    BY <2>2 DEF CreateDraft
  <2>3. CASE Countersign(a, c)
    BY <2>1, <2>3 DEF Countersign, EntryType
  <2>4. CASE OpenDispute(a, c)
    <3>1. Logged("receipt_finalized", c, None)
      BY <1>0, <2>4, OpenDisputeEffect DEF TablesInv, FinalizationsLogged, Finalized
    <3>2. AppendEntry("dispute_opened", c, a)
      BY <2>4 DEF OpenDispute
    <3> QED
      BY <2>1, <3>1, <3>2 DEF EntryType
  <2>5. CASE ResolveDispute(a, c)
    <3>1. Logged("dispute_opened", c, a)
      BY <1>0, <2>5, ResolveDisputeEffect DEF TablesInv, DisputesLogged
    <3>2. AppendEntry("dispute_resolved", c, a)
      BY <2>5 DEF ResolveDispute
    <3> QED
      BY <2>1, <3>1, <3>2 DEF EntryType
  <2> QED
    BY <1>4, <2>2, <2>3, <2>4, <2>5 DEF ReceiptHandler
<1> QED
  BY <1>1, <1>2, <1>3, <1>4, StepCases DEF OtherStep

\* One step keeps the events of every receipt in order.
LEMMA LogOrderedStep ==
    ASSUME TablesInv, LogOrdered, [Next]_vars
    PROVE  LogOrdered'
<1>0. log \in Seq(Entry)
  BY DEF TablesInv, TypeOK
<1>1. CASE UNCHANGED log
  BY <1>1 DEF LogOrdered
<1>2. ASSUME NEW t \in EntryType, NEW r, NEW d,
             Leaf(t, r, d) \in Entry, AppendEntry(t, r, d),
             t = "dispute_opened" => Logged("receipt_finalized", r, None),
             t = "dispute_resolved" => Logged("dispute_opened", r, d)
      PROVE  LogOrdered'
  <2>1. /\ Len(log) \in Nat
        /\ Len(log') = Len(log) + 1
        /\ \A i \in 1 .. Len(log) : log'[i] = log[i]
        /\ log'[Len(log) + 1] = Leaf(t, r, d)
    BY <1>0, <1>2, AppendRows DEF AppendEntry
  <2> SUFFICES ASSUME NEW k \in 1 .. Len(log')
               PROVE  /\ log'[k].entryType = "dispute_opened" =>
                            \E i \in 1 .. k - 1 :
                              log'[i] = Leaf("receipt_finalized", log'[k].refId, None)
                      /\ log'[k].entryType = "dispute_resolved" =>
                            \E i \in 1 .. k - 1 :
                              log'[i] = Leaf("dispute_opened", log'[k].refId, log'[k].data)
    BY DEF LogOrdered
  <2>2. CASE k \in 1 .. Len(log)
    <3>1. /\ log'[k] = log[k]
          /\ \A i \in 1 .. k - 1 : log'[i] = log[i]
      BY <2>1, <2>2
    <3> QED
      BY <2>2, <3>1 DEF LogOrdered
  <2>3. CASE k = Len(log) + 1
    <3>1. /\ log'[k].entryType = t
          /\ log'[k].refId = r
          /\ log'[k].data = d
      BY <2>1, <2>3 DEF Leaf
    <3>2. 1 .. k - 1 = 1 .. Len(log)
      BY <2>1, <2>3
    <3> QED
      BY <1>2, <2>1, <3>1, <3>2 DEF Logged
  <2> QED
    BY <2>1, <2>2, <2>3
<1> QED
  BY <1>1, <1>2, OrderedLeaf

-----------------------------------------------------------------------------
(* What the log tells is a behaviour of the abstract lifecycle. *)

\* One step of the registry is a step of the lifecycle or changes nothing an
\* auditor sees of a receipt.
LEMMA LifecycleStep ==
    ASSUME TablesInv, [Next]_vars
    PROVE  [Lifecycle!Next]_(Lifecycle!vars)
<1>0. TypeOK
  BY DEF TablesInv
<1> USE DEF FinalInLog, PendingInLog, SpentInLog
<1>1. CASE OtherStep
  BY <1>0, <1>1, NoReceiptLeaf DEF Lifecycle!vars, ReceiptTypes
<1>2. ASSUME NEW a \in Did, NEW c \in Content, CreateDraft(a, c)
      PROVE  UNCHANGED Lifecycle!vars
  BY <1>0, <1>2, CreateDraftEffect DEF Lifecycle!vars
<1>3. ASSUME NEW a \in Did, NEW c \in Content, Countersign(a, c)
      PROVE  Lifecycle!Finalize(c)
  BY <1>0, <1>3, CountersignEffect
     DEF TablesInv, FinalizationsLogged, Finalized, Lifecycle!Finalize
<1>4. ASSUME NEW a \in Did, NEW c \in Content, OpenDispute(a, c)
      PROVE  Lifecycle!Dispute(c, a)
  <2>1. /\ receipts[c].status = "finalized"
        /\ a \in Parties(c) \ receipts[c].usedBy
        /\ \A t, r, d : Logged(t, r, d)' <=>
              Logged(t, r, d) \/ (t = "dispute_opened" /\ r = c /\ d = a)
    BY <1>0, <1>4, OpenDisputeEffect
  <2>2. /\ Logged("receipt_finalized", c, None)
        /\ ~Logged("dispute_resolved", c, a)
        /\ \A p \in Did : Logged("dispute_opened", c, p) => Logged("dispute_resolved", c, p)
    BY <2>1 DEF TablesInv, FinalizationsLogged, DisputesLogged, Finalized
  <2>3. FinalInLog' = FinalInLog /\ SpentInLog' = SpentInLog
    BY <2>1
  <2>4. PendingInLog[c] = {}
    BY <2>2
  <2>5. \A x \in Content : PendingInLog'[x] = IF x = c THEN {a} ELSE PendingInLog[x]
    BY <2>1, <2>2
  <2>6. PendingInLog' = [PendingInLog EXCEPT ![c] = {a}]
    BY <2>5
  <2>7. c \in FinalInLog /\ a \in {c.agentA, c.agentB} \ SpentInLog[c]
    BY <2>1, <2>2 DEF Parties
  <2> QED
    BY <2>3, <2>4, <2>6, <2>7 DEF Lifecycle!Dispute
<1>5. ASSUME NEW a \in Did, NEW c \in Content, ResolveDispute(a, c)
      PROVE  Lifecycle!Withdraw(c, a)
  <2>1. /\ receipts[c].status = "disputed"
        /\ receipts[c].openedBy = a
        /\ \A t, r, d : Logged(t, r, d)' <=>
              Logged(t, r, d) \/ (t = "dispute_resolved" /\ r = c /\ d = a)
    BY <1>0, <1>5, ResolveDisputeEffect
  <2>2. /\ Logged("dispute_opened", c, a)
        /\ ~Logged("dispute_resolved", c, a)
        /\ \A p \in Did \ {a} :
              Logged("dispute_opened", c, p) => Logged("dispute_resolved", c, p)
    BY <2>1 DEF TablesInv, DisputesLogged, OpenerUnspent
  <2>3. FinalInLog' = FinalInLog
    BY <2>1
  <2>4. PendingInLog[c] = {a}
    BY <2>2
  <2>5. \A x \in Content :
           /\ PendingInLog'[x] = IF x = c THEN {} ELSE PendingInLog[x]
           /\ SpentInLog'[x] = IF x = c THEN SpentInLog[x] \cup {a} ELSE SpentInLog[x]
    BY <2>1, <2>2
  <2>6. /\ PendingInLog' = [PendingInLog EXCEPT ![c] = {}]
        /\ SpentInLog' = [SpentInLog EXCEPT ![c] = SpentInLog[c] \cup {a}]
    BY <2>5
  <2> QED
    BY <2>3, <2>4, <2>6 DEF Lifecycle!Withdraw
<1> QED
  BY <1>1, <1>2, <1>3, <1>4, <1>5, StepCases DEF ReceiptHandler, Lifecycle!Next

-----------------------------------------------------------------------------
(* The theorems. *)

\* Everything the proofs above assume of a state holds in every state.
LEMMA TablesCorrect == Spec => []TablesInv
<1>1. TypeOK /\ LogFaithful /\ OpenerUnspent /\ SuccessionSound /\ SuccessionLogged
      => TablesInv
  BY DEF TablesInv, LogFaithful
<1> QED
  BY <1>1, TypeCorrect, LogFaithfulCorrect, OpenerCorrect, SuccessionInv, PTL

\* One event, one leaf, over every handler that logs (the appendEntry calls of
\* agentService.ts, jobService.ts and receiptService.ts).
THEOREM LogOnceCorrect == Spec => []LogOnce
<1>1. Init => LogOnce
  BY DEF Init, LogInit, LogOnce
<1>2. TablesInv /\ LogOnce /\ [Next]_vars => LogOnce'
  BY LogOnceStep
<1> QED
  BY <1>1, <1>2, TablesCorrect, PTL DEF Spec

\* Finalization, dispute and withdrawal are logged in this order
\* (receiptService.ts).
THEOREM LogOrderedCorrect == Spec => []LogOrdered
<1>1. Init => LogOrdered
  BY DEF Init, LogInit, LogOrdered
<1>2. TablesInv /\ LogOrdered /\ [Next]_vars => LogOrdered'
  BY LogOrderedStep
<1> QED
  BY <1>1, <1>2, TablesCorrect, PTL DEF Spec

\* The registry implements the abstract lifecycle of receipts, read through
\* its log (receiptService.ts against ReceiptLifecycle).
THEOREM LifecycleCorrect == Spec => AuditedLifecycle
<1>1. Init => Lifecycle!Init
  BY DEF Init, LogInit, Logged, FinalInLog, PendingInLog, SpentInLog, Lifecycle!Init
<1>2. TablesInv /\ [Next]_vars => [Lifecycle!Next]_(Lifecycle!vars)
  BY LifecycleStep
<1> QED
  BY <1>1, <1>2, TablesCorrect, PTL DEF Spec, AuditedLifecycle, Lifecycle!Spec
=============================================================================
