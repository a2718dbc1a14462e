-------------------------- MODULE WorkerReceiptsProofs --------------------------
(***************************************************************************)
(* Receipts, jobs and the log of the Worker, for any number of requests in *)
(* flight, receipts, jobs and agents, whichever of the requests die.       *)
(*                                                                         *)
(* The invariant says of every request in flight what is still true of     *)
(* what it read: rows of finalized receipts keep their window, what is to  *)
(* be logged has happened and nobody else is to log it, and the index to   *)
(* insert at is not beyond the end of the log.                             *)
(***************************************************************************)
EXTENDS WorkerReceipts, FiniteSetTheorems, TLAPS

ReceiptOps == {"createDraft", "countersign", "openDispute", "resolveDispute"}
LoggedOps == {"countersign", "openDispute", "resolveDispute", "reportNonPerformance"}

\* The operations whose leaf appears once for each receipt or job.
OnceOps == {"countersign", "reportNonPerformance"}

\* A request whose write took effect and whose leaf is still to be inserted.
Owes(r) == requests[r].pc \in {"complete", "count", "insert", "recount", "reinsert"}

\* Only reports are about jobs.
LogRefs ==
    \A i \in DOMAIN log :
        log[i].refId \in IF log[i].entryType = "nonperformance_reported" THEN JobId ELSE Content

LogShape == \E n \in Nat : DOMAIN log = 0 .. n - 1

\* A row to be written back over a finalized receipt keeps its window.
RowSound(q) ==
    /\ q.op = "createDraft" => q.row.status = "draft"
    /\ q.op = "countersign" => q.row.status = "finalized"
    /\ q.op \in {"openDispute", "resolveDispute"} =>
            /\ q.row.status \in {"finalized", "disputed"}
            /\ Finalized(q.ref)
            /\ q.row.windowClosesAt = receipts[q.ref].windowClosesAt

\* What a leaf of the operation tells has happened.
Happened(op, ref) ==
    IF op = "reportNonPerformance" THEN jobs[ref].status = "nonperformed" ELSE Finalized(ref)

RequestSound(r) ==
    LET q == requests[r] IN
    /\ q.op \in ReceiptOps => q.ref \in Content
    /\ q.op \in {"cancelJob", "reportNonPerformance"} => q.ref \in JobId
    /\ q.op # "none" => q.caller \in Did
    /\ q.pc # "idle" => q.op # "none"
    /\ q.pc = "write" => RowSound(q)
    /\ q.pc = "complete" => q.op = "countersign"
    /\ Owes(r) => q.op \in LoggedOps /\ Happened(q.op, q.ref)
    /\ q.pc \in {"insert", "reinsert"} =>
            q.index \in Nat /\ (q.index \in DOMAIN log \/ DOMAIN log = 0 .. q.index - 1)

\* Of an event that happens once, one leaf is owed or logged.
OwedOnce ==
    \A r, s \in Request :
        /\ Owes(r) /\ Owes(s)
        /\ requests[r].op \in OnceOps
        /\ requests[s].op = requests[r].op
        /\ requests[s].ref = requests[r].ref
        => r = s

OwedNotLogged ==
    \A r \in Request, i \in DOMAIN log :
        Owes(r) /\ requests[r].op \in OnceOps => log[i] # LeafOf(requests[r])

Inv ==
    /\ TypeOK
    /\ LogShape
    /\ LogRefs
    /\ LogTruthful
    /\ EventsLoggedOnce
    /\ \A r \in Request : RequestSound(r)
    /\ OwedOnce
    /\ OwedNotLogged

-----------------------------------------------------------------------------
(* The shape of the log. *)

LEMMA IntervalSize ==
    ASSUME NEW n \in Nat
    PROVE  IsFiniteSet(0 .. n - 1) /\ Cardinality(0 .. n - 1) = n
<1>1. CASE n = 0
  <2>1. 0 .. n - 1 = {}
    BY <1>1
  <2> QED
    BY <1>1, <2>1, FS_EmptySet
<1>2. CASE n > 0
  BY <1>2, FS_Interval
<1> QED
  BY <1>1, <1>2

\* The dense log is what counting its rows makes of it.
LEMMA DenseLog == LogShape => LogDense
<1> SUFFICES ASSUME NEW n \in Nat, DOMAIN log = 0 .. n - 1
             PROVE  LogDense
  BY DEF LogShape
<1> QED
  BY IntervalSize DEF LogDense

\* The index that is counted is the end of the log.
LEMMA NextIndexIsEnd ==
    ASSUME LogShape
    PROVE  NextIndex \in Nat /\ DOMAIN log = 0 .. NextIndex - 1 /\ NextIndex \notin DOMAIN log
<1>1. PICK n \in Nat : DOMAIN log = 0 .. n - 1
  BY DEF LogShape
<1> QED
  BY <1>1, IntervalSize DEF NextIndex

\* Of two intervals from zero, equal ones end at the same place.
LEMMA SameEnd ==
    ASSUME NEW m \in Nat, NEW n \in Nat, 0 .. m - 1 = 0 .. n - 1
    PROVE  m = n
BY IntervalSize

LEMMA InitInv == Init => Inv
<1> SUFFICES ASSUME Init
             PROVE  Inv
  OBVIOUS
<1>1. DOMAIN log = 0 .. 0 - 1 /\ DOMAIN log = {}
  BY DEF Init
<1>2. LogShape
  BY <1>1 DEF LogShape
<1>3. TypeOK
  BY <1>1, WorkerAssumption
     DEF Init, TypeOK, Row, InFlight, NoRow, NoRequest, Time, NoTime, WorkerAssumption
<1> QED
  BY <1>1, <1>2, <1>3
     DEF Init, Inv, LogRefs, LogTruthful, EventsLoggedOnce, OwedOnce, OwedNotLogged, RequestSound, Owes,
         RowSound, ReceiptOps, NoRequest

-----------------------------------------------------------------------------
(* What a step leaves as it was. *)

\* The types of the rows that steps write, from those that they read.
LEMMA RowTypes ==
    ASSUME Inv, NEW r \in Request
    PROVE  /\ requests[r] \in InFlight
           /\ requests[r].pc # "idle" /\ requests[r].op \in ReceiptOps
                => requests[r].ref \in Content /\ receipts[requests[r].ref] \in Row
           /\ requests[r].pc # "idle" /\ requests[r].op \in {"cancelJob", "reportNonPerformance"}
                => requests[r].ref \in JobId
BY DEF Inv, TypeOK, RequestSound

LEMMA EmptyTypes == NoRow \in Row /\ NoRow.status = "absent" /\ NoRequest \in InFlight
BY WorkerAssumption DEF NoRow, Row, Time, NoTime, NoRequest, InFlight, WorkerAssumption

\* The answer of a request leaves it sound, with nothing owed.
LEMMA Answered ==
    ASSUME TypeOK, NEW r \in Request, Answer(r)
    PROVE  requests' \in [Request -> InFlight] /\ RequestSound(r)' /\ ~Owes(r)'
<1>1. requests'[r] = NoRequest
  BY DEF Answer, TypeOK
<1> QED
  BY <1>1, EmptyTypes DEF Answer, TypeOK, RequestSound, Owes, NoRequest, ReceiptOps

\* The log stays or gets a row at its end.
LogGrows ==
    \/ UNCHANGED log
    \/ \E n \in Nat : DOMAIN log = 0 .. n - 1 /\ DOMAIN log' = DOMAIN log \cup {n}

Settled == (\A c \in Content : WindowStays(c)) /\ (\A j \in JobId : OutcomeStays(j))

\* A request stays sound while others move.
LEMMA OthersSound ==
    ASSUME Inv, Settled, LogGrows, NEW s \in Request, requests'[s] = requests[s]
    PROVE  RequestSound(s)' /\ (Owes(s)' <=> Owes(s))
<1> DEFINE q == requests[s]
<1>1. RequestSound(s) /\ q \in InFlight
  BY DEF Inv, TypeOK
<1>2. Owes(s)' <=> Owes(s)
  BY DEF Owes
<1>3. RowSound(q) /\ q.op \in {"openDispute", "resolveDispute"} /\ q.ref \in Content
        => /\ Finalized(q.ref)'
           /\ q.row.windowClosesAt = receipts'[q.ref].windowClosesAt
  BY DEF RowSound, Settled, WindowStays
<1>4. q.op \in ReceiptOps /\ RowSound(q) => RowSound(q)'
  BY <1>1, <1>3 DEF RowSound, RequestSound, ReceiptOps
<1>5. q.pc = "write" => RowSound(q)'
  BY <1>1, <1>4 DEF RowSound, RequestSound, ReceiptOps
<1>6. Owes(s) => Happened(q.op, q.ref)'
  BY <1>1 DEF RequestSound, Happened, Settled, WindowStays, OutcomeStays, ReceiptOps, LoggedOps
<1>7. ASSUME q.pc \in {"insert", "reinsert"}
      PROVE  q.index \in DOMAIN log' \/ DOMAIN log' = 0 .. q.index - 1
  <2>1. q.index \in Nat /\ (q.index \in DOMAIN log \/ DOMAIN log = 0 .. q.index - 1)
    BY <1>1, <1>7 DEF RequestSound
  <2>2. CASE UNCHANGED log
    BY <2>1, <2>2
  <2>3. ASSUME NEW n \in Nat, DOMAIN log = 0 .. n - 1, DOMAIN log' = DOMAIN log \cup {n}
        PROVE  q.index \in DOMAIN log'
    BY <2>1, <2>3, SameEnd
  <2> QED
    BY <2>2, <2>3 DEF LogGrows
<1> QED
  BY <1>1, <1>2, <1>5, <1>6, <1>7 DEF RequestSound

\* A step that neither logs nor newly owes a leaf.
Quiet ==
    /\ UNCHANGED log
    /\ \A s \in Request :
        Owes(s)' => /\ Owes(s)
                    /\ requests'[s].op = requests[s].op
                    /\ requests'[s].ref = requests[s].ref
                    /\ LeafOf(requests'[s]) = LeafOf(requests[s])

LEMMA TruthStays ==
    ASSUME Inv, Settled, UNCHANGED log
    PROVE  LogTruthful'
<1> SUFFICES ASSUME NEW i \in DOMAIN log
             PROVE  IF log[i].entryType = "nonperformance_reported"
                    THEN jobs'[log[i].refId].status = "nonperformed"
                    ELSE Finalized(log[i].refId)'
  BY DEF LogTruthful
<1>1. log[i].refId \in IF log[i].entryType = "nonperformance_reported" THEN JobId ELSE Content
  BY DEF Inv, LogRefs
<1>2. IF log[i].entryType = "nonperformance_reported"
      THEN jobs[log[i].refId].status = "nonperformed"
      ELSE Finalized(log[i].refId)
  BY DEF Inv, LogTruthful
<1> QED
  BY <1>1, <1>2 DEF Settled, WindowStays, OutcomeStays

LEMMA QuietStep ==
    ASSUME Inv, Settled, Quiet, TypeOK', \A s \in Request : RequestSound(s)'
    PROVE  Inv'
<1>1. LogTruthful'
  BY TruthStays DEF Quiet
<1>2. LogShape' /\ LogRefs' /\ EventsLoggedOnce'
  BY DEF Inv, Quiet, LogShape, LogRefs, EventsLoggedOnce
<1>3. OwedOnce'
  BY DEF Inv, Quiet, OwedOnce
<1>4. OwedNotLogged'
  BY DEF Inv, Quiet, OwedNotLogged
<1> QED
  BY <1>1, <1>2, <1>3, <1>4 DEF Inv

\* A step of one request that is quiet if the request itself is.
LEMMA QuietRequest ==
    ASSUME Inv, Settled, UNCHANGED log, TypeOK', NEW r \in Request,
           \A s \in Request \ {r} : requests'[s] = requests[s],
           RequestSound(r)',
           Owes(r)' => /\ Owes(r)
                       /\ requests'[r].op = requests[r].op
                       /\ requests'[r].ref = requests[r].ref
                       /\ LeafOf(requests'[r]) = LeafOf(requests[r])
    PROVE  Inv'
<1>1. ASSUME NEW s \in Request \ {r}
      PROVE  RequestSound(s)' /\ (Owes(s)' <=> Owes(s))
  BY <1>1, OthersSound DEF LogGrows
<1>2. Quiet
  BY <1>1 DEF Quiet
<1> QED
  BY <1>1, <1>2, QuietStep

-----------------------------------------------------------------------------
(* The reads of the handlers. *)

\* A handler that begins with a sound row changes nothing else.
LEMMA BeginStep ==
    ASSUME Inv, NEW r \in Request, NEW op \in ReceiptOps \cup {"cancelJob", "reportNonPerformance"},
           NEW caller \in Did, NEW ref \in Content \cup JobId, NEW row \in Row,
           op \in ReceiptOps => ref \in Content,
           op \notin ReceiptOps => ref \in JobId,
           RowSound([NoRequest EXCEPT !.pc = "write", !.op = op, !.caller = caller,
                                      !.ref = ref, !.row = row]),
           Begin(r, op, caller, ref, row)
    PROVE  Inv' /\ Settled
<1> DEFINE q == [NoRequest EXCEPT !.pc = "write", !.op = op, !.caller = caller,
                                  !.ref = ref, !.row = row]
<1>1. q.pc = "write" /\ q.op = op /\ q.caller = caller /\ q.ref = ref
  BY DEF NoRequest
<1>2. q \in InFlight
  BY EmptyTypes DEF InFlight, ReceiptOps
<1>3. requests' = [requests EXCEPT ![r] = q] /\ UNCHANGED <<now, receipts, jobs, log>>
  BY DEF Begin
<1>4. TypeOK'
  BY <1>2, <1>3 DEF Inv, TypeOK
<1>5. Settled
  BY <1>3 DEF Settled, WindowStays, OutcomeStays, Finalized
<1>6. requests'[r] = q /\ \A s \in Request \ {r} : requests'[s] = requests[s]
  BY <1>3 DEF Inv, TypeOK
<1>7. RowSound(q)'
  BY <1>3 DEF RowSound, Finalized
<1>8. RequestSound(r)' /\ ~Owes(r)'
  BY <1>1, <1>6, <1>7 DEF RequestSound, Owes, ReceiptOps
<1> QED
  BY <1>3, <1>4, <1>5, <1>6, <1>8, QuietRequest

LEMMA ReadStep ==
    ASSUME Inv, NEW r \in Request, Read(r)
    PROVE  Inv' /\ Settled
<1>1. NoRow \in Row /\ NoRow.status = "absent"
  BY EmptyTypes
<1>2. \A c \in Content : receipts[c] \in Row
  BY DEF Inv, TypeOK
<1>3. ASSUME NEW p \in Did, NEW c \in Content, CreateDraft(r, p, c)
      PROVE  Inv' /\ Settled
  BY <1>1, <1>3, BeginStep DEF CreateDraft, RowSound, NoRequest, Row, ReceiptOps
<1>4. ASSUME NEW p \in Did, NEW c \in Content, Countersign(r, p, c)
      PROVE  Inv' /\ Settled
  <2> DEFINE row == [receipts[c] EXCEPT !.status = "finalized",
                                        !.windowClosesAt = now + DisputeWindow]
  <2>1. now + DisputeWindow \in Time
    BY WorkerAssumption DEF Time, Inv, TypeOK, WorkerAssumption
  <2>2. row \in Row /\ row.status = "finalized"
    BY <1>2, <2>1 DEF Row
  <2>3. RowSound([NoRequest EXCEPT !.pc = "write", !.op = "countersign", !.caller = p,
                                   !.ref = c, !.row = row])
    BY <2>2 DEF RowSound, NoRequest
  <2>4. Begin(r, "countersign", p, c, row)
    BY <1>4 DEF Countersign
  <2> HIDE DEF row
  <2> QED
    BY <2>2, <2>3, <2>4, BeginStep DEF ReceiptOps
<1>5. ASSUME NEW p \in Did, NEW c \in Content, OpenDispute(r, p, c)
      PROVE  Inv' /\ Settled
  <2> DEFINE row == [receipts[c] EXCEPT !.status = "disputed", !.disputeStatus = "open",
                                        !.openedBy = p]
  <2>1. /\ row \in Row /\ row.status = "disputed" /\ Finalized(c)
        /\ row.windowClosesAt = receipts[c].windowClosesAt
    BY <1>2, <1>5 DEF Row, OpenDispute, Finalized
  <2> QED
    BY <1>5, <2>1, BeginStep DEF OpenDispute, RowSound, NoRequest, ReceiptOps
<1>6. ASSUME NEW p \in Did, NEW c \in Content, ResolveDispute(r, p, c)
      PROVE  Inv' /\ Settled
  <2> DEFINE row == [receipts[c] EXCEPT !.status = "finalized", !.disputeStatus = "resolved",
                                        !.usedBy = @ \cup {p}]
  <2>1. /\ row \in Row /\ row.status = "finalized" /\ Finalized(c)
        /\ row.windowClosesAt = receipts[c].windowClosesAt
    BY <1>2, <1>6 DEF Row, ResolveDispute, Finalized
  <2> QED
    BY <1>6, <2>1, BeginStep DEF ResolveDispute, RowSound, NoRequest, ReceiptOps
<1>7. ASSUME NEW p \in Did, NEW j \in JobId, CancelJob(r, p, j) \/ ReportNonPerformance(r, p, j)
      PROVE  Inv' /\ Settled
  BY <1>1, <1>7, BeginStep DEF CancelJob, ReportNonPerformance, RowSound, NoRequest, ReceiptOps
<1> QED
  BY <1>3, <1>4, <1>5, <1>6, <1>7 DEF Read

-----------------------------------------------------------------------------
(* The writes. *)

\* Nothing is owed or logged yet of the event that a request brings about.
Unheard(op, ref) ==
    /\ \A s \in Request :
        Owes(s) => ~(op \in OnceOps /\ requests[s].op = op /\ requests[s].ref = ref)
    /\ \A i \in DOMAIN log :
        ~(op = "countersign" /\ log[i].entryType = "receipt_finalized" /\ log[i].refId = ref)
        /\ ~(op = "reportNonPerformance" /\ log[i].entryType = "nonperformance_reported"
                                         /\ log[i].refId = ref)

\* What has not happened is neither owed nor logged.
LEMMA NotYet ==
    ASSUME Inv, NEW op \in OnceOps, NEW ref, ~Happened(op, ref)
    PROVE  Unheard(op, ref)
<1>1. ASSUME NEW s \in Request, Owes(s), requests[s].op = op, requests[s].ref = ref
      PROVE  FALSE
  BY <1>1 DEF Inv, RequestSound
<1>2. ASSUME NEW i \in DOMAIN log, op = "countersign",
             log[i].entryType = "receipt_finalized", log[i].refId = ref
      PROVE  FALSE
  BY <1>2 DEF Inv, LogTruthful, Happened
<1>3. ASSUME NEW i \in DOMAIN log, op = "reportNonPerformance",
             log[i].entryType = "nonperformance_reported", log[i].refId = ref
      PROVE  FALSE
  BY <1>3 DEF Inv, LogTruthful, Happened
<1> QED
  BY <1>1, <1>2, <1>3 DEF Unheard

\* A write that takes effect and leaves its leaf to be inserted.
LEMMA NewOwed ==
    ASSUME Inv, Settled, UNCHANGED log, TypeOK', NEW r \in Request,
           \A s \in Request \ {r} : requests'[s] = requests[s],
           RequestSound(r)',
           Unheard(requests'[r].op, requests'[r].ref)
    PROVE  Inv'
<1>1. ASSUME NEW s \in Request \ {r}
      PROVE  RequestSound(s)' /\ (Owes(s)' <=> Owes(s)) /\ requests'[s] = requests[s]
  BY <1>1, OthersSound DEF LogGrows
<1>2. \A s \in Request : RequestSound(s)'
  BY <1>1
<1>3. LogTruthful'
  BY TruthStays
<1>4. LogShape' /\ LogRefs' /\ EventsLoggedOnce'
  BY DEF Inv, LogShape, LogRefs, EventsLoggedOnce
<1>5. OwedOnce'
  <2>1. ASSUME NEW s \in Request \ {r}, Owes(s), requests'[r].op \in OnceOps,
               requests[s].op = requests'[r].op, requests[s].ref = requests'[r].ref
        PROVE  FALSE
    BY <2>1 DEF Unheard
  <2> QED
    BY <1>1, <2>1 DEF Inv, OwedOnce
<1>6. OwedNotLogged'
  <2>1. ASSUME NEW i \in DOMAIN log, requests'[r].op \in OnceOps
        PROVE  log[i] # LeafOf(requests'[r])
    BY <2>1 DEF Unheard, LeafOf, Leaf, OnceOps
  <2> QED
    BY <1>1, <2>1 DEF Inv, OwedNotLogged
<1> QED
  BY <1>2, <1>3, <1>4, <1>5, <1>6 DEF Inv

\* The same request at another statement, its row forgotten.
LEMMA Moved ==
    ASSUME TypeOK, NEW r \in Request,
           NEW label \in {"complete", "count", "recount"}, Goto(r, label)
    PROVE  /\ requests' \in [Request -> InFlight]
           /\ requests'[r].pc = label
           /\ requests'[r].op = requests[r].op
           /\ requests'[r].caller = requests[r].caller
           /\ requests'[r].ref = requests[r].ref
           /\ requests'[r].index = requests[r].index
           /\ Owes(r)'
           /\ \A s \in Request \ {r} : requests'[s] = requests[s]
BY ZenonT(60), EmptyTypes DEF Goto, TypeOK, InFlight, Owes

\* A request that is answered before anything of it was written.
LEMMA AnswerStep ==
    ASSUME Inv, Settled, NEW r \in Request, Answer(r), UNCHANGED <<now, receipts, jobs, log>>
    PROVE  Inv'
<1>1. requests' \in [Request -> InFlight] /\ RequestSound(r)' /\ ~Owes(r)'
  BY Answered DEF Inv
<1>2. TypeOK'
  BY <1>1 DEF Inv, TypeOK
<1>3. \A s \in Request \ {r} : requests'[s] = requests[s]
  BY DEF Answer, Inv, TypeOK
<1> QED
  BY <1>1, <1>2, <1>3, QuietRequest

LEMMA WriteReceiptStep ==
    ASSUME Inv, NEW r \in Request, WriteReceipt(r)
    PROVE  Inv' /\ Settled
<1> DEFINE q == requests[r]
<1>1. /\ q.pc = "write" /\ q.op \in ReceiptOps /\ q.ref \in Content
      /\ q \in InFlight /\ q.row \in Row /\ RowSound(q) /\ RequestSound(r) /\ q.caller \in Did
  <2>1. q.pc = "write" /\ q.op \in ReceiptOps
    BY DEF WriteReceipt, ReceiptOps, ExpectedStatus
  <2>2. q \in InFlight /\ RequestSound(r)
    BY DEF Inv, TypeOK
  <2> QED
    BY <2>1, <2>2 DEF RequestSound, InFlight, ReceiptOps
<1>2. CASE ~UpdateApplies(q)
  <2>1. Answer(r) /\ UNCHANGED <<now, receipts, jobs, log>>
    BY <1>2 DEF WriteReceipt
  <2>2. Settled
    BY <2>1 DEF Settled, WindowStays, OutcomeStays, Finalized
  <2> QED
    BY <2>1, <2>2, AnswerStep
<1>3. CASE UpdateApplies(q)
  <2>1. /\ receipts' = [receipts EXCEPT ![q.ref] = q.row]
        /\ IF AfterWrite[q.op] = "idle" THEN Answer(r) ELSE Goto(r, AfterWrite[q.op])
        /\ UNCHANGED <<now, jobs, log>>
    BY <1>3 DEF WriteReceipt
  <2>2. receipts[q.ref].status = ExpectedStatus[q.op]
    BY <1>3 DEF UpdateApplies
  <2>3. receipts' \in [Content -> Row] /\ receipts'[q.ref] = q.row
        /\ \A c \in Content : c # q.ref => receipts'[c] = receipts[c]
    BY <1>1, <2>1 DEF Inv, TypeOK
  <2>4. Settled
    <3>1. ASSUME Finalized(q.ref)
          PROVE  /\ q.row.status \in {"finalized", "disputed"}
                 /\ q.row.windowClosesAt = receipts[q.ref].windowClosesAt
      BY <1>1, <2>2, <3>1 DEF RowSound, Finalized, ReceiptOps, ExpectedStatus
    <3>2. ASSUME NEW c \in Content, c = q.ref
          PROVE  WindowStays(c)
      BY <2>3, <3>1, <3>2 DEF WindowStays, Finalized
    <3>3. ASSUME NEW c \in Content, c # q.ref
          PROVE  WindowStays(c)
      BY <2>3, <3>3 DEF WindowStays, Finalized
    <3> QED
      BY <2>1, <3>2, <3>3 DEF Settled, OutcomeStays
  <2>5. CASE q.op = "createDraft"
    <3>1. Answer(r)
      BY <2>1, <2>5 DEF AfterWrite
    <3>2. requests' \in [Request -> InFlight] /\ RequestSound(r)' /\ ~Owes(r)'
      BY <3>1, Answered DEF Inv
    <3>3. \A s \in Request \ {r} : requests'[s] = requests[s]
      BY <3>1 DEF Answer, Inv, TypeOK
    <3>4. TypeOK'
      BY <2>1, <2>3, <3>2 DEF Inv, TypeOK
    <3> QED
      BY <2>1, <2>4, <3>2, <3>3, <3>4, QuietRequest
  <2>6. CASE q.op # "createDraft"
    <3>1. PICK label \in {"complete", "count"} :
            Goto(r, label) /\ (label = "complete" => q.op = "countersign")
      BY <1>1, <2>1, <2>6 DEF AfterWrite, ReceiptOps
    <3>2. /\ requests' \in [Request -> InFlight]
          /\ requests'[r].pc = label
          /\ requests'[r].op = q.op
          /\ requests'[r].caller = q.caller
          /\ requests'[r].ref = q.ref
          /\ Owes(r)'
          /\ \A s \in Request \ {r} : requests'[s] = requests[s]
      BY <3>1, Moved DEF Inv
    <3>3. TypeOK'
      BY <2>1, <2>3, <3>2 DEF Inv, TypeOK
    <3>4. receipts'[q.ref].status \in {"finalized", "disputed"}
      BY <1>1, <2>3, <2>6 DEF Finalized, RowSound, ReceiptOps
    <3>5. RequestSound(r)'
      BY <1>1, <2>6, <3>1, <3>2, <3>4 DEF RequestSound, Happened, Finalized, ReceiptOps, LoggedOps
    <3>6. Unheard(q.op, q.ref)
      <4>1. CASE q.op = "countersign"
        <5>1. ~Finalized(q.ref)
          BY <2>2, <4>1 DEF Finalized, ExpectedStatus
        <5> QED
          BY <4>1, <5>1, NotYet DEF Happened, OnceOps
      <4>2. CASE q.op # "countersign"
        BY <1>1, <4>2 DEF Unheard, OnceOps, ReceiptOps
      <4> QED
        BY <4>1, <4>2
    <3> QED
      BY <2>1, <2>4, <3>2, <3>3, <3>5, <3>6, NewOwed
  <2> QED
    BY <2>5, <2>6
<1> QED
  BY <1>2, <1>3

LEMMA CancelStep ==
    ASSUME Inv, NEW r \in Request, CancelJobIfCancellable(r)
    PROVE  Inv' /\ Settled
<1> DEFINE q == requests[r]
<1>1. q.pc = "write" /\ q.op = "cancelJob" /\ q.ref \in JobId
  BY DEF CancelJobIfCancellable, Inv, RequestSound
<1>2. Answer(r) /\ UNCHANGED <<now, receipts, log>>
  BY DEF CancelJobIfCancellable
<1>3. /\ jobs' \in [JobId -> [status : {"accepted", "completed", "cancelled", "nonperformed"},
                              receiptId : Content \cup {None}]]
      /\ \A j \in JobId : jobs[j].status # "accepted" => jobs'[j] = jobs[j]
  BY <1>1 DEF CancelJobIfCancellable, Inv, TypeOK
<1>4. Settled
  BY <1>2, <1>3 DEF Settled, WindowStays, OutcomeStays, Finalized
<1>5. requests' \in [Request -> InFlight] /\ RequestSound(r)' /\ ~Owes(r)'
  BY <1>2, Answered DEF Inv
<1>6. \A s \in Request \ {r} : requests'[s] = requests[s]
  BY <1>2 DEF Answer, Inv, TypeOK
<1>7. TypeOK'
  BY <1>2, <1>3, <1>5 DEF Inv, TypeOK
<1> QED
  BY <1>2, <1>4, <1>5, <1>6, <1>7, QuietRequest

LEMMA ReportStep ==
    ASSUME Inv, NEW r \in Request, ReportNonPerformanceIfAccepted(r)
    PROVE  Inv' /\ Settled
<1> DEFINE q == requests[r]
<1>1. q.pc = "write" /\ q.op = "reportNonPerformance" /\ q.ref \in JobId /\ q.caller \in Did
  BY DEF ReportNonPerformanceIfAccepted, Inv, RequestSound
<1>2. UNCHANGED <<now, receipts, log>>
  BY DEF ReportNonPerformanceIfAccepted
<1>3. CASE jobs[q.ref].status # "accepted"
  <2>1. Answer(r) /\ UNCHANGED <<now, receipts, jobs, log>>
    BY <1>3 DEF ReportNonPerformanceIfAccepted
  <2>2. Settled
    BY <2>1 DEF Settled, WindowStays, OutcomeStays, Finalized
  <2> QED
    BY <2>1, <2>2, AnswerStep
<1>4. CASE jobs[q.ref].status = "accepted"
  <2>1. jobs' = [jobs EXCEPT ![q.ref].status = "nonperformed"] /\ Goto(r, "count")
    BY <1>4 DEF ReportNonPerformanceIfAccepted
  <2>2. /\ jobs' \in [JobId -> [status : {"accepted", "completed", "cancelled", "nonperformed"},
                                receiptId : Content \cup {None}]]
        /\ \A j \in JobId : jobs[j].status # "accepted" => jobs'[j] = jobs[j]
        /\ jobs'[q.ref].status = "nonperformed"
    BY <1>1, <1>4, <2>1 DEF Inv, TypeOK
  <2>3. Settled
    BY <1>2, <2>2 DEF Settled, WindowStays, OutcomeStays, Finalized
  <2>4. /\ requests' \in [Request -> InFlight]
        /\ requests'[r].pc = "count"
        /\ requests'[r].op = q.op
        /\ requests'[r].caller = q.caller
        /\ requests'[r].ref = q.ref
        /\ \A s \in Request \ {r} : requests'[s] = requests[s]
    BY <2>1, Moved DEF Inv
  <2>5. TypeOK'
    BY <1>2, <2>2, <2>4 DEF Inv, TypeOK
  <2>6. RequestSound(r)'
    BY <1>1, <2>2, <2>4 DEF RequestSound, Happened, ReceiptOps, LoggedOps
  <2>7. Unheard(q.op, q.ref)
    BY <1>1, <1>4, NotYet DEF Happened, OnceOps
  <2> QED
    BY <1>2, <2>3, <2>4, <2>5, <2>6, <2>7, NewOwed
<1> QED
  BY <1>3, <1>4

LEMMA CompleteStep ==
    ASSUME Inv, NEW r \in Request, CompleteJob(r)
    PROVE  Inv' /\ Settled
<1> DEFINE q == requests[r]
<1>1. /\ q.pc = "complete" /\ q.op = "countersign" /\ Owes(r) /\ q.caller \in Did
      /\ q.ref \in Content /\ q.ref.jobId \in JobId /\ RequestSound(r)
  <2>1. q.pc = "complete" /\ RequestSound(r) /\ Owes(r)
    BY DEF CompleteJob, Inv, Owes
  <2>2. q.op = "countersign"
    BY <2>1 DEF RequestSound
  <2>3. q.ref \in Content /\ q.caller \in Did
    BY <2>1, <2>2 DEF RequestSound, ReceiptOps
  <2> QED
    BY <2>1, <2>2, <2>3, WorkerAssumption DEF WorkerAssumption
<1>2. Goto(r, "count") /\ UNCHANGED <<now, receipts, log>>
  BY DEF CompleteJob
<1>3. /\ jobs' \in [JobId -> [status : {"accepted", "completed", "cancelled", "nonperformed"},
                              receiptId : Content \cup {None}]]
      /\ \A j \in JobId : jobs[j].status # "accepted" => jobs'[j] = jobs[j]
  BY <1>1 DEF CompleteJob, CompletedIfAccepted, Inv, TypeOK
<1>4. Settled
  BY <1>2, <1>3 DEF Settled, WindowStays, OutcomeStays, Finalized
<1>5. /\ requests' \in [Request -> InFlight]
      /\ requests'[r].pc = "count"
      /\ requests'[r].op = q.op
      /\ requests'[r].caller = q.caller
      /\ requests'[r].ref = q.ref
      /\ \A s \in Request \ {r} : requests'[s] = requests[s]
  BY <1>2, Moved DEF Inv
<1>6. TypeOK'
  BY <1>2, <1>3, <1>5 DEF Inv, TypeOK
<1>7. Finalized(q.ref) /\ q.op \in LoggedOps
  BY <1>1 DEF RequestSound, Happened
<1>8. RequestSound(r)'
  BY <1>1, <1>2, <1>5, <1>7 DEF RequestSound, Happened, Finalized, ReceiptOps, LoggedOps
<1>9. LeafOf(requests'[r]) = LeafOf(q)
  BY <1>1, <1>5 DEF LeafOf
<1> QED
  BY <1>1, <1>2, <1>4, <1>5, <1>6, <1>8, <1>9, QuietRequest

-----------------------------------------------------------------------------
(* The log. *)

LEMMA CountStep ==
    ASSUME Inv, NEW r \in Request, CountLeaves(r)
    PROVE  Inv' /\ Settled
<1> DEFINE q == requests[r]
<1>1. q.pc \in {"count", "recount"} /\ q \in InFlight /\ RequestSound(r) /\ Owes(r)
  BY DEF CountLeaves, Inv, TypeOK, Owes
<1>2. NextIndex \in Nat /\ DOMAIN log = 0 .. NextIndex - 1
  BY NextIndexIsEnd DEF Inv
<1>3. UNCHANGED <<now, receipts, jobs, log>>
  BY DEF CountLeaves
<1>4. /\ requests' \in [Request -> InFlight]
      /\ requests'[r].pc \in {"insert", "reinsert"}
      /\ requests'[r].op = q.op
      /\ requests'[r].caller = q.caller
      /\ requests'[r].ref = q.ref
      /\ requests'[r].index = NextIndex
      /\ \A s \in Request \ {r} : requests'[s] = requests[s]
  BY <1>1, <1>2 DEF CountLeaves, Inv, TypeOK, InFlight
<1>5. Settled
  BY <1>3 DEF Settled, WindowStays, OutcomeStays, Finalized
<1>6. TypeOK'
  BY <1>3, <1>4 DEF Inv, TypeOK
<1>7. Owes(r)' /\ LeafOf(requests'[r]) = LeafOf(q)
  BY <1>4 DEF Owes, LeafOf
<1>8. q.op \in LoggedOps /\ Happened(q.op, q.ref)
  BY <1>1 DEF RequestSound
<1>9. RequestSound(r)'
  BY <1>1, <1>2, <1>3, <1>4, <1>8 DEF RequestSound, Happened, Finalized, ReceiptOps, LoggedOps
<1> QED
  BY <1>1, <1>3, <1>4, <1>5, <1>6, <1>7, <1>9, QuietRequest

\* A leaf says that its operation took place, and is of its own kind.
LEMMA LeafTypes ==
    ASSUME Inv, NEW r \in Request, Owes(r)
    PROVE  /\ LeafOf(requests[r]) \in Entry
           /\ LeafOf(requests[r]).entryType = "nonperformance_reported"
                <=> requests[r].op = "reportNonPerformance"
           /\ LeafOf(requests[r]).entryType = "receipt_finalized"
                <=> requests[r].op = "countersign"
           /\ LeafOf(requests[r]).refId = requests[r].ref
           /\ requests[r].ref \in IF requests[r].op = "reportNonPerformance" THEN JobId ELSE Content
           /\ Happened(requests[r].op, requests[r].ref)
<1>1. RequestSound(r) /\ requests[r].op \in LoggedOps /\ Happened(requests[r].op, requests[r].ref)
  BY DEF Inv, RequestSound
<1>2. requests[r].caller \in Did
  BY <1>1 DEF RequestSound, LoggedOps
<1>3. requests[r].ref \in IF requests[r].op = "reportNonPerformance" THEN JobId ELSE Content
  BY <1>1 DEF RequestSound, LoggedOps, ReceiptOps
<1>4. CASE requests[r].op = "countersign"
  BY <1>1, <1>2, <1>3, <1>4 DEF LeafOf, Leaf, Entry, EntryType
<1>5. CASE requests[r].op = "openDispute"
  BY <1>1, <1>2, <1>3, <1>5 DEF LeafOf, Leaf, Entry, EntryType
<1>6. CASE requests[r].op = "resolveDispute"
  BY <1>1, <1>2, <1>3, <1>6 DEF LeafOf, Leaf, Entry, EntryType
<1>7. CASE requests[r].op = "reportNonPerformance"
  BY <1>1, <1>2, <1>3, <1>7 DEF LeafOf, Leaf, Entry, EntryType
<1> QED
  BY <1>1, <1>4, <1>5, <1>6, <1>7 DEF LoggedOps

LEMMA InsertStep ==
    ASSUME Inv, NEW r \in Request, InsertLeaf(r)
    PROVE  Inv' /\ Settled
<1> DEFINE q == requests[r]
           e == LeafOf(requests[r])
<1>1. q.pc \in {"insert", "reinsert"} /\ q \in InFlight /\ RequestSound(r) /\ Owes(r)
  BY DEF InsertLeaf, Inv, TypeOK, Owes
<1>2. UNCHANGED <<now, receipts, jobs>>
  BY DEF InsertLeaf
<1>3. Settled
  BY <1>2 DEF Settled, WindowStays, OutcomeStays, Finalized
<1>4. CASE ~IndexFree(q.index)
  <2>1. UNCHANGED log /\ (Goto(r, "recount") \/ Answer(r))
    BY <1>4 DEF InsertLeaf
  <2>2. CASE Answer(r)
    BY <1>2, <1>3, <2>1, <2>2, AnswerStep
  <2>3. CASE Goto(r, "recount")
    <3>1. /\ requests' \in [Request -> InFlight]
          /\ requests'[r].pc = "recount"
          /\ requests'[r].op = q.op
          /\ requests'[r].caller = q.caller
          /\ requests'[r].ref = q.ref
          /\ \A s \in Request \ {r} : requests'[s] = requests[s]
      BY <2>3, Moved DEF Inv
    <3>2. TypeOK'
      BY <1>2, <2>1, <3>1 DEF Inv, TypeOK
    <3>3. q.op \in LoggedOps /\ Happened(q.op, q.ref)
      BY <1>1 DEF RequestSound
    <3>4. RequestSound(r)'
      BY <1>1, <1>2, <3>1, <3>3 DEF RequestSound, Happened, Finalized, ReceiptOps, LoggedOps
    <3>5. LeafOf(requests'[r]) = LeafOf(q)
      BY <3>1 DEF LeafOf
    <3> QED
      BY <1>1, <1>3, <2>1, <3>1, <3>2, <3>4, <3>5, QuietRequest
  <2> QED
    BY <2>1, <2>2, <2>3
<1>5. CASE IndexFree(q.index)
  <2> DEFINE n == q.index
  <2>1. n \in Nat /\ n \notin DOMAIN log /\ DOMAIN log = 0 .. n - 1
    BY <1>1, <1>5 DEF RequestSound, IndexFree
  <2>2. /\ Answer(r)
        /\ log' = [i \in DOMAIN log \cup {n} |-> IF i = n THEN e ELSE log[i]]
    BY <1>5 DEF InsertLeaf
  <2> HIDE DEF e
  <2>3. DOMAIN log' = DOMAIN log \cup {n} /\ log'[n] = e /\ \A i \in DOMAIN log : log'[i] = log[i]
    BY <2>1, <2>2
  <2>4. LogShape'
    <3>1. DOMAIN log' = 0 .. (n + 1) - 1 /\ n + 1 \in Nat
      BY <2>1, <2>3
    <3> QED
      BY <3>1 DEF LogShape
  <2>5. LogGrows
    BY <2>1, <2>3 DEF LogGrows
  <2>6. /\ e \in Entry
        /\ e.entryType = "nonperformance_reported" <=> q.op = "reportNonPerformance"
        /\ e.entryType = "receipt_finalized" <=> q.op = "countersign"
        /\ e.refId = q.ref
        /\ q.ref \in IF q.op = "reportNonPerformance" THEN JobId ELSE Content
        /\ Happened(q.op, q.ref)
    BY <1>1, LeafTypes DEF e
  <2>7. requests' \in [Request -> InFlight] /\ RequestSound(r)' /\ ~Owes(r)'
    BY <2>2, Answered DEF Inv
  <2>8. \A s \in Request \ {r} : requests'[s] = requests[s]
    BY <2>2 DEF Answer, Inv, TypeOK
  <2>9. TypeOK'
    BY <1>2, <2>1, <2>3, <2>6, <2>7 DEF Inv, TypeOK
  <2>10. LogRefs'
    BY <2>3, <2>6 DEF Inv, LogRefs
  <2>11. LogTruthful'
    BY <1>2, <2>3, <2>6 DEF Inv, LogTruthful, Happened, Finalized
  <2>12. EventsLoggedOnce'
    <3>1. ASSUME NEW i \in DOMAIN log, log[i] = e,
                 e.entryType \in {"receipt_finalized", "nonperformance_reported"}
          PROVE  FALSE
      BY <1>1, <2>6, <3>1 DEF Inv, OwedNotLogged, OnceOps, e
    <3> QED
      BY <2>3, <3>1 DEF Inv, EventsLoggedOnce
  <2>13. ASSUME NEW s \in Request \ {r}
         PROVE  RequestSound(s)' /\ (Owes(s)' <=> Owes(s)) /\ requests'[s] = requests[s]
    BY <1>3, <2>5, <2>8, OthersSound
  <2>14. OwedOnce'
    BY <2>7, <2>13 DEF Inv, OwedOnce
  <2>15. OwedNotLogged'
    <3>1. ASSUME NEW s \in Request \ {r}, Owes(s), requests[s].op \in OnceOps,
                 e = LeafOf(requests[s])
          PROVE  FALSE
      <4>1. /\ LeafOf(requests[s]).refId = requests[s].ref
            /\ LeafOf(requests[s]).entryType = "nonperformance_reported"
                 <=> requests[s].op = "reportNonPerformance"
            /\ LeafOf(requests[s]).entryType = "receipt_finalized"
                 <=> requests[s].op = "countersign"
        BY <3>1, LeafTypes
      <4>2. requests[s].ref = q.ref /\ requests[s].op = q.op
        BY <2>6, <3>1, <4>1 DEF OnceOps
      <4> QED
        BY <1>1, <3>1, <4>2 DEF Inv, OwedOnce
    <3> QED
      BY <2>3, <2>7, <2>13, <3>1 DEF Inv, OwedNotLogged
  <2> QED
    BY <1>3, <2>4, <2>7, <2>9, <2>10, <2>11, <2>12, <2>13, <2>14, <2>15 DEF Inv
<1> QED
  BY <1>4, <1>5

-----------------------------------------------------------------------------
(* Every step, and the theorems. *)

LEMMA NextInv == Inv /\ [Next]_vars => Inv' /\ (Settled \/ UNCHANGED vars)
<1> SUFFICES ASSUME Inv, [Next]_vars
             PROVE  Inv' /\ (Settled \/ UNCHANGED vars)
  OBVIOUS
<1>1. CASE Tick
  <2>1. UNCHANGED <<receipts, jobs, log, requests>> /\ TypeOK'
    BY <1>1, WorkerAssumption DEF Tick, Inv, TypeOK, WorkerAssumption
  <2>2. Settled
    BY <2>1 DEF Settled, WindowStays, OutcomeStays, Finalized
  <2>3. \A s \in Request : RequestSound(s)' /\ (Owes(s)' <=> Owes(s))
    BY <2>1, <2>2, OthersSound DEF LogGrows
  <2> QED
    BY <2>1, <2>2, <2>3, QuietStep DEF Quiet
<1>2. ASSUME NEW r \in Request, Read(r)
      PROVE  Inv' /\ Settled
  BY <1>2, ReadStep
<1>3. ASSUME NEW r \in Request, Write(r)
      PROVE  Inv' /\ Settled
  BY <1>3, WriteReceiptStep, CancelStep, ReportStep, CompleteStep DEF Write
<1>4. ASSUME NEW r \in Request, AppendLeaf(r)
      PROVE  Inv' /\ Settled
  BY <1>4, CountStep, InsertStep DEF AppendLeaf
<1>5. ASSUME NEW r \in Request, Fail(r)
      PROVE  Inv' /\ Settled
  <2>1. Answer(r) /\ UNCHANGED <<now, receipts, jobs, log>>
    BY <1>5 DEF Fail
  <2>2. Settled
    BY <2>1 DEF Settled, WindowStays, OutcomeStays, Finalized
  <2> QED
    BY <2>1, <2>2, AnswerStep
<1>6. CASE UNCHANGED vars
  <2>1. UNCHANGED <<receipts, jobs, log, requests>> /\ TypeOK'
    BY <1>6 DEF vars, Inv, TypeOK
  <2>2. Settled
    BY <2>1 DEF Settled, WindowStays, OutcomeStays, Finalized
  <2>3. \A s \in Request : RequestSound(s)' /\ (Owes(s)' <=> Owes(s))
    BY <2>1, <2>2, OthersSound DEF LogGrows
  <2> QED
    BY <2>1, <2>2, <2>3, QuietStep DEF Quiet
<1> QED
  BY <1>1, <1>2, <1>3, <1>4, <1>5, <1>6 DEF Next

\* For any number of requests, receipts and jobs, whatever collides and
\* whichever requests die: the leaf indexes are dense from zero, every leaf
\* tells of an event that happened, and a finalization or a report is logged
\* at most once.
THEOREM LogSoundCorrect == Spec => []LogSound
<1>1. Inv => LogSound
  BY DenseLog DEF Inv, LogSound
<1>2. Inv /\ [Next]_vars => Inv'
  BY NextInv
<1> QED
  BY <1>1, <1>2, InitInv, PTL DEF Spec

\* No write of a row that was read some time before takes back a finalization
\* or moves a dispute window, and the first statement that decides on an
\* accepted job decides for good.
THEOREM SettledForGoodCorrect == Spec => SettledForGood
<1>1. Inv /\ [Next]_vars => Inv'
  BY NextInv
<1>2. Inv /\ [Next]_vars
        => [(\A c \in Content : WindowStays(c)) /\ (\A j \in JobId : OutcomeStays(j))]_vars
  BY NextInv DEF Settled
<1> QED
  BY <1>1, <1>2, InitInv, PTL DEF Spec, SettledForGood
=============================================================================
