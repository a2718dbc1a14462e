-------------------------- MODULE IntegrityVerifier --------------------------
(***************************************************************************)
(* The maintainers' verifier (integrity-verifier.ts): it walks the         *)
(* finalizations in the log from a resume point kept in a file, fetches    *)
(* the output each receipt points at, and submits a decision to the        *)
(* registry (submitVerification, one step in Node).  The run may die       *)
(* anywhere; while it runs, receipts are finalized, disputed and withdrawn,*)
(* outputs change or become unreachable, and the grant may be taken back.  *)
(* Runs do not overlap (the workflow's concurrency group).                 *)
(***************************************************************************)
EXTENDS Naturals, Sequences

CONSTANTS
    None,
    Receipt,
    Mode,               \* VERIFY_MODE: "full" or "reject-only"
    PageSize,           \* entries per page (limit=200)
    MaxDisputes,        \* dispute rights per receipt
    MaxDeaths,          \* bound: how often a run dies
    MaxGrants           \* bound: how often the grant changes

VARIABLES
    log,                \* receipt_finalized leaves, and others as None
    status,             \* status of each receipt
    disputes,           \* dispute rights used per receipt
    authorized,         \* the verifier's grant
    decisions,          \* this verifier's stored verifications
    nextLeafIndex,      \* STATE_FILE
    skipped,            \* history: receipts looked at and skipped
    run,
    deaths, grants      \* how much of the bounds is used

vars == <<log, status, disputes, authorized, decisions, nextLeafIndex, skipped, run,
          deaths, grants>>

NoRun == [pc |-> "idle", page |-> <<>>, hasMore |-> FALSE, result |-> None]

Init ==
    /\ log = <<>>
    /\ status = [c \in Receipt |-> "draft"]
    /\ disputes = [c \in Receipt |-> 0]
    /\ authorized = TRUE
    /\ decisions = {}
    /\ nextLeafIndex = 0
    /\ skipped = {}
    /\ run = NoRun
    /\ deaths = 0
    /\ grants = 0

Bounds == <<deaths, grants>>
Registry == <<log, status, disputes, authorized, grants>>

-----------------------------------------------------------------------------
(* The registry meanwhile. *)

\* countersign, openDispute and resolveDispute append their leaf.
Finalize(c) ==
    /\ status[c] = "draft"
    /\ status' = [status EXCEPT ![c] = "finalized"]
    /\ log' = Append(log, c)
    /\ UNCHANGED <<disputes, authorized, decisions, nextLeafIndex, skipped, run, Bounds>>

OpenDispute(c) ==
    /\ status[c] = "finalized"
    /\ disputes[c] < MaxDisputes
    /\ status' = [status EXCEPT ![c] = "disputed"]
    /\ disputes' = [disputes EXCEPT ![c] = @ + 1]
    /\ log' = Append(log, None)
    /\ UNCHANGED <<authorized, decisions, nextLeafIndex, skipped, run, Bounds>>

ResolveDispute(c) ==
    /\ status[c] = "disputed"
    /\ status' = [status EXCEPT ![c] = "finalized"]
    /\ log' = Append(log, None)
    /\ UNCHANGED <<disputes, authorized, decisions, nextLeafIndex, skipped, run, Bounds>>

SetVerifierStatus ==
    /\ grants < MaxGrants
    /\ grants' = grants + 1
    /\ authorized' = ~authorized
    /\ UNCHANGED <<log, status, disputes, decisions, nextLeafIndex, skipped, run, deaths>>

-----------------------------------------------------------------------------
(* A run. *)

\* A verifier without a grant ends the run at once.
StartRun ==
    /\ run.pc = "idle"
    /\ authorized
    /\ nextLeafIndex < Len(log)
    /\ run' = [NoRun EXCEPT !.pc = "fetch"]
    /\ UNCHANGED <<Registry, decisions, nextLeafIndex, skipped, deaths>>

FetchPage ==
    /\ run.pc = "fetch"
    /\ LET end == IF nextLeafIndex + PageSize < Len(log) THEN nextLeafIndex + PageSize
                                                         ELSE Len(log) IN
       run' = [pc |-> "entry", page |-> SubSeq(log, nextLeafIndex + 1, end),
               hasMore |-> end < Len(log), result |-> None]
    /\ UNCHANGED <<Registry, decisions, nextLeafIndex, skipped, deaths>>

Skip(c) ==
    /\ run' = [run EXCEPT !.pc = "advance"]
    /\ skipped' = skipped \cup {c}

\* Seeded fault: whether the receipt is finalized is left to the registry.
ReadAnyReceipt ==
    /\ run.pc = "entry"
    /\ run.page # <<>>
    /\ run' = [run EXCEPT !.pc = IF Head(run.page) = None THEN "advance" ELSE "hash"]
    /\ UNCHANGED <<Registry, decisions, nextLeafIndex, skipped, deaths>>

\* check: the receipt is read; only a finalized one goes on.
ReadReceipt ==
    /\ run.pc = "entry"
    /\ run.page # <<>>
    /\ LET c == Head(run.page) IN
       IF c = None
       THEN run' = [run EXCEPT !.pc = "advance"] /\ UNCHANGED skipped
       ELSE IF status[c] = "finalized"
       THEN run' = [run EXCEPT !.pc = "hash"] /\ UNCHANGED skipped
       ELSE Skip(c)
    /\ UNCHANGED <<Registry, decisions, nextLeafIndex, deaths>>

\* hashRemote: what is served now, if anything can be read.
HashRemote(served) ==
    LET c == Head(run.page) IN
    /\ run.pc = "hash"
    /\ IF served = "skip" \/ (served = "match" /\ Mode = "reject-only")
       THEN Skip(c)
       ELSE /\ run' = [run EXCEPT !.pc = "submit",
                           !.result = IF served = "match" THEN "verified" ELSE "rejected"]
            /\ UNCHANGED skipped
    /\ UNCHANGED <<Registry, decisions, nextLeafIndex, deaths>>

\* DUPLICATE_VERIFICATION or VERIFIER_ALREADY_DECIDED: the entry is skipped.
AlreadyDecided(c, result) == \E d \in decisions : d.receipt = c

\* Any other refusal ends the run, which comes back to the same entry.
SubmitVerification ==
    LET c == Head(run.page) IN
    /\ run.pc = "submit"
    /\ IF status[c] # "finalized" \/ ~authorized
       THEN run' = NoRun /\ UNCHANGED decisions
       ELSE /\ run' = [run EXCEPT !.pc = "advance"]
            /\ decisions' = IF AlreadyDecided(c, run.result) THEN decisions
                            ELSE decisions \cup {[receipt |-> c, result |-> run.result]}
    /\ UNCHANGED <<Registry, nextLeafIndex, skipped, deaths>>

\* The answer of the registry is lost: the decision stands, the run ends.
AnswerLost ==
    LET c == Head(run.page) IN
    /\ run.pc = "submit"
    /\ deaths < MaxDeaths
    /\ status[c] = "finalized" /\ authorized
    /\ ~AlreadyDecided(c, run.result)
    /\ decisions' = decisions \cup {[receipt |-> c, result |-> run.result]}
    /\ run' = NoRun
    /\ deaths' = deaths + 1
    /\ UNCHANGED <<Registry, nextLeafIndex, skipped>>

\* Seeded fault: the resume point jumps to the end of the page at once.
SavePage ==
    /\ run.pc = "advance"
    /\ nextLeafIndex' = nextLeafIndex + Len(run.page)
    /\ run' = [run EXCEPT !.pc = "entry", !.page = Tail(@), !.result = None]
    /\ UNCHANGED <<Registry, decisions, skipped, deaths>>

\* The resume point is written after every entry.
SaveState ==
    /\ run.pc = "advance"
    /\ nextLeafIndex' = nextLeafIndex + 1
    /\ run' = [run EXCEPT !.pc = "entry", !.page = Tail(@), !.result = None]
    /\ UNCHANGED <<Registry, decisions, skipped, deaths>>

EndPage ==
    /\ run.pc = "entry"
    /\ run.page = <<>>
    /\ run' = IF run.hasMore THEN [run EXCEPT !.pc = "fetch"] ELSE NoRun
    /\ UNCHANGED <<Registry, decisions, nextLeafIndex, skipped, deaths>>

Die ==
    /\ run.pc # "idle"
    /\ deaths < MaxDeaths
    /\ deaths' = deaths + 1
    /\ run' = NoRun
    /\ UNCHANGED <<Registry, decisions, nextLeafIndex, skipped>>

RunStep ==
    \/ StartRun \/ FetchPage \/ ReadReceipt \/ SubmitVerification \/ SaveState \/ EndPage
    \/ \E served \in {"match", "mismatch", "skip"} : HashRemote(served)

Next ==
    \/ RunStep \/ AnswerLost \/ Die \/ SetVerifierStatus
    \/ \E c \in Receipt : Finalize(c) \/ OpenDispute(c) \/ ResolveDispute(c)

\* The workflow runs every hour, and a run goes on until it ends or dies.
FairSpec == Init /\ [][Next]_vars /\ WF_vars(RunStep)

-----------------------------------------------------------------------------
(* The resume point passes no finalization that was neither decided nor    *)
(* skipped on purpose, wherever runs die and answers are lost; and no      *)
(* receipt gets two decisions, though an entry may be checked again after  *)
(* its output changed (run, check, VERIFIER_ALREADY_DECIDED).              *)
Seen(c) == c # None => c \in skipped \/ \E d \in decisions : d.receipt = c

NothingPassedUnseen ==
    /\ \A i \in 1 .. nextLeafIndex : Seen(log[i])
    /\ \A d, e \in decisions : d.receipt = e.receipt => d = e

(* While the grant stands, the walk reaches every entry of the log: no     *)
(* entry stops it for ever, although a refused decision ends the run and   *)
(* the next one starts at the same entry (run).                            *)
Granted == authorized
AtEnd == nextLeafIndex = Len(log)

LogWalked == <>[]Granted => []<>AtEnd

-----------------------------------------------------------------------------
(* The invariant behind NothingPassedUnseen. *)

Shape ==
    /\ log \in Seq(Receipt \cup {None})
    /\ nextLeafIndex \in Nat
    /\ run \in [pc : {"idle", "fetch", "entry", "hash", "submit", "advance"},
                page : Seq(Receipt \cup {None}), hasMore : BOOLEAN,
                result : {None, "verified", "rejected"}]

\* What is left of the page are the leaves after the resume point, however far
\* the log has grown since it was fetched.
PageFollows ==
    /\ nextLeafIndex + Len(run.page) <= Len(log)
    /\ \A i \in 1 .. Len(run.page) : run.page[i] = log[nextLeafIndex + i]

\* The entry in hand is only advanced over once it has been dealt with.
EntryInHand ==
    /\ run.pc \in {"hash", "submit", "advance"} => run.page # <<>>
    /\ run.pc = "advance" => Seen(Head(run.page))

Inv == Shape /\ PageFollows /\ EntryInHand /\ NothingPassedUnseen
=============================================================================
