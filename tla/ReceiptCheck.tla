----------------------------- MODULE ReceiptCheck -----------------------------
(***************************************************************************)
(* The hosted check of a receipt (receiptCheck.ts): the Worker reads the   *)
(* receipt, its leaf, the log and the two parties one after the other, and *)
(* signs one verdict about all of them.  The registry moves on meanwhile.  *)
(*                                                                         *)
(* One receipt with content as its parties signed it: its signatures, ID,  *)
(* hashes and leaf bytes hold.  What verifiers found is reported beside    *)
(* the verdict and left out.                                               *)
(***************************************************************************)
EXTENDS FiniteSets, Functions, Integers, Sequences

CONSTANTS
    AgentA, AgentB,     \* the requester and the worker
    None,
    MaxLog              \* bound on the leaves of the log

VARIABLES
    receipt,            \* status, openedBy and usedBy
    lapsed,             \* parties whose dispute has passed its resolutionDeadline
    revoked,            \* parties revoked
    log,                \* what each leaf is about: "receipt" or "other"
    run,                \* the check under way or answered, or None
    clean,              \* history: see Clean
    broke               \* history: what was wrong at some moment of it

vars == <<receipt, lapsed, revoked, log, run, clean, broke>>

Party == {AgentA, AgentB}

registry == <<receipt, lapsed, revoked, log>>

Init ==
    /\ receipt = [status |-> "draft", openedBy |-> None, usedBy |-> {}]
    /\ lapsed = {}
    /\ revoked = {}
    /\ log = <<>>
    /\ run = None
    /\ clean = {}
    /\ broke = {}

-----------------------------------------------------------------------------
(* The registry: each handler's write, and the leaf that follows one. *)

Countersign ==
    /\ receipt.status = "draft" /\ AgentA \notin revoked
    /\ receipt' = [receipt EXCEPT !.status = "finalized"]
    /\ UNCHANGED <<lapsed, revoked, log>>

\* appendEntry after the receipt is finalized; the Worker may end before it.
AppendFinalized ==
    /\ receipt.status # "draft" /\ "receipt" \notin Range(log) /\ Len(log) < MaxLog
    /\ log' = Append(log, "receipt")
    /\ UNCHANGED <<receipt, lapsed, revoked>>

AppendOther ==
    /\ Len(log) < MaxLog
    /\ log' = Append(log, "other")
    /\ UNCHANGED <<receipt, lapsed, revoked>>

OpenDispute(p) ==
    /\ receipt.status = "finalized" /\ p \notin receipt.usedBy \cup revoked
    /\ receipt' = [receipt EXCEPT !.status = "disputed", !.openedBy = p]
    /\ UNCHANGED <<lapsed, revoked, log>>

ResolveDispute(p) ==
    /\ receipt.status = "disputed" /\ receipt.openedBy = p /\ p \notin revoked
    /\ receipt' = [receipt EXCEPT !.status = "finalized", !.usedBy = @ \cup {p}]
    /\ UNCHANGED <<lapsed, revoked, log>>

\* resolutionDeadline passes.
Lapse(p) ==
    /\ receipt.status = "disputed" /\ receipt.openedBy = p /\ p \notin lapsed
    /\ lapsed' = lapsed \cup {p}
    /\ UNCHANGED <<receipt, revoked, log>>

RevokeAgent(p) ==
    /\ p \notin revoked
    /\ revoked' = revoked \cup {p}
    /\ UNCHANGED <<receipt, lapsed, log>>

Registry ==
    \/ Countersign \/ AppendFinalized \/ AppendOther
    \/ \E p \in Party : OpenDispute(p) \/ ResolveDispute(p) \/ Lapse(p) \/ RevokeAgent(p)

RegistryMoves == Registry /\ UNCHANGED run

-----------------------------------------------------------------------------
(* The check. *)

IsDisputeActive(r) == r.status = "disputed" /\ r.openedBy \notin lapsed

\* What is wrong with the receipt as the registry is now; the lag of the log aside.
Wrong ==
    {c \in {"finalized", "no_active_dispute", "parties_not_revoked"} :
        CASE c = "finalized" -> receipt.status = "draft"
          [] c = "no_active_dispute" -> IsDisputeActive(receipt)
          [] c = "parties_not_revoked" -> revoked # {}}

\* Who has a dispute open, or None.
OpenedBy(r) == IF r.status = "disputed" THEN r.openedBy ELSE None

\* At a moment when the receipt is final and its parties not revoked: who has a
\* dispute of it open, or None.
Clean ==
    IF receipt.status = "draft" \/ revoked # {} THEN {}
    ELSE {OpenedBy(receipt)}

Missing == IF "receipt" \in Range(log) THEN {} ELSE {"transparency_log"}

\* Seeded fault: the parties are read before the receipt.
PartiesFirst(p, q) == <<p, q, "receipt", "entry", "leaves">>

\* What is read in which order; the two parties at once.
Reads(p, q) == <<"receipt", "entry", "leaves", p, q>>

Underway == run # None /\ run.verdict = None

Start ==
    /\ ~Underway
    /\ \E p, q \in Party :
        /\ p # q
        /\ run' = [todo |-> Reads(p, q), receipt |-> None, entry |-> None, failed |-> {},
                   verdict |-> None]
    /\ clean' = Clean
    /\ broke' = Wrong \cup Missing
    /\ UNCHANGED registry

Step(new) ==
    /\ run' = [new EXCEPT !.todo = Tail(@)]
    /\ UNCHANGED registry

NextIs(what) == Underway /\ run.todo # <<>> /\ Head(run.todo) = what

Fails(check, if) == [run EXCEPT !.failed = IF if THEN @ \cup {check} ELSE @]

ReadReceipt ==
    /\ NextIs("receipt")
    /\ Step([Fails("finalized", receipt.status = "draft") EXCEPT !.receipt = receipt])

\* The first leaf of this receipt; without one there is no proof to check.
TransparencyEntryByRef ==
    /\ NextIs("entry")
    /\ LET found == {i \in DOMAIN log : log[i] = "receipt"} IN
       Step([Fails("transparency_log", found = {}) EXCEPT
                !.entry = IF found = {} THEN None
                          ELSE CHOOSE i \in found : \A j \in found : i <= j])

\* The proof is made and checked over the leaves read now.
TransparencyLeafHashes ==
    /\ NextIs("leaves")
    /\ Step(Fails("inclusion", run.entry # None /\ run.entry > Len(log)))

ReadParty(p) ==
    /\ NextIs(p)
    /\ Step(Fails("parties_not_revoked", p \in revoked))

\* The dispute that was read, at the time of the answer.
Answer ==
    /\ Underway /\ run.todo = <<>>
    /\ LET checked == Fails("no_active_dispute", IsDisputeActive(run.receipt)) IN
       run' = [checked EXCEPT !.verdict = IF checked.failed = {} THEN "pass" ELSE "fail"]
    /\ UNCHANGED registry

CheckReceipt ==
    \/ ReadReceipt \/ TransparencyEntryByRef \/ TransparencyLeafHashes \/ Answer
    \/ \E p \in Party : ReadParty(p)

-----------------------------------------------------------------------------
\* The history of a check: what was wrong from its start to its answer.
Remember ==
    IF Underway
    THEN /\ clean' = clean \cup Clean'
         /\ broke' = broke \cup Wrong' \cup Missing'
    ELSE UNCHANGED <<clean, broke>>

Next == Start \/ ((RegistryMoves \/ CheckReceipt) /\ Remember)

Spec == Init /\ [][Next]_vars

-----------------------------------------------------------------------------
(* The verdict is signed for third parties, so it has to be true of one    *)
(* moment although it was read in several.  A pass means that, at once and *)
(* while the check ran, the receipt was final, its parties not revoked and *)
(* no dispute of it open but one whose deadline had passed by the answer;  *)
(* and that the log has it.  A check that failed was indeed wrong at some  *)
(* moment of the run, and a leaf once found is never missing from the tree *)
(* (checkReceipt).                                                         *)
VerdictHeld ==
    run # None /\ run.verdict # None =>
        /\ run.verdict = "pass" =>
            /\ clean \cap ({None} \cup lapsed) # {}
            /\ "receipt" \in Range(log)
        /\ run.failed \subseteq broke
-----------------------------------------------------------------------------
(* The inductive invariant of the proofs. *)

Row == [status : {"draft", "finalized", "disputed"}, openedBy : Party \cup {None},
        usedBy : SUBSET Party]

Item == Party \cup {"receipt", "entry", "leaves"}

Failure ==
    {"finalized", "transparency_log", "inclusion", "parties_not_revoked", "no_active_dispute"}

Verdict ==
    [todo : Seq(Item), receipt : Row \cup {None}, entry : Nat \cup {None},
     failed : SUBSET Failure, verdict : {None, "pass", "fail"}]

Shape ==
    /\ receipt \in Row
    /\ log \in Seq({"receipt", "other"})
    /\ revoked \subseteq Party
    /\ run \in Verdict \cup {None}

\* Both parties are read after the receipt.
ReceiptFirst ==
    run # None =>
        \A i \in DOMAIN run.todo :
            run.todo[i] = "receipt" => i = 1 /\ Party \subseteq Range(run.todo)

\* What a check has read of the registry was true at some moment of it.  A party
\* revoked when the receipt was read is yet to be read, or was found revoked.
ReadsSound ==
    run # None =>
        /\ Underway => Clean \subseteq clean /\ Wrong \cup Missing \subseteq broke
        /\ run.failed \subseteq broke
        /\ run.entry # None => run.entry \in 1 .. Len(log)
        /\ "receipt" \notin Range(run.todo) =>
            /\ IsDisputeActive(run.receipt) => "no_active_dispute" \in broke
            /\ \/ {"finalized", "parties_not_revoked"} \cap run.failed # {}
               \/ revoked \cap Range(run.todo) # {}
               \/ OpenedBy(run.receipt) \in clean
        /\ "entry" \notin Range(run.todo) =>
            "receipt" \in Range(log) \/ "transparency_log" \in run.failed

Inv == Shape /\ ReceiptFirst /\ ReadsSound /\ VerdictHeld
=============================================================================
