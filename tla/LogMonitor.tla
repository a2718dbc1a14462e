------------------------------ MODULE LogMonitor ------------------------------
(***************************************************************************)
(* The monitor of the transparency log (sth-monitor.ts).  It keeps the     *)
(* last tree head in a file, and each run compares the present head with   *)
(* it: by the size, by the root, by a consistency proof, and by an         *)
(* inclusion proof for every entry added since.  A run is a series of HTTP *)
(* calls; the registry appends between any two, and the run may die there. *)
(*                                                                         *)
(* The registry answers truthfully from its table, whatever became of the  *)
(* table: a fault may once rewrite a row or cut the log off.               *)
(***************************************************************************)
EXTENDS MerkleTree, FiniteSets

CONSTANTS
    None,
    MaxLeaves,          \* bound: the registry stops appending here
    PageSize            \* entries per page (limit=200)

VARIABLES
    leaves,             \* the transparency_log table: one entry per row
    tampered,           \* history: the table was changed other than by an append
    head,               \* last line of STATE_FILE, with the leaves it stands for
    run                 \* the run in progress

vars == <<leaves, tampered, head, run>>

NoHead == [size |-> 0, root |-> None, seen |-> <<>>]
NoRun == [pc |-> "idle", cur |-> NoHead, offset |-> 0, page |-> <<>>]

Init ==
    /\ leaves = <<>>
    /\ tampered = FALSE
    /\ head = NoHead
    /\ run = NoRun

\* What is written after the fault differs from what was written before it.
Entry(i) == [index |-> i, rewritten |-> tampered]

AppendLeaf ==
    /\ Len(leaves) < MaxLeaves
    /\ leaves' = Append(leaves, Entry(Len(leaves)))
    /\ UNCHANGED <<tampered, head, run>>

Tamper ==
    /\ ~tampered
    /\ \/ \E i \in DOMAIN leaves : leaves' = [leaves EXCEPT ![i].rewritten = TRUE]
       \/ \E n \in 0 .. Len(leaves) - 1 : leaves' = SubSeq(leaves, 1, n)
    /\ tampered' = TRUE
    /\ UNCHANGED <<head, run>>

-----------------------------------------------------------------------------
(* getSTH, getEntries, getInclusionProof and getConsistencyProof. *)

GetSTH == [size |-> Len(leaves), root |-> RootHash(leaves), seen |-> leaves]

\* INVALID_TREE_SIZE: the request fails and the run with it.
ValidTreeSize(size) == size <= Len(leaves)

FirstLeaves(size) == SubSeq(leaves, 1, size)

Stop == run' = NoRun
Alarm == run' = [NoRun EXCEPT !.pc = "alarm"]

\* The next entry to check, or the end of the run.
CheckFrom(cur) ==
    [pc |-> "entries", cur |-> cur, offset |-> head.size, page |-> <<>>]

FetchHead ==
    /\ run.pc \in {"idle", "alarm"}
    /\ LET cur == GetSTH IN
       IF head = NoHead THEN run' = CheckFrom(cur)
       ELSE IF cur.size < head.size THEN Alarm
       ELSE IF cur.size = head.size
            THEN IF cur.root # head.root THEN Alarm ELSE run' = CheckFrom(cur)
       ELSE run' = [NoRun EXCEPT !.pc = "consistency", !.cur = cur]
    /\ UNCHANGED <<leaves, tampered, head>>

CheckConsistency ==
    /\ run.pc = "consistency"
    /\ IF ~ValidTreeSize(run.cur.size) THEN Stop
       ELSE IF VerifyConsistency(head.size, head.root, run.cur.size, run.cur.root,
                                 ConsistencyProof(FirstLeaves(run.cur.size), head.size))
            THEN run' = CheckFrom(run.cur)
            ELSE Alarm
    /\ UNCHANGED <<leaves, tampered, head>>

\* One page of entries; none where some must be is an alarm too.
FetchEntries ==
    /\ run.pc = "entries"
    /\ run.offset < run.cur.size
    /\ LET upTo == IF run.offset + PageSize < Len(leaves) THEN run.offset + PageSize
                                                           ELSE Len(leaves)
           page == SubSeq(leaves, run.offset + 1, upTo) IN
       IF page = <<>> THEN Alarm ELSE run' = [run EXCEPT !.pc = "inclusion", !.page = page]
    /\ UNCHANGED <<leaves, tampered, head>>

\* Entries appended after the head was taken end the page.
EntryCovered == run.offset < run.cur.size

\* An entry that hashes to its leaf by itself has to be in the tree of the head.
CheckEntry ==
    /\ run.pc = "inclusion"
    /\ run.page # <<>>
    /\ IF EntryCovered
       THEN IF ~ValidTreeSize(run.cur.size) THEN Stop
            ELSE IF VerifyInclusion(LeafHash(Head(run.page)), run.offset, run.cur.size,
                                    InclusionProof(FirstLeaves(run.cur.size), run.offset),
                                    run.cur.root)
                 THEN run' = [run EXCEPT !.offset = @ + 1, !.page = Tail(@)]
                 ELSE Alarm
       ELSE run' = [run EXCEPT !.page = <<>>]
    /\ UNCHANGED <<leaves, tampered, head>>

NextPage ==
    /\ run.pc = "inclusion"
    /\ run.page = <<>>
    /\ run' = [run EXCEPT !.pc = "entries"]
    /\ UNCHANGED <<leaves, tampered, head>>

\* Only a head that is new is appended to the file.
SaveHead ==
    /\ run.pc = "entries"
    /\ run.offset >= run.cur.size
    /\ head' = IF head = NoHead \/ run.cur.size > head.size THEN run.cur ELSE head
    /\ Stop
    /\ UNCHANGED <<leaves, tampered>>

Die ==
    /\ run.pc \notin {"idle", "alarm"}
    /\ Stop
    /\ UNCHANGED <<leaves, tampered, head>>

Next ==
    \/ AppendLeaf \/ Tamper
    \/ FetchHead \/ CheckConsistency \/ FetchEntries \/ CheckEntry \/ NextPage \/ SaveHead \/ Die

Spec == Init /\ [][Next]_vars

-----------------------------------------------------------------------------
(* The monitor never cries wolf: whatever sizes the log has when the head  *)
(* and the proofs are fetched, and whatever is appended in between, it     *)
(* fails only if the table was tampered with (sth-monitor.ts, fail).       *)
NoFalseAlarm == run.pc = "alarm" => tampered

(* A rewritten or truncated history never gets into the file: every head   *)
(* recorded stands for a log that extends the log of the head before,      *)
(* though only the sizes and the roots are kept (verifyConsistency).       *)
Extends == head # NoHead => SubSeq(head'.seen, 1, Len(head.seen)) = head.seen

HeadsExtend == [][Extends]_vars
=============================================================================
