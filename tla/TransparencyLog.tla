-------------------------- MODULE TransparencyLog --------------------------
(***************************************************************************)
(* The registry's append-only transparency log                             *)
(* (src/src/services/transparencyService.ts, TransparencyLogRepo in        *)
(* src/src/storage/db.ts).  The rows of the table are a sequence: the      *)
(* reference implementation reads the row count and inserts the next row   *)
(* inside one transaction, so the leaf index is the position.  A row keeps *)
(* what an auditor can act on: its type, the resource it names, and the    *)
(* identity or grant its payload carries.  Timestamps, hashes and the rest *)
(* of the payload are left out.                                            *)
(***************************************************************************)
EXTENDS Integers, Sequences

VARIABLE log            \* transparency_log, ordered by leaf_index

Leaf(entryType, refId, data) ==
    [entryType |-> entryType, refId |-> refId, data |-> data]

\* transparencyService.appendEntry followed by TransparencyLogRepo.append.
AppendEntry(entryType, refId, data) ==
    log' = Append(log, Leaf(entryType, refId, data))

\* Some row of the log is this leaf.
Logged(entryType, refId, data) ==
    \E i \in 1 .. Len(log) : log[i] = Leaf(entryType, refId, data)

LogInit == log = <<>>
=============================================================================
