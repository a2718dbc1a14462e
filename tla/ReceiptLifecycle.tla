-------------------------- MODULE ReceiptLifecycle --------------------------
(***************************************************************************)
(* What the registry promises to somebody who reads nothing but its        *)
(* transparency log: every receipt is finalized once, at most one dispute  *)
(* is pending on it at a time, only a party disputes, only the opener      *)
(* withdraws, and each party can do so once.  No clock, no job, no draft.  *)
(***************************************************************************)
CONSTANTS Did, Content

VARIABLES
    final,      \* the receipts that have been finalized
    pending,    \* for each receipt, the parties whose dispute is pending
    spent       \* for each receipt, the parties that disputed and withdrew

vars == <<final, pending, spent>>

Init ==
    /\ final = {}
    /\ pending = [c \in Content |-> {}]
    /\ spent = [c \in Content |-> {}]

Finalize(c) ==
    /\ c \notin final
    /\ final' = final \cup {c}
    /\ UNCHANGED <<pending, spent>>

Dispute(c, p) ==
    /\ c \in final
    /\ p \in {c.agentA, c.agentB} \ spent[c]
    /\ pending[c] = {}
    /\ pending' = [pending EXCEPT ![c] = {p}]
    /\ UNCHANGED <<final, spent>>

Withdraw(c, p) ==
    /\ pending[c] = {p}
    /\ pending' = [pending EXCEPT ![c] = {}]
    /\ spent' = [spent EXCEPT ![c] = @ \cup {p}]
    /\ UNCHANGED final

Next == \E c \in Content :
            \/ Finalize(c)
            \/ \E p \in Did : Dispute(c, p) \/ Withdraw(c, p)

Spec == Init /\ [][Next]_vars
=============================================================================
