----------------------------- MODULE MCRegistry -----------------------------
(* Small instances of the Node registry for TLC. *)
EXTENDS Registry, TLC

CONSTANTS requester, worker, rival, heir, j1, o1, o2

MCExpiry == {NoTime, 0}
NoExpiry == {}

\* Two receipts of the same pair for the same job.
JobContents ==
    [agentA : {requester}, agentB : {worker}, jobId : {j1}, output : {o1, o2}]

\* Nothing tells the two outputs apart.
OutputsAlike == Permutations({o1, o2})

\* A receipt whose jobId names no job.
DisputeContents ==
    [agentA : {requester}, agentB : {worker}, jobId : {j1}, output : {o1}]

NoContents == {}
=============================================================================
