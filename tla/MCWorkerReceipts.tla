------------------------- MODULE MCWorkerReceipts -------------------------
(* Small instances of the Worker's receipts for TLC. *)
EXTENDS WorkerReceipts, TLC

CONSTANTS requester, worker, job, o1, o2, r1, r2

\* One receipt, or two receipts of the same pair for the same job.
OneContent == [agentA : {requester}, agentB : {worker}, jobId : {job}, output : {o1}]
TwoContents == [agentA : {requester}, agentB : {worker}, jobId : {job}, output : {o1, o2}]

Interchangeable == Permutations({r1, r2}) \cup Permutations({o1, o2})
=============================================================================
