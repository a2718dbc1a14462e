-------------------------- MODULE MCWorkerAgents --------------------------
(* Small instances of the Worker's identities for TLC. *)
EXTENDS WorkerAgents, TLC

CONSTANTS a1, a2, heir, r1, r2

Interchangeable == Permutations({r1, r2})
=============================================================================
