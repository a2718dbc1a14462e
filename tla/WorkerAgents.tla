---------------------------- MODULE WorkerAgents ----------------------------
(***************************************************************************)
(* Identities in the Cloudflare Worker (src/worker/src/agentService.ts and *)
(* db.ts): registration, verifier grants, revocation and key succession    *)
(* with requests in flight.  Every request first selects the successions   *)
(* that are due and activates them one by one, then checks its signer, and *)
(* only then runs its handler; each statement or batch of D1 is one step,  *)
(* and anything can happen between two steps.                              *)
(*                                                                         *)
(* Appending a leaf is one step here: what becomes of two appends at once  *)
(* is the subject of WorkerReceipts.  A request that dies is one that      *)
(* takes no further step.  Links, capabilities and metadata are left out.  *)
(***************************************************************************)
EXTENDS TransparencyLog, FiniteSets

CONSTANTS
    Did, None,
    Founders,           \* the identities registered in the initial state
    Operator,           \* env.OPERATOR_DID, None when unset
    Request,            \* bound: how many requests can be in flight at once
    SuccessionWindow,   \* SUCCESSION_WINDOW_MS
    MaxTime,            \* bound: the clock stops here
    MaxLog              \* bound: what can repeat stops when the log is this long

ASSUME WorkerAgentsAssumption ==
    /\ None \notin Did
    /\ Founders \subseteq Did
    /\ Operator \in Did \cup {None}
    /\ SuccessionWindow \in Nat \ {0}
    /\ MaxTime \in Nat
    /\ MaxLog \in Nat

VARIABLES
    now,                \* successionClock.now()
    agents,             \* the agents table; "absent" rows are unregistered
    requests            \* the requests in flight

vars == <<log, now, agents, requests>>

NoTime == -1
NoSuccession == [successor |-> None, effectiveAt |-> NoTime]

NoAgent == [registered |-> FALSE, revoked |-> FALSE, verifier |-> FALSE,
            succeededBy |-> None, predecessor |-> None, pending |-> NoSuccession]

NewAgent(predecessor) ==
    [NoAgent EXCEPT !.registered = TRUE, !.predecessor = predecessor]

NoItem == [id |-> None, pending |-> NoSuccession]

\* due holds the rows still to activate, item the row being worked on.
\* pending is what requestSuccession writes, and what revokeAgent read.
NoRequest == [pc |-> "idle", op |-> "none", caller |-> None, ref |-> None,
              due |-> {}, item |-> NoItem, pending |-> NoSuccession,
              at |-> NoTime, grant |-> FALSE]

Init ==
    /\ LogInit
    /\ now = 0
    /\ agents = [a \in Did |-> IF a \in Founders THEN NewAgent(None) ELSE NoAgent]
    /\ requests = [r \in Request |-> NoRequest]

Retired(a) == agents[a].revoked \/ agents[a].succeededBy # None

HasPending(a) == agents[a].pending.successor # None

IsPendingSuccessor(a) == \E p \in Did : agents[p].pending.successor = a

Goto(r, label) == requests' = [requests EXCEPT ![r].pc = label]

\* The answer is sent: the slot is free again.
Answer(r) == requests' = [requests EXCEPT ![r] = NoRequest]

Keep == UNCHANGED <<now, agents, log>>

-----------------------------------------------------------------------------
(* activateDueSuccessions, at the start of every request. *)

DueSuccessions ==
    {[id |-> p, pending |-> agents[p].pending] :
        p \in {x \in Did : HasPending(x) /\ agents[x].pending.effectiveAt <= now}}

\* The request arrives; its first statement selects what is due.
Begin(r, op, caller, ref, grant) ==
    /\ requests[r].pc = "idle"
    /\ requests' = [requests EXCEPT ![r] =
            [NoRequest EXCEPT !.pc = "activate", !.op = op, !.caller = caller,
                              !.ref = ref, !.grant = grant, !.due = DueSuccessions]]
    /\ Keep

\* Seeded fault: the conflict on the successor's row is ignored.
SuccessorFreeOrIgnored(s) == TRUE

\* The INSERT of the successor's row meets no row with its id.
SuccessorFree(s) == ~agents[s].registered

\* Seeded fault: only "successor_taken" is told apart from success.
AfterActivationUnchecked(outcome) ==
    IF outcome = "successor_taken" THEN "abandon" ELSE "logSucceeded"

\* What activateDueSuccessions does next with each outcome.
AfterActivation(outcome) ==
    CASE outcome = "activated" -> "logSucceeded"
      [] outcome = "successor_taken" -> "abandon"
      [] outcome = "lost" -> "activate"

\* The batch of activateSuccession: the UPDATE applies while the row still
\* holds the pending succession that was selected, and a conflict on the
\* successor's id rolls both back.  When another request has activated it
\* already, only the INSERT runs, and conflicts.
ActivateSuccession(r) ==
    /\ requests[r].pc = "activate"
    /\ \E d \in requests[r].due :
        LET s == d.pending.successor
            applies == agents[d.id].pending = d.pending /\ ~agents[d.id].revoked
            next(label) == requests' = [requests EXCEPT ![r].due = @ \ {d},
                                                        ![r].item = d, ![r].pc = label]
        IN
        \/ /\ applies /\ SuccessorFree(s)
           /\ agents' = [agents EXCEPT
                    ![d.id].succeededBy = s, ![d.id].pending = NoSuccession,
                    ![s] = IF agents[s].registered THEN @ ELSE NewAgent(d.id)]
           /\ next(AfterActivation("activated"))
        \/ /\ applies \/ agents[d.id].succeededBy = s
           /\ ~SuccessorFree(s)
           /\ UNCHANGED agents
           /\ next("reread")
        \/ /\ ~applies /\ agents[d.id].succeededBy # s
           /\ UNCHANGED agents
           /\ next(AfterActivation("lost"))
    /\ UNCHANGED <<now, log>>

\* After the rollback: "lost" or "successor_taken".
RereadPredecessor(r) ==
    LET p == requests[r].item.id IN
    /\ requests[r].pc = "reread"
    /\ Goto(r, AfterActivation(IF agents[p].succeededBy # None \/ ~HasPending(p)
                               THEN "lost" ELSE "successor_taken"))
    /\ Keep

AbandonSuccession(r) ==
    LET d == requests[r].item IN
    /\ requests[r].pc = "abandon"
    /\ IF agents[d.id].pending.successor = d.pending.successor
       THEN /\ agents' = [agents EXCEPT ![d.id].pending = NoSuccession]
            /\ Goto(r, "logAbandoned")
       ELSE UNCHANGED agents /\ Goto(r, "activate")
    /\ UNCHANGED <<now, log>>

LogActivation(r) ==
    LET d == requests[r].item IN
    /\ \/ /\ requests[r].pc = "logSucceeded"
          /\ AppendEntry("agent_succeeded", d.id, d.pending.successor)
       \/ /\ requests[r].pc = "logAbandoned"
          /\ AppendEntry("agent_succession_cancelled", d.id, d.pending.successor)
    /\ Goto(r, "activate")
    /\ UNCHANGED <<now, agents>>

\* The loop is over.  A signed request goes on unless its signer is retired;
\* any other request is answered without a change of the tables.
Authenticate(r) ==
    LET q == requests[r] IN
    /\ q.pc = "activate"
    /\ q.due = {}
    /\ IF q.op = "get" \/ Retired(q.caller)
       THEN Answer(r)
       ELSE requests' = [requests EXCEPT ![r].pc = "read", ![r].item = NoItem]
    /\ Keep

-----------------------------------------------------------------------------
(* The handlers: what each reads and checks before it writes. *)

ReadRegister(r) ==
    LET q == requests[r] IN
    /\ q.pc = "read" /\ q.op = "register"
    /\ IF IsPendingSuccessor(q.caller) THEN Answer(r) ELSE Goto(r, "write")
    /\ Keep

ReadSetVerifierStatus(r) ==
    LET q == requests[r] IN
    /\ q.pc = "read" /\ q.op = "setVerifierStatus"
    /\ IF q.caller = Operator /\ agents[q.ref].registered /\ ~Retired(q.ref)
       THEN Goto(r, "write")
       ELSE Answer(r)
    /\ Keep

\* The row as it was before, and the time of the revocation.
ReadRevoke(r) ==
    LET q == requests[r] IN
    /\ q.pc = "read" /\ q.op = "revoke"
    /\ IF agents[q.caller].registered
       THEN requests' = [requests EXCEPT ![r].pc = "write", ![r].at = now,
                                         ![r].pending = agents[q.caller].pending]
       ELSE Answer(r)
    /\ Keep

\* Two reads: the successor is not registered, then it is not pending.
ReadSuccessor(r) ==
    LET q == requests[r] IN
    /\ q.pc = "read" /\ q.op = "requestSuccession"
    /\ IF agents[q.caller].registered /\ q.ref # q.caller /\ ~agents[q.ref].registered
       THEN Goto(r, "readPending")
       ELSE Answer(r)
    /\ Keep

ReadPendingSuccessor(r) ==
    LET q == requests[r] IN
    /\ q.pc = "readPending"
    /\ IF IsPendingSuccessor(q.ref)
       THEN Answer(r)
       ELSE requests' = [requests EXCEPT ![r].pc = "write", ![r].pending =
                [successor |-> q.ref, effectiveAt |-> now + SuccessionWindow]]
    /\ Keep

-----------------------------------------------------------------------------
(* The statement each handler writes with, and its leaf. *)

\* A row with this id makes the INSERT fail.
InsertAgent(r) ==
    LET q == requests[r] IN
    /\ q.pc = "write" /\ q.op = "register"
    /\ agents' = IF agents[q.caller].registered
                 THEN agents
                 ELSE [agents EXCEPT ![q.caller] = NewAgent(None)]
    /\ Answer(r)
    /\ UNCHANGED <<now, log>>

\* Seeded fault: the grant is answered before it is logged.
UpdateVerifierUnlogged(r) ==
    LET q == requests[r] IN
    /\ q.pc = "write" /\ q.op = "setVerifierStatus"
    /\ agents' = [agents EXCEPT ![q.ref].verifier = q.grant]
    /\ Answer(r)
    /\ UNCHANGED <<now, log>>

UpdateAgentVerifierStatus(r) ==
    LET q == requests[r] IN
    /\ q.pc = "write" /\ q.op = "setVerifierStatus"
    /\ agents' = [agents EXCEPT ![q.ref].verifier = q.grant]
    /\ Goto(r, "log")
    /\ UNCHANGED <<now, log>>

\* Seeded fault: a succeeded identity can still be revoked.
RevocableUnlessRevoked(a, at) ==
    /\ ~agents[a].revoked
    /\ HasPending(a) => agents[a].pending.effectiveAt > at

\* The condition of the UPDATE of revokeAgentIfActive.
Revocable(a, at) ==
    /\ ~Retired(a)
    /\ HasPending(a) => agents[a].pending.effectiveAt > at

\* The leaf depends on the row that was read before.
RevokeAgentIfActive(r) ==
    LET q == requests[r] IN
    /\ q.pc = "write" /\ q.op = "revoke"
    /\ IF Revocable(q.caller, q.at)
       THEN /\ agents' = [agents EXCEPT ![q.caller].revoked = TRUE,
                                        ![q.caller].pending = NoSuccession]
            /\ IF q.pending.successor # None THEN Goto(r, "log") ELSE Answer(r)
       ELSE UNCHANGED agents /\ Answer(r)
    /\ UNCHANGED <<now, log>>

RequestSuccessionIfIdle(r) ==
    LET q == requests[r] IN
    /\ q.pc = "write" /\ q.op = "requestSuccession"
    /\ IF ~HasPending(q.caller) /\ ~Retired(q.caller)
       THEN agents' = [agents EXCEPT ![q.caller].pending = q.pending] /\ Goto(r, "log")
       ELSE UNCHANGED agents /\ Answer(r)
    /\ UNCHANGED <<now, log>>

LogHandler(r) ==
    LET q == requests[r] IN
    /\ q.pc = "log"
    /\ \/ /\ q.op = "setVerifierStatus"
          /\ AppendEntry("verifier_status_changed", q.ref,
                         IF q.grant THEN "authorized" ELSE "unauthorized")
       \/ /\ q.op = "revoke"
          /\ AppendEntry("agent_succession_cancelled", q.caller, q.pending.successor)
       \/ /\ q.op = "requestSuccession"
          /\ AppendEntry("agent_succession_pending", q.caller, q.pending.successor)
    /\ Answer(r)
    /\ UNCHANGED <<now, agents>>

-----------------------------------------------------------------------------
(* The system. *)

Tick ==
    /\ now < MaxTime
    /\ now' = now + 1
    /\ UNCHANGED <<agents, log, requests>>

Arrive(r) ==
    \/ DueSuccessions # {} /\ Begin(r, "get", None, None, FALSE)
    \/ \E a \in Did : Begin(r, "register", a, None, FALSE) \/ Begin(r, "revoke", a, None, FALSE)
    \/ \E a \in Did, s \in Did :
        Len(log) < MaxLog /\ Begin(r, "requestSuccession", a, s, FALSE)
    \/ \E c, a \in Did, g \in BOOLEAN :
        Len(log) < MaxLog /\ Begin(r, "setVerifierStatus", c, a, g)

Activate(r) ==
    \/ ActivateSuccession(r) \/ RereadPredecessor(r) \/ AbandonSuccession(r)
    \/ LogActivation(r)

Read(r) ==
    \/ ReadRegister(r) \/ ReadSetVerifierStatus(r) \/ ReadRevoke(r)
    \/ ReadSuccessor(r) \/ ReadPendingSuccessor(r)

Write(r) ==
    \/ InsertAgent(r) \/ UpdateAgentVerifierStatus(r) \/ RevokeAgentIfActive(r)
    \/ RequestSuccessionIfIdle(r) \/ LogHandler(r)

Next ==
    \/ Tick
    \/ \E r \in Request : Arrive(r) \/ Activate(r) \/ Authenticate(r) \/ Read(r) \/ Write(r)

Spec == Init /\ [][Next]_vars

-----------------------------------------------------------------------------
(* Properties. *)

Successions == [successor : Did, effectiveAt : Nat] \cup {NoSuccession}

\* The tables, the log and the requests keep their shape; in particular the
\* columns of a pending succession are set and cleared together.
TypeOK ==
    /\ agents \in [Did -> [registered : BOOLEAN, revoked : BOOLEAN, verifier : BOOLEAN,
                           succeededBy : Did \cup {None}, predecessor : Did \cup {None},
                           pending : Successions]]
    /\ now \in 0 .. MaxTime
    /\ \A r \in Request :
        /\ requests[r].pending \in Successions
        /\ requests[r].due \subseteq [id : Did, pending : Successions]

\* However activations, requests and registrations interleave, an identity
\* succeeds at most one predecessor, was created by that succession, and an
\* identity that is retired or unregistered has no succession pending
\* (activateSuccession, revokeAgentIfActive, requestSuccessionIfIdle).
LineageSound ==
    \A p \in Did :
        /\ agents[p].succeededBy # None =>
              agents[agents[p].succeededBy].predecessor = p
        /\ HasPending(p) => agents[p].registered /\ ~Retired(p)

Count(entryType, refId, data) ==
    Cardinality({i \in 1 .. Len(log) : log[i] = Leaf(entryType, refId, data)})

\* A request has activated the succession of p and not yet logged it.
LoggingSuccession(p) ==
    {r \in Request : requests[r].pc = "logSucceeded" /\ requests[r].item.id = p}

SucceededLogged ==
    \A p, s \in Did :
        Count("agent_succeeded", p, s) =
            IF agents[p].succeededBy = s /\ LoggingSuccession(p) = {} THEN 1 ELSE 0

GrantIsLogged ==
    \A a \in Did : agents[a].verifier =>
        \/ Logged("verifier_status_changed", a, "authorized")
        \/ \E r \in Request :
              requests[r].pc = "log" /\ requests[r].ref = a /\ requests[r].grant

\* The lineage is sound and the log tells it. Many requests find the same
\* succession due; exactly one of them activates and logs it, and none logs a
\* succession that did not take effect. An authorized verifier has its grant
\* in the log, or the request that granted it is about to log it
\* (activateDueSuccessions and the outcomes of activateSuccession,
\* setVerifierStatus).
LineageLogged == LineageSound /\ SucceededLogged /\ GrantIsLogged

\* What retired an identity stays: a revocation and a succession that race
\* for one identity never both win, and neither is undone or replaced
\* (the conditions of revokeAgentIfActive and activateSuccession).
RetiredForGood ==
    [][\A a \in Did : Retired(a) =>
          /\ agents'[a].revoked = agents[a].revoked
          /\ agents'[a].succeededBy = agents[a].succeededBy]_vars

\* With no request in flight, every succession that was logged as requested
\* is still pending, has succeeded, or is logged as cancelled (SPEC.md:817,
\* 819: exactly one leaf for each of these events).
SuccessionsAccountedFor ==
    (\A r \in Request : requests[r].pc = "idle") =>
        \A p, s \in Did :
            Logged("agent_succession_pending", p, s) =>
                \/ agents[p].pending.successor = s
                \/ agents[p].succeededBy = s
                \/ Logged("agent_succession_cancelled", p, s)
=============================================================================
