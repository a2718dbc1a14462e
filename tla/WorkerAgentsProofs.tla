--------------------------- MODULE WorkerAgentsProofs ---------------------------
(***************************************************************************)
(* Identities of the Worker, for any number of identities and of requests  *)
(* in flight: the lineage is sound and the log tells it, and what retired  *)
(* an identity stays.                                                      *)
(*                                                                         *)
(* The invariant adds to the tables that only registered identities have   *)
(* anything to their name, and to every request in flight what is still    *)
(* true of what it read: rows that were there are there, and a succession  *)
(* about to be logged stands.                                              *)
(***************************************************************************)
EXTENDS WorkerAgents, FiniteSetTheorems, TLAPS

Item == [id : Did \cup {None}, pending : Successions]

InFlight ==
    [pc : {"idle", "activate", "reread", "abandon", "logSucceeded", "logAbandoned", "read",
           "readPending", "write", "log"},
     op : {"none", "get", "register", "revoke", "requestSuccession", "setVerifierStatus"},
     caller : Did \cup {None}, ref : Did \cup {None}, due : SUBSET [id : Did, pending : Successions],
     item : Item, pending : Successions, at : Int, grant : BOOLEAN]

EntryType == {"agent_succeeded", "agent_succession_cancelled", "agent_succession_pending",
              "verifier_status_changed"}

Entry == [entryType : EntryType, refId : Did \cup {None},
          data : Did \cup {None, "authorized", "unauthorized"}]

\* A pending succession that names its successor.
Named(pending) == pending.successor \in Did

\* Nobody who is not registered has anything to his name, and successors are.
RowsSound ==
    \A p \in Did :
        /\ ~agents[p].registered =>
              ~agents[p].revoked /\ ~agents[p].verifier /\ agents[p].succeededBy = None
        /\ agents[p].succeededBy # None => agents[agents[p].succeededBy].registered

\* What a request in flight will act on is as it read it, or was not read.
RequestSound(r) ==
    LET q == requests[r] IN
    /\ \A d \in q.due : Named(d.pending)
    /\ q.grant => q.op = "setVerifierStatus"
    /\ q.op # "get" /\ q.pc # "idle" => q.caller \in Did
    /\ q.op \in {"requestSuccession", "setVerifierStatus"} => q.ref \in Did
    /\ q.pc \in {"reread", "abandon", "logSucceeded", "logAbandoned"} =>
            q.item.id \in Did /\ Named(q.item.pending)
    /\ q.pc = "logSucceeded" => agents[q.item.id].succeededBy = q.item.pending.successor
    /\ q.pc \in {"read", "readPending", "write", "log"} => q.op # "get"
    /\ q.pc = "readPending" => q.op = "requestSuccession"
    /\ q.pc = "write" /\ q.op = "setVerifierStatus" => agents[q.ref].registered
    /\ q.pc = "write" /\ q.op = "revoke" => agents[q.caller].registered
    /\ q.pc \in {"readPending", "write"} /\ q.op = "requestSuccession" =>
            agents[q.caller].registered
    /\ q.pc = "write" /\ q.op = "requestSuccession" => Named(q.pending)

\* Of one succession one request is about to log it.
OneLogs ==
    \A r, s \in Request :
        /\ requests[r].pc = "logSucceeded"
        /\ requests[s].pc = "logSucceeded"
        /\ requests[r].item.id = requests[s].item.id
        => r = s

Inv ==
    /\ TypeOK
    /\ requests \in [Request -> InFlight]
    /\ log \in Seq(Entry)
    /\ RowsSound
    /\ LineageLogged
    /\ \A r \in Request : RequestSound(r)
    /\ OneLogs

-----------------------------------------------------------------------------
(* The log, counted. *)

Places(e) == {i \in 1 .. Len(log) : log[i] = e}

LEMMA PlacesFinite ==
    ASSUME log \in Seq(Entry), NEW e
    PROVE  IsFiniteSet(Places(e)) /\ Cardinality(Places(e)) \in Nat
<1>1. IsFiniteSet(1 .. Len(log))
  BY FS_Interval
<1>2. IsFiniteSet(Places(e))
  BY <1>1, FS_Subset DEF Places
<1> QED
  BY <1>2, FS_CardinalityType

\* A leaf that is appended counts once more, and no other leaf does.
LEMMA CountAppended ==
    ASSUME log \in Seq(Entry), NEW e \in Entry, log' = Append(log, e),
           NEW t, NEW p, NEW s
    PROVE  Count(t, p, s)' = IF e = Leaf(t, p, s) THEN Count(t, p, s) + 1 ELSE Count(t, p, s)
<1> DEFINE l == Leaf(t, p, s)
           before == {i \in 1 .. Len(log) : log[i] = l}
           after == {i \in 1 .. Len(log') : log'[i] = l}
<1>1. /\ Len(log) \in Nat /\ Len(log') = Len(log) + 1 /\ log'[Len(log) + 1] = e
      /\ \A i \in 1 .. Len(log) : log'[i] = log[i]
  OBVIOUS
<1>2. IsFiniteSet(before) /\ Len(log) + 1 \notin before
  <2>1. IsFiniteSet(Places(l))
    BY PlacesFinite
  <2>2. IsFiniteSet(before)
    BY <2>1, Zenon DEF Places
  <2> QED
    BY <1>1, <2>2
<1>3. Count(t, p, s) = Cardinality(before) /\ Count(t, p, s)' = Cardinality(after)
  BY DEF Count, Leaf
<1>4. CASE e = l
  <2>1. after = before \cup {Len(log) + 1}
    BY <1>1, <1>4
  <2> HIDE DEF before, after
  <2>2. Cardinality(before \cup {Len(log) + 1}) = Cardinality(before) + 1
    BY <1>2, FS_AddElement
  <2>3. Count(t, p, s)' = Count(t, p, s) + 1
    BY <1>3, <2>1, <2>2
  <2> QED
    BY <1>4, <2>3
<1>5. CASE e # l
  <2>1. after = before
    BY <1>1, <1>5
  <2>2. Count(t, p, s)' = Count(t, p, s)
    BY <1>3, <2>1
  <2> QED
    BY <1>5, <2>2
<1> QED
  BY <1>4, <1>5

LEMMA StillLogged ==
    ASSUME log \in Seq(Entry), NEW e \in Entry, log' = Append(log, e),
           NEW t, NEW p, NEW s
    PROVE  (Logged(t, p, s) \/ e = Leaf(t, p, s)) => Logged(t, p, s)'
<1>1. /\ Len(log) \in Nat /\ Len(log') = Len(log) + 1 /\ log'[Len(log) + 1] = e
      /\ \A i \in 1 .. Len(log) : log'[i] = log[i]
  OBVIOUS
<1>2. ASSUME NEW i \in 1 .. Len(log), log[i] = Leaf(t, p, s)
      PROVE  Logged(t, p, s)'
  BY <1>1, <1>2 DEF Logged, Leaf
<1>3. ASSUME e = Leaf(t, p, s)
      PROVE  Logged(t, p, s)'
  <2>1. Len(log) + 1 \in 1 .. Len(log')
    BY <1>1
  <2> QED
    BY <1>1, <1>3, <2>1 DEF Logged, Leaf
<1> QED
  BY <1>2, <1>3 DEF Logged

-----------------------------------------------------------------------------
(* The initial state. *)

LEMMA EmptyTypes ==
    /\ NoSuccession \in Successions
    /\ NoSuccession.successor = None /\ None \notin Did
    /\ NoItem \in Item
    /\ NoRequest \in InFlight
BY WorkerAgentsAssumption
   DEF WorkerAgentsAssumption, NoSuccession, Successions, NoItem, Item, NoRequest, InFlight, NoTime

LEMMA NewAgentFields ==
    ASSUME NEW p \in Did \cup {None}
    PROVE  /\ NewAgent(p) \in [registered : BOOLEAN, revoked : BOOLEAN, verifier : BOOLEAN,
                               succeededBy : Did \cup {None}, predecessor : Did \cup {None},
                               pending : Successions]
           /\ NewAgent(p).registered /\ ~NewAgent(p).revoked /\ ~NewAgent(p).verifier
           /\ NewAgent(p).succeededBy = None
           /\ NewAgent(p).predecessor = p
           /\ NewAgent(p).pending = NoSuccession
BY EmptyTypes DEF NewAgent, NoAgent

LEMMA NoAgentFields ==
    /\ NoAgent \in [registered : BOOLEAN, revoked : BOOLEAN, verifier : BOOLEAN,
                    succeededBy : Did \cup {None}, predecessor : Did \cup {None},
                    pending : Successions]
    /\ ~NoAgent.registered /\ ~NoAgent.revoked /\ ~NoAgent.verifier
    /\ NoAgent.succeededBy = None
    /\ NoAgent.pending = NoSuccession
BY EmptyTypes DEF NoAgent

LEMMA IdleRequest ==
    ASSUME NEW r \in Request, requests[r] = NoRequest
    PROVE  RequestSound(r) /\ requests[r].pc = "idle"
BY DEF RequestSound, NoRequest

LEMMA InitInv == Init => Inv
<1> SUFFICES ASSUME Init
             PROVE  Inv
  OBVIOUS
<1>1. \A r \in Request : requests[r] = NoRequest /\ RequestSound(r) /\ requests[r].pc = "idle"
  BY IdleRequest DEF Init
<1>2. /\ requests \in [Request -> InFlight]
      /\ \A r \in Request : /\ requests[r].pending \in Successions
                            /\ requests[r].due \subseteq [id : Did, pending : Successions]
  BY <1>1, EmptyTypes DEF Init, InFlight
<1>3. \A p \in Did : agents[p] \in {NewAgent(None), NoAgent}
  BY DEF Init
<1>4. \A p \in Did :
        /\ agents[p] \in [registered : BOOLEAN, revoked : BOOLEAN, verifier : BOOLEAN,
                          succeededBy : Did \cup {None}, predecessor : Did \cup {None},
                          pending : Successions]
        /\ ~agents[p].revoked /\ ~agents[p].verifier
        /\ agents[p].succeededBy = None
        /\ agents[p].pending = NoSuccession
  BY <1>3, NewAgentFields, NoAgentFields
<1>5. TypeOK
  BY <1>2, <1>4, WorkerAgentsAssumption DEF Init, TypeOK, WorkerAgentsAssumption
<1>6. RowsSound /\ LineageSound /\ GrantIsLogged
  BY <1>4, EmptyTypes DEF RowsSound, LineageSound, GrantIsLogged, HasPending
<1>7. log \in Seq(Entry) /\ Len(log) = 0
  BY DEF Init, LogInit
<1>8. SucceededLogged
  <2>1. ASSUME NEW p, NEW s
        PROVE  Count("agent_succeeded", p, s) = 0
    <3>1. {i \in 1 .. Len(log) : log[i] = Leaf("agent_succeeded", p, s)} = {}
      BY <1>7
    <3> QED
      BY <3>1, FS_EmptySet DEF Count
  <2> QED
    BY <1>4, <2>1, EmptyTypes DEF SucceededLogged
<1>9. OneLogs
  BY <1>1 DEF OneLogs
<1> QED
  BY <1>1, <1>2, <1>5, <1>6, <1>7, <1>8, <1>9 DEF Inv, LineageLogged

-----------------------------------------------------------------------------
(* What every step leaves as it was. *)

\* Nobody is unregistered, and what retired an identity stays.
Settled ==
    \A a \in Did :
        /\ agents[a].registered => agents'[a].registered
        /\ Retired(a) => /\ agents'[a].revoked = agents[a].revoked
                         /\ agents'[a].succeededBy = agents[a].succeededBy

\* A request stays sound while others move.
LEMMA OthersSound ==
    ASSUME Inv, Settled, NEW s \in Request, requests'[s] = requests[s]
    PROVE  RequestSound(s)'
<1> DEFINE q == requests[s]
<1>1. RequestSound(s) /\ q \in InFlight
  BY DEF Inv
<1>2. q.pc = "logSucceeded" => agents'[q.item.id].succeededBy = q.item.pending.successor
  BY <1>1, EmptyTypes DEF RequestSound, Settled, Retired, Named
<1>3. /\ q.pc = "write" /\ q.op = "setVerifierStatus" => agents'[q.ref].registered
      /\ q.pc = "write" /\ q.op = "revoke" => agents'[q.caller].registered
      /\ q.pc \in {"readPending", "write"} /\ q.op = "requestSuccession" =>
            agents'[q.caller].registered
  BY <1>1 DEF RequestSound, Settled
<1> QED
  BY <1>1, <1>2, <1>3 DEF RequestSound, Named

\* The rows that a step may write without touching lineage or grants.
Rows == [Did -> [registered : BOOLEAN, revoked : BOOLEAN, verifier : BOOLEAN,
                 succeededBy : Did \cup {None}, predecessor : Did \cup {None},
                 pending : Successions]]

\* Only request r moves, and it is sound afterwards.
Moves(r) ==
    /\ requests' \in [Request -> InFlight]
    /\ \A s \in Request \ {r} : requests'[s] = requests[s]
    /\ RequestSound(r)'

LEMMA TypesKept ==
    ASSUME agents' \in Rows, now' \in 0 .. MaxTime, requests' \in [Request -> InFlight]
    PROVE  TypeOK'
BY DEF Rows, TypeOK, InFlight

\* A step that logs nothing, retires nobody by succession, and leaves whoever
\* grants to log the grant.
LEMMA TableStep ==
    ASSUME Inv, Settled, NEW r \in Request, Moves(r), UNCHANGED <<now, log>>,
           agents' \in Rows, RowsSound', LineageSound',
           \A a \in Did : agents'[a].succeededBy = agents[a].succeededBy,
           requests[r].pc \notin {"logSucceeded", "log"}, requests'[r].pc # "logSucceeded",
           \A a \in Did : agents'[a].verifier =>
                \/ agents[a].verifier
                \/ requests'[r].pc = "log" /\ requests'[r].ref = a /\ requests'[r].grant
    PROVE  Inv'
<1>1. TypeOK'
  BY TypesKept DEF Inv, TypeOK, Moves
<1>2. \A s \in Request : RequestSound(s)'
  BY OthersSound DEF Moves
<1>3. OneLogs'
  BY DEF Inv, OneLogs, Moves
<1>4. SucceededLogged'
  <2> SUFFICES ASSUME NEW p \in Did, NEW s \in Did
               PROVE  Count("agent_succeeded", p, s)'
                        = IF agents'[p].succeededBy = s /\ LoggingSuccession(p)' = {}
                          THEN 1 ELSE 0
    BY DEF SucceededLogged
  <2>1. LoggingSuccession(p)' = LoggingSuccession(p)
    BY DEF LoggingSuccession, Moves
  <2>2. Count("agent_succeeded", p, s)' = Count("agent_succeeded", p, s)
    BY DEF Count
  <2> QED
    BY <2>1, <2>2 DEF Inv, LineageLogged, SucceededLogged
<1>5. GrantIsLogged'
  <2> SUFFICES ASSUME NEW a \in Did, agents'[a].verifier
               PROVE  \/ Logged("verifier_status_changed", a, "authorized")'
                      \/ \E s \in Request :
                            requests'[s].pc = "log" /\ requests'[s].ref = a /\ requests'[s].grant
    BY DEF GrantIsLogged
  <2>1. CASE agents[a].verifier
    <3>1. \/ Logged("verifier_status_changed", a, "authorized")
          \/ \E s \in Request :
                requests[s].pc = "log" /\ requests[s].ref = a /\ requests[s].grant
      BY <2>1 DEF Inv, LineageLogged, GrantIsLogged
    <3> QED
      BY <3>1 DEF Logged, Moves
  <2> QED
    BY <2>1
<1> QED
  BY <1>1, <1>2, <1>3, <1>4, <1>5 DEF Inv, LineageLogged, Moves

\* A step that changes no table.
LEMMA RequestStep ==
    ASSUME Inv, NEW r \in Request, Moves(r), UNCHANGED <<now, agents, log>>,
           requests[r].pc \notin {"logSucceeded", "log"}, requests'[r].pc # "logSucceeded"
    PROVE  Inv' /\ Settled
<1>1. Settled
  BY DEF Settled
<1>2. agents' \in Rows
  BY DEF Inv, TypeOK, Rows
<1>3. RowsSound' /\ LineageSound'
  BY DEF Inv, LineageLogged, RowsSound, LineageSound, HasPending, Retired
<1> QED
  BY <1>1, <1>2, <1>3, TableStep

LEMMA Answered ==
    ASSUME Inv, NEW r \in Request, Answer(r)
    PROVE  Moves(r) /\ requests'[r].pc = "idle"
<1>1. requests'[r] = NoRequest
  BY DEF Answer, Inv
<1>2. RequestSound(r)' /\ requests'[r].pc = "idle"
  BY <1>1 DEF RequestSound, NoRequest
<1> QED
  BY <1>2, EmptyTypes DEF Answer, Inv, Moves

\* A request that goes on to another statement with what it has.
LEMMA WentTo ==
    ASSUME Inv, NEW r \in Request,
           NEW label \in {"activate", "reread", "abandon", "logSucceeded", "logAbandoned", "read",
                          "readPending", "write", "log"},
           Goto(r, label)
    PROVE  /\ requests' \in [Request -> InFlight]
           /\ \A s \in Request \ {r} : requests'[s] = requests[s]
           /\ requests'[r].pc = label
           /\ requests'[r].op = requests[r].op
           /\ requests'[r].caller = requests[r].caller
           /\ requests'[r].ref = requests[r].ref
           /\ requests'[r].due = requests[r].due
           /\ requests'[r].item = requests[r].item
           /\ requests'[r].pending = requests[r].pending
           /\ requests'[r].grant = requests[r].grant
BY ZenonT(60) DEF Goto, Inv, InFlight

-----------------------------------------------------------------------------
(* Arrivals, reads, and the activation of what is due. *)

LEMMA ArriveStep ==
    ASSUME Inv, NEW r \in Request, Arrive(r)
    PROVE  Inv' /\ Settled
<1>1. PICK op \in {"get", "register", "revoke", "requestSuccession", "setVerifierStatus"},
           caller \in Did \cup {None}, ref \in Did \cup {None}, grant \in BOOLEAN :
        /\ Begin(r, op, caller, ref, grant)
        /\ op # "get" => caller \in Did
        /\ op \in {"requestSuccession", "setVerifierStatus"} => ref \in Did
        /\ grant => op = "setVerifierStatus"
  BY DEF Arrive
<1> DEFINE q == [NoRequest EXCEPT !.pc = "activate", !.op = op, !.caller = caller,
                                  !.ref = ref, !.grant = grant, !.due = DueSuccessions]
<1>2. /\ requests[r].pc = "idle" /\ UNCHANGED <<now, agents, log>>
      /\ requests' = [requests EXCEPT ![r] = q]
  BY <1>1 DEF Begin, Keep
<1>3. \A d \in DueSuccessions : d \in [id : Did, pending : Successions] /\ Named(d.pending)
  BY EmptyTypes DEF DueSuccessions, HasPending, Inv, TypeOK, Named, Successions
<1>4. /\ q \in InFlight
      /\ q.pc = "activate" /\ q.op = op /\ q.caller = caller /\ q.ref = ref /\ q.grant = grant
      /\ q.due = DueSuccessions
  <2>1. /\ q.pc = "activate" /\ q.op = op /\ q.caller = caller /\ q.ref = ref
        /\ q.grant = grant /\ q.due = DueSuccessions
    BY DEF NoRequest
  <2>2. DueSuccessions \in SUBSET [id : Did, pending : Successions]
    BY <1>3
  <2>3. q \in InFlight
    BY ZenonT(60), <2>2, EmptyTypes DEF InFlight
  <2> QED
    BY <2>1, <2>3
<1> HIDE DEF q
<1>5. /\ requests' \in [Request -> InFlight] /\ requests'[r] = q
      /\ \A s \in Request \ {r} : requests'[s] = requests[s]
  BY <1>2, <1>4 DEF Inv
<1>6. RequestSound(r)'
  BY <1>1, <1>3, <1>4, <1>5 DEF RequestSound, Named
<1> QED
  BY <1>2, <1>4, <1>5, <1>6, RequestStep DEF Moves

LEMMA AuthenticateStep ==
    ASSUME Inv, NEW r \in Request, Authenticate(r)
    PROVE  Inv' /\ Settled
<1> DEFINE q == requests[r]
<1>1. q.pc = "activate" /\ UNCHANGED <<now, agents, log>> /\ RequestSound(r) /\ q \in InFlight
  BY DEF Authenticate, Keep, Inv
<1>2. CASE Answer(r)
  BY <1>1, <1>2, Answered, RequestStep
<1>3. CASE ~Answer(r)
  <2> DEFINE new == [q EXCEPT !.pc = "read", !.item = NoItem]
  <2>1. requests' = [requests EXCEPT ![r].pc = "read", ![r].item = NoItem] /\ q.op # "get"
    BY <1>3 DEF Authenticate
  <2>2. /\ requests' \in [Request -> InFlight] /\ requests'[r].pc = "read"
        /\ requests'[r].op = q.op /\ requests'[r].caller = q.caller /\ requests'[r].ref = q.ref
        /\ requests'[r].due = q.due /\ requests'[r].grant = q.grant
        /\ \A s \in Request \ {r} : requests'[s] = requests[s]
    <3>1. \A s \in Request \ {r} : requests'[s] = requests[s]
      BY <2>1 DEF Inv
    <3>2. requests'[r] = new
      BY <2>1 DEF Inv
    <3>3. new \in InFlight
      BY <1>1, EmptyTypes DEF InFlight
    <3>4. requests' \in [Request -> InFlight]
      BY <2>1, <3>1, <3>2, <3>3 DEF Inv
    <3> QED
      BY <3>1, <3>2, <3>4, <1>1 DEF InFlight
  <2>3. RequestSound(r)'
    BY <1>1, <2>1, <2>2 DEF RequestSound, Named
  <2> QED
    BY <1>1, <2>2, <2>3, RequestStep DEF Moves
<1> QED
  BY <1>2, <1>3

LEMMA ReadStep ==
    ASSUME Inv, NEW r \in Request, Read(r)
    PROVE  Inv' /\ Settled
<1> DEFINE q == requests[r]
<1>1. /\ q.pc \in {"read", "readPending"} /\ UNCHANGED <<now, agents, log>>
      /\ RequestSound(r) /\ q \in InFlight
  BY DEF Read, ReadRegister, ReadSetVerifierStatus, ReadRevoke, ReadSuccessor,
         ReadPendingSuccessor, Keep, Inv
<1>2. CASE Answer(r)
  BY <1>1, <1>2, Answered, RequestStep
<1>3. CASE Goto(r, "write") /\ (ReadRegister(r) \/ ReadSetVerifierStatus(r)) /\ ~Answer(r)
  <2>1. \/ q.op = "register"
        \/ q.op = "setVerifierStatus" /\ agents[q.ref].registered
    BY <1>3 DEF ReadRegister, ReadSetVerifierStatus
  <2>2. /\ requests' \in [Request -> InFlight] /\ requests'[r].pc = "write"
        /\ requests'[r].op = q.op /\ requests'[r].caller = q.caller /\ requests'[r].ref = q.ref
        /\ requests'[r].due = q.due /\ requests'[r].grant = q.grant
        /\ \A s \in Request \ {r} : requests'[s] = requests[s]
    BY <1>3, WentTo
  <2>3. RequestSound(r)'
    BY <1>1, <2>1, <2>2 DEF RequestSound, Named
  <2> QED
    BY <1>1, <2>2, <2>3, RequestStep DEF Moves
<1>4. CASE ReadRevoke(r) /\ ~Answer(r)
  <2> DEFINE new == [q EXCEPT !.pc = "write", !.at = now, !.pending = agents[q.caller].pending]
  <2>1. /\ q.op = "revoke" /\ agents[q.caller].registered /\ q.caller \in Did
        /\ requests' = [requests EXCEPT ![r].pc = "write", ![r].at = now,
                                        ![r].pending = agents[q.caller].pending]
    BY <1>1, <1>4 DEF ReadRevoke, RequestSound
  <2>2. agents[q.caller].pending \in Successions /\ now \in Int
    BY <2>1, WorkerAgentsAssumption DEF Inv, TypeOK, WorkerAgentsAssumption
  <2>3. /\ requests' \in [Request -> InFlight] /\ requests'[r].pc = "write"
        /\ requests'[r].op = q.op /\ requests'[r].caller = q.caller /\ requests'[r].ref = q.ref
        /\ requests'[r].due = q.due /\ requests'[r].grant = q.grant
        /\ \A s \in Request \ {r} : requests'[s] = requests[s]
    <3>1. \A s \in Request \ {r} : requests'[s] = requests[s]
      BY <2>1 DEF Inv
    <3>2. requests'[r] = new
      BY <2>1 DEF Inv
    <3>3. new \in InFlight
      BY <1>1, <2>2 DEF InFlight
    <3>4. requests' \in [Request -> InFlight]
      BY <2>1, <3>1, <3>2, <3>3 DEF Inv
    <3> QED
      BY <3>1, <3>2, <3>4, <1>1 DEF InFlight
  <2>4. RequestSound(r)'
    BY <1>1, <2>1, <2>3 DEF RequestSound, Named
  <2> QED
    BY <1>1, <2>3, <2>4, RequestStep DEF Moves
<1>5. CASE ReadSuccessor(r) /\ ~Answer(r)
  <2>1. q.op = "requestSuccession" /\ agents[q.caller].registered /\ Goto(r, "readPending")
    BY <1>5 DEF ReadSuccessor
  <2>2. /\ requests' \in [Request -> InFlight] /\ requests'[r].pc = "readPending"
        /\ requests'[r].op = q.op /\ requests'[r].caller = q.caller /\ requests'[r].ref = q.ref
        /\ requests'[r].due = q.due /\ requests'[r].grant = q.grant
        /\ \A s \in Request \ {r} : requests'[s] = requests[s]
    BY <2>1, WentTo
  <2>3. RequestSound(r)'
    BY <1>1, <2>1, <2>2 DEF RequestSound, Named
  <2> QED
    BY <1>1, <2>2, <2>3, RequestStep DEF Moves
<1>6. CASE ReadPendingSuccessor(r) /\ ~Answer(r)
  <2> DEFINE later == [successor |-> q.ref, effectiveAt |-> now + SuccessionWindow]
             new == [q EXCEPT !.pc = "write", !.pending = later]
  <2>1. /\ q.op = "requestSuccession" /\ agents[q.caller].registered /\ q.ref \in Did
        /\ requests' = [requests EXCEPT ![r].pc = "write", ![r].pending = later]
    BY <1>1, <1>6 DEF ReadPendingSuccessor, RequestSound
  <2>2. later \in Successions /\ Named(later)
    BY <2>1, WorkerAgentsAssumption
       DEF Inv, TypeOK, WorkerAgentsAssumption, Successions, Named
  <2> HIDE DEF later
  <2>3. /\ requests' \in [Request -> InFlight] /\ requests'[r].pc = "write"
        /\ requests'[r].op = q.op /\ requests'[r].caller = q.caller /\ requests'[r].ref = q.ref
        /\ requests'[r].due = q.due /\ requests'[r].grant = q.grant
        /\ requests'[r].pending = later
        /\ \A s \in Request \ {r} : requests'[s] = requests[s]
    <3>1. \A s \in Request \ {r} : requests'[s] = requests[s]
      BY <2>1 DEF Inv
    <3>2. requests'[r] = new
      BY <2>1 DEF Inv
    <3>3. new \in InFlight
      BY <1>1, <2>2 DEF InFlight
    <3>4. requests' \in [Request -> InFlight]
      BY <2>1, <3>1, <3>2, <3>3 DEF Inv
    <3> QED
      BY <3>1, <3>2, <3>4, <1>1 DEF InFlight
  <2>4. RequestSound(r)'
    BY <1>1, <2>1, <2>2, <2>3 DEF RequestSound, Named
  <2> QED
    BY <1>1, <2>3, <2>4, RequestStep DEF Moves
<1> QED
  BY <1>2, <1>3, <1>4, <1>5, <1>6 DEF Read, ReadRegister, ReadSetVerifierStatus

-----------------------------------------------------------------------------
(* The activation of what is due. *)

\* What one request takes up, it takes from what it found due.
LEMMA TakenUp ==
    ASSUME Inv, NEW r \in Request, requests[r].pc = "activate", NEW d \in requests[r].due,
           NEW label \in {"activate", "reread", "abandon", "logSucceeded"},
           requests' = [requests EXCEPT ![r].due = @ \ {d}, ![r].item = d, ![r].pc = label],
           label = "logSucceeded" => agents'[d.id].succeededBy = d.pending.successor
    PROVE  Moves(r) /\ requests'[r].pc = label /\ requests'[r].item = d
<1>1. RequestSound(r) /\ requests[r] \in InFlight
  BY DEF Inv
<1>2. d \in [id : Did, pending : Successions] /\ d \in Item /\ Named(d.pending)
  BY <1>1 DEF InFlight, Item, RequestSound
<1>3. /\ requests' \in [Request -> InFlight] /\ requests'[r].pc = label
      /\ requests'[r].op = requests[r].op /\ requests'[r].caller = requests[r].caller
      /\ requests'[r].ref = requests[r].ref /\ requests'[r].grant = requests[r].grant
      /\ requests'[r].due \subseteq requests[r].due /\ requests'[r].item = d
      /\ \A s \in Request \ {r} : requests'[s] = requests[s]
  <2> DEFINE new == [requests[r] EXCEPT !.due = @ \ {d}, !.item = d, !.pc = label]
  <2>1. \A s \in Request \ {r} : requests'[s] = requests[s]
    BY DEF Inv
  <2>2. requests'[r] = new
    BY DEF Inv
  <2>3. new \in InFlight
    BY <1>1, <1>2 DEF InFlight
  <2>4. requests' \in [Request -> InFlight]
    BY <2>1, <2>2, <2>3 DEF Inv
  <2> QED
    BY <1>1, <2>1, <2>2, <2>4 DEF InFlight
<1>4. RequestSound(r)'
  BY <1>1, <1>2, <1>3 DEF RequestSound, Named
<1> QED
  BY <1>3, <1>4 DEF Moves

LEMMA ActivateSuccessionStep ==
    ASSUME Inv, NEW r \in Request, ActivateSuccession(r)
    PROVE  Inv' /\ Settled
<1>1. requests[r].pc = "activate" /\ UNCHANGED <<now, log>> /\ RequestSound(r) /\ requests[r] \in InFlight
  BY DEF ActivateSuccession, Inv
<1>2. PICK d \in requests[r].due :
        LET s == d.pending.successor
            applies == agents[d.id].pending = d.pending /\ ~agents[d.id].revoked
            next(label) == requests' = [requests EXCEPT ![r].due = @ \ {d},
                                                        ![r].item = d, ![r].pc = label]
        IN
        \/ /\ applies /\ SuccessorFree(s)
           /\ agents' = [agents EXCEPT
                    ![d.id].succeededBy = s, ![d.id].pending = NoSuccession,
                    ![s] = IF agents[s].registered THEN @ ELSE NewAgent(d.id)]
           /\ next(AfterActivation("activated"))
        \/ /\ applies \/ agents[d.id].succeededBy = s
           /\ ~SuccessorFree(s)
           /\ UNCHANGED agents
           /\ next("reread")
        \/ /\ ~applies /\ agents[d.id].succeededBy # s
           /\ UNCHANGED agents
           /\ next(AfterActivation("lost"))
  BY DEF ActivateSuccession
<1> DEFINE p == d.id
           s == d.pending.successor
           next(label) == requests' = [requests EXCEPT ![r].due = @ \ {d},
                                                       ![r].item = d, ![r].pc = label]
<1>3. p \in Did /\ s \in Did /\ d.pending \in Successions
  BY <1>1 DEF RequestSound, Named, InFlight
<1>4. CASE UNCHANGED agents /\ (next("reread") \/ next("activate"))
  <2>1. Moves(r) /\ requests'[r].pc # "logSucceeded"
    BY <1>1, <1>4, TakenUp
  <2> QED
    BY <1>1, <1>4, <2>1, RequestStep
<1>5. CASE /\ agents[p].pending = d.pending /\ ~agents[p].revoked /\ ~agents[s].registered
           /\ agents' = [agents EXCEPT
                    ![p].succeededBy = s, ![p].pending = NoSuccession,
                    ![s] = IF agents[s].registered THEN @ ELSE NewAgent(p)]
           /\ next("logSucceeded")
  <2>1. HasPending(p) /\ agents[p].registered /\ ~Retired(p) /\ p # s
    BY <1>3, <1>5, EmptyTypes DEF HasPending, Inv, LineageLogged, LineageSound
  <2>2. /\ agents' \in Rows
        /\ agents'[p].registered /\ ~agents'[p].revoked /\ agents'[p].succeededBy = s
        /\ agents'[p].verifier = agents[p].verifier /\ agents'[p].pending = NoSuccession
        /\ agents'[p].predecessor = agents[p].predecessor
        /\ agents'[s] = NewAgent(p)
        /\ \A x \in Did \ {p, s} : agents'[x] = agents[x]
    BY <1>3, <1>5, <2>1, EmptyTypes, NewAgentFields DEF Inv, TypeOK, Rows, Retired
  <2>3. ~agents[s].revoked /\ ~agents[s].verifier /\ agents[s].succeededBy = None
    BY <1>3, <1>5 DEF Inv, RowsSound
  <2>4. /\ agents'[s].registered /\ ~agents'[s].revoked /\ ~agents'[s].verifier
        /\ agents'[s].succeededBy = None /\ agents'[s].predecessor = p
        /\ agents'[s].pending = NoSuccession
    BY <1>3, <2>2, NewAgentFields
  <2>5. Settled
    BY <2>1, <2>2, <2>3, <2>4 DEF Settled, Retired
  <2>6. Moves(r) /\ requests'[r].pc = "logSucceeded" /\ requests'[r].item = d
    BY <1>1, <1>5, <2>2, TakenUp
  <2>7. TypeOK'
    BY <1>1, <2>2, <2>6, TypesKept DEF Inv, TypeOK, Moves
  <2>8. RowsSound'
    <3>1. ASSUME NEW x \in Did, x \notin {p, s}
          PROVE  /\ ~agents'[x].registered =>
                        ~agents'[x].revoked /\ ~agents'[x].verifier /\ agents'[x].succeededBy = None
                 /\ agents'[x].succeededBy # None => agents'[agents'[x].succeededBy].registered
      <4>1. agents'[x] = agents[x]
        BY <2>2, <3>1
      <4>2. agents[x].succeededBy # None =>
                agents[x].succeededBy \in Did /\ agents[agents[x].succeededBy].registered
        BY <3>1 DEF Inv, RowsSound, TypeOK
      <4> QED
        BY <2>5, <3>1, <4>1, <4>2 DEF Inv, RowsSound, Settled
    <3>2. /\ agents'[p].registered /\ agents'[agents'[p].succeededBy].registered
          /\ agents'[s].registered /\ agents'[s].succeededBy = None
      BY <2>2, <2>4
    <3> QED
      BY <3>1, <3>2 DEF RowsSound
  <2>9. LineageSound'
    <3>1. ASSUME NEW x \in Did, agents'[x].succeededBy # None
          PROVE  agents'[agents'[x].succeededBy].predecessor = x
      <4>1. CASE x = p
        BY <2>2, <2>4, <4>1
      <4>2. CASE x # p
        <5>1. x # s /\ agents'[x] = agents[x]
          BY <2>2, <2>4, <3>1, <4>2
        <5>2. /\ agents[agents[x].succeededBy].registered
              /\ agents[agents[x].succeededBy].predecessor = x
              /\ agents[x].succeededBy \in Did
          BY <3>1, <5>1 DEF Inv, RowsSound, LineageLogged, LineageSound, TypeOK
        <5>3. agents[x].succeededBy # s
          BY <1>5, <5>2
        <5> QED
          BY <2>2, <5>1, <5>2, <5>3
      <4> QED
        BY <4>1, <4>2
    <3>2. ASSUME NEW x \in Did, agents'[x].pending.successor # None
          PROVE  /\ agents'[x].registered /\ ~agents'[x].revoked
                 /\ agents'[x].succeededBy = None
      BY <2>2, <2>4, <3>2, EmptyTypes
         DEF Inv, LineageLogged, LineageSound, HasPending, Retired
    <3> QED
      BY <3>1, <3>2 DEF LineageSound, HasPending, Retired
  <2>10. \A q \in Request : RequestSound(q)'
    BY <2>5, <2>6, OthersSound DEF Moves
  <2>11. LoggingSuccession(p) = {}
    BY <1>3, <2>1, EmptyTypes DEF LoggingSuccession, Retired, Inv, RequestSound, Named
  <2>12. OneLogs'
    BY <2>6, <2>11 DEF OneLogs, LoggingSuccession, Moves, Inv
  <2>13. SucceededLogged'
    <3> SUFFICES ASSUME NEW x \in Did, NEW y \in Did
                 PROVE  Count("agent_succeeded", x, y)'
                          = IF agents'[x].succeededBy = y /\ LoggingSuccession(x)' = {}
                            THEN 1 ELSE 0
      BY DEF SucceededLogged
    <3>1. /\ Count("agent_succeeded", x, y)' = Count("agent_succeeded", x, y)
          /\ Count("agent_succeeded", x, y)
               = IF agents[x].succeededBy = y /\ LoggingSuccession(x) = {} THEN 1 ELSE 0
      BY <1>1 DEF Count, Inv, LineageLogged, SucceededLogged
    <3>2. CASE x = p
      <4>1. r \in LoggingSuccession(x)'
        BY <2>6, <3>2 DEF LoggingSuccession
      <4>2. agents[x].succeededBy # y
        BY <2>1, <3>2, EmptyTypes DEF Retired
      <4> QED
        BY <3>1, <4>1, <4>2
    <3>3. CASE x # p
      <4>1. LoggingSuccession(x)' = LoggingSuccession(x)
        BY <1>1, <2>6, <3>3 DEF LoggingSuccession, Moves
      <4>2. agents'[x].succeededBy = agents[x].succeededBy
        BY <2>2, <2>3, <2>4, <3>3
      <4> QED
        BY <3>1, <4>1, <4>2
    <3> QED
      BY <3>2, <3>3
  <2>14. GrantIsLogged'
    <3>1. \A x \in Did : agents'[x].verifier => agents[x].verifier
      BY <2>2, <2>4
    <3>2. \A x \in Did : Logged("verifier_status_changed", x, "authorized")'
                           <=> Logged("verifier_status_changed", x, "authorized")
      BY <1>1 DEF Logged
    <3> QED
      BY <1>1, <2>6, <3>1, <3>2 DEF GrantIsLogged, Inv, LineageLogged, Moves
  <2> QED
    BY <1>1, <2>5, <2>6, <2>7, <2>8, <2>9, <2>10, <2>12, <2>13, <2>14
       DEF Inv, LineageLogged, Moves
<1> QED
  BY <1>2, <1>4, <1>5 DEF SuccessorFree, AfterActivation

LEMMA RereadStep ==
    ASSUME Inv, NEW r \in Request, RereadPredecessor(r)
    PROVE  Inv' /\ Settled
<1>1. /\ requests[r].pc = "reread" /\ UNCHANGED <<now, agents, log>> /\ RequestSound(r)
  BY DEF RereadPredecessor, Keep, Inv
<1>2. PICK label \in {"activate", "abandon"} : Goto(r, label)
  BY DEF RereadPredecessor, AfterActivation
<1>3. /\ requests' \in [Request -> InFlight] /\ requests'[r].pc = label
      /\ requests'[r].op = requests[r].op /\ requests'[r].caller = requests[r].caller
      /\ requests'[r].ref = requests[r].ref /\ requests'[r].due = requests[r].due
      /\ requests'[r].item = requests[r].item /\ requests'[r].grant = requests[r].grant
      /\ \A s \in Request \ {r} : requests'[s] = requests[s]
  BY <1>2, WentTo
<1>4. RequestSound(r)'
  BY <1>1, <1>3 DEF RequestSound, Named
<1> QED
  BY <1>1, <1>3, <1>4, RequestStep DEF Moves

\* A row's pending succession is cleared and nothing else is written.
LEMMA PendingCleared ==
    ASSUME agents \in Rows, NEW p, agents' = [agents EXCEPT ![p].pending = NoSuccession]
    PROVE  /\ agents' \in Rows
           /\ \A a \in Did : /\ agents'[a].registered = agents[a].registered
                             /\ agents'[a].revoked = agents[a].revoked
                             /\ agents'[a].verifier = agents[a].verifier
                             /\ agents'[a].succeededBy = agents[a].succeededBy
                             /\ agents'[a].predecessor = agents[a].predecessor
                             /\ a # p => agents'[a].pending = agents[a].pending
                             /\ agents'[a].pending \in {agents[a].pending, NoSuccession}
                             /\ a = p => agents'[a].pending = NoSuccession
<1> DEFINE Row == [registered : BOOLEAN, revoked : BOOLEAN, verifier : BOOLEAN,
                   succeededBy : Did \cup {None}, predecessor : Did \cup {None},
                   pending : Successions]
<1>1. agents \in [Did -> Row] /\ NoSuccession \in Successions
  BY EmptyTypes DEF Rows
<1>2. agents' = [a \in Did |-> IF a = p THEN [agents[a] EXCEPT !.pending = NoSuccession]
                               ELSE agents[a]]
  BY <1>1
<1>3. ASSUME NEW a \in Did
      PROVE  /\ agents'[a] \in Row
             /\ agents'[a].registered = agents[a].registered
             /\ agents'[a].revoked = agents[a].revoked
             /\ agents'[a].verifier = agents[a].verifier
             /\ agents'[a].succeededBy = agents[a].succeededBy
             /\ agents'[a].predecessor = agents[a].predecessor
             /\ a # p => agents'[a].pending = agents[a].pending
             /\ agents'[a].pending \in {agents[a].pending, NoSuccession}
             /\ a = p => agents'[a].pending = NoSuccession
  <2>1. agents[a] \in Row
    BY <1>1
  <2>2. agents'[a] = IF a = p THEN [agents[a] EXCEPT !.pending = NoSuccession] ELSE agents[a]
    BY <1>2
  <2>3. CASE a = p
    BY <1>1, <2>1, <2>2, <2>3
  <2>4. CASE a # p
    BY <2>1, <2>2, <2>4
  <2> QED
    BY <2>3, <2>4
<1>4. agents' \in [Did -> Row]
  <2> HIDE DEF Row
  <2> QED
    BY <1>2, <1>3
<1> QED
  BY <1>3, <1>4 DEF Rows

LEMMA AbandonStep ==
    ASSUME Inv, NEW r \in Request, AbandonSuccession(r)
    PROVE  Inv' /\ Settled
<1>1. /\ requests[r].pc = "abandon" /\ UNCHANGED <<now, log>> /\ RequestSound(r)
  BY DEF AbandonSuccession, Inv
<1>2. PICK label \in {"activate", "logAbandoned"} : Goto(r, label)
  BY DEF AbandonSuccession
<1>3. /\ requests' \in [Request -> InFlight] /\ requests'[r].pc = label
      /\ requests'[r].op = requests[r].op /\ requests'[r].caller = requests[r].caller
      /\ requests'[r].ref = requests[r].ref /\ requests'[r].due = requests[r].due
      /\ requests'[r].item = requests[r].item /\ requests'[r].grant = requests[r].grant
      /\ \A s \in Request \ {r} : requests'[s] = requests[s]
  BY <1>2, WentTo
<1>4. RequestSound(r)'
  BY <1>1, <1>3 DEF RequestSound, Named
<1>5. /\ agents' \in Rows
      /\ \A a \in Did : /\ agents'[a].registered = agents[a].registered
                        /\ agents'[a].revoked = agents[a].revoked
                        /\ agents'[a].verifier = agents[a].verifier
                        /\ agents'[a].succeededBy = agents[a].succeededBy
                        /\ agents'[a].predecessor = agents[a].predecessor
                        /\ agents'[a].pending \in {agents[a].pending, NoSuccession}
  <2>1. agents \in Rows
    BY DEF Inv, TypeOK, Rows
  <2>2. \/ agents' = [agents EXCEPT ![requests[r].item.id].pending = NoSuccession]
        \/ agents' = agents
    BY DEF AbandonSuccession
  <2>3. CASE agents' = [agents EXCEPT ![requests[r].item.id].pending = NoSuccession]
    BY <2>1, <2>3, PendingCleared
  <2>4. CASE agents' = agents
    BY <2>1, <2>4
  <2> QED
    BY <2>2, <2>3, <2>4
<1>6. Settled
  BY <1>5 DEF Settled, Retired
<1>7. RowsSound'
  BY <1>5 DEF Inv, RowsSound, TypeOK
<1>8. LineageSound'
  BY <1>5, EmptyTypes DEF Inv, LineageLogged, LineageSound, HasPending, Retired, TypeOK
<1> QED
  BY <1>1, <1>3, <1>4, <1>5, <1>6, <1>7, <1>8, TableStep DEF Moves

-----------------------------------------------------------------------------
(* The statements that the handlers write with. *)

LEMMA InsertAgentStep ==
    ASSUME Inv, NEW r \in Request, InsertAgent(r)
    PROVE  Inv' /\ Settled
<1> DEFINE c == requests[r].caller
<1>1. /\ requests[r].pc = "write" /\ UNCHANGED <<now, log>> /\ c \in Did /\ Answer(r)
      /\ agents' = IF agents[c].registered THEN agents
                   ELSE [agents EXCEPT ![c] = NewAgent(None)]
  BY DEF InsertAgent, Inv, RequestSound
<1>2. Moves(r) /\ requests'[r].pc = "idle"
  BY <1>1, Answered
<1>3. CASE agents[c].registered
  BY <1>1, <1>2, <1>3, RequestStep
<1>4. CASE ~agents[c].registered
  <2>1. /\ agents' \in Rows
        /\ \A a \in Did \ {c} : agents'[a] = agents[a]
        /\ agents'[c].registered /\ ~agents'[c].revoked /\ ~agents'[c].verifier
        /\ agents'[c].succeededBy = None /\ agents'[c].pending = NoSuccession
    BY <1>1, <1>4, NewAgentFields DEF Inv, TypeOK, Rows
  <2>2. ~agents[c].revoked /\ ~agents[c].verifier /\ agents[c].succeededBy = None
    BY <1>1, <1>4 DEF Inv, RowsSound
  <2>3. Settled
    BY <1>4, <2>1, <2>2 DEF Settled, Retired
  <2>4. \A a \in Did : /\ agents'[a].succeededBy = agents[a].succeededBy
                       /\ agents'[a].verifier => agents[a].verifier
    BY <2>1, <2>2
  <2>5. RowsSound'
    BY <2>1, <2>2, <2>3, <2>4 DEF Inv, RowsSound, Settled, TypeOK
  <2>6. LineageSound'
    <3>1. ASSUME NEW a \in Did, agents'[a].succeededBy # None
          PROVE  agents'[agents'[a].succeededBy].predecessor = a
      <4>1. /\ agents[agents[a].succeededBy].predecessor = a
            /\ agents[agents[a].succeededBy].registered
            /\ agents[a].succeededBy \in Did
        BY <2>4, <3>1 DEF Inv, LineageLogged, LineageSound, RowsSound, TypeOK
      <4> QED
        BY <1>4, <2>1, <2>4, <4>1
    <3>2. ASSUME NEW a \in Did, HasPending(a)'
          PROVE  agents'[a].registered /\ ~Retired(a)'
      <4>1. a # c /\ agents'[a] = agents[a]
        BY <2>1, <3>2, EmptyTypes DEF HasPending
      <4> QED
        BY <3>2, <4>1 DEF Inv, LineageLogged, LineageSound, HasPending, Retired
    <3> QED
      BY <3>1, <3>2 DEF LineageSound
  <2> QED
    BY <1>1, <1>2, <2>1, <2>3, <2>4, <2>5, <2>6, TableStep
<1> QED
  BY <1>3, <1>4

LEMMA VerifierStep ==
    ASSUME Inv, NEW r \in Request, UpdateAgentVerifierStatus(r)
    PROVE  Inv' /\ Settled
<1> DEFINE q == requests[r]
<1>1. /\ q.pc = "write" /\ q.op = "setVerifierStatus" /\ UNCHANGED <<now, log>>
      /\ q.ref \in Did /\ agents[q.ref].registered /\ q.grant \in BOOLEAN /\ RequestSound(r)
      /\ agents' = [agents EXCEPT ![q.ref].verifier = q.grant]
      /\ Goto(r, "log")
  BY DEF UpdateAgentVerifierStatus, Inv, RequestSound, InFlight
<1>2. /\ requests' \in [Request -> InFlight] /\ requests'[r].pc = "log"
      /\ requests'[r].op = q.op /\ requests'[r].caller = q.caller
      /\ requests'[r].ref = q.ref /\ requests'[r].due = q.due
      /\ requests'[r].item = q.item /\ requests'[r].grant = q.grant
      /\ \A s \in Request \ {r} : requests'[s] = requests[s]
  BY <1>1, WentTo
<1>3. RequestSound(r)'
  BY <1>1, <1>2 DEF RequestSound, Named
<1>4. /\ agents' \in Rows
      /\ \A a \in Did : /\ agents'[a].registered = agents[a].registered
                        /\ agents'[a].revoked = agents[a].revoked
                        /\ agents'[a].verifier = IF a = q.ref THEN q.grant ELSE agents[a].verifier
                        /\ agents'[a].succeededBy = agents[a].succeededBy
                        /\ agents'[a].predecessor = agents[a].predecessor
                        /\ agents'[a].pending = agents[a].pending
  BY <1>1 DEF Inv, TypeOK, Rows
<1>5. Settled
  BY <1>4 DEF Settled, Retired
<1>6. RowsSound'
  <2>1. ASSUME NEW a \in Did
        PROVE  ~agents'[a].registered => ~agents'[a].verifier
    BY <1>1, <1>4, <2>1 DEF Inv, RowsSound
  <2>2. ASSUME NEW a \in Did
        PROVE  /\ ~agents'[a].registered => ~agents'[a].revoked /\ agents'[a].succeededBy = None
               /\ agents'[a].succeededBy # None => agents'[agents'[a].succeededBy].registered
    BY <1>4, <2>2 DEF Inv, RowsSound, TypeOK
  <2> QED
    BY <2>1, <2>2 DEF RowsSound
<1>7. LineageSound'
  BY <1>4 DEF Inv, LineageLogged, LineageSound, HasPending, Retired, TypeOK
<1> QED
  BY ZenonT(60), <1>1, <1>2, <1>3, <1>4, <1>5, <1>6, <1>7, TableStep DEF Moves

LEMMA RevokeStep ==
    ASSUME Inv, NEW r \in Request, RevokeAgentIfActive(r)
    PROVE  Inv' /\ Settled
<1> DEFINE q == requests[r]
<1>1. /\ q.pc = "write" /\ q.op = "revoke" /\ UNCHANGED <<now, log>>
      /\ q.caller \in Did /\ agents[q.caller].registered /\ RequestSound(r)
  BY DEF RevokeAgentIfActive, Inv, RequestSound
<1>2. Moves(r) /\ requests'[r].pc \in {"idle", "log"} /\ (requests'[r].pc = "log" => ~requests'[r].grant)
  <2>1. CASE Answer(r)
    BY <2>1, Answered
  <2>2. CASE Goto(r, "log")
    <3>1. /\ requests' \in [Request -> InFlight] /\ requests'[r].pc = "log"
          /\ requests'[r].op = q.op /\ requests'[r].caller = q.caller
          /\ requests'[r].ref = q.ref /\ requests'[r].due = q.due
          /\ requests'[r].item = q.item /\ requests'[r].grant = q.grant
          /\ \A s \in Request \ {r} : requests'[s] = requests[s]
      BY <2>2, WentTo
    <3>2. RequestSound(r)' /\ ~requests'[r].grant
      BY <1>1, <3>1 DEF RequestSound, Named
    <3> QED
      BY <3>1, <3>2 DEF Moves
  <2> QED
    BY <2>1, <2>2 DEF RevokeAgentIfActive
<1>3. CASE ~Revocable(q.caller, q.at)
  <2>1. UNCHANGED agents
    BY <1>3 DEF RevokeAgentIfActive
  <2> QED
    BY <1>1, <1>2, <2>1, RequestStep
<1>4. CASE Revocable(q.caller, q.at)
  <2>1. agents' = [agents EXCEPT ![q.caller].revoked = TRUE, ![q.caller].pending = NoSuccession]
    BY <1>4 DEF RevokeAgentIfActive
  <2>2. /\ agents' \in Rows
        /\ \A a \in Did : /\ agents'[a].registered = agents[a].registered
                          /\ a # q.caller => agents'[a].revoked = agents[a].revoked
                          /\ agents'[a].verifier = agents[a].verifier
                          /\ agents'[a].succeededBy = agents[a].succeededBy
                          /\ agents'[a].predecessor = agents[a].predecessor
                          /\ a # q.caller => agents'[a].pending = agents[a].pending
        /\ agents'[q.caller].pending = NoSuccession
    <3>1. agents \in Rows
      BY DEF Inv, TypeOK, Rows
    <3>2. agents[q.caller] \in [registered : BOOLEAN, revoked : BOOLEAN, verifier : BOOLEAN,
                                succeededBy : Did \cup {None}, predecessor : Did \cup {None},
                                pending : Successions]
      BY <1>1, <3>1 DEF Rows
    <3>3. PICK row : row = [agents[q.caller] EXCEPT !.revoked = TRUE, !.pending = NoSuccession]
      OBVIOUS
    <3>4. /\ row \in [registered : BOOLEAN, revoked : BOOLEAN, verifier : BOOLEAN,
                     succeededBy : Did \cup {None}, predecessor : Did \cup {None},
                     pending : Successions]
          /\ row.registered = agents[q.caller].registered
          /\ row.verifier = agents[q.caller].verifier
          /\ row.succeededBy = agents[q.caller].succeededBy
          /\ row.predecessor = agents[q.caller].predecessor
          /\ row.pending = NoSuccession
      BY <3>2, <3>3, EmptyTypes
    <3>5. agents' = [agents EXCEPT ![q.caller] = row]
      BY <1>1, <2>1, <3>1, <3>3 DEF Rows
    <3> HIDE DEF q
    <3> QED
      BY <1>1, <3>1, <3>4, <3>5 DEF Rows
  <2>3. ~Retired(q.caller)
    BY <1>4 DEF Revocable
  <2>4. Settled
    BY <1>1, <2>2, <2>3 DEF Settled, Retired
  <2>5. RowsSound'
    BY <1>1, <2>2 DEF Inv, RowsSound, TypeOK
  <2>6. LineageSound'
    BY <1>1, <2>2, EmptyTypes DEF Inv, LineageLogged, LineageSound, HasPending, Retired, TypeOK
  <2> QED
    BY <1>1, <1>2, <2>2, <2>4, <2>5, <2>6, TableStep
<1> QED
  BY <1>3, <1>4

LEMMA RequestSuccessionStep ==
    ASSUME Inv, NEW r \in Request, RequestSuccessionIfIdle(r)
    PROVE  Inv' /\ Settled
<1> DEFINE q == requests[r]
<1>1. /\ q.pc = "write" /\ q.op = "requestSuccession" /\ UNCHANGED <<now, log>>
      /\ q.caller \in Did /\ agents[q.caller].registered /\ RequestSound(r)
      /\ q.pending \in Successions
  BY DEF RequestSuccessionIfIdle, Inv, RequestSound, InFlight
<1>2. Moves(r) /\ requests'[r].pc \in {"idle", "log"}
  <2>1. CASE Answer(r)
    BY <2>1, Answered
  <2>2. CASE Goto(r, "log")
    <3>1. /\ requests' \in [Request -> InFlight] /\ requests'[r].pc = "log"
          /\ requests'[r].op = q.op /\ requests'[r].caller = q.caller
          /\ requests'[r].ref = q.ref /\ requests'[r].due = q.due
          /\ requests'[r].item = q.item /\ requests'[r].grant = q.grant
          /\ \A s \in Request \ {r} : requests'[s] = requests[s]
      BY <2>2, WentTo
    <3>2. RequestSound(r)'
      BY <1>1, <3>1 DEF RequestSound, Named
    <3> QED
      BY <3>1, <3>2 DEF Moves
  <2> QED
    BY <2>1, <2>2 DEF RequestSuccessionIfIdle
<1>3. CASE UNCHANGED agents
  BY <1>1, <1>2, <1>3, RequestStep
<1>4. CASE /\ ~HasPending(q.caller) /\ ~Retired(q.caller)
           /\ agents' = [agents EXCEPT ![q.caller].pending = q.pending]
  <2>1. /\ agents' \in Rows
        /\ \A a \in Did : /\ agents'[a].registered = agents[a].registered
                          /\ agents'[a].revoked = agents[a].revoked
                          /\ agents'[a].verifier = agents[a].verifier
                          /\ agents'[a].succeededBy = agents[a].succeededBy
                          /\ agents'[a].predecessor = agents[a].predecessor
                          /\ a # q.caller => agents'[a].pending = agents[a].pending
    BY <1>1, <1>4 DEF Inv, TypeOK, Rows
  <2>2. Settled
    BY <2>1 DEF Settled, Retired
  <2>3. RowsSound'
    BY <2>1 DEF Inv, RowsSound, TypeOK
  <2>4. LineageSound'
    BY <1>1, <1>4, <2>1 DEF Inv, LineageLogged, LineageSound, HasPending, Retired, TypeOK
  <2> QED
    BY <1>1, <1>2, <2>1, <2>2, <2>3, <2>4, TableStep
<1> QED
  BY <1>3, <1>4 DEF RequestSuccessionIfIdle

-----------------------------------------------------------------------------
(* Appending to the log. *)

\* What appending a leaf owes the counts and the grants.
LEMMA LogStep ==
    ASSUME Inv, NEW r \in Request, Moves(r), UNCHANGED <<now, agents>>,
           NEW e \in Entry, log' = Append(log, e),
           requests'[r].pc \in {"idle", "activate"},
           \A p, s \in Did :
             IF e = Leaf("agent_succeeded", p, s)
             THEN r \in LoggingSuccession(p) /\ agents[p].succeededBy = s
             ELSE r \in LoggingSuccession(p) => agents[p].succeededBy # s,
           requests[r].pc = "log" /\ requests[r].grant =>
                e = Leaf("verifier_status_changed", requests[r].ref, "authorized")
    PROVE  Inv' /\ Settled
<1>1. Settled
  BY DEF Settled
<1>2. agents' \in Rows
  BY DEF Inv, TypeOK, Rows
<1>3. TypeOK'
  BY <1>2, TypesKept DEF Inv, TypeOK, Moves
<1>4. RowsSound' /\ LineageSound'
  BY DEF Inv, LineageLogged, RowsSound, LineageSound, HasPending, Retired
<1>5. \A s \in Request : RequestSound(s)'
  BY <1>1, OthersSound DEF Moves
<1>6. OneLogs'
  BY DEF Inv, OneLogs, Moves
<1>7. log' \in Seq(Entry)
  BY DEF Inv
<1>8. SucceededLogged'
  <2> SUFFICES ASSUME NEW p \in Did, NEW s \in Did
               PROVE  Count("agent_succeeded", p, s)'
                        = IF agents[p].succeededBy = s /\ LoggingSuccession(p)' = {}
                          THEN 1 ELSE 0
    BY DEF SucceededLogged
  <2>1. LoggingSuccession(p)' = LoggingSuccession(p) \ {r}
    BY DEF LoggingSuccession, Moves
  <2>2. Count("agent_succeeded", p, s)
          = IF agents[p].succeededBy = s /\ LoggingSuccession(p) = {} THEN 1 ELSE 0
    BY DEF Inv, LineageLogged, SucceededLogged
  <2>3. Count("agent_succeeded", p, s)'
          = IF e = Leaf("agent_succeeded", p, s)
            THEN Count("agent_succeeded", p, s) + 1 ELSE Count("agent_succeeded", p, s)
    BY CountAppended DEF Inv
  <2>4. r \in LoggingSuccession(p) => LoggingSuccession(p) = {r}
    BY DEF Inv, OneLogs, LoggingSuccession
  <2>5. CASE e = Leaf("agent_succeeded", p, s)
    BY <2>1, <2>2, <2>3, <2>4, <2>5
  <2>6. CASE e # Leaf("agent_succeeded", p, s)
    BY <2>1, <2>2, <2>3, <2>4, <2>6
  <2> QED
    BY <2>5, <2>6
<1>9. GrantIsLogged'
  <2> SUFFICES ASSUME NEW a \in Did, agents[a].verifier
               PROVE  \/ Logged("verifier_status_changed", a, "authorized")'
                      \/ \E s \in Request :
                            requests'[s].pc = "log" /\ requests'[s].ref = a /\ requests'[s].grant
    BY DEF GrantIsLogged
  <2>1. Logged("verifier_status_changed", a, "authorized")
          \/ e = Leaf("verifier_status_changed", a, "authorized")
        => Logged("verifier_status_changed", a, "authorized")'
    BY StillLogged DEF Inv
  <2>2. \/ Logged("verifier_status_changed", a, "authorized")
        \/ \E s \in Request : requests[s].pc = "log" /\ requests[s].ref = a /\ requests[s].grant
    BY DEF Inv, LineageLogged, GrantIsLogged
  <2> QED
    BY <2>1, <2>2 DEF Moves
<1> QED
  BY <1>1, <1>3, <1>4, <1>5, <1>6, <1>7, <1>8, <1>9 DEF Inv, LineageLogged, Moves

LEMMA LogActivationStep ==
    ASSUME Inv, NEW r \in Request, LogActivation(r)
    PROVE  Inv' /\ Settled
<1> DEFINE d == requests[r].item
<1>1. /\ requests[r].pc \in {"logSucceeded", "logAbandoned"} /\ UNCHANGED <<now, agents>>
      /\ RequestSound(r) /\ d.id \in Did /\ d.pending.successor \in Did /\ Goto(r, "activate")
  BY DEF LogActivation, Inv, RequestSound, Named
<1>2. /\ requests' \in [Request -> InFlight] /\ requests'[r].pc = "activate"
      /\ requests'[r].op = requests[r].op /\ requests'[r].caller = requests[r].caller
      /\ requests'[r].ref = requests[r].ref /\ requests'[r].due = requests[r].due
      /\ requests'[r].item = requests[r].item /\ requests'[r].grant = requests[r].grant
      /\ \A s \in Request \ {r} : requests'[s] = requests[s]
  BY <1>1, WentTo
<1>3. Moves(r)
  <2>1. RequestSound(r)'
    BY <1>1, <1>2 DEF RequestSound, Named
  <2> QED
    BY <1>2, <2>1 DEF Moves
<1>4. CASE requests[r].pc = "logSucceeded"
  <2> DEFINE e == Leaf("agent_succeeded", d.id, d.pending.successor)
  <2>1. log' = Append(log, e) /\ e \in Entry
    BY <1>1, <1>4 DEF LogActivation, AppendEntry, Entry, EntryType, Leaf
  <2>2. agents[d.id].succeededBy = d.pending.successor
    BY <1>1, <1>4 DEF RequestSound
  <2>3. ASSUME NEW p \in Did, NEW s \in Did
        PROVE  /\ e = Leaf("agent_succeeded", p, s) <=> p = d.id /\ s = d.pending.successor
               /\ r \in LoggingSuccession(p) <=> p = d.id
    BY <1>4 DEF Leaf, LoggingSuccession
  <2> HIDE DEF e
  <2> QED
    BY <1>1, <1>2, <1>3, <1>4, <2>1, <2>2, <2>3, LogStep
<1>5. CASE requests[r].pc = "logAbandoned"
  <2> DEFINE e == Leaf("agent_succession_cancelled", d.id, d.pending.successor)
  <2>1. log' = Append(log, e) /\ e \in Entry
    BY <1>1, <1>5 DEF LogActivation, AppendEntry, Entry, EntryType, Leaf
  <2>2. ASSUME NEW p \in Did, NEW s \in Did
        PROVE  e # Leaf("agent_succeeded", p, s) /\ r \notin LoggingSuccession(p)
    BY <1>5 DEF Leaf, LoggingSuccession
  <2> HIDE DEF e
  <2> QED
    BY <1>1, <1>2, <1>3, <1>5, <2>1, <2>2, LogStep
<1> QED
  BY <1>1, <1>4, <1>5

LEMMA LogHandlerStep ==
    ASSUME Inv, NEW r \in Request, LogHandler(r)
    PROVE  Inv' /\ Settled
<1> DEFINE q == requests[r]
<1>1. /\ q.pc = "log" /\ UNCHANGED <<now, agents>> /\ Answer(r) /\ RequestSound(r)
      /\ q \in InFlight /\ q.op # "get" /\ q.caller \in Did
      /\ q.pending.successor \in Did \cup {None}
  BY EmptyTypes DEF LogHandler, Inv, RequestSound, InFlight, Successions
<1>2. Moves(r) /\ requests'[r].pc = "idle"
  BY <1>1, Answered
<1>3. PICK e \in Entry :
        /\ log' = Append(log, e)
        /\ e.entryType # "agent_succeeded"
        /\ q.grant => e = Leaf("verifier_status_changed", q.ref, "authorized")
  <2>1. CASE q.op = "setVerifierStatus"
    <3> DEFINE e == Leaf("verifier_status_changed", q.ref,
                         IF q.grant THEN "authorized" ELSE "unauthorized")
    <3>1. q.ref \in Did
      BY <1>1, <2>1 DEF RequestSound
    <3>2. e \in Entry /\ e.entryType # "agent_succeeded" /\ log' = Append(log, e)
      BY <2>1, <3>1 DEF LogHandler, AppendEntry, Leaf, Entry, EntryType
    <3>3. q.grant => e = Leaf("verifier_status_changed", q.ref, "authorized")
      OBVIOUS
    <3> QED
      BY <3>2, <3>3
  <2>2. CASE q.op # "setVerifierStatus"
    <3>1. PICK t \in {"agent_succession_cancelled", "agent_succession_pending"} :
            AppendEntry(t, q.caller, q.pending.successor)
      BY <2>2 DEF LogHandler
    <3>2. ~q.grant
      BY <1>1, <2>2 DEF RequestSound
    <3> QED
      BY <1>1, <3>1, <3>2 DEF AppendEntry, Leaf, Entry, EntryType
  <2> QED
    BY <2>1, <2>2
<1>4. ASSUME NEW p \in Did, NEW s \in Did
      PROVE  e # Leaf("agent_succeeded", p, s) /\ r \notin LoggingSuccession(p)
  BY <1>1, <1>3 DEF Leaf, LoggingSuccession
<1> QED
  BY <1>1, <1>2, <1>3, <1>4, LogStep

-----------------------------------------------------------------------------
(* Every step, and the theorems. *)

LEMMA StandStill ==
    ASSUME Inv, UNCHANGED <<agents, log, requests>>, now' \in 0 .. MaxTime
    PROVE  Inv' /\ Settled
<1>1. Settled
  BY DEF Settled
<1>2. TypeOK'
  BY DEF Inv, TypeOK
<1>3. RowsSound' /\ LineageSound' /\ OneLogs'
  BY DEF Inv, LineageLogged, RowsSound, LineageSound, HasPending, Retired, OneLogs
<1>4. \A s \in Request : RequestSound(s)'
  BY <1>1, OthersSound
<1>5. SucceededLogged' /\ GrantIsLogged'
  BY DEF Inv, LineageLogged, SucceededLogged, GrantIsLogged, Count, Logged, LoggingSuccession
<1> QED
  BY <1>1, <1>2, <1>3, <1>4, <1>5 DEF Inv, LineageLogged

LEMMA NextInv == Inv /\ [Next]_vars => Inv' /\ Settled
<1> SUFFICES ASSUME Inv, [Next]_vars
             PROVE  Inv' /\ Settled
  OBVIOUS
<1>1. CASE Tick
  <2>1. now' \in 0 .. MaxTime
    BY <1>1, WorkerAgentsAssumption DEF Tick, Inv, TypeOK, WorkerAgentsAssumption
  <2> QED
    BY <1>1, <2>1, StandStill DEF Tick
<1>2. ASSUME NEW r \in Request, Arrive(r) \/ Authenticate(r) \/ Read(r)
      PROVE  Inv' /\ Settled
  BY <1>2, ArriveStep, AuthenticateStep, ReadStep
<1>3. ASSUME NEW r \in Request, Activate(r)
      PROVE  Inv' /\ Settled
  BY <1>3, ActivateSuccessionStep, RereadStep, AbandonStep, LogActivationStep DEF Activate
<1>4. ASSUME NEW r \in Request, Write(r)
      PROVE  Inv' /\ Settled
  BY <1>4, InsertAgentStep, VerifierStep, RevokeStep, RequestSuccessionStep, LogHandlerStep
     DEF Write
<1>5. CASE UNCHANGED vars
  BY <1>5, StandStill DEF vars, Inv, TypeOK
<1> QED
  BY <1>1, <1>2, <1>3, <1>4, <1>5 DEF Next

\* However the requests of any number of identities interleave: successors and
\* predecessors name each other, a pending succession is of an identity that
\* stands, every succession is logged once, by the request that activated it,
\* and no verifier is authorized without the log saying so or about to.
THEOREM LineageLoggedCorrect == Spec => []LineageLogged
<1>1. Inv /\ [Next]_vars => Inv'
  BY NextInv
<1> QED
  BY <1>1, InitInv, PTL DEF Spec, Inv

\* A revocation and a succession never both retire one identity later, and
\* what did retire it is neither undone nor replaced.
THEOREM RetiredForGoodCorrect == Spec => RetiredForGood
<1>1. Inv /\ [Next]_vars => Inv'
  BY NextInv
<1>2. Inv /\ [Next]_vars
        => [\A a \in Did : Retired(a) =>
              /\ agents'[a].revoked = agents[a].revoked
              /\ agents'[a].succeededBy = agents[a].succeededBy]_vars
  BY NextInv DEF Settled
<1> QED
  BY <1>1, <1>2, InitInv, PTL DEF Spec, RetiredForGood
=============================================================================
