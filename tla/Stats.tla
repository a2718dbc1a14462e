-------------------------------- MODULE Stats --------------------------------
(***************************************************************************)
(* The statistics of the whole registry (computeStats): four queries run   *)
(* at once and are answered in any order while agents, receipts and        *)
(* verdicts change; then the receipts are sorted by what the agents read   *)
(* say of their parties.  Left out: the log's counts by date, payments and *)
(* linked wallets, each read from one query.                               *)
(***************************************************************************)
EXTENDS FiniteSets, Naturals

CONSTANTS
    Did, Operator,      \* Operator: the published list, a subset of Did
    Verifier,           \* registered with a grant before the behaviour starts
    Receipt, None,
    PartiesOf,          \* the parties of each receipt
    LabelledTask,       \* receipts for demo.* or test.* capabilities
    MaxMoves            \* bound on the moves of the registry

VARIABLES
    agents,             \* registered agents: flagged (demo or test), authorized, retired
    receipts,           \* status of each receipt, None before it is drafted
    verifications,      \* rows <<verifier, receipt>> with result "verified"
    run,                \* queries still out and rows read, or None
    stood,              \* history: receipts with a standing verdict at some moment of it
    known,              \* history: agents registered when it began
    moves

vars == <<agents, receipts, verifications, run, stood, known, moves>>

registry == <<agents, receipts, verifications>>

Registered == DOMAIN agents
Set(x, row) == [y \in Registered \cup {x} |-> IF y = x THEN row ELSE agents[y]]

Init ==
    /\ agents = [x \in Verifier |-> [flagged |-> FALSE, authorized |-> TRUE, retired |-> FALSE]]
    /\ receipts = [r \in Receipt |-> None]
    /\ verifications = {}
    /\ run = None
    /\ stood = {}
    /\ known = {}
    /\ moves = 0

-----------------------------------------------------------------------------
(* The registry. *)

Active(x) == x \in Registered /\ ~agents[x].retired

RegisterAgent(x, flagged) ==
    /\ x \notin Registered
    /\ agents' = Set(x, [flagged |-> flagged, authorized |-> FALSE, retired |-> FALSE])
    /\ UNCHANGED <<receipts, verifications>>

SetVerifierStatus(x, authorized) ==
    /\ x \in Registered /\ agents[x].authorized # authorized
    /\ agents' = [agents EXCEPT ![x].authorized = authorized]
    /\ UNCHANGED <<receipts, verifications>>

RevokeAgent(x) ==
    /\ Active(x)
    /\ agents' = [agents EXCEPT ![x].retired = TRUE]
    /\ UNCHANGED <<receipts, verifications>>

\* A draft, its countersignature, a dispute and its end.
ReceiptMoves(r, from, to) ==
    /\ receipts[r] = from
    /\ from = None => PartiesOf[r] \subseteq Registered
    /\ \E x \in PartiesOf[r] : Active(x)
    /\ receipts' = [receipts EXCEPT ![r] = to]
    /\ UNCHANGED <<agents, verifications>>

\* submitVerification reads the status before it inserts: it may be disputed by then.
Verify(v, r) ==
    /\ Active(v) /\ agents[v].authorized /\ v \notin PartiesOf[r]
    /\ receipts[r] \in {"finalized", "disputed"}
    /\ <<v, r>> \notin verifications
    /\ verifications' = verifications \cup {<<v, r>>}
    /\ UNCHANGED <<agents, receipts>>

Registry ==
    \/ \E x \in Did :
        \/ RevokeAgent(x)
        \/ \E b \in BOOLEAN : RegisterAgent(x, b) \/ SetVerifierStatus(x, b)
        \/ \E r \in Receipt : Verify(x, r)
    \/ \E r \in Receipt :
        \/ ReceiptMoves(r, None, "draft") \/ ReceiptMoves(r, "draft", "finalized")
        \/ ReceiptMoves(r, "finalized", "disputed") \/ ReceiptMoves(r, "disputed", "finalized")

-----------------------------------------------------------------------------
(* What is counted, from the rows read. *)

\* Seeded fault: verdicts of verifiers whose grant was taken back still count.
StandsOnceGiven(row) == ~row.retired

Stands(row) == row.authorized /\ ~row.retired

VerifiedBy(read) ==
    {w[2] : w \in {u \in read.verifications :
                    u[1] \in DOMAIN read.agents /\ Stands(read.agents[u[1]])}}

Signed(read) == {r \in Receipt : read.receipts[r] \notin {None, "draft"}}

\* An agent that was not read has no flags.
Flagged(read, x) == x \in DOMAIN read.agents /\ read.agents[x].flagged

IsLabelled(read, r) == r \in LabelledTask \/ \E x \in PartiesOf[r] : Flagged(read, x)

IsIndependent(read, x) == x \notin Operator /\ ~Flagged(read, x)

IndependentReceipts(read) ==
    {r \in Signed(read) :
        /\ read.receipts[r] = "finalized" /\ ~IsLabelled(read, r)
        /\ \A x \in PartiesOf[r] : IsIndependent(read, x)}

Attested(read) == Signed(read) \cap VerifiedBy(read)

-----------------------------------------------------------------------------
(* A run. *)

Queries == {"agents", "receipts", "verifications"}

Underway == run # None /\ run.out # {}

\* Receipts with a verdict of a verifier who holds a grant and is not retired.
Standing == {r \in Receipt : \E v \in Registered :
                <<v, r>> \in verifications /\ agents[v].authorized /\ Active(v)}

Start ==
    /\ run = None
    /\ run' = [out |-> Queries, agents |-> None, receipts |-> None, verifications |-> None]
    /\ stood' = Standing
    /\ known' = Registered
    /\ UNCHANGED <<registry, moves>>

Read(query) ==
    /\ Underway /\ query \in run.out
    /\ run' = [[run EXCEPT !.out = @ \ {query}] EXCEPT
                ![query] = CASE query = "agents" -> agents
                             [] query = "receipts" -> receipts
                             [] query = "verifications" -> verifications]
    /\ UNCHANGED <<registry, stood, known, moves>>

\* The registry moves, and with it what stood while a run is under way.
RegistryMoves ==
    /\ moves < MaxMoves
    /\ moves' = moves + 1
    /\ Registry
    /\ stood' = IF Underway THEN stood \cup Standing' ELSE stood
    /\ UNCHANGED <<run, known>>

Next == Start \/ RegistryMoves \/ \E query \in Queries : Read(query)

Spec == Init /\ [][Next]_vars

-----------------------------------------------------------------------------
(* Whatever the order the queries are answered in: a receipt is counted as *)
(* attested only if an authorized, unretired verifier's verdict of it      *)
(* stood at some moment of the run; and one is counted as between          *)
(* independent parties only if neither flags itself as demo or test,       *)
(* except a party that registered after the run began and was missed by    *)
(* the query for agents (computeStats).                                    *)
StatsTruthful ==
    run # None /\ run.out = {} =>
        /\ Attested(run) \subseteq stood
        /\ \A r \in IndependentReceipts(run) :
            \A x \in PartiesOf[r] \cap known : x \notin Operator /\ ~agents[x].flagged

-----------------------------------------------------------------------------
(* The invariant behind StatsTruthful. *)

Row == [flagged : BOOLEAN, authorized : BOOLEAN, retired : BOOLEAN]

Shape ==
    /\ agents \in [Registered -> Row]
    /\ verifications \subseteq Did \X Receipt
    /\ run # None =>
        /\ run = [out |-> run.out, agents |-> run.agents, receipts |-> run.receipts,
                  verifications |-> run.verifications]
        /\ run.out \subseteq Queries

\* The agents that were read are all that were known, with their flags.
AgentsRead ==
    /\ known \subseteq DOMAIN run.agents
    /\ DOMAIN run.agents \subseteq Registered
    /\ \A x \in DOMAIN run.agents : agents[x].flagged = run.agents[x].flagged

\* Among these rows, a verdict of a verifier who stands in what was read of the
\* agents stood at some moment of the run.
VerdictsStood(rows) ==
    \A v \in DOMAIN run.agents, r \in Receipt :
        <<v, r>> \in rows /\ Stands(run.agents[v]) => r \in stood

\* The order of the two queries does not matter: what is read first is made up
\* for by what has stood since.
ReadsSound ==
    run # None =>
        /\ Underway => Standing \subseteq stood
        /\ "agents" \in run.out => known \subseteq Registered
        /\ "agents" \notin run.out => AgentsRead
        /\ "verifications" \notin run.out => run.verifications \subseteq verifications
        /\ "agents" \notin run.out =>
            VerdictsStood(IF "verifications" \in run.out THEN verifications
                                                         ELSE run.verifications)

Inv == Shape /\ ReadsSound
=============================================================================
