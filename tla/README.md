# A verification of the INAM registry in TLA+

INAM is a registry of agents, jobs and two-party execution receipts with an
append-only Merkle log. It has two implementations of one protocol (`SPEC.md`):
a single-process Node reference server (`src/src`, Express and `node:sqlite`)
and the deployment on Cloudflare Workers (`src/worker/src`, D1 and KV). Both
import the shared core of the JavaScript SDK (`src/sdk-js/src/core`).
Paths below are relative to the directory that holds `src/` and `tla/`.

What the protocol sells is evidence: a receipt both parties signed, whose
history cannot be rewritten, and a log that lets an outsider audit the
registry. So the properties here are about who can move a receipt, whether
jobs and receipts agree, whether identities survive a change of key, and
whether the log tells all of it, once and in order.

## 1. Inventory

| Component | State | Operations | Hard behaviour | What makes it correct |
|---|---|---|---|---|
| Agents and succession, `agentService.ts` | `agents`: revoked, verifier flag, `pendingSuccession`, `succeededBy` | register, verifier status, revoke, succeed, lazy activation | chains of keys, deadlines applied lazily, revocation against activation | identities never fork or merge; every succession and grant is in the log |
| Identity links | `linked`, `linkedProof`, challenges | challenge, completion, claim | single use, expiry, read-modify-write of all links | what is shown as proven was proven with that key |
| Jobs, `jobService.ts` | `jobs`: status, offers, accepted agent, claiming receipt | post, offer, accept, cancel, report, completion | offers, expiry and acceptance race; then cancellation, report and completion | who is accepted made an offer; the outcome is final; a job follows its receipts |
| Receipts and disputes, `receiptService.ts`, `disputeLifecycle.ts` | `receipts`: status, dispute record, window, `usedBy` | draft, countersign, dispute, resolve | per-party rights, strict deadlines, whole-row writes | nobody disputes twice or for another; withholding is bounded |
| Visibility of receipts and jobs | none of its own | every route that shows one | reads one await apart while the row moves on; a read that fails | only those entitled are shown a receipt |
| Transparency log, `transparencyService.ts`, `merkleLog.ts` | `transparency_log` by `leaf_index` | append, tree head, proofs | index collisions (Worker), order, lost leaves; splits of the tree | dense, faithful, each event once; proofs accept extensions only |
| Verifications, `verificationService.ts` | `verifications` | submit, verdict | check-then-insert (Worker), verifier retired later | a second decision only by overlap; the retired sway nothing |
| Reputation, `reputationService.ts` | none | score of a lineage | pooled lineages, caps, anchoring; two implementations | succession neither adds nor removes evidence; both agree |
| Request guards: clock skew, idempotency, rate limits | caches with lifetimes, KV | middleware around every write | retries, replays, lifetimes that end apart, restarts | a request takes effect once |
| Demo, API keys, paid checks (Worker only) | tasks, counters in D1 | issue, complete, meter, refund, pay | check-then-act limits, refunds | limits hold up to what overlaps; counters are exact |
| Statistics and the check of a receipt (Worker only) | none | read and judge | many reads, one statement about all of them | what is said was true |
| Monitors, `sth-monitor.ts`, `integrity-verifier.ts` | a state file each | walk the log, compare, decide | death between two steps, growth while walking | no false alarm, nothing passed unseen |
| SDKs, `client.ts`, `http.ts`, `x402.ts`, `check.ts`, `client.py` | calls in flight | call, retry, gate a payment, check a target, countersign in the background | lost answers, stale lookups, mixed up answers | exactly once; money and signatures only for what was proven and delivered |
| Explorer, `app.js` | the page, caches, loads in flight | navigation | late answers, answers that cannot be read | the page shows what belongs to it |
| Badges, A2A and MCP fronts, sites, examples | none | translation, presentation | - | - |

**Interaction.** A request passes `activateDueSuccessions`, the signature check
(which also refuses revoked and succeeded signers), rate limit and idempotency
guard, and runs one service function. `receiptService` calls `jobService`
(`assertReceiptMatchesJob` on a draft, `markCompletedByReceipt` on a
countersignature), and `receiptService`, `jobService` and `agentService` append
to the log. In Node a handler never awaits, so it runs to completion before the
next request; in the Worker requests interleave at every await, single D1
statements are atomic, and a conditional `UPDATE ... WHERE status = ...` is the
only synchronisation. Clients, monitors and reports read the registry in
several calls or queries while it changes.

`PROJECT.json` lists every component with its status and every hazard at its
line.

## 2. Modules

### The Node registry

- `TransparencyLog` - the log as a sequence of leaves (type, resource, and the
  identity or grant in the payload); `AppendEntry` is `appendEntry` with
  `TransparencyLogRepo.append`.
- `Agents` - the agents table, one set or function per field that matters, and
  the clock. `SignedRequest` stands for the middleware of every signed route:
  nothing is due any more, and the signer is not retired.
  `ActivateDueSuccession(p)` is one iteration of the loop of
  `activateDueSuccessions`; because `SignedRequest` waits until nothing is due,
  no handler can run between two iterations, as in the code. Reads under `/v1`
  activate too, so activation needs no signed request.
- `Jobs`, `Receipts` - one action per service function. The id of a receipt is
  the hash of its content, so `Content` stands for the ids; the drafts somebody
  may submit are a constant set of records (requester, worker, job, output).
- `Registry` - composes them (`Init`, `Next`, `Spec`, `FairSpec`) and states the
  properties. `MCRegistry` instantiates it with three configurations.
- `ReceiptLifecycle` - the abstract specification: what a reader of the log
  alone is promised (finalized once; one pending dispute at a time; only a
  party disputes, only the opener withdraws, each party once). `Registry`
  instantiates it as `Lifecycle` with a mapping computed from `log` and nothing
  else, so the refinement says that the *log* of every behaviour of the
  registry is a legal history.
- `Links` - identity links of agents: challenges in memory, which a restart
  forgets, completion with the proof of a key, endpoint claims.
- `RequestGuards` - clock skew, fixed window, response cache and the pairing of
  a signature with its key, each with a lifetime of its own, all lost on a
  restart. A signature is dated by its signer, ahead of the server or behind. A
  history remembers each call let through: its window, its place in it, the time.
- `Reputation` - what a score is computed from: the finalized receipts of a
  lineage, the weight cap per counterparty, anchoring, reports and flags. An
  action is a registration, a succession, a receipt or a report, and the
  property compares the evidence before and after a succession.

### The Worker

- `WorkerReceipts` - receipts, the jobs they name and the log with requests in
  flight. An action with the name of a service function (`Countersign`) is its
  first part, up to the await before the conditional write: it reads, checks
  and remembers the row it will write. `WriteReceipt`,
  `CancelJobIfCancellable`, `ReportNonPerformanceIfAccepted` and `CompleteJob`
  are the statements of `db.ts`; `CountLeaves` and `InsertLeaf` are
  `appendTransparencyLog` with its single retry; `Fail` is a failed statement
  or an evicted isolate at any await. `MCWorkerReceipts` has five configurations.
- `WorkerJobs` - a job from posting to acceptance: offers are rows of their own,
  acceptance reads the job, then the offer, then updates the row if it is open.
- `WorkerAgents` - identities with requests in flight. `Begin` is the
  middleware's first statement: it selects the rows that are due *then*.
  `ActivateSuccession` is the batch of `db.activateSuccession` for one of them,
  with its three outcomes ("activated", "lost", and the rollback after a
  conflict, told apart by `RereadPredecessor`); `AbandonSuccession` and
  `LogActivation` finish the iteration. `Authenticate` reads the signer once the
  loop is over. A `Read...` action is a handler up to the await before its
  conditional write, the actions named after functions of `db.ts`
  (`RevokeAgentIfActive`, `RequestSuccessionIfIdle`, ...) are that write, and
  `LogHandler` is its leaf. `MCWorkerAgents` has two configurations.
- `WorkerLinks`, `WorkerVerifications`, `WorkerKeys`, `WorkerDemo` - one service
  each, read by read and statement by statement, with requests that overlap and
  die: link challenges and the whole-object write of the links; submission of a
  decision and the verdict's loop over verifiers; metered keys and the order
  verify, serve, settle of a paid check; the demo's tasks and its limit.
- `Visibility` - who is shown a receipt: the routes of receipts, verifications
  and jobs and the payload published in the log, against countersignature,
  dispute, completion of the job and attestations. A failing statement or an
  eviction ends a request with nothing shown (`Fail`), but for one: when the
  receipt a job is linked to cannot be read, `isJobVisible` catches that and the
  job is shown to anybody (`ReceiptOfJobUnread`).
- `WorkerReputation` - the Worker's loops over sorted lists, held against the
  sets of `Reputation`, which it extends.
- `ReceiptCheck`, `Stats` - reports put together from many reads: the signed
  verdict about a receipt, and the statistics' four concurrent queries.
- `Listing` - the search route with its limit and offset, and the clients' walk
  over its pages.
- `MCServices` instantiates the services (with `Links` and `Reputation`): the
  variable `service` chooses at the start which one runs, and the variables `x1`
  .. `x5` stand for that service's variables in its own order. They share
  nothing, so this is one run for eight systems and not a composition.

### Around the registry

- `MerkleTree` - root, inclusion and consistency proofs and their verifiers over
  symbolic hashes; `LogMonitor` - the monitor with its file, which uses them on
  logs that grow while it runs or that were tampered with.
- `IntegrityVerifier` - the walk of the maintainers' verifier, its resume point,
  deaths, lost answers, and the Node registry's `submitVerification` as one step.
- `PaymentPolicy` - the payer's decision (`decideX402`, `policyFailure`) and the
  registry behind the two lookups; `PaymentGate` (`withInamX402Gate`) and
  `TargetCheck` (`checkTarget`) extend it.
- `HttpReceipts` - the worker's wrapper that drafts a receipt per answer, and
  `inamFetch` that countersigns in the background.
- `SdkCalls` - the calls of both SDKs on one job end to end: derived keys, the
  eventually consistent response cache, repeats that overlap.
- `Explorer` - the tab: page, panels, form, caches and every load in flight.
  `apiGet` makes null of a 2xx answer whose body cannot be read; on a detail page
  that throws outside the `try` and the spinner stays (`Stalled`), everywhere
  else modelled it ends in a catch and counts as an error. The evidence table
  of the statistics, which has the same gap, is not modelled.
- `MCReaders` instantiates these with `RequestGuards`, `WorkerReputation`,
  `ReceiptCheck`, `Stats` and `Listing`: `part` chooses which one runs, and the
  variables `x1` .. `x13` stand for that part's variables in its own order.

### Proofs

`RegistryProofs` (types, receipts, jobs; then succession, verifiers, order of the
log, refinement) is about `Registry`; `WorkerReceiptsProofs` and
`WorkerAgentsProofs` about the modules they are named after. `ServicesProofs`
extends `MCServices` and `ReadersProofs` extends `MCReaders`, so their theorems
speak of the very definitions the runs check; the step lemmas of
`RequestGuardsProofs`, `LogMonitorProofs` and `WorkerReputationProofs`, which
`MCReaders` instantiates, are kept apart. `LogMonitorProofs` has the theory of
`MerkleTree` too. The inductive invariant of a part is the last section of its module.

Operators commented "Seeded fault" are wrong on purpose: each is a plausible
bug of the definition that follows it and is used by no specification.
`PROJECT.json` pairs every checked property with one that breaks it.

## 3. Runs

| Run | Instance | Shows |
|---|---|---|
| `node_jobs` | 3 agents, 1 job, 2 receipts naming it, expiry, window 1, time 0..1 | `TypeOK`, `LogFaithful`, `JobFollowsReceipt`, `OutcomeIsFinal` |
| `node_disputes` | 3 agents, 1 receipt, window 3, time 0..8 | `HostageBound`, `OpenerUnspent`, `LogOnce`, refinement `AuditedLifecycle` |
| `node_agents` | 4 identities, 2 of them founders, succession window 1, time 0..3 | `SuccessionSound`, `SuccessionLogged`, `VerifiersLogged`, liveness `SuccessionSettles` |
| `worker_receipts` | 2 requests in flight, 1 receipt, 1 job, time 0..1, failures | `LogSound` (dense, truthful, once), `SettledForGood` |
| `worker_opener`, `worker_report`, `worker_lost`, `worker_order` | 2 requests, no failures | violated: `OnlyOpenerResolves`, `NoReportAfterReceipt`, `FinalizedIsLogged`, `LogInOrder` |
| `worker_agents` | 2 requests, 2 founders and 1 unregistered identity, succession window 1, time 0..1 | `LineageLogged`, `RetiredForGood` |
| `worker_cancelled` | the same without operator, time 0 | violated: `SuccessionsAccountedFor` |
| `services` | one service at a time, 2 requests in flight | `SecondDecisionOverlaps`, `RetiredSwayNothing` (3 identities); `ProofBacksLink` (2 agents, 2 challenges, 2 keys, both runtimes); `CallsAccounted` (tier of 2, cap of 1, 1 death); `DemoBounded` (3 receipts, limit 1); `AcceptanceBacked` (3 agents, with and without expiry); `ShownToEntitled` (1 receipt, all callers); `SuccessionNeutral` (4 identities, 4 records) |
| `readers_and_guards` | one part at a time | `NoFalseAlarm`, `HeadsExtend` (logs up to 8 leaves, pages of 2); `NothingPassedUnseen`, `LogWalked` (2 receipts, 1 death); `RetryIsCached`, `SignatureBound`, `RateBounded` (2 signatures, 2 keys, skew 1, TTL 2, time 0..3, 1 restart); `PaidToProven`, `PassMeansProven` (2 payees, 2 wallets, one change of the registry); `TabTruthful` (2 navigations); `SignedForDelivered` (2 calls); `CallsHonoured` (4 requests, 2 at once); `VerdictHeld`; `RuntimesAgree` (4 identities, 3 records); `ListingComplete` (3 rows, pages of 1 and 2); `StatsTruthful` (3 agents, 6 changes) |

**Bounds and why they are enough.** `MaxTime` stops the clock. In
`node_disputes` the last dispute opens at time 2 (the window of a
countersignature at 0 closes at 3) and its deadline is 5, so 8 leaves room for
a countersignature up to time 3 with every boundary met; `DisputeWindow = 3`
leaves room for a dispute, a withdrawal and the other party's dispute at
different times inside one window. In `node_jobs` a window of one unit lets a
report become possible within the bound, and an expiry of 0 makes a job expire
at time 1. In `node_agents` two unregistered identities are the least that
allow a chain of two successions and a competing registration. `MaxLog` stops
only what can repeat for ever: verifier grants (`Agents`), new disputes
(`WorkerReceipts`: at most 3 or 4 leaves before the last dispute), grants and
succession requests (`WorkerAgents`: none begins once something is logged; two
that begin before that are enough for two predecessors that name one successor,
for a registration that takes it, and for revocations and activations that race
afterwards). A `get` arrives only when something is due: otherwise it does
nothing. Because of these bounds the systems really stop, hence
`CHECK_DEADLOCK FALSE`. In the Worker's runs the slots of `Request` are
interchangeable and so are the outputs of receipts (in `node_jobs` too) and
the ids of challenges. No property and no choice distinguishes them, so symmetry
is sound (no liveness is checked there). Two slots are reused, so any number of
requests run, two at a time: every race in these services is between one writer
and one other.

In `services`, a lifetime of 0 for challenges and demo tasks makes one pass of
the clock the boundary. Three demo receipts are two completions in flight and
one finalized before. One receipt is enough for `ShownToEntitled`, since the
routes treat receipts apart; the theorem covers any number. Four identities
give a chain of two and two counterparties, or two chains; four records pass
the cold start of three receipts and leave one on the other side of it.

In `readers_and_guards`, eight leaves contain every shape of split up to a full
tree of depth three, and pages of two make a run fetch several. Two signatures
and two keys are the least for a signature under another key with one more in
between; lifetimes 1 and 2 within time 3 let each end before, with and after
the other. One change of the registry between the lookups of a gate already
separates any two of its reads; two navigations leave two pages' answers behind
a third. `MaxRepeats = 2` and two running requests are a retry that overlaps.

**Fairness.** `SuccessionSettles` and `LogWalked` need it. `FairSpec` of
`Registry` assumes that time passes and that, while a succession stays due,
some request under `/v1` arrives; nothing is assumed of any particular caller,
and `MaxTime` restricts the claim to deadlines inside the bound. `FairSpec` of
`IntegrityVerifier` assumes that the workflow, which is scheduled every hour,
starts a run and that a run goes on unless it dies (a bounded number of times);
`LogWalked` asks in addition that from some moment on the grant stands, since
without it the registry refuses every decision. `MCReaders` gives that fairness
to the verifier's part alone.

**What the violations show.**

1. `OnlyOpenerResolves`: one party's withdrawal is sent twice; the second
   request has read the dispute, the first one closes it, the *other* party
   opens its own dispute, and the second request's
   `UPDATE ... WHERE status = 'disputed'` succeeds and closes that one.
   `SPEC.md:374` reserves the withdrawal to the opener, `SPEC.md:377` calls two
   conflicting writes that both succeed a conformance bug.
2. `NoReportAfterReceipt`: the receipt is finalized and its job completed in two
   statements; a report in between makes the job nonperformed. `SPEC.md:294`
   excepts only a report before the finalization.
3. `FinalizedIsLogged`: two collisions on the leaf index in a row lose the leaf
   (`README.md:95`, `SPEC.md:819`); a comment in `db.ts` knows of the window.
4. `LogInOrder`: the dispute's leaf can precede the finalization's leaf
   (`SPEC.md:819`).
5. `SuccessionsAccountedFor`: a revocation has read its row, the same identity's
   succession request is recorded and logged, and the revocation's update then
   clears it; the leaf `agent_succession_cancelled` depends on the row read
   first, so the log shows the succession pending for ever (`SPEC.md:817`,
   `SPEC.md:819`).

None of these can happen in Node, where the properties that correspond to them
(`AuditedLifecycle`, `JobFollowsReceipt`, `LogFaithful`, `LogOrdered`,
`SuccessionLogged`) are proved.

**Where a property had to be weaker than a document.** `PROJECT.json` lists
these as findings with both quotations. `DemoBounded` bounds undisputed receipts
and adds the requests in flight, since the demo counts neither a receipt in
dispute nor a countersignature under way. `SignatureBound` admits a second key
once a pairing lapsed before the signature went stale. `CallsHonoured` excepts a
second result for one job, whose key names the job only. `StatsTruthful` excepts
parties that registered after the queries began. `ShownToEntitled` excepts the
record of a job whose linked receipt could not be read: the catch of
`isJobVisible` shows it to anybody, in both runtimes, where `SPEC.md:317` gates
it like the receipt. `TabTruthful` excepts rows of agents whose lookup failed
once, the panels and the time above the statistics, which a late answer of an
earlier page overwrites in the page shown then, and the spinner of a detail page
whose own answer could not be read, which nothing replaces. `SecondDecisionOverlaps` allows two decisions of one verifier if their
requests overlapped: the comment at the check promises one, the table's key does
not enforce it. While modelling `PaymentPolicy`: the policy input
hashed for a payment leaves out that a payee was succeeded, although the
decision depends on it.

## 4. Proofs

All for arbitrary values of the constants, without fairness, and each states a
property of a run unless the table says otherwise. What is assumed of the
constants is in named assumptions, which TLC evaluates on every run:

- `AgentsAssumption`, `JobsAssumption`, `ContentAssumption` (Node): windows are
  positive, `None` is nobody, contents name identities and jobs; in
  `WorkerAssumption` and the one of `WorkerAgents` the same of the Worker.
- `ServicesAssumption`: `None` is none of the values, a stranger is no party to
  a receipt, requests, keys and demo receipts are finite sets (they are
  counted), the limits are positive, the endpoint is not challengeable, and the
  IDs of `Reputation` are `1 .. n`, in the order in which they are registered.
- `ReadersAssumption`: `None` is no signature and no answer, lifetimes are
  numbers, a page of the log has at least one entry (200 in the code), the fixed
  window and its limit are positive (60 s; 10 or 60 calls in the code), a search lists at least one agent, and clients ask for
  pages no longer than the route gives (100 or 200 of at most 200).

The number of requests, identities, receipts, jobs, signatures or calls, the
length of the log and how often anything is repeated are not bounded by any of
them; the bounds of section 3 are constants like the others.

**The registry of Node** (`RegistryProofs`).

| Theorem | Statement | Argument |
|---|---|---|
| `TypeCorrect` | `[]TypeOK` | inductive as it stands, one lemma per group of handlers |
| `LogFaithfulCorrect` | `[]LogFaithful` | lemmas on `Append` say which leaves are logged after a step; each action changes the rows that its leaf speaks about and no other |
| `OpenerCorrect` | `[]OpenerUnspent` | inductive with types |
| `HostageCorrect` | `[]HostageBound` | strengthened to `DeadlineBound`: the deadline of a disputed row was set while its window was open, so it lies before the close of that window plus one window |
| `JobsCorrect` | `[]JobFollowsReceipt` | its four parts are inductive together, not one by one: that a finalization closes its job needs that a job named by a receipt is not open, which in turn needs that an id is fresh when it is posted |
| `OutcomeCorrect` | `OutcomeIsFinal` | by cases on the action |
| `SuccessionCorrect`, `SuccessionLoggedCorrect` | `[]SuccessionSound`, `[]SuccessionLogged` | inductive together: that a leaf `agent_succeeded` names the present successor needs that a successor is new |
| `VerifiersCorrect` | `[]VerifiersLogged` | strengthened by `VerifiersRegistered`: a verifier is registered and a successor is not yet, so clearing the successor's flag on activation takes no grant away that the log shows standing |
| `LogOnceCorrect`, `LogOrderedCorrect` | `[]LogOnce`, `[]LogOrdered` (no run's property) | an event is appended only when its row is in a state in which, by faithfulness, it is not in the log yet (and its predecessor is) |
| `LifecycleCorrect` | refinement `AuditedLifecycle` | under the invariants above, the three mapped variables change exactly as one abstract action, or not at all |

**Requests in flight in the Worker** (`WorkerReceiptsProofs`,
`WorkerAgentsProofs`). The invariants say of each request what is still true of
what it read.

| Theorem | Statement | Argument |
|---|---|---|
| `LogSoundCorrect` | `[]LogSound` | `RequestSound`: an event about to be logged has happened, and an index about to be inserted at is in the log or its very end (so a lost race fails on the key and never leaves a hole); `OwedOnce`, `OwedNotLogged`: of one finalization or report a single request owes the leaf, and only while it is not logged. Reads and failures change none of it |
| `SettledForGoodCorrect` | `SettledForGood` | `RowSound`: a row about to be written back over a finalized receipt was read finalized, and keeps its window |
| `LineageLoggedCorrect` | `[]LineageLogged` | `RowsSound` (only registered identities have anything to their name), `RequestSound` (a succession about to be logged stands in the table), `OneLogs` (one request is about to log it); the leaves are counted |
| `RetiredForGoodCorrect` | `RetiredForGood` | under the same invariant, by cases on the statement |

**The services** (`ServicesProofs`).

| Theorem | Statement | Argument |
|---|---|---|
| `SecondDecisionCorrect`, `RetiredSwayNothingCorrect` | `[]SecondDecisionOverlaps`, `[]RetiredSwayNothing` | a decision stored when the request began still is when it looks; who was retired when the verdict was asked for still is, so nobody barred is counted |
| `AcceptedAgentOffered`, `AcceptedForGood` | `[]AcceptanceBacked`; `AcceptedOnce` of `WorkerJobs` (no run's property) | the caller read as the poster is still the poster, an offer once found is never withdrawn |
| `LinksProven` | `[]ProofBacksLink`, both runtimes | Node: link and proof are written together. Worker: a challenge about to be consumed matches the link the request carries, a request past it carries a link that was proven, and the row it writes back (`RowBacked`) was backed when read and stays so |
| `CallsAccountedCorrect` | `[]CallsAccounted` | a request that counted a call is itself counted until it answers, gives it back or dies |
| `DemoBoundedCorrect` | `[]DemoBounded` | a receipt in dispute carries a mark, so it is not counted as undisputed when it becomes final again; those under way are no more than the requests |
| `ShownToEntitledCorrect` | `[]ShownToEntitled` | `Grows`: no step changes a row's visibility, takes it back to a draft, removes a verification or links a job to another receipt; so what a request read earlier entitles no one who is not entitled now. Excepted (`ShownUnread`): the record of the job whose receipt could not be read |
| `SuccessionNeutralCorrect` | `SuccessionNeutral`, a property of steps | `ChainsSound`: successors have greater numbers (`Ascending`), so heads and lineages are the one solution of their equations (`HeadsUnique`, `LineagesUnique`: a least and a greatest counterexample), and the solution after a succession can be given; `After` renames the old head to the new one without merging two counterparties, which leaves pairs, caps, anchors, flags and reports as they were |

**Around the registry** (`ReadersProofs`).

| Theorem | Statement | Argument |
|---|---|---|
| `RetryIsCachedCorrect`, `SignatureBoundCorrect` | `[]RetryIsCached`, `[]SignatureBound` | inductive together with `ResponsesKept` (a success whose response has not lapsed is still cached), `RunsPaired` (a run finds its pairing, or it has lapsed) and `PairingsBacked` (a pairing that stands was made by a run, with the expiry that run gave it); a restart empties all of them |
| `RateBoundedCorrect` | `[]RateBounded` | windows do not overlap and no place in one is given twice (`Placed`, `Apart`); the calls within one window's length fall in two windows at most, and the opening of the earlier one is not among them, so they inject into `2 .. 2 * Limit` |
| `PaidToProvenCorrect` | `[]PaidToProven` | `AnswersOnceTrue`: each answer was true at a moment of the call; `OfferPayable`: what is on offer is payable, as it was decided on those answers |
| `NothingPassedUnseenCorrect` | `[]NothingPassedUnseen` | `PageFollows`: what is left of the page are the leaves after the resume point, however far the log has grown; `EntryInHand`: it is advanced over only once dealt with |
| `CallsHonouredCorrect` | `[]CallsHonoured` | `EffectsPast`: a call that took effect has left rows that refuse it for ever; `RespondsToEffect`, `ResponsesBacked`: only what took effect is answered or stored |
| `StatsTruthfulCorrect` | `[]StatsTruthful` | `ReadsSound`: whichever query is answered first, what was read later and stood since make up for it |
| `SignedForDeliveredCorrect` | `[]SignedForDelivered` | `AcceptsOwn`, `SignedByCalls`: each signed receipt belongs to a call of its own, an injection from receipts into deliveries |
| `VerdictHeldCorrect` | `[]VerdictHeld` | `ReceiptFirst`: the parties are read after the receipt; `ReadsSound`: a party revoked when the receipt was read is yet to be read or was found revoked |
| `PassMeansProvenCorrect` | `[]PassMeansProven` | `LinksOnceTrue`: a link was proven, or its owner is retired by now, and stays so; `LookedUp`: while the check is passing, each wallet done with is vouched for or its owner is being asked about |
| `TabTruthfulCorrect` | `[]TabTruthful` | `LoadsOfPage`: a load whose element is still in the document belongs to the page shown; `BodyFilled`, `PanelsFilled`: what spins is waited for by a load of this page, a stalled detail page excepted; `RowsTrue`: what a row says of a party stays true as the log grows and lookups end |
| `ListingCompleteCorrect` | `[]ListingComplete` | of what was asked for and is still listed, what the walk has gone by unseen (`ListBehind`) is nothing, or without the retired no more than have retired since: a row that leaves moves the others up by one place at most (`PlaceDrops`), and only one had the next place (`PlaceApart`) |

**The tree hashes and the monitor** (`LogMonitorProofs`, `ReadersProofs`). The
first three are about the operators and no run's property; a list of leaves or
of proof entries has any length.

| Theorem | Statement | Argument |
|---|---|---|
| `InclusionComplete` | the audit path computed for a leaf is accepted | `PathVerifies`, by induction over ranges and their halves (`OfRanges`): where the path of a range is the start of the whole proof, checking it so far yields the hash of that range |
| `ConsistencySound` | two roots are accepted, whatever list is the proof, only if one log extends the other | `Node`, `Within`: index `fn` of a level stands for the range with the last old leaf in it, and `sn` for the last range of all; an entry raises that range to a larger one (`Raise`). If the two hashes are those of the trees at the top, they are so at every level below (`SoundDown`), since a node hash tells its halves, and the siblings on the left are the same in both |
| `ConsistencyComplete` | the consistency proof computed for an earlier size is accepted | `ReachUp`: the proof of every range on the way is where the whole proof starts (`AllStart`), and its next entry is the sibling the climb needs |
| `HeadsExtendCorrect` | `HeadsExtend` | `Proven`: a run that is past the consistency check of a newer head has a head that extends the one on file, by `ConsistencySound` and whatever the table had become when it served the proof; only such a head is saved |
| `NoFalseAlarmCorrect` | `[]NoFalseAlarm` | `Untouched`: until the table is tampered with, the file, the head of the run and its page are parts of the table as it is now; so the registry's answers are proofs of what they are asked about, accepted by the two completeness theorems |

The recursive functions of `MerkleTree` are first shown to exist and told as
facts about ranges `s .. e-1` and their halves (`HashRanges`, `PathRanges`,
`CheckRanges`, `SubRanges`); each induction is by the least counterexample.

**The Worker's reputation** (`WorkerReputationProofs`, `ReadersProofs`).
`RuntimesAgreeCorrect` states `[]RuntimesAgree` for any number of identities,
receipts, disputes, reports and successions. The only thing it needs of the state
is that receipts are numbered (`ScoreInv`); the rest is about the loops. Each is a
fold, and a fold over a list in ascending order is at every round a function of
the *set* of receipts behind it (`Walk`): the only function that does the same at
the start and at every round (`FoldsAgree`, by a least counterexample). For each
loop that function is given and shown to keep up: `CountsOf` for the counts of
pairs (`CountOne`), `AnchoredIn` for the early return (`AnchoredAre`), and for
the main loop `StateOf` (`WeighOne`), which says what the cache, the counter,
the weights and the provider's receipts are after any set of earlier receipts.
The counter holds `Lesser(pairs, limit)`, since it stands still at the limit, so
a receipt is over the cap exactly if as many of its pair came before it as may
weigh (`OverIs`), which is what `Weighted` says. The flag on unanchored volume
sums counts over a set (`SumIs`).

The parts of `MCServices` and of `MCReaders` share no state, and which one runs
is chosen once: an invariant of a part is carried through the run in the form
`part = "..." => M!Inv`, from the part's own lemmas on its actions.

**Only model-checked.** `SuccessionSettles` and `LogWalked`: liveness under
fairness is beyond the prover. And what the five violations show, which no theorem can.

## 5. Not modelled

- A kill of the Node process between two SQLite transactions of one handler.
  Handlers run to completion in the model; the hazard is listed.
- The bytes of signatures, canonical JSON and hashes: a draft that is refused
  changes nothing, a receipt's id determines its content, and hashes are terms
  that never collide.
- A posted job gets an id no receipt names yet (`PostFreshJob`): `randomUUID`.
- Budgets, capabilities and messages: no transition reads them. Of reputation:
  decay, logarithms, settlement volume and rounding, which are real arithmetic.
- `WorkerReceipts` has no resolution deadline: only reputation reads it there.
  Its jobs start accepted (`WorkerJobs` has what comes before) and everybody
  stays registered: a signer revoked while its request is in flight is in
  `WorkerAgents` and `SdkCalls`.
- In `WorkerAgents` capabilities and metadata are left out, an append to the log
  is one step, and a second succession of the successor is outside the instance.
- The Worker's pairing of signatures in KV: its store is eventually consistent,
  so it promises nothing a model could check beyond what `SdkCalls` has.
- Rate limits of the Worker (a binding of the platform), the x402 facilitator,
  the web, DNS and chain lookups of a check: external, their answers arbitrary.
- Badges, the A2A and MCP fronts, `trust-index.ts` and the one-shot scripts,
  sites, examples and integrations: translation and presentation without state
  of the protocol. Encodings and key formats of both SDKs.

## 6. What remains worth doing

1. An abstract specification of the Worker's receipts weak enough to hold, and
   the refinement.
2. The Node handlers split at their SQLite transactions, with kills and
   restarts, and what survives one.

Checking a run: `tlc -workers 2 -config MCRegistryJobs.cfg MCRegistry`; checking
a proof: `tlapm RegistryProofs.tla`.
