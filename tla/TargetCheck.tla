---------------------------- MODULE TargetCheck ----------------------------
(***************************************************************************)
(* inam check (src/sdk-js/src/check.ts): a report on a URL, a wallet or an *)
(* INAM ID, put together from answers that come at different moments while *)
(* the registry changes, or do not come.  The web outside the registry     *)
(* (the endpoint, its MCP session, the key directory, the domain, the      *)
(* ERC-8004 registry and its indexer) is external: its answers are         *)
(* nondeterministic.  Of the lines of the report the model keeps the worst *)
(* status so far, which is the verdict, and whether one is on reputation.  *)
(***************************************************************************)
EXTENDS PaymentPolicy, FiniteSets, Sequences

CONSTANTS
    Listed,         \* the agents in the order the search lists them
    Unknown,        \* an INAM ID that is not registered
    NonEvm          \* a payTo that is not an EVM address

VARIABLES report    \* the check in progress, then its verdict

vars == <<registryVars, report>>

NoReport == [kind |-> "none", pc |-> "idle", accepts |-> {}, did |-> None, worst |-> "pass",
             rated |-> FALSE, linked |-> None, page |-> 0, todo |-> {}, current |-> None, agent |-> None,
             reputation |-> None, verdict |-> None]

Init == RegistryInit /\ report = NoReport

\* STATUS_RANK: an info line weighs no more than a pass.
Worst(statuses) ==
    IF "fail" \in statuses THEN "fail" ELSE IF "warn" \in statuses THEN "warn" ELSE "pass"

\* Lines are pushed.
Push(r, statuses) == [r EXCEPT !.worst = Worst({@} \cup statuses)]

\* finish: any fail is "fail", any warn is "caution".
Finish(r) == [r EXCEPT !.pc = "done", !.linked = None, !.verdict = r.worst]

-----------------------------------------------------------------------------
(* The endpoint: up to two probes, and an MCP session where they hint at   *)
(* one.  given is the method the caller asked for.                         *)

\* checkUrl: without a method of the caller's, a POST that finds the paywall wins.
StatusOf(given, get, post) ==
    IF given = "POST" THEN post
    ELSE IF given = "none" /\ get \in {"404", "405"} /\ post = "402" THEN "402"
    ELSE get

\* mcpPaywall is tried: nothing else found a 402, and the answer hints at it.
TriesMcp(given, status) ==
    /\ status # "402"
    /\ IF given = "none" THEN status \in {"404", "405", "406"} ELSE given = "POST"

\* The x402.response line.  mcp is what the session gave: nothing, a note, or a
\* tool's payment requirements.
ResponseStatus(given, status, mcp, accepts) ==
    CASE mcp = "paid" -> IF accepts # {} THEN "pass" ELSE "fail"
      [] mcp = "note" -> "warn"
      [] mcp = "none" /\ status = "405" /\ given # "POST" -> "warn"
      [] mcp = "none" /\ status = "402" /\ accepts # {} -> "pass"
      [] OTHER -> "fail"

\* directoryItem, domainItem, and checkUrl's own line on the connection: a
\* connection that is not HTTPS fails, the two others warn at worst.
SideStatus == {"pass", "warn", "fail"}

\* The endpoint was asked: the wallets that may be paid come next.
UrlReport(accepts, did, side, response) ==
    Push([NoReport EXCEPT !.kind = "url", !.pc = "walk", !.accepts = accepts, !.did = did,
                          !.todo = accepts \cap Wallet], {side, response})

CheckUrl ==
    /\ report.pc = "idle"
    /\ CallBegins
    /\ \/ report' = Finish(Push([NoReport EXCEPT !.kind = "url"], {"fail"}))
       \/ \E side \in SideStatus, given \in {"none", "GET", "POST"},
             get \in {"402", "404", "405", "406", "200"}, post \in {"402", "200"},
             mcp \in {"none", "note", "paid"}, accepts \in SUBSET (Wallet \cup {NonEvm}),
             did \in Did \cup {Unknown, None} :
            LET status == StatusOf(given, get, post) IN
            /\ mcp # "none" => TriesMcp(given, status)
            /\ status = "402" \/ mcp = "paid" \/ (accepts = {} /\ did = None)
            /\ report' = UrlReport(accepts, did, side,
                                   ResponseStatus(given, status, mcp, accepts))

\* checkWallet looks the links up itself; checkDid reads one agent.
CheckWallet ==
    /\ report.pc = "idle"
    /\ CallBegins
    /\ \E w \in Wallet : report' = [NoReport EXCEPT !.kind = "wallet", !.pc = "walk",
                                                    !.accepts = {w}, !.todo = {w}]

CheckDid ==
    /\ report.pc = "idle"
    /\ CallBegins
    /\ \E d \in Did \cup {Unknown} :
        report' = [NoReport EXCEPT !.kind = "did", !.pc = "ask", !.did = d, !.current = d]

-----------------------------------------------------------------------------
(* inamLinkedWallets: the linked agents page by page, by wallet.           *)

Nobody == [w \in Wallet |-> None]

\* One page.  A wallet proven by two agents keeps the one listed last.
LinkedPage ==
    LET d == Listed[report.page + 1]
        linked == IF report.linked = None THEN Nobody ELSE report.linked
        wallet == agents[d].wallet IN
    /\ report.pc = "walk"
    /\ report' = [report EXCEPT !.page = @ + 1,
                    !.linked = IF wallet = None THEN linked ELSE [linked EXCEPT ![wallet] = d],
                    !.pc = IF report.page + 1 = Len(Listed) THEN "wallets" ELSE "walk"]
    /\ UNCHANGED registryVars

\* The walk fails: a URL's wallets each try again, a wallet's check warns.
LinkedFails ==
    /\ report.pc = "walk"
    /\ report' = [report EXCEPT !.linked = None, !.pc = "wallets"]
    /\ UNCHANGED registryVars

\* The registry as one wallet's own walk finds it.
LinkedNow(w) ==
    LET owners == {i \in DOMAIN Listed : agents[Listed[i]].wallet = w} IN
    IF owners = {} THEN None ELSE Listed[CHOOSE i \in owners : \A j \in owners : j <= i]

\* erc8004Items: no identity or no answer warns, and so may the feedback.
Erc8004Status == {"pass", "warn"}

\* walletInam up to its lookup of the agent, for one EVM address to be paid; any
\* other address only adds an info line.
Look(w, owner, erc) ==
    report' = Push([report EXCEPT !.todo = @ \ {w}, !.current = owner,
                       !.pc = IF owner = None THEN "wallets" ELSE "ask"],
                   {erc, IF owner = None THEN "warn" ELSE "pass"})

WalletLooked(w) ==
    /\ report.pc = "wallets"
    /\ w \in report.todo
    /\ \E erc \in Erc8004Status :
        IF report.linked # None THEN Look(w, report.linked[w], erc)
        ELSE \/ report.kind = "url" /\ Look(w, LinkedNow(w), erc)
             \/ Look(w, None, erc)
    /\ UNCHANGED registryVars

-----------------------------------------------------------------------------
(* agentAndReputation: two requests, answered each in its own time.        *)

AgentAnswers ==
    /\ report.pc \in {"ask", "extension"}
    /\ report.current \in Did
    /\ report.agent = None
    /\ report' = [report EXCEPT !.agent = agents[report.current]]
    /\ UNCHANGED registryVars

ReputationAnswers ==
    /\ report.pc \in {"ask", "extension"}
    /\ report.current \in Did
    /\ report.reputation = None
    /\ report' = [report EXCEPT !.reputation = appraisals[report.current]]
    /\ UNCHANGED registryVars

ReputationStatus(agent, reputation) ==
    LET decision == DecideTrust(agent, reputation) IN
    IF decision = "allow" THEN "pass" ELSE IF decision = "escrow" THEN "warn" ELSE "fail"

\* The line on an agent that is the target of the check itself.
AgentStatus(agent) ==
    IF agent.standing \in Retired THEN "fail"
    ELSE IF agent.standing = "pending" THEN "warn" ELSE "pass"

\* checkUrl's line on the ID named in the 402.
ExtensionStatus(agent, reputation) ==
    IF DecideX402(agent, reputation, report.accepts, 0, 0) = None THEN "pass" ELSE "fail"

\* checkDid adds the ERC-8004 lines of the proven wallet, if there is one.
WalletStatus(agent) == IF agent.wallet = None THEN {"pass"} ELSE Erc8004Status

Forget(r) == [r EXCEPT !.agent = None, !.reputation = None, !.current = None, !.pc = "wallets"]

\* Both answered: the target's lines; or those of the ID in the 402, with its
\* reputation unless a wallet's owner had one; or those of a wallet's owner.
BothAnswered ==
    LET a == report.agent
        p == report.reputation
        rest == Forget(report) IN
    /\ report.pc \in {"ask", "extension"}
    /\ a # None /\ p # None
    /\ \/ /\ report.kind = "did"
          /\ \E erc \in WalletStatus(a) :
                report' = Finish(Push(rest, {AgentStatus(a), ReputationStatus(a, p), erc}))
       \/ /\ report.pc = "extension"
          /\ report' = Finish(Push(rest, {ExtensionStatus(a, p)} \cup
                                (IF report.rated THEN {} ELSE {ReputationStatus(a, p)})))
       \/ /\ report.kind # "did" /\ report.pc = "ask"
          /\ report' = [Push(rest, {ReputationStatus(a, p)}) EXCEPT !.rated = TRUE]
    /\ UNCHANGED registryVars

\* Seeded fault: an outage is taken for an ID the registry does not know.
OutageAsUnknown(outcome) == IF report.current = Unknown THEN {"fail"} ELSE {}

\* agentAndReputation: null is an ID the registry does not know, which fails
\* where it was named; anything else is an outage, and never a pass.
MissStatus(outcome) == IF outcome = "down" THEN {"warn"} ELSE {"fail"}

LookupMisses ==
    /\ report.pc \in {"ask", "extension"}
    /\ \E outcome \in {"down", "unknown"} :
        /\ outcome = "unknown" => report.current = Unknown
        /\ LET rest == Push(Forget(report), MissStatus(outcome)) IN
           report' = IF report.kind = "did" \/ report.pc = "extension" THEN Finish(rest)
                     ELSE [rest EXCEPT !.rated = TRUE]
    /\ UNCHANGED registryVars

\* Every address is looked at; the ID named in the 402 comes last.
WalletsDone ==
    /\ report.pc = "wallets"
    /\ report.todo = {}
    /\ report' = IF report.did = None THEN Finish(report)
                 ELSE [report EXCEPT !.pc = "extension", !.linked = None, !.current = report.did]
    /\ UNCHANGED registryVars

Next ==
    \/ CheckUrl \/ CheckWallet \/ CheckDid
    \/ LinkedPage \/ LinkedFails \/ (\E w \in Wallet : WalletLooked(w))
    \/ AgentAnswers \/ ReputationAnswers \/ BothAnswered \/ LookupMisses \/ WalletsDone
    \/ report.pc # "done" /\ RegistryChanges /\ UNCHANGED report

Spec == Init /\ [][Next]_vars

-----------------------------------------------------------------------------
Verified(d) == \E p \in Appraisal : p.evidence = 2 /\ <<d, p>> \in appraised
Proven(d, wallets) == \E w \in wallets : <<d, w>> \in proven

(* A check passes only if every EVM address that may be paid was proven by *)
(* an independently verified ID, and the ID a 402 names, or the target     *)
(* itself, was not retired; the named ID proved one of the addresses.      *)
(* Each held at some moment of the check: neither an outage nor a change   *)
(* of the registry between two lookups passes                              *)
(* (agentAndReputation, walletInam, checkUrl, checkDid).                   *)
PassMeansProven ==
    report.verdict = "pass" =>
        /\ \A w \in report.accepts \cap Wallet : \E d \in Did : Proven(d, {w}) /\ Verified(d)
        /\ report.kind = "url" /\ report.did # None => Proven(report.did, report.accepts)
        /\ report.kind = "did" =>
            Proven(report.did, Wallet \cup {None}) /\ Verified(report.did)

-----------------------------------------------------------------------------
(* The inductive invariant of the proofs. *)

Report ==
    [kind : {"none", "url", "wallet", "did"},
     pc : {"idle", "walk", "wallets", "ask", "extension", "done"},
     accepts : SUBSET (Wallet \cup {NonEvm}), did : Did \cup {Unknown, None},
     worst : {"pass", "warn", "fail"}, rated : BOOLEAN,
     linked : [Wallet -> Did \cup {None}] \cup {None}, page : Nat, todo : SUBSET Wallet,
     current : Did \cup {Unknown, None}, agent : Row \cup {None},
     reputation : Appraisal \cup {None}, verdict : {"pass", "warn", "fail", None}]

Shape ==
    /\ agents \in [Did -> Row]
    /\ appraisals \in [Did -> Appraisal]
    /\ report \in Report

\* Where the check is, by what it checks.
Progress ==
    /\ report.pc = "idle" => report.kind = "none" /\ report.verdict = None
    /\ report.pc = "walk" => report.page < Len(Listed)
    /\ report.pc \in {"idle", "walk", "wallets"} =>
        report.current = None /\ report.agent = None /\ report.reputation = None
    /\ report.pc = "extension" => report.todo = {} /\ report.current = report.did
    /\ report.kind = "did" =>
        /\ report.accepts = {} /\ report.pc \in {"ask", "done"}
        /\ report.pc = "ask" => report.current = report.did
    /\ report.verdict # None => report.pc = "done"

\* The two answers may be stale or from two moments, but each was true at one.
AnswersOnceTrue ==
    /\ report.agent # None =>
        /\ report.current \in Did
        /\ report.agent.standing \notin Retired =>
            <<report.current, report.agent.wallet>> \in proven
    /\ report.reputation # None =>
        report.current \in Did /\ <<report.current, report.reputation>> \in appraised

\* A link is also read of an agent that was retired by then, and stays so.
Owned(d, w) == d \in Did /\ (<<d, w>> \in proven \/ agents[d].standing \in Retired)

LinksOnceTrue ==
    report.linked # None =>
        \A w \in Wallet : report.linked[w] # None => Owned(report.linked[w], w)

Vouched(w) == \E d \in Did : Proven(d, {w}) /\ Verified(d)

\* The owner of a wallet is being asked about, and was not yet found retired.
OwnerAsked(w) ==
    /\ report.pc = "ask" /\ report.kind # "did" /\ Owned(report.current, w)
    /\ report.agent # None /\ report.agent.standing \notin Retired =>
        <<report.current, w>> \in proven

LookedUp ==
    report.worst = "pass" =>
        \A w \in (report.accepts \cap Wallet) \ report.todo : Vouched(w) \/ OwnerAsked(w)

Inv ==
    /\ Shape /\ Progress /\ Remembered /\ AnswersOnceTrue /\ LinksOnceTrue /\ LookedUp
    /\ PassMeansProven
=============================================================================
