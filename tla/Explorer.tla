------------------------------ MODULE Explorer ------------------------------
(***************************************************************************)
(* The explorer (src/explorer/public/app.js): one document whose content   *)
(* route() replaces at every change of the hash, and the requests still    *)
(* in flight from the pages before.  A render function keeps the element   *)
(* it looked up before its first await, so a late answer to it lands in a  *)
(* detached element; the panels of a detail page, the label of the         *)
(* statistics and the search form are looked up when the answer arrives,   *)
(* in whatever page is shown then.  What a table or a tile looks like is   *)
(* left out: an element shows a kind of content and whose it is.           *)
(***************************************************************************)
EXTENDS Naturals, FiniteSets, Sequences

CONSTANTS
    None,
    Id,             \* identifiers a detail page can be opened for
    Agent,          \* parties of the receipts in the log
    DemoAgent,      \* those that declare metadata.demo
    MaxLog,         \* bound: receipts in the transparency log
    MaxNav,         \* bound: changes of the hash
    MaxRefresh      \* bound: clicks on "Refresh now"

VARIABLES
    nav,            \* how many times route() ran: names the page shown
    page,           \* the page shown
    body,           \* its main element
    panels,         \* the elements a detail page fills afterwards
    form,           \* the search form: does its submit handler stand
    asOf,           \* the label above the statistics
    refreshable,    \* "Refresh now" has its handler
    statsCache,     \* the figures kept in sessionStorage, or None
    loads,          \* what the tab is still waiting for
    agentCache,     \* agentCache, kept as long as the tab
    log,            \* finalized receipts of the registry, by their worker
    showTest,
    refreshes

viewerVars == <<log, showTest, refreshes>>
vars == <<nav, page, body, panels, form, asOf, refreshable, statsCache, loads, agentCache,
          viewerVars>>

Detail == {"agent", "job", "receipt"}
Search == {"agents", "jobs"}
PanelName == {"rep-body", "receipts-body", "offers-body", "verifications-body"}

\* What the elements of the panels are filled with, by page.
PanelsOf(view) ==
    CASE view = "agent" -> {"rep-body", "receipts-body"}
      [] view = "job" -> {"offers-body"}
      [] view = "receipt" -> {"verifications-body"}
      [] OTHER -> {}

Content(kind, of) == [kind |-> kind, of |-> of]
Spinner == Content("loading", None)
NoElement == Content("absent", None)

\* A spinner that nobody will replace: the handler that would have, has thrown.
Stalled(of) == Content("stalled", of)

Load(what, of, n) == [what |-> what, of |-> of, nav |-> n, rows |-> <<>>, serial |-> 0]

Init ==
    /\ nav = 0
    /\ page = [view |-> "blank", id |-> None]
    /\ body = NoElement
    /\ panels = [p \in PanelName |-> NoElement]
    /\ form = "none"
    /\ asOf = NoElement
    /\ refreshable = FALSE
    /\ statsCache = None
    /\ loads = {}
    /\ agentCache = [a \in Agent |-> "unasked"]
    /\ log = <<>>
    /\ showTest = FALSE
    /\ refreshes = 0

-----------------------------------------------------------------------------
(* route(): every page replaces the whole content and starts its loads.    *)

Shown(view, id) ==
    /\ nav' = nav + 1
    /\ page' = [view |-> view, id |-> id]
    /\ panels' = [p \in PanelName |-> NoElement]
    /\ refreshable' = FALSE

Route(view, id, content, label, started) ==
    /\ nav < MaxNav
    /\ Shown(view, id)
    /\ body' = content
    /\ form' = IF view \in Search THEN "bare" ELSE "none"
    /\ asOf' = label
    /\ loads' = loads \cup started
    /\ UNCHANGED <<statsCache, agentCache, viewerVars>>

RenderDetail(view, id) == Route(view, id, Spinner, NoElement, {Load(view, id, nav + 1)})
RenderSearch(view) == Route(view, None, Spinner, NoElement, {Load(view, None, nav + 1)})
RenderActivity == Route("activity", None, Spinner, NoElement, {Load("entries", None, nav + 1)})
RenderLookup == Route("lookup", None, NoElement, NoElement, {})

\* loadAndRenderStats: figures younger than the lifetime are not asked for.
RenderStats ==
    IF statsCache = None
    THEN Route("stats", None, Spinner, Spinner, {Load("registry", <<nav + 1, 0>>, nav + 1)})
    ELSE Route("stats", None, Spinner, Content("label", statsCache),
               {Load("external", statsCache, nav + 1)})

-----------------------------------------------------------------------------
\* Seeded fault: the main element is looked up when the answer arrives.
LookedUp(l) == body # NoElement

\* The element captured before the await is still in the document.
Captured(l) == l.nav = nav

Write(l, content) == body' = IF Captured(l) THEN content ELSE body

\* renderAgentDetail, renderJobDetail, renderReceiptDetail after their first
\* await: the body is filled, and its panels are asked for.  Of an answer whose
\* own body cannot be read apiGet makes null, which is no error; the handlers
\* dereference it outside their try and throw, with the spinner still there.
DetailArrives(l) ==
    /\ l.what \in Detail
    /\ \/ /\ Write(l, Content("error", l.of)) \/ Write(l, Stalled(l.of))
          /\ loads' = loads \ {l}
          /\ UNCHANGED panels
       \/ /\ Write(l, Content(l.what, l.of))
          /\ panels' = IF Captured(l)
                       THEN [p \in PanelName |-> IF p \in PanelsOf(l.what) THEN Spinner
                                                 ELSE NoElement]
                       ELSE panels
          /\ loads' = (loads \ {l}) \cup {Load(p, l.of, l.nav) : p \in PanelsOf(l.what)}
    /\ UNCHANGED <<nav, page, form, asOf, refreshable, statsCache, agentCache, viewerVars>>

\* The answer for a panel goes to the element that has its id by then.  With no
\* such element the assignment throws, and so does the one in the catch.  A null
\* answer throws into the catch, which fills the panel; so it is for a search,
\* the log and the registry's figures below, and in ReceiptArrives and
\* AgentArrives it counts as a lookup that failed.
PanelArrives(l) ==
    /\ l.what \in PanelName
    /\ panels' = IF panels[l.what] = NoElement THEN panels
                 ELSE [panels EXCEPT ![l.what] = Content("answer", l.of)]
    /\ loads' = loads \ {l}
    /\ UNCHANGED <<nav, page, body, form, asOf, refreshable, statsCache, agentCache, viewerVars>>

\* renderAgentSearch, renderJobSearch after their await: an empty result
\* returns before wireFilterForm, which looks the form up by its route.
SearchArrives(l) ==
    /\ l.what \in Search
    /\ \E kind \in {"rows", "empty", "error"} :
        /\ Write(l, Content(kind, None))
        /\ form' = IF kind # "empty" /\ page.view = l.what THEN "wired" ELSE form
    /\ loads' = loads \ {l}
    /\ UNCHANGED <<nav, page, panels, asOf, refreshable, statsCache, agentCache, viewerVars>>

-----------------------------------------------------------------------------
(* Activity: the log page by page, then every receipt and its parties.     *)

\* A page of /transparency/entries; the last one starts a request per receipt.
EntriesArrive(l) ==
    LET read == IF Len(l.rows) < Len(log) THEN Len(l.rows) + 1 ELSE Len(log) IN
    /\ l.what = "entries"
    /\ \/ /\ Write(l, Content("error", None))
          /\ loads' = loads \ {l}
       \/ /\ UNCHANGED body
          /\ loads' = (loads \ {l}) \cup
                {[l EXCEPT !.rows = [i \in 1 .. read |-> "asked"],
                           !.what = IF read < Len(log) THEN "entries" ELSE "rows"]}
    /\ UNCHANGED <<nav, page, panels, form, asOf, refreshable, statsCache, agentCache, viewerVars>>

\* One receipt is there, or is not for everyone; getAgentCached asks at most once.
ReceiptArrives(l, i) ==
    /\ l.what = "rows"
    /\ i \in DOMAIN l.rows
    /\ l.rows[i] = "asked"
    /\ \/ /\ loads' = (loads \ {l}) \cup {[l EXCEPT !.rows[i] = "private"]}
          /\ UNCHANGED agentCache
       \/ /\ loads' = (loads \ {l}) \cup {[l EXCEPT !.rows[i] = "party"]}
          /\ agentCache' = IF agentCache[log[i]] = "unasked"
                           THEN [agentCache EXCEPT ![log[i]] = "asked"] ELSE agentCache
    /\ UNCHANGED <<nav, page, body, panels, form, asOf, refreshable, statsCache, viewerVars>>

\* The cache keeps the promise: a failed lookup is null from then on.
AgentArrives(a) ==
    /\ agentCache[a] = "asked"
    /\ \E outcome \in {"found", "failed"} : agentCache' = [agentCache EXCEPT ![a] = outcome]
    /\ UNCHANGED <<nav, page, body, panels, form, asOf, refreshable, statsCache, loads, viewerVars>>

Settled(l) ==
    \A i \in DOMAIN l.rows :
        l.rows[i] = "private" \/ (l.rows[i] = "party" /\ agentCache[log[i]] \in {"found", "failed"})

\* activityLabels; "live" is the label of a row without any.
Label(l, i) ==
    IF l.rows[i] = "private" THEN "private"
    ELSE IF agentCache[log[i]] = "found" /\ log[i] \in DemoAgent THEN "demo"
    ELSE "live"

Labels(l) == [i \in DOMAIN l.rows |-> Label(l, i)]

\* draw(): the rows are kept, so the toggle filters them without asking again.
Draw(l) ==
    /\ l.what = "rows"
    /\ Settled(l)
    /\ Write(l, Content("rows", Labels(l)))
    /\ loads' = loads \ {l}
    /\ UNCHANGED <<nav, page, panels, form, asOf, refreshable, statsCache, agentCache, viewerVars>>

Toggle ==
    /\ page.view = "activity"
    /\ body.kind = "rows"
    /\ showTest' = ~showTest
    /\ UNCHANGED <<nav, page, body, panels, form, asOf, refreshable, statsCache, loads,
                   agentCache, log, refreshes>>

\* The rows on the screen: test and demo rows only when the viewer asks for them.
Visible == {i \in DOMAIN body.of : showTest \/ body.of[i] # "demo"}

-----------------------------------------------------------------------------
(* Statistics: the registry's figures first, then npm and GitHub.          *)

\* renderStats wires the button after its own load, in the page shown by then.
Wires(l) == l.serial = 0 /\ page.view = "stats"

\* renderStatsAsOf looks its element up; the body waits for the other sources.
RegistryArrives(l) ==
    /\ l.what = "registry"
    /\ \/ /\ Write(l, Content("error", None))
          /\ loads' = loads \ {l}
          /\ refreshable' = (refreshable \/ Wires(l))
          /\ UNCHANGED <<asOf, statsCache>>
       \/ /\ statsCache' = l.of
          /\ asOf' = IF page.view = "stats" THEN Content("label", l.of) ELSE asOf
          /\ loads' = (loads \ {l}) \cup {[l EXCEPT !.what = "external"]}
          /\ UNCHANGED <<body, refreshable>>
    /\ UNCHANGED <<nav, page, panels, form, agentCache, viewerVars>>

\* fetchGithubStats and fetchNpmDownloads never throw here.
ExternalArrives(l) ==
    /\ l.what = "external"
    /\ Write(l, Content("tiles", l.of))
    /\ refreshable' = (refreshable \/ Wires(l))
    /\ loads' = loads \ {l}
    /\ UNCHANGED <<nav, page, panels, form, asOf, statsCache, agentCache, viewerVars>>

Refresh ==
    /\ refreshes < MaxRefresh
    /\ page.view = "stats"
    /\ refreshable
    /\ asOf.kind = "label"
    /\ refreshes' = refreshes + 1
    /\ loads' = loads \cup
            {[Load("registry", <<nav, refreshes + 1>>, nav) EXCEPT !.serial = refreshes + 1]}
    /\ UNCHANGED <<nav, page, body, panels, form, asOf, refreshable, statsCache, agentCache, log,
                   showTest>>

\* readStatsCache: the figures outlived STATS_TTL_MS.
StatsExpire ==
    /\ statsCache # None
    /\ statsCache' = None
    /\ UNCHANGED <<nav, page, body, panels, form, asOf, refreshable, loads, agentCache, viewerVars>>

-----------------------------------------------------------------------------
\* A receipt is finalized and logged, whatever the tab is doing.
LogGrows ==
    /\ Len(log) < MaxLog
    /\ \E a \in Agent : log' = Append(log, a)
    /\ UNCHANGED <<nav, page, body, panels, form, asOf, refreshable, statsCache, loads,
                   agentCache, showTest, refreshes>>

Arrives(l) ==
    \/ DetailArrives(l) \/ PanelArrives(l) \/ SearchArrives(l)
    \/ EntriesArrive(l) \/ (\E i \in DOMAIN l.rows : ReceiptArrives(l, i)) \/ Draw(l)
    \/ RegistryArrives(l) \/ ExternalArrives(l)

Next ==
    \/ \E v \in Detail, i \in Id : RenderDetail(v, i)
    \/ \E v \in Search : RenderSearch(v)
    \/ RenderActivity \/ RenderLookup \/ RenderStats
    \/ \E l \in loads : Arrives(l)
    \/ \E a \in Agent : AgentArrives(a)
    \/ Toggle \/ Refresh \/ StatsExpire \/ LogGrows

Spec == Init /\ [][Next]_vars

-----------------------------------------------------------------------------
\* The main element shows the page it belongs to, whatever answers come late.
BodyShowsPage ==
    /\ body.kind \in Detail => page.view = body.kind /\ page.id = body.of
    /\ body.kind = "stalled" => page.view \in Detail /\ page.id = body.of
    /\ body.kind = "tiles" => page.view = "stats"
    /\ body.kind = "rows" => page.view \in Search \cup {"activity"}

\* A row shown without a label has no demo agent for a party, except one whose
\* lookup failed in this tab.
RowsLabelled ==
    page.view = "activity" /\ body.kind = "rows" =>
        \A i \in Visible : body.of[i] = "live" =>
            log[i] \notin DemoAgent \/ agentCache[log[i]] = "failed"

\* What still spins is waited for by a request of this very page.  The exception
\* is the stalled body of a detail page whose own answer could not be read, and
\* of no other page (BodyShowsPage).
NothingHangs ==
    /\ body = Spinner => \E l \in loads : l.nav = nav
    /\ \A p \in PanelName : panels[p] = Spinner => \E l \in loads : l.nav = nav /\ l.what = p

\* A search that showed rows or an error can be repeated from its form.
FormWired == page.view \in Search /\ body.kind \in {"rows", "error"} => form = "wired"

(* The tab tells the truth about the page it shows, except for its panels  *)
(* and the label of the statistics, which late answers of earlier pages    *)
(* overwrite, and for the spinner of a detail page whose answer could not  *)
(* be read (route, apiGet, the render functions, getAgentCached).          *)
TabTruthful == BodyShowsPage /\ RowsLabelled /\ NothingHangs /\ FormWired

-----------------------------------------------------------------------------
(* The inductive invariant of the proofs. *)

RowState == {"asked", "private", "party"}
Lookup == {"unasked", "asked", "found", "failed"}
Main == Detail \cup Search \cup {"entries", "rows", "registry", "external"}

\* A request in flight; the rows it has asked for are receipts of the log.
Loaded(l) ==
    /\ l = [what |-> l.what, of |-> l.of, nav |-> l.nav, rows |-> l.rows, serial |-> l.serial]
    /\ l.what \in Main \cup PanelName
    /\ l.nav \in Nat /\ l.nav <= nav
    /\ l.rows \in Seq(RowState) /\ Len(l.rows) <= Len(log)

Shape ==
    /\ nav \in Nat
    /\ log \in Seq(Agent)
    /\ agentCache \in [Agent -> Lookup]
    /\ panels = [p \in PanelName |-> panels[p]]
    /\ \A l \in loads : Loaded(l)

\* A request whose element is still in the document is one of the page shown.
OfPage(l) ==
    /\ l.what \in Detail => page.view = l.what /\ page.id = l.of
    /\ l.what \in Search => page.view = l.what
    /\ l.what \in {"entries", "rows"} => page.view = "activity"
    /\ l.what \in {"registry", "external"} => page.view = "stats"

LoadsOfPage == \A l \in loads : l.nav = nav => OfPage(l)

\* What a row says of a party stays true as the log grows and lookups end.
RowsTrue ==
    page.view = "activity" /\ body.kind = "rows" =>
        /\ DOMAIN body.of \subseteq DOMAIN log
        /\ \A i \in DOMAIN body.of : body.of[i] = "live" =>
            log[i] \notin DemoAgent \/ agentCache[log[i]] = "failed"

\* The body waits for a request that will fill it, not for one of a panel.
BodyFilled == body = Spinner => \E l \in loads : l.nav = nav /\ l.what \notin PanelName

PanelsFilled ==
    \A p \in PanelName : panels[p] = Spinner => \E l \in loads : l.nav = nav /\ l.what = p

Inv ==
    /\ Shape /\ LoadsOfPage /\ BodyShowsPage /\ RowsTrue /\ BodyFilled /\ PanelsFilled
    /\ FormWired
=============================================================================
