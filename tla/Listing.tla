------------------------------- MODULE Listing -------------------------------
(***************************************************************************)
(* Lists read page by page.  A search route filters every agent afresh for *)
(* each page and cuts the page out by offset (GET /agents/search); clients *)
(* walk the pages until hasMore is false, while agents register, link a    *)
(* wallet or retire in between.  Rows keep the order of registration.      *)
(***************************************************************************)
EXTENDS FiniteSets, Integers, Sequences

CONSTANTS
    None,
    DefaultPageLimit, MaxPageLimit,
    Limit,              \* limits clients ask for, in halves
    MaxRows,            \* bound on registered agents
    MaxWalks            \* bound on walks

VARIABLES
    rows,               \* demo, linked and retired, for each agent as registered
    walk,               \* the walk under way or done, or None
    walks

vars == <<rows, walk, walks>>

Underway == walk # None /\ ~walk.done

Init == rows = <<>> /\ walk = None /\ walks = 0

-----------------------------------------------------------------------------
(* The route. *)

\* The limit is checked before it is rounded down, so one half gives pages of none.
ParseLimit(raw) ==
    LET limit == IF raw <= 0 THEN 2 * DefaultPageLimit ELSE raw IN
    IF limit \div 2 > MaxPageLimit THEN MaxPageLimit ELSE limit \div 2

\* Seeded fault: the retired are left out whatever the query says.
NeverRetired(row, query) ==
    /\ ~row.retired
    /\ query.supports => row.linked
    /\ query.includeDemo \/ ~row.demo

Matches(row, query) ==
    /\ query.includeRevoked \/ ~row.retired
    /\ query.supports => row.linked
    /\ query.includeDemo \/ ~row.demo

\* A list is the set of its rows: they stand in it by their number.
SearchAgents(query) == {i \in DOMAIN rows : Matches(rows[i], query)}

Place(i, items) == Cardinality({j \in items : j <= i})

Paginate(items, limit, offset) ==
    [page |-> {i \in items : offset < Place(i, items) /\ Place(i, items) <= offset + limit},
     hasMore |-> offset + limit < Cardinality(items)]

-----------------------------------------------------------------------------
(* The registry meanwhile. *)

Register(demo) ==
    /\ Len(rows) < MaxRows
    /\ rows' = Append(rows, [demo |-> demo, linked |-> FALSE, retired |-> FALSE])
    /\ UNCHANGED <<walk, walks>>

Link(i) ==
    /\ ~rows[i].linked /\ ~rows[i].retired
    /\ rows' = [rows EXCEPT ![i].linked = TRUE]
    /\ UNCHANGED <<walk, walks>>

Retire(i) ==
    /\ ~rows[i].retired
    /\ rows' = [rows EXCEPT ![i].retired = TRUE]
    /\ walk' = IF Underway THEN [walk EXCEPT !.gone = @ \cup {i}] ELSE walk
    /\ UNCHANGED walks

-----------------------------------------------------------------------------
(* The walks: inamLinkedWallets, the explorer's fetchAll, fetchInamAgents. *)

Query == [supports : BOOLEAN, includeDemo : {TRUE}, includeRevoked : {TRUE}]
         \* A walk that leaves the retired out, as searchAgents does by default.
         \cup [supports : BOOLEAN, includeDemo : BOOLEAN, includeRevoked : {FALSE}]

StartWalk(query, raw) ==
    /\ ~Underway /\ walks < MaxWalks
    /\ walks' = walks + 1
    /\ walk' = [query |-> query, limit |-> raw, offset |-> 0, seen |-> {},
                asked |-> SearchAgents(query), gone |-> {}, done |-> FALSE]
    /\ UNCHANGED rows

\* The next offset is what was asked for further on, not what came.
NextPage ==
    /\ Underway
    /\ LET answer == Paginate(SearchAgents(walk.query), ParseLimit(walk.limit), walk.offset) IN
       walk' = [walk EXCEPT !.offset = @ + walk.limit \div 2,
                            !.seen = @ \cup answer.page,
                            !.done = ~answer.hasMore]
    /\ UNCHANGED <<rows, walks>>

Next ==
    \/ \E demo \in BOOLEAN : Register(demo)
    \/ \E i \in DOMAIN rows : Link(i) \/ Retire(i)
    \/ \E query \in Query, raw \in Limit : StartWalk(query, raw)
    \/ NextPage

Spec == Init /\ [][Next]_vars

-----------------------------------------------------------------------------
(* A walk that asks for the retired too misses nobody who matched when it  *)
(* began, however many register, link or retire between its pages: what is *)
(* new only moves others back, to be seen twice.  A walk without them may  *)
(* miss an agent for each one that retires meanwhile, and no more          *)
(* (searchAgents, paginate, inamLinkedWallets, fetchAll).                  *)
Missed == walk.asked \ walk.seen

ListingComplete ==
    walk # None /\ walk.done =>
        IF walk.query.includeRevoked THEN Missed = {}
        ELSE Cardinality(Missed \ walk.gone) <= Cardinality(walk.gone)
=============================================================================
