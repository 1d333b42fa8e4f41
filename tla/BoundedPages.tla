---------------------------- MODULE BoundedPages ----------------------------
(***************************************************************************)
(* The views that show one of Sony's lists in Sony's order and look every   *)
(* element up before it becomes a card: BROWSE and search, page by page     *)
(* (read_browse_page and search_games of application/games.rs), and the     *)
(* signed-in wishlist, in one answer (enrich_wishlist of                    *)
(* application/account.rs).  The three share in_order_bounded, module       *)
(* BoundedLookups.                                                          *)
(*                                                                          *)
(* One view is open.  A raw page of Sony may narrow to nothing, a lookup    *)
(* may fail, wait for its deadline or end after its neighbours, and the     *)
(* page information may be unreadable.  The caches of the single lookups    *)
(* are those of module TtlCache and only decide which lookups fail.         *)
(***************************************************************************)
EXTENDS BoundedLookups, FiniteSets

CONSTANTS
    ProductIds,     \* product ids
    Ps5Games,       \* the products whose detail proves a PS5 game
    Ps5Titles,      \* the products whose id is that of a PS5 title
    NoCard,         \* no game
    End,            \* the absent next offset
    Openings,       \* [view, list]: the lists of raw elements that may be opened
    Size,           \* BROWSE_PAGE_SIZE, PAGE_SIZE
    RawPageBound,   \* BROWSE_RAW_PAGE_BOUND, SEARCH_RAW_PAGE_BOUND
    MaxCandidates,  \* BROWSE_MAX_CANDIDATES
    Limit,          \* the lookups that run at once
    EntryTimeout,   \* WISHLIST_ENRICH_ENTRY_TIMEOUT
    TotalTimeout,   \* WISHLIST_ENRICH_TOTAL_TIMEOUT
    MaxFaults       \* bound: failures of Sony

Paged == {"browse", "search"}
Views == Paged \cup {"wishlist"}

\* An element of Sony's list: a product stands for itself, a concept has product
\* ids or none.  The classification in a search result is that of the detail.
IsElement(viewed, element) ==
    /\ DOMAIN element = {"kind", "id", "products", "inScope"}
    /\ element.kind \in {"concept", "product", "malformed"}
    /\ element.products \in Seq(ProductIds)
    /\ element.kind # "malformed" => element.id # NoCard
    /\ element.kind = "product" => element.products = <<element.id>>
    /\ element.kind = "concept" => element.id \notin ProductIds
    /\ viewed = "search" /\ element.kind = "product" => (element.inScope <=> element.id \in Ps5Games)

ASSUME BoundedPagesAssumption ==
    /\ Ps5Games \subseteq ProductIds /\ Ps5Titles \subseteq ProductIds /\ NoCard \notin ProductIds
    /\ \A n \in {Size, RawPageBound, MaxCandidates, Limit, EntryTimeout, TotalTimeout} : n \in Nat \ {0}
    /\ MaxFaults \in Nat /\ End \notin Nat
    /\ \A opening \in Openings :
          /\ opening.view \in Views
          /\ Len(opening.list) \in Nat /\ DOMAIN opening.list = 1..Len(opening.list)
          /\ \A n \in DOMAIN opening.list : IsElement(opening.view, opening.list[n])

VARIABLES
    view,     \* the open view
    sorted,   \* the user sorts the search, which reads every page first
    list,     \* Sony's list: elements [kind, id, products, inScope]
    slow,     \* the products whose lookup takes time, whether it ends by its deadline or not
    faults,   \* history: the failures of Sony so far
    held,     \* browse_pages holds the failure of the page that is asked for
    request,  \* the request that the server works on
    client    \* the pages that the browser has loaded

pagesVars == <<view, sorted, list, slow, faults, held, request, client>>
opened == <<view, sorted, list, slow>>

-----------------------------------------------------------------------------
(* Parts of a sequence *)

\* The numbers of a finite set in increasing order.
InOrder[numbers \in SUBSET Nat] ==
    [k \in 1..Cardinality(numbers) |-> CHOOSE n \in numbers : Cardinality({m \in numbers : m <= n}) = k]

\* The elements at some places of a sequence, in order; the places at which a
\* value occurs first.
Picked(seq, places) == LET order == InOrder[places] IN [k \in DOMAIN order |-> seq[order[k]]]
FirstPlaces(keys) == {k \in DOMAIN keys : \A j \in DOMAIN keys : j < k => keys[j] # keys[k]}

-----------------------------------------------------------------------------
(* What a raw page holds *)

\* The positions of a raw page in Sony's list, and those whose element decodes.
RawPositions(offset) == (offset + 1)..(offset + Least(Size, Len(list) - offset))
Decoded(positions) == {n \in positions : list[n].kind # "malformed"}

\* extract_browse_page reads the concepts only; narrow_search_entries keeps a
\* product that the list proves and a concept that names a product; the wishlist
\* keeps the entries in scope.
Concepts(positions) == {n \in Decoded(positions) : list[n].kind = "concept"}
InSearchScope(n) == IF list[n].kind = "product" THEN list[n].inScope ELSE list[n].products # << >>
Entries(positions) ==
    CASE view = "browse" -> Concepts(positions)
      [] view = "search" -> {n \in Decoded(positions) : InSearchScope(n)}
      [] view = "wishlist" -> {n \in Decoded(positions) : list[n].inScope}

\* browse_candidate_ids: PS5 titles first, otherwise Sony's order.
CandidateIds(products) ==
    LET ids == Picked(products, FirstPlaces(products))
        titles == {k \in DOMAIN ids : ids[k] \in Ps5Titles}
        ordered == Picked(ids, titles) \o Picked(ids, DOMAIN ids \ titles)
    IN  SubSeq(ordered, 1, Least(MaxCandidates, Len(ordered)))

\* The id of an entry, the products to look up, and what the list itself proves.
\* A concept of BROWSE has no id before its lookup; a concept entry of the wishlist
\* has no lookup.
IdOf(n) ==
    CASE view = "browse" -> n
      [] view = "search" -> Head(list[n].products)
      [] view = "wishlist" -> list[n].id
CandidatesOf(n) ==
    CASE view = "browse" -> CandidateIds(list[n].products)
      [] view = "search" -> <<Head(list[n].products)>>
      [] view = "wishlist" -> IF list[n].kind = "product" THEN <<list[n].id>> ELSE << >>
IsKnown(n) == view = "search" /\ list[n].kind = "product"

\* An item stands for a card.  The first entry of an id stands for all of them;
\* at (history) has the positions of them all in Sony's list.
Alike(n, positions) == {m \in Entries(positions) : IdOf(m) = IdOf(n)}
FirstEntries(positions) == {n \in Entries(positions) : \A m \in Alike(n, positions) : n <= m}
Item(n, positions) ==
    [id |-> IdOf(n), candidates |-> CandidatesOf(n), known |-> IsKnown(n), at |-> Alike(n, positions)]
Items(positions) ==
    LET order == InOrder[FirstEntries(positions)]
    IN  [k \in DOMAIN order |-> Item(order[k], positions)]

-----------------------------------------------------------------------------
(* What becomes of an item *)

Card(id, from) == [card |-> id, from |-> from]
Dropped == Card(NoCard, "dropped")
Failed == Card(NoCard, "failed")

\* resolve_search_candidate: the lenient detail, which a known game does not need;
\* a concept whose lookup failed is dropped like any other, and marked here.
SearchResolution(item, found) ==
    CASE item.known -> Card(item.id, IF found THEN "store" ELSE "list")
      [] ~item.known /\ found -> IF item.id \in Ps5Games THEN Card(item.id, "store") ELSE Dropped
      [] ~item.known /\ ~found -> Failed

\* enrich_entry, merge_wishlist_entry: whatever happens, the entry keeps its card.
EnrichedEntry(item, found) ==
    Card(item.id, IF found /\ item.id \in Ps5Games THEN "store" ELSE "list")

\* resolve_browse_concept: the candidate products in sequence, until one proves
\* a PS5 game or its lookup fails.
BrowseGoesOn(item, tried, found) ==
    found /\ item.candidates[tried] \notin Ps5Games /\ tried < Len(item.candidates)
BrowseResolution(item, tried, found) ==
    CASE ~found -> Failed
      [] found /\ item.candidates[tried] \in Ps5Games -> Card(item.candidates[tried], "store")
      [] found /\ item.candidates[tried] \notin Ps5Games -> Dropped

GoesOn(item, tried, found) == view = "browse" /\ BrowseGoesOn(item, tried, found)
Resolution(item, tried, found) ==
    CASE view = "browse" -> BrowseResolution(item, tried, found)
      [] view = "search" -> SearchResolution(item, found)
      [] view = "wishlist" -> EnrichedEntry(item, found)

Without(item) == IF view = "wishlist" THEN EnrichedEntry(item, FALSE) ELSE Dropped

-----------------------------------------------------------------------------
(* The request on the server *)

NoRequest == [state |-> "none", offset |-> 0, left |-> 0, last |-> FALSE, blind |-> FALSE, items |-> << >>,
              pool |-> NewPool(0, Limit), tried |-> << >>, since |-> << >>, clock |-> 0, lost |-> {}]
ReadFrom(offset, left, lost) ==
    [NoRequest EXCEPT !.state = "reading", !.offset = offset, !.left = left, !.lost = lost]
NewRequest(offset) == ReadFrom(offset, RawPageBound, {})

PagesInit ==
    /\ \E opening \in Openings : view = opening.view /\ list = opening.list
    /\ sorted \in (IF view = "search" THEN BOOLEAN ELSE {FALSE})
    /\ slow \in (IF view = "wishlist" THEN SUBSET (ProductIds \cap {list[n].id : n \in DOMAIN list}) ELSE {{}})
    /\ faults = 0 /\ held = FALSE
    /\ request = NoRequest
    /\ client = [status |-> "idle", retried |-> FALSE, loaded |-> FALSE, next |-> 0,
                 cards |-> << >>, lost |-> {}, blind |-> FALSE]

\* A failed request: the query client asks once more by itself, except for a
\* signed-in list.  A failed page of BROWSE stays in its cache for a while.
RequestFails ==
    /\ request' = NoRequest
    /\ held' = (view = "browse")
    /\ client' = IF client.retried \/ view = "wishlist"
                 THEN [client EXCEPT !.status = "failed", !.retried = FALSE]
                 ELSE [client EXCEPT !.retried = TRUE]

\* next_offset, before the end of Sony's list.
NextOffsetOfKept == request.offset + Len(request.items)
NextOffset == request.offset + Size

Answer(cards, lost) ==
    /\ request' = NoRequest
    /\ client' = [status |-> "idle", retried |-> FALSE, loaded |-> TRUE,
                  next |-> IF request.last THEN End ELSE NextOffset,
                  cards |-> client.cards \o cards, lost |-> client.lost \cup lost,
                  blind |-> client.blind \/ request.blind]

\* category_grid_json, search_page, wishlist_games: Sony's page arrives.  A page
\* of search without readable page information is an outage; BROWSE takes a page
\* of fewer concepts than it asked for as the last one.
PageRead(readable) ==
    /\ request.state = "reading" /\ ~held
    /\ view = "browse" \/ readable
    /\ LET positions == IF view \in Paged THEN RawPositions(request.offset) ELSE DOMAIN list
           items == Items(positions)
           atEnd == view \in Paged => request.offset + Size >= Len(list)
           short == Cardinality(Concepts(positions)) < Size
           pool == NewPool(Len(items), Limit) IN
       request' = [request EXCEPT
            !.state = "resolving", !.items = items, !.pool = pool,
            !.last = IF readable THEN atEnd ELSE short,
            !.blind = ~readable /\ short /\ ~atEnd,
            !.tried = [k \in DOMAIN items |-> 1], !.since = [k \in DOMAIN items |-> 0]]
    /\ UNCHANGED <<opened, faults, held, client>>

\* Sony fails, or the cache still holds the failure of this page.
PageFails ==
    /\ request.state = "reading"
    /\ \/ held /\ UNCHANGED faults
       \/ ~held /\ faults < MaxFaults /\ faults' = faults + 1
    /\ RequestFails
    /\ UNCHANGED opened

FailureExpires ==
    /\ held
    /\ held' = FALSE
    /\ UNCHANGED <<opened, faults, request, client>>

\* The lookup of an item ends: its slot goes to the next item in order.
ItemEnds(k, output) ==
    LET pool == Finish(request.pool, k, output, Limit) IN
    request' = [request EXCEPT
        !.pool = pool,
        !.since = [i \in DOMAIN @ |-> IF i \in Unfinished(pool) \ Unfinished(request.pool) THEN request.clock ELSE @[i]]]

IsRunning(k) == request.state = "resolving" /\ k \in Unfinished(request.pool)
Candidate(k) == request.items[k].candidates[request.tried[k]]

LookupEnds(k, found) ==
    /\ IsRunning(k) /\ request.items[k].candidates # << >>
    /\ found \/ faults < MaxFaults
    /\ faults' = IF found THEN faults ELSE faults + 1
    /\ IF GoesOn(request.items[k], request.tried[k], found)
       THEN request' = [request EXCEPT !.tried[k] = @ + 1]
       ELSE ItemEnds(k, Resolution(request.items[k], request.tried[k], found))
    /\ UNCHANGED <<opened, held, client>>

\* A concept without a product id: BROWSE drops it, the wishlist keeps its card.
NothingToLookUp(k) ==
    /\ IsRunning(k) /\ request.items[k].candidates = << >>
    /\ ItemEnds(k, Without(request.items[k]))
    /\ UNCHANGED <<opened, faults, held, client>>

-----------------------------------------------------------------------------
(* The deadlines of the wishlist *)

Waited(k) == request.clock - request.since[k]

EntryTimesOut(k) ==
    /\ view = "wishlist" /\ IsRunning(k) /\ Waited(k) >= EntryTimeout
    /\ ItemEnds(k, Without(request.items[k]))
    /\ UNCHANGED <<opened, faults, held, client>>

\* Time passes while only slow lookups wait, of which each may end at any time up
\* to its deadline.
TimePasses ==
    /\ view = "wishlist" /\ request.state = "resolving" /\ request.clock < TotalTimeout
    /\ ~IsComplete(request.pool)
    /\ \A k \in Unfinished(request.pool) :
          request.items[k].candidates # << >> /\ Candidate(k) \in slow /\ Waited(k) < EntryTimeout
    /\ request' = [request EXCEPT !.clock = @ + 1]
    /\ UNCHANGED <<opened, faults, held, client>>

\* wishlist_cards: every lookup is dropped, those that have ended too.
TotalTimesOut ==
    /\ view = "wishlist" /\ request.state = "resolving" /\ request.clock = TotalTimeout
    /\ ~IsComplete(request.pool)
    /\ Answer([k \in DOMAIN request.items |-> Card(request.items[k].id, "list")], {})
    /\ UNCHANGED <<opened, faults, held>>

-----------------------------------------------------------------------------
(* The end of a page *)

\* BROWSE keeps the first card of a repeated game.
FirstCards(cards) == Picked(cards, FirstPlaces([k \in DOMAIN cards |-> cards[k].card]))
Kept(outputs) ==
    LET cards == Picked(outputs, {k \in DOMAIN outputs : outputs[k].card # NoCard})
    IN  IF view = "browse" THEN FirstCards(cards) ELSE cards

\* Without one answer at all, and with no game beside a failure: an outage never
\* reads as an empty genre.
IsOutageOfAll(outputs) == view = "browse" /\ outputs # << >> /\ \A k \in DOMAIN outputs : outputs[k] = Failed
IsOutage(outputs) == view = "browse" /\ Kept(outputs) = << >> /\ \E k \in DOMAIN outputs : outputs[k] = Failed

\* search: the failed detail of a concept drops it without a trace.
LostItems(outputs) == UNION {request.items[k].at : k \in {i \in DOMAIN outputs : outputs[i] = Failed}}

\* A raw page that narrows to nothing reads the next one, up to the bound.
ReadsOn(cards) == view \in Paged /\ ~request.last /\ cards = << >> /\ request.left > 1

PageResolved ==
    /\ request.state = "resolving" /\ IsComplete(request.pool)
    /\ LET outputs == Outputs(request.pool)
           lost == request.lost \cup LostItems(outputs) IN
       IF IsOutage(outputs) THEN RequestFails
       ELSE IF ReadsOn(Kept(outputs))
       THEN request' = ReadFrom(NextOffset, request.left - 1, lost) /\ UNCHANGED <<held, client>>
       ELSE Answer(Kept(outputs), lost) /\ UNCHANGED held
    /\ UNCHANGED <<opened, faults>>

-----------------------------------------------------------------------------
(* The browser *)

\* uniqueById; every card of the wishlist is shown as it came.
Shown == IF view \in Paged THEN FirstCards(client.cards) ELSE client.cards

\* awaitingMore: a page to read, and nothing to show without it.
AwaitingMore == client.next # End /\ (Shown = << >> \/ sorted)

Ask ==
    /\ client' = [client EXCEPT !.status = "fetching"]
    /\ request' = NewRequest(client.next)
    /\ UNCHANGED <<opened, faults, held>>

\* The view opens, or its effect asks for the page behind an empty one.
Fetch == client.status = "idle" /\ AwaitingMore /\ Ask
AskAgain == client.status = "fetching" /\ request = NoRequest /\ Ask

\* The user scrolls, or presses Retry.
ScrollDown == client.status = "idle" /\ client.next # End /\ ~AwaitingMore /\ Ask
Retry == client.status = "failed" /\ Ask

ServerStep ==
    \/ \E readable \in BOOLEAN : PageRead(readable)
    \/ PageFails \/ FailureExpires
    \/ \E k \in DOMAIN request.items :
          NothingToLookUp(k) \/ EntryTimesOut(k) \/ \E found \in BOOLEAN : LookupEnds(k, found)
    \/ TimePasses \/ TotalTimesOut \/ PageResolved

PagesNext == ServerStep \/ Fetch \/ AskAgain \/ ScrollDown \/ Retry

\* Sony's calls, the timers, the tasks of the server and the effect of the view
\* all go on by themselves; the user need not.
PagesSpec == PagesInit /\ [][PagesNext]_pagesVars /\ WF_pagesVars(ServerStep) /\ WF_pagesVars(Fetch \/ AskAgain)

-----------------------------------------------------------------------------
(* Properties *)

\* The card that an element of Sony's list stands for, whatever the lookups do.
FirstGame(candidates) ==
    LET games == {k \in DOMAIN candidates : candidates[k] \in Ps5Games}
    IN  IF games = {} THEN NoCard ELSE candidates[CHOOSE k \in games : \A j \in games : k <= j]
CardOf(n) ==
    IF n \notin Entries({n}) THEN NoCard
    ELSE IF view = "wishlist" THEN IdOf(n)
    ELSE FirstGame(CandidatesOf(n))

\* The cards of a part of Sony's list, each once, in Sony's order.
FirstsOf(positions) ==
    {n \in positions : CardOf(n) # NoCard /\ \A m \in positions : m < n => CardOf(m) # CardOf(n)}
CardsOf(positions) == LET order == InOrder[FirstsOf(positions)] IN [k \in DOMAIN order |-> CardOf(order[k])]
Reached == IF client.next = End THEN Len(list) ELSE client.next
AllCards == CardsOf(1..Len(list))

\* Every variable has its type, and no more lookups run than the bound allows.
PagesTypeOK ==
    /\ view \in Views /\ sorted \in BOOLEAN /\ slow \subseteq ProductIds /\ faults \in 0..MaxFaults /\ held \in BOOLEAN
    /\ request.state \in {"none", "reading", "resolving"} /\ request.left \in 0..RawPageBound
    /\ request.clock \in 0..TotalTimeout /\ DOMAIN request.tried = DOMAIN request.items
    /\ Cardinality(Unfinished(request.pool)) <= Limit
    /\ client.status \in {"idle", "fetching", "failed"} /\ client.next \in {End} \cup (0..Len(list))
    /\ client.lost \subseteq DOMAIN list /\ client.status = "idle" => request = NoRequest

\* The loaded pages show each game of the part of Sony's list that they cover,
\* once and in Sony's order: no game is skipped or repeated at the edge of a page,
\* behind a raw page that narrowed to nothing or beside a slow lookup. Only a game
\* whose own lookup failed, and the rest of a genre whose page information was
\* unreadable while an element of the page did not decode, may be missing.
PagesShowEveryGame ==
    LET covered == (1..Reached) \ client.lost
    IN  client.loaded /\ ~client.blind => [k \in DOMAIN Shown |-> Shown[k].card] = CardsOf(covered)

\* ADR 0002: an outage never reads as an empty genre. A BROWSE view that is empty
\* to the end is one in which no concept is a PS5 game, however many lookups failed.
EmptyGenreIsReal ==
    view = "browse" /\ client.loaded /\ client.next = End /\ ~client.blind /\ Shown = << >> => AllCards = << >>

\* account.rs, enrich_wishlist: a slow lookup holds its own slot only. As long as
\* the slow lookups fit into the deadline of the whole list, even if each of them
\* takes all the time that it has, every other entry that the store knows has its
\* store card.
EnrichedUnlessTooManySlow ==
    LET late == {n \in DOMAIN list : list[n].id \in slow}
    IN  view = "wishlist" /\ client.loaded /\ faults = 0
        /\ Cardinality(late) <= Limit * ((TotalTimeout - 1) \div EntryTimeout)
        => \A k \in DOMAIN Shown : Shown[k].card \in Ps5Games \ slow => Shown[k].from = "store"

\* The view comes to rest: it shows a card, knows that there is none, or tells of
\* a failure. It never waits for a page that nobody asks for or that never ends.
ViewSettles == []<>(client.status = "failed" \/ (client.status = "idle" /\ ~AwaitingMore))
=============================================================================
