---------------------------- MODULE ReleaseLists ----------------------------
(***************************************************************************)
(* NEW and UPCOMING, from Sony's two grids to the two views of a browser:   *)
(* release_games and release_listing (application/games.rs) with the pure   *)
(* functions of domain/listing.rs, the pages of the infinite query          *)
(* (gamesQuery.ts), and the split at the viewer's next local day            *)
(* (releaseDay.ts, ADR 0001).                                               *)
(*                                                                          *)
(* The server knows no time zone: it sends each view a superset, cut from   *)
(* the lists of the instant of the request, page by page.  The client has a *)
(* clock of its own and keeps what it has loaded while time passes.         *)
(***************************************************************************)
EXTENDS ReleaseSplit, Sequences, FiniteSets, SequencesExt

CONSTANTS
    Games,      \* the games of both grids, as numbers in Sony's order
    Products,   \* the games with a product id; the others are concept cards
    Dates,      \* the product release dates that occur
    Calendars,  \* sets of the starts of a viewer's days, on the viewer's clock
    Skews,      \* how far the viewer's clock may be ahead of the server's
    PageSize,   \* PAGE_SIZE
    Start,      \* the instant of the first request
    MaxNow,     \* bound: the last instant explored
    MaxMoves    \* bound: games that Sony files in other grids

ASSUME ReleaseAssumption ==
    /\ Games \subseteq Nat /\ IsFiniteSet(Games) /\ Products \subseteq Games /\ Dates \subseteq Int
    /\ PageSize \in Nat \ {0} /\ Start \in Int /\ MaxNow \in Int /\ Start <= MaxNow /\ MaxMoves \in Nat
    /\ Skews \subseteq -Margin..Margin /\ Calendars \subseteq SUBSET Int
    /\ \A days \in Calendars, t \in (Start - Margin)..(MaxNow + Margin) :
          \E m \in days : m > t /\ m <= t + MaxLocalDay

Grids == {"released", "upcoming"}
Views == {"new", "upcoming"}

VARIABLES
    now,    \* the server's clock
    viewer, \* the viewer's clock minus the server's, and the viewer's calendar
    filed,  \* Sony: the grids that list each game
    date,   \* Sony: the product release date of each game, or NoDate
    moved,  \* history: the games that Sony has filed anew
    grids,  \* the concept cache: the games of each grid, or NotCached
    details, \* the detail cache: the products whose date the server knows
    loaded  \* the browser's pages of each view

vars == <<now, viewer, filed, date, moved, grids, details, loaded>>

NotCached == [cached |-> FALSE, games |-> {}]
Listed(grid) == grids[grid].games
ListedProducts == Products \cap (Listed("released") \cup Listed("upcoming"))

\* A concept card is in the upcoming grid only, and its date is the grid's.
Filings == [Games -> (SUBSET Grids) \ {{}}]

Init ==
    /\ now = Start /\ viewer \in [skew : Skews, days : Calendars]
    /\ filed \in {f \in Filings : \A g \in Games \ Products : f[g] = {"upcoming"}}
    /\ date \in [Games -> Dates \cup {NoDate}]
    /\ moved = {}
    /\ grids = [g \in Grids |-> NotCached]
    /\ details = {}
    /\ loaded = [v \in Views |-> << >>]

-----------------------------------------------------------------------------
(* The server *)

\* Inner::concepts: a list or a game page fills the cache of one grid, which
\* lives for 30 seconds, less than the time between two instants.
GridRead(grid) ==
    /\ grids[grid] = NotCached
    /\ grids' = [grids EXCEPT ![grid] = [cached |-> TRUE, games |-> {g \in Games : grid \in filed[g]}]]
    /\ UNCHANGED <<now, viewer, filed, date, moved, details, loaded>>

GridExpires(grid) ==
    /\ grids[grid] # NotCached
    /\ grids' = [grids EXCEPT ![grid] = NotCached]
    /\ UNCHANGED <<now, viewer, filed, date, moved, details, loaded>>

\* Six hours, an eviction, or the next instant: less than any margin.
DetailExpires(g) ==
    /\ g \in details
    /\ details' = details \ {g}
    /\ UNCHANGED <<now, viewer, filed, date, moved, grids, loaded>>

\* enrich_date: a product without its detail has no date.
DateOf(g, failed) == IF g \in failed THEN NoDate ELSE date[g]

\* release_games: a released card needs a date, an upcoming one does not; a game
\* of both grids is listed once.
Merged(failed) == {g \in Listed("released") : DateOf(g, failed) # NoDate} \cup Listed("upcoming")

\* sort_by_date: undated games last, equal dates in the order of the grids.
Precedes(view, failed, a, b) ==
    LET da == DateOf(a, failed)
        db == DateOf(b, failed)
        isReleased(g, d) == g \in Listed("released") /\ d # NoDate IN
    IF da # db
    THEN db = NoDate \/ (da # NoDate /\ IF view = "new" THEN da > db ELSE da < db)
    ELSE \/ isReleased(a, da) /\ ~isReleased(b, db)
         \/ (isReleased(a, da) <=> isReleased(b, db)) /\ a < b

\* release_listing: the cards in the window of the view, as of now, in order.
\* No two cards are equal for Precedes, so there is one such list.
InListing(view, failed) == {g \in Merged(failed) : InWindow(view, DateOf(g, failed), now)}
Listings(view, failed) ==
    LET cards == InListing(view, failed)
    IN  {list \in [1..Cardinality(cards) -> cards] :
            /\ Range(list) = cards
            /\ \A i, j \in DOMAIN list : i < j => Precedes(view, failed, list[i], list[j])}

\* paginate: the cards of one page.
PaginateThroughEnd(list, offset) == SubSeq(list, offset + 1, Min({offset + PageSize + 1, Len(list)}))
Paginate(list, offset) == SubSeq(list, offset + 1, Min({offset + PageSize, Len(list)}))

-----------------------------------------------------------------------------
(* The browser *)

\* nextOffset of the last page; the first page is asked for at offset zero.
HasNextPage(view) ==
    loaded[view] # << >> =>
        Last(loaded[view]).offset + PageSize < Len(Last(loaded[view]).list)

\* try_join: both grids are read, or the request fails and nothing is loaded.
\* A product lookup may fail, unless the cache has its success.
FetchPage(view) ==
    /\ HasNextPage(view)
    /\ \A grid \in Grids : grids[grid] # NotCached
    /\ \E failed \in SUBSET (ListedProducts \ details) : \E list \in Listings(view, failed) :
          LET offset == PageSize * Len(loaded[view]) IN
          /\ details' = details \cup (ListedProducts \ failed)
          /\ loaded' = [loaded EXCEPT ![view] = Append(@,
                [games |-> Paginate(list, offset), offset |-> offset, list |-> list,
                 failed |-> failed, at |-> now])]
    /\ UNCHANGED <<now, viewer, filed, date, moved, grids>>

\* The query is refreshed from its first page.
Refetch(view) ==
    /\ loaded[view] # << >>
    /\ loaded' = [loaded EXCEPT ![view] = << >>]
    /\ UNCHANGED <<now, viewer, filed, date, moved, grids, details>>

SonyRefiles(g) ==
    /\ g \in Products \ moved
    /\ Cardinality(moved) < MaxMoves
    /\ moved' = moved \cup {g}
    /\ \E to \in SUBSET Grids : to # filed[g] /\ filed' = [filed EXCEPT ![g] = to]
    /\ UNCHANGED <<now, viewer, date, grids, details, loaded>>

Tick ==
    /\ now < MaxNow
    /\ now' = now + 1
    /\ grids' = [grid \in Grids |-> NotCached]
    /\ details' = {}
    /\ UNCHANGED <<viewer, filed, date, moved, loaded>>

Next ==
    \/ \E grid \in Grids : GridRead(grid) \/ GridExpires(grid)
    \/ \E view \in Views : FetchPage(view) \/ Refetch(view)
    \/ \E g \in Games : DetailExpires(g) \/ SonyRefiles(g)
    \/ Tick

Spec == Init /\ [][Next]_vars

-----------------------------------------------------------------------------
(* What the views show *)

\* nextLocalDayStart, on the viewer's clock.
NextLocalDay == Min({m \in viewer.days : m > now + viewer.skew})

\* The cards of a view: their pages and their places on them.
Cards(view) == UNION {{<<i, k>> : k \in DOMAIN loaded[view][i].games} : i \in DOMAIN loaded[view]}
GameOf(view, card) == loaded[view][card[1]].games[card[2]]

\* splitByReleaseDay: the cards of all pages that the view keeps, by game.
Shown(view, g) ==
    {card \in Cards(view) :
        /\ GameOf(view, card) = g
        /\ InView(view, DateOf(g, loaded[view][card[1]].failed), NextLocalDay)}
Occurrences(view, g) == Cardinality(Shown(view, g))

-----------------------------------------------------------------------------
(* Properties *)

Page == [games : Seq(Games), offset : Nat, list : Seq(Games), failed : SUBSET Products, at : Start..MaxNow]

\* Every variable has its type, and no page is longer than the client asked for.
TypeOK ==
    /\ now \in Start..MaxNow /\ viewer \in [skew : Skews, days : Calendars]
    /\ filed \in [Games -> SUBSET Grids] /\ date \in [Games -> Dates \cup {NoDate}]
    /\ details \subseteq Products /\ moved \subseteq Products /\ Cardinality(moved) <= MaxMoves
    /\ grids \in [Grids -> [cached : BOOLEAN, games : SUBSET Games]]
    /\ \A view \in Views : \A i \in DOMAIN loaded[view] : loaded[view][i] \in Page /\ Len(loaded[view][i].games) <= PageSize

WhollyLoaded == \A view \in Views : loaded[view] # << >> /\ ~HasNextPage(view)

\* Every page of a view was cut from the same list.
OneList(view) == \A i, j \in DOMAIN loaded[view] : loaded[view][i].list = loaded[view][j].list

\* The pages are not older than the margin leaves room for.
Recent == \A view \in Views : \A i \in DOMAIN loaded[view] : now - loaded[view][i].at + viewer.skew <= Margin

\* Sony has told the date of the game, or it lists the game as upcoming.
Dated(g) ==
    /\ \A view \in Views : \A i \in DOMAIN loaded[view] : g \notin loaded[view][i].failed
    /\ date[g] # NoDate \/ "upcoming" \in filed[g]

ShownOnce(g) == Occurrences("new", g) + Occurrences("upcoming", g) = 1

\* Every game that Sony has not refiled is a card of exactly one of the loaded
\* views, once: whichever grid Sony files it in, wherever the viewer's midnight
\* is, however far the two clocks are apart, and however old the pages are, as
\* long as both stay within the margin and no list changed between its pages.
EachGameIsShownOnce ==
    WhollyLoaded /\ Recent /\ OneList("new") /\ OneList("upcoming") =>
        \A g \in Games \ moved : Dated(g) => ShownOnce(g)
=============================================================================
