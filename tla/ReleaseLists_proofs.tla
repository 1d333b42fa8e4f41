-------------------------- MODULE ReleaseLists_proofs --------------------------
(* For every page size, calendar, clock and filing: the windows of the server *)
(* are wide enough for the client's split (ADR 0001), a list and its pages     *)
(* are what the browser takes them for, and a game is shown once.              *)
EXTENDS ReleaseLists, FiniteSetTheorems, WellFoundedInduction, TLAPS

-----------------------------------------------------------------------------
(* The windows and the split *)
\* The client keeps a game in NEW only if the response to NEW has it: a page of
\* NEW may be as old as the margin leaves room for.
LEMMA NewIsSuperset ==
    ASSUME NEW when \in Int \cup {NoDate}, NEW sent \in Int, NEW clock \in Int, NEW boundary \in Int,
           boundary <= clock + MaxLocalDay, clock <= sent + Margin,
           InView("new", when, boundary)
    PROVE  InWindow("new", when, sent)
BY SplitAssumption DEF InView, BeforeBoundary, InWindow, InNewWindow

\* The client keeps a game in UPCOMING only if the response to UPCOMING has it:
\* an old page has more than the client needs, so only a slow clock can hurt.
LEMMA UpcomingIsSuperset ==
    ASSUME NEW when \in Int \cup {NoDate}, NEW sent \in Int, NEW clock \in Int, NEW boundary \in Int,
           boundary > clock, clock >= sent - Margin,
           InView("upcoming", when, boundary)
    PROVE  InWindow("upcoming", when, sent)
BY SplitAssumption DEF InView, BeforeBoundary, InWindow, InUpcomingWindow

\* Whatever the viewer's midnight and clock are within the margin, and whenever
\* the two lists were sent: the split keeps every game that the server sent in
\* exactly one of the two views, and loses none to the windows.
THEOREM SplitIsExact ==
    ASSUME NEW when \in Int \cup {NoDate}, NEW clock \in Int, NEW boundary \in Int,
           NEW newAt \in Int, NEW upcomingAt \in Int,
           boundary > clock, boundary <= clock + MaxLocalDay,
           clock <= newAt + Margin, clock >= upcomingAt - Margin
    PROVE  LET shown(view, at) == InWindow(view, when, at) /\ InView(view, when, boundary) IN
           shown("new", newAt) <=> ~shown("upcoming", upcomingAt)
<1>1. CASE InView("new", when, boundary)
    <2>1. InWindow("new", when, newAt)
        BY <1>1, NewIsSuperset
    <2>2. ~InView("upcoming", when, boundary)
        BY <1>1 DEF InView
    <2> QED  BY <1>1, <2>1, <2>2
<1>2. CASE ~InView("new", when, boundary)
    <2>1. InView("upcoming", when, boundary)
        BY <1>2 DEF InView
    <2>2. InWindow("upcoming", when, upcomingAt)
        BY <2>1, UpcomingIsSuperset
    <2> QED  BY <1>2, <2>1, <2>2
<1> QED  BY <1>1, <1>2

-----------------------------------------------------------------------------
(* The least of numbers *)

\* A set of naturals has a least one.
LEMMA LeastNatural ==
    ASSUME NEW T \in SUBSET Nat, T # {}
    PROVE  \E n \in T : \A m \in T : n <= m
<1>1. PICK n \in T : \A m \in T : <<m, n>> \notin OpToRel(<, Nat)
    BY NatLessThanWellFounded, WFMin
<1>2. \A m \in T : ~(m < n)
    BY <1>1 DEF OpToRel
<1> QED  BY <1>2

\* The least of integers that are bounded below.
LEMMA LeastInteger ==
    ASSUME NEW T \in SUBSET Int, T # {}, NEW low \in Int, \A t \in T : t >= low
    PROVE  Min(T) \in T /\ \A t \in T : Min(T) <= t
<1> DEFINE shifted == {n \in Nat : low + n \in T}
<1>1. shifted # {}
    <2>1. PICK t \in T : TRUE
        OBVIOUS
    <2>2. t - low \in Nat /\ low + (t - low) = t
        OBVIOUS
    <2> QED  BY <2>2
<1>2. PICK n \in shifted : \A m \in shifted : n <= m
    BY <1>1, LeastNatural
<1>3. \A t \in T : low + n <= t
    <2> TAKE t \in T
    <2>1. t - low \in Nat /\ low + (t - low) = t
        OBVIOUS
    <2>2. t - low \in shifted
        BY <2>1
    <2>3. n <= t - low
        BY <1>2, <2>2
    <2> QED  BY <2>3
<1>4. \E x \in T : \A y \in T : x <= y
    BY <1>2, <1>3
<1> QED  BY <1>4 DEF Min

LEMMA MinOfTwo ==
    ASSUME NEW a \in Int, NEW b \in Int
    PROVE  Min({a, b}) = IF a <= b THEN a ELSE b
<1> DEFINE T == {a, b}
           least == IF a <= b THEN a ELSE b
<1>1. least \in T /\ \A y \in T : least <= y
    OBVIOUS
<1>2. Min(T) \in T /\ \A y \in T : Min(T) <= y
    BY <1>1 DEF Min
<1>3. Min(T) <= least /\ least <= Min(T)
    BY <1>1, <1>2
<1>4. Min(T) \in Int /\ least \in Int
    BY <1>2
<1> QED  BY <1>3, <1>4

-----------------------------------------------------------------------------
(* Multiples of the size of a page *)

LEMMA NextMultiple ==
    ASSUME NEW size \in Nat \ {0}, NEW a \in Nat
    PROVE  size * (a + 1) = size * a + size /\ size * a \in Nat
OBVIOUS

LEMMA MultiplesGrow ==
    ASSUME NEW size \in Nat \ {0}, NEW a \in Nat, NEW b \in Nat, a < b
    PROVE  size * a + size <= size * b
<1>1. PICK d \in Nat : b = a + 1 + d
    <2>1. b - a - 1 \in Nat /\ b = a + 1 + (b - a - 1)
        OBVIOUS
    <2> QED  BY <2>1
<1>2. size * b = size * a + size + size * d
    BY <1>1
<1>3. size * d \in Nat /\ size * a \in Nat
    OBVIOUS
<1> QED  BY <1>2, <1>3

\* A place of a list is a place of one page only.
LEMMA OnePage ==
    ASSUME NEW size \in Nat \ {0}, NEW a \in Nat, NEW b \in Nat, NEW k \in 1..size, NEW m \in 1..size,
           size * a + k = size * b + m
    PROVE  a = b /\ k = m
<1>1. size * a \in Nat /\ size * b \in Nat
    OBVIOUS
<1>2. ~(a < b)
    <2> SUFFICES ASSUME a < b PROVE FALSE
        OBVIOUS
    <2>1. size * a + size <= size * b
        BY MultiplesGrow
    <2> QED  BY <1>1, <2>1
<1>3. ~(b < a)
    <2> SUFFICES ASSUME b < a PROVE FALSE
        OBVIOUS
    <2>1. size * b + size <= size * a
        BY MultiplesGrow
    <2> QED  BY <1>1, <2>1
<1>4. a = b
    BY <1>2, <1>3
<1> QED  BY <1>1, <1>4

\* Every place of a list is on one of the pages that reach its end.
LEMMA SomePage ==
    ASSUME NEW size \in Nat \ {0}, NEW pages \in Nat, NEW j \in Nat \ {0}, j <= size * pages
    PROVE  \E a \in 0..(pages - 1) : \E k \in 1..size : j = size * a + k
<1> DEFINE T == {n \in Nat : j <= size * n}
<1>1. PICK n \in T : \A m \in T : n <= m
    <2>1. pages \in T
        OBVIOUS
    <2> QED  BY <2>1, LeastNatural
<1>2. n # 0 /\ n <= pages
    <2>1. size * 0 = 0
        OBVIOUS
    <2> QED  BY <1>1, <2>1
<1> DEFINE a == n - 1
<1>3. a \in 0..(pages - 1) /\ n = a + 1 /\ a \in Nat
    BY <1>2
<1>4. ~(j <= size * a)
    BY <1>1, <1>3
<1>5. size * n = size * a + size /\ size * a \in Nat
    BY <1>3, NextMultiple
<1> DEFINE k == j - size * a
<1>6. k \in 1..size /\ j = size * a + k
    BY <1>1, <1>4, <1>5
<1> QED  BY <1>3, <1>6

-----------------------------------------------------------------------------
(* The lists of the server and their pages *)

DateHasType == date \in [Games -> Dates \cup {NoDate}]

\* The order of release_listing is a strict total order on the cards.
LEMMA PrecedesIsTotal ==
    ASSUME DateHasType, NEW view, NEW failed, NEW a \in Games, NEW b \in Games
    PROVE  /\ ~Precedes(view, failed, a, a)
           /\ a # b => Precedes(view, failed, a, b) \/ Precedes(view, failed, b, a)
<1>1. a \in Nat /\ b \in Nat
    BY ReleaseAssumption
<1>2. DateOf(a, failed) \in Int \cup {NoDate} /\ DateOf(b, failed) \in Int \cup {NoDate}
    BY ReleaseAssumption DEF DateOf, DateHasType
<1>3. NoDate \notin Int
    BY SplitAssumption
<1>4. ~Precedes(view, failed, a, a)
    BY <1>1 DEF Precedes
<1>5. CASE DateOf(a, failed) = DateOf(b, failed)
    BY <1>1, <1>4, <1>5 DEF Precedes
<1>6. CASE DateOf(a, failed) # DateOf(b, failed)
    <2> DEFINE da == DateOf(a, failed)
               db == DateOf(b, failed)
    <2>1. da # db /\ da \in Int \cup {NoDate} /\ db \in Int \cup {NoDate}
        BY <1>2, <1>6
    <2>2. /\ Precedes(view, failed, a, b) <=> db = NoDate \/ (da # NoDate /\ IF view = "new" THEN da > db ELSE da < db)
          /\ Precedes(view, failed, b, a) <=> da = NoDate \/ (db # NoDate /\ IF view = "new" THEN db > da ELSE db < da)
        BY <2>1 DEF Precedes
    <2> HIDE DEF da, db
    <2>3. db = NoDate \/ da = NoDate \/ (da \in Int /\ db \in Int)
        BY <2>1
    <2> QED  BY <1>4, <2>1, <2>2, <2>3
<1> QED  BY <1>5, <1>6

\* release_listing lists each card of the window once.
LEMMA ListingsParts ==
    ASSUME DateHasType, NEW view, NEW failed, NEW list \in Listings(view, failed),
           InListing(view, failed) \subseteq Games
    PROVE  /\ list \in Seq(Games)
           /\ \A g : g \in InListing(view, failed) <=> \E j \in DOMAIN list : list[j] = g
           /\ \A i, j \in DOMAIN list : list[i] = list[j] => i = j
<1> DEFINE cards == InListing(view, failed)
           n == Cardinality(cards)
<1>1. n \in Nat
    BY FS_Subset, FS_CardinalityType, ReleaseAssumption
<1>2. /\ list \in [1..n -> cards] /\ Range(list) = cards
      /\ \A i, j \in DOMAIN list : i < j => Precedes(view, failed, list[i], list[j])
    BY DEF Listings
<1> HIDE DEF cards, n
<1>3. list \in Seq(Games)
    BY <1>1, <1>2 DEF cards
<1>4. \A g : g \in cards <=> \E j \in DOMAIN list : list[j] = g
    BY <1>2 DEF Range
<1>5. ASSUME NEW i \in DOMAIN list, NEW j \in DOMAIN list, i < j  PROVE list[i] # list[j]
    <2>1. list[i] \in Games /\ Precedes(view, failed, list[i], list[j])
        BY <1>2, <1>5 DEF cards
    <2>2. ~Precedes(view, failed, list[i], list[i])
        BY <2>1, PrecedesIsTotal
    <2> QED  BY <2>1, <2>2
<1>6. ASSUME NEW i \in DOMAIN list, NEW j \in DOMAIN list, list[i] = list[j]  PROVE i = j
    <2>1. i \in Int /\ j \in Int
        BY <1>1, <1>2
    <2>2. ~(i < j) /\ ~(j < i)
        BY <1>5, <1>6
    <2> QED  BY <2>1, <2>2
<1> QED  BY <1>3, <1>4, <1>6 DEF cards

\* A page has the cards from its offset on, up to the page size and the end.
LEMMA PaginateParts ==
    ASSUME NEW list \in Seq(Games), NEW offset \in Nat
    PROVE  LET page == Paginate(list, offset) IN
           /\ page \in Seq(Games) /\ Len(page) <= PageSize
           /\ DOMAIN page = {k \in 1..PageSize : offset + k <= Len(list)}
           /\ \A k \in DOMAIN page : page[k] = list[offset + k]
<1> DEFINE last == Min({offset + PageSize, Len(list)})
           page == Paginate(list, offset)
<1>1. PageSize \in Nat \ {0} /\ Len(list) \in Nat
    BY ReleaseAssumption
<1>2. last = IF offset + PageSize <= Len(list) THEN offset + PageSize ELSE Len(list)
    BY <1>1, MinOfTwo
<1>3. page = SubSeq(list, offset + 1, last)
    BY DEF Paginate
<1> HIDE DEF last, page
<1>4. last \in Nat /\ last <= Len(list) /\ last <= offset + PageSize
    BY <1>1, <1>2
<1>5. page \in Seq(Games)
    BY <1>3, <1>4
<1>6. /\ Len(page) = IF offset + 1 <= last THEN last - offset ELSE 0
      /\ DOMAIN page = 1..Len(page)
      /\ \A k \in DOMAIN page : page[k] = list[offset + k]
    BY <1>3, <1>4, <1>5
<1>7. Len(page) <= PageSize
    BY <1>1, <1>2, <1>4, <1>6
<1>8. DOMAIN page = {k \in 1..PageSize : offset + k <= Len(list)}
    BY <1>1, <1>2, <1>4, <1>6
<1> QED  BY <1>5, <1>6, <1>7, <1>8 DEF page

-----------------------------------------------------------------------------
(* The inductive invariant *)

\* Sony has a place for the game in one of the two lists.
IsFiled(g) == ("released" \in filed[g] /\ date[g] # NoDate) \/ "upcoming" \in filed[g]

Occurs(list, g) == \E j \in DOMAIN list : list[j] = g

\* A page that was cut at some instant from the list of that instant: whatever
\* happened since, it tells the truth about the games that Sony has not refiled.
IsPage(view, i, page) ==
    /\ page \in Page
    /\ page.offset = PageSize * (i - 1)
    /\ page.games = Paginate(page.list, page.offset)
    /\ IsInjective(page.list)
    /\ page.at <= now
    /\ \A g \in (Games \ moved) \ page.failed :
          Occurs(page.list, g) <=> IsFiled(g) /\ InWindow(view, date[g], page.at)

ClockTypes == now \in Start..MaxNow /\ viewer \in [skew : Skews, days : Calendars]

SonyTypes ==
    /\ filed \in [Games -> SUBSET Grids] /\ DateHasType
    /\ moved \subseteq Products /\ Cardinality(moved) <= MaxMoves
    /\ \A g \in Games \ moved : filed[g] # {}

\* A cached grid is right about the games that Sony has not refiled.
Caches ==
    /\ details \subseteq Products
    /\ grids \in [Grids -> [cached : BOOLEAN, games : SUBSET Games]]
    /\ \A grid \in Grids : grids[grid] # NotCached =>
          \A g \in Games \ moved : g \in grids[grid].games <=> grid \in filed[g]

PagesOfViews ==
    /\ loaded \in [Views -> Seq(Page)]
    /\ \A view \in Views : \A i \in DOMAIN loaded[view] : IsPage(view, i, loaded[view][i])

ReleaseInv == ClockTypes /\ SonyTypes /\ Caches /\ PagesOfViews

-----------------------------------------------------------------------------
(* The invariant is inductive *)

THEOREM InitImpliesInv == Init => ReleaseInv
<1> SUFFICES ASSUME Init  PROVE ReleaseInv
    OBVIOUS
<1> USE DEF Init
<1>1. ClockTypes
    BY ReleaseAssumption DEF ClockTypes
<1>2. SonyTypes
    <2>1. Cardinality(moved) = 0
        BY FS_EmptySet
    <2>2. filed \in [Games -> SUBSET Grids] /\ \A g \in Games : filed[g] # {}
        BY DEF Filings
    <2> QED  BY <2>1, <2>2, ReleaseAssumption DEF SonyTypes, DateHasType
<1>3. Caches
    BY DEF Caches, NotCached
<1>4. PagesOfViews
    BY DEF PagesOfViews, Views
<1> QED  BY <1>1, <1>2, <1>3, <1>4 DEF ReleaseInv

\* What a page says of a game stays true until Sony files the game anew.
LEMMA PagesStay ==
    ASSUME PagesOfViews, loaded' = loaded,
           now \in Int, now' \in Int, now <= now', moved \subseteq moved', date' = date,
           \A g \in Games \ moved' : filed'[g] = filed[g]
    PROVE  PagesOfViews'
<1>1. loaded' \in [Views -> Seq(Page)]
    BY DEF PagesOfViews
<1>2. ASSUME NEW view \in Views, NEW i \in DOMAIN loaded[view]
      PROVE  IsPage(view, i, loaded[view][i])'
    <2> DEFINE page == loaded[view][i]
    <2>1. IsPage(view, i, page)
        BY DEF PagesOfViews
    <2>2. loaded'[view][i] = page
        OBVIOUS
    <2> HIDE DEF page
    <2>3. page.at \in Int
        BY <2>1, ReleaseAssumption DEF IsPage, Page
    <2>4. ASSUME NEW g \in (Games \ moved') \ page.failed
          PROVE  Occurs(page.list, g) <=> IsFiled(g)' /\ InWindow(view, date'[g], page.at)
        <3>1. g \in (Games \ moved) \ page.failed /\ (IsFiled(g)' <=> IsFiled(g))
            BY DEF IsFiled
        <3> QED  BY <2>1, <3>1 DEF IsPage
    <2>5. page.at <= now'
        BY <2>1, <2>3 DEF IsPage
    <2> QED  BY <2>1, <2>2, <2>4, <2>5 DEF IsPage
<1> QED  BY <1>1, <1>2 DEF PagesOfViews

\* When both grids are cached, the cards of release_games are the filed games.
LEMMA MergedIsFiled ==
    ASSUME SonyTypes, Caches, \A grid \in Grids : grids[grid] # NotCached,
           NEW failed, NEW g \in (Games \ moved) \ failed
    PROVE  g \in Merged(failed) <=> IsFiled(g)
<1>1. \A grid \in Grids : g \in grids[grid].games <=> grid \in filed[g]
    BY DEF Caches
<1>2. DateOf(g, failed) = date[g]
    BY DEF DateOf
<1> QED  BY <1>1, <1>2 DEF Merged, Listed, IsFiled, Grids

LEMMA ListingIsOfGames ==
    ASSUME Caches, NEW view, NEW failed
    PROVE  InListing(view, failed) \subseteq Games
BY DEF Caches, InListing, Merged, Listed, Grids

\* The page that a request answers with.
LEMMA NewPage ==
    ASSUME ReleaseInv, NEW view \in Views, \A grid \in Grids : grids[grid] # NotCached,
           NEW failed \in SUBSET Products, NEW list \in Listings(view, failed), NEW i \in Nat \ {0},
           NEW page, page = [games |-> Paginate(list, PageSize * (i - 1)), offset |-> PageSize * (i - 1),
                             list |-> list, failed |-> failed, at |-> now]
    PROVE  IsPage(view, i, page)
<1> USE DEF ReleaseInv
<1>1. InListing(view, failed) \subseteq Games
    BY ListingIsOfGames
<1>2. /\ list \in Seq(Games) /\ IsInjective(list)
      /\ \A g : g \in InListing(view, failed) <=> Occurs(list, g)
    BY <1>1, ListingsParts DEF SonyTypes, Occurs, IsInjective
<1>3. PageSize * (i - 1) \in Nat
    BY ReleaseAssumption
<1> DEFINE offset == PageSize * (i - 1)
<1>4. offset \in Nat
    BY <1>3
<1>5. page = [games |-> Paginate(list, offset), offset |-> offset, list |-> list, failed |-> failed, at |-> now]
    OBVIOUS
<1>6. page.offset = PageSize * (i - 1)
    OBVIOUS
<1> HIDE DEF offset
<1>7. Paginate(list, offset) \in Seq(Games)
    BY <1>2, <1>4, PaginateParts
<1>8. now \in Start..MaxNow /\ now <= now
    BY ReleaseAssumption DEF ClockTypes
<1>9. page \in Page
    BY <1>2, <1>4, <1>5, <1>7, <1>8 DEF Page
<1>10. ASSUME NEW g \in (Games \ moved) \ failed
       PROVE  Occurs(list, g) <=> IsFiled(g) /\ InWindow(view, date[g], now)
    <2>1. DateOf(g, failed) = date[g]
        BY DEF DateOf
    <2>2. g \in Merged(failed) <=> IsFiled(g)
        BY MergedIsFiled
    <2> QED  BY <1>2, <2>1, <2>2 DEF InListing
<1> QED  BY <1>2, <1>5, <1>6, <1>8, <1>9, <1>10 DEF IsPage

\* A page more, at the end of one view.
LEMMA PageIsAppended ==
    ASSUME PagesOfViews, NEW view \in Views, NEW page, IsPage(view, Len(loaded[view]) + 1, page),
           loaded' = [loaded EXCEPT ![view] = Append(@, page)],
           UNCHANGED <<now, filed, date, moved>>
    PROVE  PagesOfViews'
<1>1. loaded[view] \in Seq(Page) /\ page \in Page
    BY DEF PagesOfViews, IsPage
<1>2. loaded' \in [Views -> Seq(Page)]
    BY <1>1 DEF PagesOfViews
<1>3. ASSUME NEW v \in Views, NEW i \in DOMAIN loaded'[v]  PROVE IsPage(v, i, loaded'[v][i])
    <2>1. CASE v = view /\ i = Len(loaded[view]) + 1
        <3>1. loaded'[v][i] = page
            BY <1>1, <2>1 DEF PagesOfViews
        <3> QED  BY <2>1, <3>1
    <2>2. CASE ~(v = view /\ i = Len(loaded[view]) + 1)
        <3>1. loaded'[v][i] = loaded[v][i] /\ i \in DOMAIN loaded[v]
            BY <1>1, <2>2 DEF PagesOfViews
        <3> QED  BY <3>1 DEF PagesOfViews
    <2> QED  BY <2>1, <2>2
<1>4. ASSUME NEW v \in Views, NEW i \in DOMAIN loaded'[v]  PROVE IsPage(v, i, loaded[v][i])'
    BY <1>3 DEF IsPage, IsFiled
<1> QED  BY <1>2, <1>4 DEF PagesOfViews

\* The server's clock and the viewer's only move with Tick, Sony's lists only
\* with SonyRefiles.
LEMMA ClockStays == ASSUME ClockTypes, UNCHANGED <<now, viewer>>  PROVE ClockTypes'
BY DEF ClockTypes

LEMMA SonyStays == ASSUME SonyTypes, UNCHANGED <<filed, date, moved>>  PROVE SonyTypes'
BY DEF SonyTypes, DateHasType

LEMMA PagesStayStill ==
    ASSUME ReleaseInv, UNCHANGED <<loaded, now, filed, date, moved>>  PROVE PagesOfViews'
<1>1. now \in Int
    BY ReleaseAssumption DEF ReleaseInv, ClockTypes
<1> QED  BY <1>1, PagesStay DEF ReleaseInv

LEMMA GridReadPreserves ==
    ASSUME ReleaseInv, NEW grid \in Grids, GridRead(grid)  PROVE ReleaseInv'
<1> USE DEF ReleaseInv, GridRead
<1>1. ClockTypes' /\ SonyTypes' /\ PagesOfViews'
    BY ClockStays, SonyStays, PagesStayStill
<1>2. Caches'
    BY DEF Caches, SonyTypes, NotCached
<1> QED  BY <1>1, <1>2

LEMMA GridExpiresPreserves ==
    ASSUME ReleaseInv, NEW grid \in Grids, GridExpires(grid)  PROVE ReleaseInv'
<1> USE DEF ReleaseInv, GridExpires
<1>1. ClockTypes' /\ SonyTypes' /\ PagesOfViews'
    BY ClockStays, SonyStays, PagesStayStill
<1>2. Caches'
    BY DEF Caches, NotCached
<1> QED  BY <1>1, <1>2

LEMMA DetailExpiresPreserves ==
    ASSUME ReleaseInv, NEW g \in Games, DetailExpires(g)  PROVE ReleaseInv'
<1> USE DEF ReleaseInv, DetailExpires
<1>1. ClockTypes' /\ SonyTypes' /\ PagesOfViews'
    BY ClockStays, SonyStays, PagesStayStill
<1>2. Caches'
    BY DEF Caches
<1> QED  BY <1>1, <1>2

LEMMA FetchPagePreserves ==
    ASSUME ReleaseInv, NEW view \in Views, FetchPage(view)  PROVE ReleaseInv'
<1> USE DEF ReleaseInv
<1>1. ClockTypes' /\ SonyTypes'
    BY ClockStays, SonyStays DEF FetchPage
<1>2. Caches'
    BY DEF Caches, FetchPage, ListedProducts
<1>3. PICK failed \in SUBSET (ListedProducts \ details) : \E list \in Listings(view, failed) :
         loaded' = [loaded EXCEPT ![view] = Append(@,
            [games |-> Paginate(list, PageSize * Len(loaded[view])), offset |-> PageSize * Len(loaded[view]),
             list |-> list, failed |-> failed, at |-> now])]
    BY DEF FetchPage
<1>4. PICK list \in Listings(view, failed) :
         loaded' = [loaded EXCEPT ![view] = Append(@,
            [games |-> Paginate(list, PageSize * Len(loaded[view])), offset |-> PageSize * Len(loaded[view]),
             list |-> list, failed |-> failed, at |-> now])]
    BY <1>3
<1> DEFINE i == Len(loaded[view]) + 1
           page == [games |-> Paginate(list, PageSize * (i - 1)), offset |-> PageSize * (i - 1),
                    list |-> list, failed |-> failed, at |-> now]
<1>5. Len(loaded[view]) \in Nat
    BY DEF PagesOfViews
<1>6. i \in Nat \ {0} /\ i - 1 = Len(loaded[view])
    BY <1>5
<1>7. loaded' = [loaded EXCEPT ![view] = Append(@, page)]
    BY <1>4, <1>6
<1>8. failed \in SUBSET Products
    BY DEF ListedProducts
<1>9. \A grid \in Grids : grids[grid] # NotCached
    BY DEF FetchPage
<1>10. IsPage(view, i, page)
    BY <1>6, <1>8, <1>9, NewPage
<1> HIDE DEF page
<1>11. PagesOfViews'
    BY <1>7, <1>10, PageIsAppended DEF FetchPage
<1> QED  BY <1>1, <1>2, <1>11

LEMMA RefetchPreserves ==
    ASSUME ReleaseInv, NEW view \in Views, Refetch(view)  PROVE ReleaseInv'
<1> USE DEF ReleaseInv
<1>1. ClockTypes' /\ SonyTypes'
    BY ClockStays, SonyStays DEF Refetch
<1>2. Caches'
    BY DEF Caches, Refetch
<1>3. PagesOfViews'
    <2>1. loaded' \in [Views -> Seq(Page)]
        BY DEF Refetch, PagesOfViews
    <2>2. ASSUME NEW v \in Views, NEW i \in DOMAIN loaded'[v]
          PROVE  loaded'[v][i] = loaded[v][i] /\ i \in DOMAIN loaded[v]
        BY DEF Refetch, PagesOfViews
    <2>3. ASSUME NEW v \in Views, NEW i \in DOMAIN loaded'[v]  PROVE IsPage(v, i, loaded[v][i])'
        <3>1. IsPage(v, i, loaded'[v][i])
            BY <2>2 DEF PagesOfViews
        <3> QED  BY <3>1 DEF IsPage, IsFiled, Refetch
    <2> QED  BY <2>1, <2>3 DEF PagesOfViews
<1> QED  BY <1>1, <1>2, <1>3

LEMMA SonyRefilesPreserves ==
    ASSUME ReleaseInv, NEW g \in Games, SonyRefiles(g)  PROVE ReleaseInv'
<1> USE DEF ReleaseInv, SonyRefiles
<1>1. ClockTypes'
    BY ClockStays
<1>2. now \in Int /\ now <= now'
    BY ReleaseAssumption DEF ClockTypes
<1>3. moved \subseteq moved' /\ moved' \subseteq Products
    BY DEF SonyTypes
<1>4. filed' \in [Games -> SUBSET Grids] /\ \A h \in Games \ moved' : filed'[h] = filed[h]
    BY DEF SonyTypes
<1>5. SonyTypes'
    <2>1. IsFiniteSet(moved)
        BY FS_Subset, ReleaseAssumption DEF SonyTypes
    <2>2. Cardinality(moved') = Cardinality(moved) + 1 /\ Cardinality(moved) \in Nat
        BY <2>1, FS_AddElement, FS_CardinalityType
    <2>3. Cardinality(moved') <= MaxMoves
        BY <2>2, ReleaseAssumption
    <2> QED  BY <1>3, <1>4, <2>3 DEF SonyTypes, DateHasType
<1>6. Caches'
    BY <1>3, <1>4 DEF Caches, NotCached
<1>7. PagesOfViews'
    BY <1>2, <1>3, <1>4, PagesStay
<1> QED  BY <1>1, <1>5, <1>6, <1>7

LEMMA TickPreserves == ASSUME ReleaseInv, Tick  PROVE ReleaseInv'
<1> USE DEF ReleaseInv, Tick
<1>1. ClockTypes'
    BY ReleaseAssumption DEF ClockTypes
<1>2. SonyTypes'
    BY SonyStays
<1>3. Caches'
    BY DEF Caches, NotCached
<1>4. now \in Int /\ now' \in Int /\ now <= now'
    BY ReleaseAssumption DEF ClockTypes
<1>5. PagesOfViews'
    BY <1>4, PagesStay
<1> QED  BY <1>1, <1>2, <1>3, <1>5

THEOREM NextPreservesInv == ReleaseInv /\ [Next]_vars => ReleaseInv'
<1> SUFFICES ASSUME ReleaseInv, [Next]_vars  PROVE ReleaseInv'
    OBVIOUS
<1>1. ASSUME NEW grid \in Grids, GridRead(grid)  PROVE ReleaseInv'
    BY <1>1, GridReadPreserves
<1>2. ASSUME NEW grid \in Grids, GridExpires(grid)  PROVE ReleaseInv'
    BY <1>2, GridExpiresPreserves
<1>3. ASSUME NEW view \in Views, FetchPage(view)  PROVE ReleaseInv'
    BY <1>3, FetchPagePreserves
<1>4. ASSUME NEW view \in Views, Refetch(view)  PROVE ReleaseInv'
    BY <1>4, RefetchPreserves
<1>5. ASSUME NEW g \in Games, DetailExpires(g)  PROVE ReleaseInv'
    BY <1>5, DetailExpiresPreserves
<1>6. ASSUME NEW g \in Games, SonyRefiles(g)  PROVE ReleaseInv'
    BY <1>6, SonyRefilesPreserves
<1>7. CASE Tick
    BY <1>7, TickPreserves
<1>8. CASE UNCHANGED vars
    <2>1. ClockTypes' /\ SonyTypes' /\ PagesOfViews'
        BY <1>8, ClockStays, SonyStays, PagesStayStill DEF vars, ReleaseInv
    <2>2. Caches'
        BY <1>8 DEF vars, ReleaseInv, Caches
    <2> QED  BY <2>1, <2>2 DEF ReleaseInv
<1> QED  BY <1>1, <1>2, <1>3, <1>4, <1>5, <1>6, <1>7, <1>8 DEF Next

\* The invariant holds in every state the two views can reach.
THEOREM Invariant == Spec => []ReleaseInv
<1> QED  BY InitImpliesInv, NextPreservesInv, PTL DEF Spec

-----------------------------------------------------------------------------
(* The properties of the run *)

\* Every variable has its type, and no page of a view is longer than PAGE_SIZE,
\* whatever list it was cut from.
THEOREM TypeCorrect == Spec => []TypeOK
<1>1. ReleaseInv => TypeOK
    <2> SUFFICES ASSUME ReleaseInv  PROVE TypeOK
        OBVIOUS
    <2> USE DEF ReleaseInv
    <2>1. ASSUME NEW view \in Views, NEW i \in DOMAIN loaded[view]
          PROVE  loaded[view][i] \in Page /\ Len(loaded[view][i].games) <= PageSize
        <3> DEFINE page == loaded[view][i]
        <3>1. page \in Page /\ page.games = Paginate(page.list, page.offset)
            BY DEF PagesOfViews, IsPage
        <3> HIDE DEF page
        <3>2. page.list \in Seq(Games) /\ page.offset \in Nat
            BY <3>1 DEF Page
        <3>3. Len(page.games) <= PageSize
            BY <3>1, <3>2, PaginateParts
        <3> QED  BY <3>1, <3>3 DEF page
    <2> QED  BY <2>1 DEF TypeOK, ClockTypes, SonyTypes, Caches, DateHasType
<1> QED  BY <1>1, Invariant, PTL

-----------------------------------------------------------------------------
(* A game is shown once *)

\* nextLocalDayStart is at most the longest day away, for every calendar.
LEMMA NextLocalDayIsNear ==
    ASSUME ClockTypes
    PROVE  LET clock == now + viewer.skew IN
           /\ clock \in Int /\ NextLocalDay \in Int
           /\ NextLocalDay > clock /\ NextLocalDay <= clock + MaxLocalDay
<1> DEFINE clock == now + viewer.skew
           T == {m \in viewer.days : m > clock}
<1>1. /\ Start \in Int /\ MaxNow \in Int /\ Margin \in Nat /\ MaxLocalDay \in Nat
      /\ now \in Start..MaxNow /\ viewer.skew \in -Margin..Margin /\ viewer.days \in Calendars
    BY ReleaseAssumption, SplitAssumption DEF ClockTypes
<1>2. viewer.days \subseteq Int
    BY <1>1, ReleaseAssumption
<1>3. clock \in (Start - Margin)..(MaxNow + Margin)
    BY <1>1
<1>4. PICK m \in viewer.days : m > clock /\ m <= clock + MaxLocalDay
    BY <1>1, <1>3, ReleaseAssumption
<1>5. NextLocalDay = Min(T)
    BY DEF NextLocalDay
<1>6. clock \in Int
    BY <1>1, <1>3
<1> HIDE DEF clock
<1>7. m \in T /\ T \in SUBSET Int /\ T # {} /\ \A t \in T : t >= clock
    BY <1>2, <1>4, <1>6
<1>8. Min(T) \in T /\ \A t \in T : Min(T) <= t
    BY <1>6, <1>7, LeastInteger
<1>9. Min(T) <= m /\ m \in Int /\ Min(T) \in Int /\ Min(T) > clock
    BY <1>2, <1>7, <1>8
<1>10. Min(T) <= clock + MaxLocalDay
    BY <1>1, <1>4, <1>6, <1>9
<1> QED  BY <1>5, <1>6, <1>9, <1>10 DEF clock

\* Every page of the view knows the date of the game.
KnowsDate(view, g) == \A i \in DOMAIN loaded[view] : g \notin loaded[view][i].failed

\* A card is a place on a page, and shows the game at a place of the list.
LEMMA CardsOfPages ==
    ASSUME PagesOfViews, NEW view \in Views, OneList(view), loaded[view] # << >>,
           NEW list, list = loaded[view][1].list
    PROVE  /\ list \in Seq(Games) /\ IsInjective(list)
           /\ \A i \in Nat, k \in Nat : <<i, k>> \in Cards(view) <=>
                 /\ i \in 1..Len(loaded[view]) /\ k \in 1..PageSize
                 /\ PageSize * (i - 1) + k <= Len(list)
           /\ \A i \in Nat, k \in Nat : <<i, k>> \in Cards(view) =>
                 GameOf(view, <<i, k>>) = list[PageSize * (i - 1) + k]
           /\ \A card \in Cards(view) : \E i \in Nat, k \in Nat : card = <<i, k>>
<1>1. loaded[view] \in Seq(Page) /\ 1 \in DOMAIN loaded[view] /\ DOMAIN loaded[view] = 1..Len(loaded[view])
    BY DEF PagesOfViews
<1>2. list \in Seq(Games) /\ IsInjective(list)
    <2>1. IsPage(view, 1, loaded[view][1])
        BY <1>1 DEF PagesOfViews
    <2> QED  BY <2>1 DEF IsPage, Page
<1>3. ASSUME NEW i \in DOMAIN loaded[view]
      PROVE  /\ PageSize * (i - 1) \in Nat
             /\ DOMAIN loaded[view][i].games = {k \in 1..PageSize : PageSize * (i - 1) + k <= Len(list)}
             /\ \A k \in DOMAIN loaded[view][i].games : loaded[view][i].games[k] = list[PageSize * (i - 1) + k]
    <2>1. IsPage(view, i, loaded[view][i]) /\ loaded[view][i].list = list
        BY <1>1 DEF PagesOfViews, OneList
    <2>2. loaded[view][i].games = Paginate(list, PageSize * (i - 1))
        BY <2>1 DEF IsPage
    <2>3. PageSize * (i - 1) \in Nat
        BY <2>1 DEF IsPage, Page
    <2> DEFINE offset == PageSize * (i - 1)
               games == loaded[view][i].games
    <2>4. offset \in Nat /\ games = Paginate(list, offset)
        BY <2>2, <2>3
    <2> HIDE DEF offset, games
    <2>5. /\ DOMAIN games = {k \in 1..PageSize : offset + k <= Len(list)}
          /\ \A k \in DOMAIN games : games[k] = list[offset + k]
        BY <1>2, <2>4, PaginateParts
    <2> QED  BY <2>4, <2>5 DEF offset, games
<1>4. \A card : card \in Cards(view) <=>
         \E i \in DOMAIN loaded[view] : \E k \in DOMAIN loaded[view][i].games : card = <<i, k>>
    BY DEF Cards
<1>5. ASSUME NEW i \in Nat, NEW k \in Nat
      PROVE  <<i, k>> \in Cards(view) <=> i \in DOMAIN loaded[view] /\ k \in DOMAIN loaded[view][i].games
    BY <1>4
<1>6. \A i \in Nat, k \in Nat : <<i, k>> \in Cards(view) <=>
         /\ i \in 1..Len(loaded[view]) /\ k \in 1..PageSize
         /\ PageSize * (i - 1) + k <= Len(list)
    BY <1>1, <1>3, <1>5
<1>7. \A i \in Nat, k \in Nat : <<i, k>> \in Cards(view) =>
         GameOf(view, <<i, k>>) = list[PageSize * (i - 1) + k]
    BY <1>3, <1>5 DEF GameOf
<1>8. \A card \in Cards(view) : \E i \in Nat, k \in Nat : card = <<i, k>>
    <2>1. \A i \in DOMAIN loaded[view] : i \in Nat /\ \A k \in DOMAIN loaded[view][i].games : k \in Nat
        BY <1>1, <1>3
    <2> QED  BY <1>4, <2>1
<1> QED  BY <1>2, <1>6, <1>7, <1>8

\* A game of the list is on one page, at one place.
LEMMA OneCard ==
    ASSUME PagesOfViews, NEW view \in Views, OneList(view), loaded[view] # << >>, ~HasNextPage(view),
           NEW g \in Games, Occurs(loaded[view][1].list, g)
    PROVE  \E card \in Cards(view) :
              GameOf(view, card) = g /\ \A other \in Cards(view) : GameOf(view, other) = g => other = card
<1> DEFINE list == loaded[view][1].list
           n == Len(loaded[view])
<1>1. /\ list \in Seq(Games) /\ IsInjective(list)
      /\ \A i \in Nat, k \in Nat : <<i, k>> \in Cards(view) <=>
            /\ i \in 1..n /\ k \in 1..PageSize /\ PageSize * (i - 1) + k <= Len(list)
      /\ \A i \in Nat, k \in Nat : <<i, k>> \in Cards(view) => GameOf(view, <<i, k>>) = list[PageSize * (i - 1) + k]
      /\ \A card \in Cards(view) : \E i \in Nat, k \in Nat : card = <<i, k>>
    BY CardsOfPages
<1>2. PICK j \in DOMAIN list : list[j] = g
    BY DEF Occurs
<1>3. n \in Nat \ {0} /\ PageSize \in Nat \ {0}
    BY ReleaseAssumption DEF PagesOfViews
<1>4. Len(list) <= PageSize * n
    <2>1. n \in DOMAIN loaded[view] /\ 1 \in DOMAIN loaded[view]
        BY <1>3 DEF PagesOfViews
    <2>2. loaded[view][n].list = list /\ loaded[view][n].offset = PageSize * (n - 1)
        BY <2>1 DEF OneList, PagesOfViews, IsPage
    <2>3. ~(PageSize * (n - 1) + PageSize < Len(list))
        BY <2>2 DEF HasNextPage, Last
    <2>4. PageSize * n = PageSize * (n - 1) + PageSize /\ PageSize * (n - 1) \in Nat
        BY <1>3, NextMultiple
    <2> QED  BY <1>1, <1>3, <2>3, <2>4
<1> HIDE DEF list, n
<1>5. j \in Nat \ {0} /\ j <= Len(list) /\ Len(list) \in Nat
    BY <1>1, <1>2
<1>6. j <= PageSize * n
    BY <1>3, <1>4, <1>5
<1>7. PICK a \in 0..(n - 1), k \in 1..PageSize : j = PageSize * a + k
    BY <1>3, <1>5, <1>6, SomePage
<1>8. a + 1 \in 1..n /\ (a + 1) - 1 = a /\ a + 1 \in Nat /\ k \in Nat
    BY <1>3
<1> DEFINE card == <<a + 1, k>>
<1>9. card \in Cards(view) /\ GameOf(view, card) = g
    BY <1>1, <1>2, <1>5, <1>7, <1>8
<1>10. ASSUME NEW other \in Cards(view), GameOf(view, other) = g  PROVE other = card
    <2>1. PICK i \in Nat, m \in Nat : other = <<i, m>>
        BY <1>1
    <2>2. /\ i \in 1..n /\ m \in 1..PageSize /\ PageSize * (i - 1) + m <= Len(list)
          /\ list[PageSize * (i - 1) + m] = g
        BY <1>1, <1>10, <2>1
    <2> DEFINE b == i - 1
    <2>3. b \in Nat /\ PageSize * b \in Nat /\ i = b + 1
        <3>1. b \in Nat /\ i = b + 1
            BY <1>3, <2>2
        <3>2. \A x, y \in Nat : x * y \in Nat
            OBVIOUS
        <3> HIDE DEF b
        <3> QED  BY <1>3, <3>1, <3>2
    <2>4. PageSize * b + m \in DOMAIN list /\ list[PageSize * b + m] = list[j]
        BY <1>1, <1>2, <2>2, <2>3
    <2>5. PageSize * b + m = j
        BY <1>1, <1>2, <2>4 DEF IsInjective
    <2> HIDE DEF b
    <2>6. b = a /\ m = k
        BY <1>3, <1>7, <2>2, <2>3, <2>5, OnePage
    <2> QED  BY <2>1, <2>3, <2>6
<1> QED  BY <1>9, <1>10

\* What the split keeps of a game whose date every page knows.
LEMMA ShownIsSplit ==
    ASSUME PagesOfViews, NEW view \in Views, NEW g, KnowsDate(view, g)
    PROVE  \A card : card \in Shown(view, g) <=>
              card \in Cards(view) /\ GameOf(view, card) = g /\ InView(view, date[g], NextLocalDay)
<1>1. ASSUME NEW card \in Cards(view)  PROVE DateOf(g, loaded[view][card[1]].failed) = date[g]
    <2>1. card[1] \in DOMAIN loaded[view]
        BY DEF Cards
    <2> QED  BY <2>1 DEF DateOf, KnowsDate
<1> QED  BY <1>1 DEF Shown

LEMMA ShownInOneView ==
    ASSUME PagesOfViews, NEW view \in Views, OneList(view), loaded[view] # << >>, ~HasNextPage(view),
           NEW g \in Games, KnowsDate(view, g),
           InView(view, date[g], NextLocalDay) => Occurs(loaded[view][1].list, g)
    PROVE  Occurrences(view, g) = IF InView(view, date[g], NextLocalDay) THEN 1 ELSE 0
<1>1. CASE InView(view, date[g], NextLocalDay)
    <2>1. PICK card \in Cards(view) :
             GameOf(view, card) = g /\ \A other \in Cards(view) : GameOf(view, other) = g => other = card
        BY <1>1, OneCard
    <2>2. Shown(view, g) = {card}
        BY <1>1, <2>1, ShownIsSplit
    <2>3. Cardinality({card}) = 1
        BY FS_Singleton
    <2> QED  BY <1>1, <2>2, <2>3 DEF Occurrences
<1>2. CASE ~InView(view, date[g], NextLocalDay)
    <2>1. Shown(view, g) = {}
        BY <1>2, ShownIsSplit
    <2> QED  BY <1>2, <2>1, FS_EmptySet DEF Occurrences
<1> QED  BY <1>1, <1>2

\* A recent page and a clock within the margin.
LEMMA WithinMargin ==
    ASSUME NEW t \in Int, NEW skew \in Int, NEW sent \in Int, NEW margin \in Nat,
           t - sent + skew <= margin, skew >= -margin, sent <= t
    PROVE  t + skew <= sent + margin /\ t + skew >= sent - margin
OBVIOUS

\* The server sent a view every game that the client keeps in it.
LEMMA ListIsSuperset ==
    ASSUME ReleaseInv, Recent, NEW view \in Views, loaded[view] # << >>,
           NEW g \in Games \ moved, KnowsDate(view, g), IsFiled(g),
           InView(view, date[g], NextLocalDay)
    PROVE  Occurs(loaded[view][1].list, g)
<1> USE DEF ReleaseInv
<1> DEFINE page == loaded[view][1]
           clock == now + viewer.skew
           boundary == NextLocalDay
           d == date[g]
<1>1. 1 \in DOMAIN loaded[view]
    BY DEF PagesOfViews
<1>2. IsPage(view, 1, page) /\ g \notin page.failed
    BY <1>1 DEF PagesOfViews, KnowsDate
<1>3. now - page.at + viewer.skew <= Margin
    BY <1>1 DEF Recent
<1>4. /\ clock \in Int /\ boundary \in Int
      /\ boundary > clock /\ boundary <= clock + MaxLocalDay
    BY NextLocalDayIsNear
<1>5. d \in Int \cup {NoDate}
    BY ReleaseAssumption DEF SonyTypes, DateHasType
<1>6. now \in Int /\ viewer.skew \in Int /\ viewer.skew >= -Margin /\ Margin \in Nat
    <2>1. viewer.skew \in -Margin..Margin /\ Margin \in Nat
        BY ReleaseAssumption, SplitAssumption DEF ClockTypes
    <2> QED  BY <2>1, ReleaseAssumption DEF ClockTypes
<1>7. page.at \in Int /\ page.at <= now
    BY <1>2, ReleaseAssumption DEF IsPage, Page
<1>8. clock <= page.at + Margin /\ clock >= page.at - Margin
    BY <1>3, <1>6, <1>7, WithinMargin
<1>9. InView(view, d, boundary)
    OBVIOUS
<1>10. Occurs(page.list, g) <=> IsFiled(g) /\ InWindow(view, d, page.at)
    BY <1>2 DEF IsPage
<1> HIDE DEF page, clock, boundary, d
<1>11. view = "new" \/ view = "upcoming"
    BY DEF Views
<1>12. InWindow(view, d, page.at)
    BY <1>4, <1>5, <1>7, <1>8, <1>9, <1>11, NewIsSuperset, UpcomingIsSuperset
<1> QED  BY <1>10, <1>12 DEF page

\* Every game that Sony has not refiled is a card of exactly one of the wholly
\* loaded views, once: for every page size, every number of games and of pages,
\* every calendar and every skew and age of the pages within the margin.
THEOREM ShownOnceCorrect == Spec => []EachGameIsShownOnce
<1>1. ReleaseInv => EachGameIsShownOnce
    <2> SUFFICES ASSUME ReleaseInv, WhollyLoaded, Recent, OneList("new"), OneList("upcoming"),
                        NEW g \in Games \ moved, Dated(g)
                 PROVE  ShownOnce(g)
        BY DEF EachGameIsShownOnce
    <2>1. IsFiled(g)
        BY DEF ReleaseInv, SonyTypes, Dated, IsFiled, Grids
    <2>2. PagesOfViews
        BY DEF ReleaseInv
    <2>3. ASSUME NEW view \in Views
          PROVE  Occurrences(view, g) = IF InView(view, date[g], NextLocalDay) THEN 1 ELSE 0
        <3>1. loaded[view] # << >> /\ ~HasNextPage(view) /\ OneList(view)
            BY DEF WhollyLoaded, Views
        <3>2. KnowsDate(view, g)
            BY DEF Dated, KnowsDate
        <3>3. InView(view, date[g], NextLocalDay) => Occurs(loaded[view][1].list, g)
            BY <2>1, <3>1, <3>2, ListIsSuperset
        <3> QED  BY <2>2, <3>1, <3>2, <3>3, ShownInOneView
    <2>4. /\ Occurrences("new", g) = IF InView("new", date[g], NextLocalDay) THEN 1 ELSE 0
          /\ Occurrences("upcoming", g) = IF InView("upcoming", date[g], NextLocalDay) THEN 1 ELSE 0
        BY <2>3 DEF Views
    <2>5. InView("upcoming", date[g], NextLocalDay) <=> ~InView("new", date[g], NextLocalDay)
        BY DEF InView
    <2> QED  BY <2>4, <2>5 DEF ShownOnce
<1> QED  BY <1>1, Invariant, PTL
=============================================================================
