# A verified model of psstore

psstore shows the PlayStation Store's PS5 catalogue for Finland: a Rust server
(`crates/`) that asks Sony and IGDB, keeps nothing on disk and little in memory,
and a React client (`web/`) that keeps pages and splits them by the viewer's
local day. This directory models the parts of it that are stateful, concurrent
or hard to test, in TLA+. TLC checks every property on small instances; TLAPS
proves the ones that the rest of the program leans on for every instance.

To repeat a run: `tlc -config TtlCache.cfg MCTtlCache.tla`, to repeat a
proof: `tlapm TtlCache_proofs.tla`. `PROJECT.json` lists the runs, the code
lines that each definition models, the hazards, the findings and the theorems.

Contents: [inventory](#inventory) · [modules and the code](#modules-and-the-code) ·
[runs, bounds](#runs-and-bounds) · [fairness](#fairness) · [proofs](#proofs) ·
[findings](#findings) · [not modelled](#not-modelled) · [plan](#plan)

## Inventory

The server runs on one tokio thread. Everything between two awaits is one step;
concurrency is the interleaving of handlers and spawned tasks at their awaits.
A handler is dropped at any await when its client goes away; a spawned task is
not. All state is in memory and a restart begins with none, so there is no crash
recovery beyond the cookie that the browser keeps.

| component | state | operations | interacts with | correct when |
|---|---|---|---|---|
| Lookup cache (`application/cache.rs`) | entries, recency index, number counter; one task per lookup | `get_with`, the end or panic of a lookup, a caller that leaves | every list, detail, price, genre, BROWSE page, score and token goes through one | concurrent callers share one lookup, an entry is touched by its own lookup only, index and entries agree, the capacity holds, everybody is answered |
| Signed-in requests (`http/session.rs`, `application/account.rs`, `in_flight.rs`, `sony/account.rs`) | the exchanges in flight by NPSSO; the browser's cookie | sign-in, sign-out, purchased and wishlist; exchange, library crawl | Sony's account API; several tabs of one browser | only an accepted NPSSO becomes the cookie, only a rejection clears it, the token is the account's own, a library is whole |
| Outbound transport (`sources/transport.rs`) | one call's attempt counter and deadline | send, retry, wait for Retry-After | every adapter | bounded time, the last answer decides, repeated exactly while an answer may change |
| Sony store adapter (`sony/catalog.rs`, its decoders, `graphql_errors.rs`, `http/errors.rs`) | none | one call per operation | transport, HTTP layer | an outage, a rotated hash or drift is never data |
| IGDB client (`sources/igdb/mod.rs`, `critic_scores.rs`) | token generation, a token cache of one entry | find, token request, refusal and repeated attempt, time budget | `TtlCache`, Twitch, IGDB | one token request per refusal, no attempt with a refused token |
| Game page (`application/games.rs`, `game_by_id`) | six caches | reads of the lists, the lenient and the strict detail, the price | `TtlCache`, store adapter | a listed game is never a 404, an outage is never a 404 |
| NEW and UPCOMING (`games.rs`, `domain/listing.rs`, `gamesQuery.ts`, `releaseDay.ts`, `Games.tsx`) | grid and detail caches; the browser's pages | list request, next page, refresh, split | store adapter, viewer's clock | each game is in exactly one of the two views (ADR 0001) |
| BROWSE and search (`games.rs`, `bounded.rs`, `Browse.tsx`, `SearchResults.tsx`) | page cache; the browser's pages | raw pages until one is not empty, bounded lookups, next page, retry | store adapter, the game page's details | every game of the genre is shown once, an outage never reads as an empty genre |
| Wishlist enrichment (`account.rs`, `bounded.rs`) | the lookups of one answer | bounded lookups under two deadlines | game page | Sony's order, no entry lost, a minimal card only for a lookup that failed or was too slow |
| Tab prefetch (`prefetchRunner.ts`, `SignOut.tsx`, `SignIn.tsx`) | the session, the query in flight | start, abort, discard, sign-out, sign-in | the query cache, the router | a view's request is never aborted, no list of an account that left |
| HTTP surface (`http/`) | the request and its span | router, parameters, middleware, fallbacks | every service | each request has one answer that keeps the API's contract |
| Settings and wiring (`config.rs`, `wiring.rs`, `main.rs`) | none | read the environment, build the clients, bind | the services | a client that cannot be built costs its own features only |
| Observability (`observability.rs`) | the spans | one line per event and per request | every component | a line names its own request and only allowed fields |
| Serve loop (`lifecycle.rs`) | open connections | stop signal, drain, grace period | every handler | the process ends, and cuts only what outlives the grace |

The other components of `PROJECT.json` (mapping, dates, the single-page lists,
the contract bot, the views) are stateless or outside the program; see
[not modelled](#not-modelled).

What makes this code hard to test is mostly a matter of order: a lookup that
ends after its entry was evicted and filled anew, a refusal that arrives after
the token was replaced, an answer for a former account that is applied to a new
cookie or shown to another user, lists of different ages in one lookup, a tab
that is opened in the moment in which its prefetch is aborted. The `hazards` of `PROJECT.json` list each at its line, with the
properties that would catch it.

## Modules and the code

```
CacheContract  <--refines--  TtlCache              TtlCache_proofs
      ^--------refines-----  SignedIn              SignedIn_proofs
Transport  <--refines--------  StoreCall           StoreCall_proofs
IgdbTokens                                         IgdbTokens_proofs
GameLookup                                         Games_proofs
ReleaseSplit  <--extends-----  ReleaseLists        ReleaseLists_proofs
BoundedLookups  <--extends---  BoundedPages        Games_proofs
QueryParams <-- Routes, Startup, LogLines  <--extends--  HttpServer   HttpServer_proofs
Prefetch                                           Prefetch_proofs
```

Each `MC*` module gives TLC the values of the constants of one module.

**CacheContract** is the abstract specification of "ask once for all callers": a
caller is tied to one lookup of its key, which still runs or ended less than its
time to live ago, and receives that lookup's outcome. It knows no capacity,
recency or entry.

**TtlCache** models `cache.rs`: one action per locked section. `GetCached` and
`StartLookup` are the two branches of `get_with`, with the removal of an expired
entry, the insertion, and `evict_over` in the same step; `CompleteLookup` is
`Inner::complete`, `PanicLookup` the drop of an armed `PendingGuard`, `Receive`
the wake-up of a caller, `Leave` its drop. The locked state is a record that the
helpers (`Bump`, `RemoveKey`, `Insert`, `RemoveLookup`, `EvictOver`) pass on, as
the methods of `impl State` do. `expires_at = None` is `Never`: a pending entry,
or a time to live past the end of the clock.

**SignedIn** models the three session routes and the two list routes from the
cookie that the browser attaches to the `Set-Cookie` it applies. `Verdict` is the
classification of `call_failed` and of the calls around it: a 401 of the
authorize call is an outage, a 401 of the token call a rejection, and so on;
`Definitive` states separately what the documentation calls a rejection.
`JoinOrStart` and `EndRun` are `InFlight::run` and its guard; `Crawl` is the page
loop of `purchased`. Answers are delivered in any order and may be lost. The
module shows that `InFlight` refines CacheContract with a time to live of zero.

**Transport** models `send_retrying` and what it calls: the deadline of an
attempt, the retry of a failure, a 5xx, a body that `is_failure` rejects or a
429, the clamped delay, and the result. **StoreCall** extends it with the store
adapter: an operation picks the predicate that the transport is given, and the
returned value is decoded (`Decode`), checked for a rotation, and classified into
the HTTP problem of `http/errors.rs`. A body is reduced to what the decoders
tell apart: whether it is JSON, which kinds of elements its `errors` has, the
state of the requested node, and how many of its elements decode.

**IgdbTokens** models `IgdbClient::find`. The token cache is kept as the one
request whose outcome it holds (`slot`); what `TtlCache` promises about it is
taken from that module. `Rejection` is the poll that receives a refusal: it moves
the generation on by compare-and-exchange and asks again, once. `BudgetOver`
drops a lookup, not its token request.

**GameLookup** models `game_by_id`: the lists in order, then the enrichment of a
listed game or the strict product lookup. A phase of a lookup waits for one or
two caches; a cache has one entry for the product, which is running or has an
answer and the instant of it. `Answers` is what the adapter can make of Sony's
store, `Ttl` the time to live of each outcome per cache. An entry that expires is
removed by `Tick`: nobody can tell it from one that is removed at its next read.

**ReleaseSplit** has the two windows of `listing.rs` and the split of
`releaseDay.ts` as operators. **ReleaseLists** composes them: the two cached
grids, the date of each product, the merged and sorted listing of a request
(`Listings`, the one sorted sequence of the cards of `InListing`), the page that is cut from it, the pages of the two infinite queries,
and which of their cards, by page and place, each view shows (`Shown`). A detail that fails makes a product
undated. Time passes in units of the client clock margin (twelve hours), which
is longer than any cache lives; within one instant the caches expire at any time.
A refresh drops a view's pages at once, where the query library swaps them when
the new ones have arrived; the properties speak of wholly loaded views only.

**BoundedLookups** is `in_order_bounded`: lookups start in the order of the items,
at most `Limit` at once, end in any order, and answer in the order of the items.
**BoundedPages** is what uses it: a request reads raw pages until one keeps a
card or the bound is reached, each concept becomes its first PS5 candidate, is
dropped, or fails; a failed page is an error only if nothing else was kept; the
browser asks for the next offset, retries, and removes repeated ids (`Shown`). A
wishlist is the one-page case with a deadline for each entry and one for all: the
lookup of a product in `slow` may take any time up to its deadline, or run past
it; the others take none.
An element is its position in Sony's list: `Entries` are the positions that the
view's decoder and scope check keep, `Items` what is looked up of them, each id
once, and `InOrder` puts a set of positions in Sony's order. `IsElement` says what
the list may hold: a search result classifies a product as its detail does, and a
concept's id is no product id (the two have different forms, `domain/src/id.rs`).

**QueryParams** has the parameters of `params.rs`, numbers digit by digit of
their JavaScript meaning; **Routes** what one request asks for (`Asks`) and the
answers that need no service; **Startup** the settings, the clients that are built
and the ones that stand in for them; **LogLines** the fields of a line.
**HttpServer** composes them: a request takes its id, enters its span, is routed,
waits for a call of a service, answers, and is written to the log. A list, a game
and a score are lookups that requests share and that run in a task outside their
spans; a search, which is never cached, and a signed-in call run in their request
and its span. Clients leave or take their answer slowly; handlers panic, and so do
the tasks of lookups and exchanges (`RunsATask`); a signal stops the server, which
drains for `Grace`.

**Prefetch** models `prefetchRunner.ts` in the browser's event loop: `Proceed` is
one turn of `runPrefetch` up to its request, `Check` the microtask that
`onLoopAbort` queues, `Settle` the rest of `prefetchTab` after its await. `Quiet`
says that a task waits for the microtasks before it; their order among two runs
is left open. `Open` changes the route before the new view subscribes, and
`Fetch` is a fetch of the query library with the event that aborts the calls of
other tabs. The sign-out and the sign-in have a step for the click and one for
the answer. `cookie` is the account whose cookie a request was sent with.

## Runs and bounds

| run | instance | shows |
|---|---|---|
| `cache` | 3 keys, 2 slots, 2 callers, 4 recency numbers, 2 instants; outcomes that live a tick, not at all, forever (321 773 states) | the index matches the entries (`RecencyMatchesEntries`), an entry follows its own lookup (`EntryFollowsItsLookup`), an entry leaves only because it ended, expired or was the least recent (`EntriesLeaveForAReason`), the capacity holds, and the cache implements CacheContract |
| `signed_in` | 2 requests, 2 accounts (one library fits the page cap exactly, one is a page too large), 2 exchanges (102 352 states) | the cookie was accepted, an outage keeps it, the token is the account's own, a library is whole or an error, exchanges are shared only while they run, requests are answered |
| `signed_in_race` | the same | violated: see finding 1 |
| `store_call` | 9 operations, 2 retries, 12 kinds of body, headers that are absent, zero and above the clamp | the budget, the last attempt decides, an outage is not data, a partial answer is kept, every call ends |
| `igdb_tokens` | 2 lookups, 3 token requests, 3 instants | a refusal costs one token request, an outcome is held for its time to live, a refused token is not used again |
| `game_lookup` | 1 lookup at a time, 2 of the 4 lists, 1 change of Sony's store, 3 instants | a listed game is found and a 404 was answered, as of a moment that the caches allow |
| `release_lists` | 2 games (a product and a concept card), days of 2 units in two phases, clocks that are off by up to the margin, 2 instants, pages of one card | every game that Sony did not refile is shown once in exactly one view |
| `pages` | 17 lists, raw pages of 2, 2 raw pages per request, 2 lookups at once, 2 faults, deadlines of 2 and 4 (14 696 states) | every game of the list is shown once, an empty genre is real, a wishlist entry is enriched unless its lookup failed or too many were slow, a view settles |
| `http` | 75 requests alone, or 3 that meet in two connections, one of which may search; 4 environments; a grace of 3 ticks (128 785 states) | a line belongs to its request, every request is accounted for, answers keep the contract, the server stops in time |
| `http_grace` | the library request, in seconds | violated: see finding 2 |
| `prefetch` | 3 tabs (one anonymous), 2 accounts, 4 route changes, sign-ins and sign-outs (1 000 375 states) | an opened tab keeps its request, and no list is of an account that left |
| `prefetch_sign_in` | the same, 3 moves | violated: see finding 3 |

Why these bounds are enough to meet the interesting cases:

- *Cache.* Three keys and two slots make a start evict another key, pending or
  not, and leave one whose rank matters. Four recency numbers leave room for an
  entry, its eviction, its successor, and a read that ranks it again, while the
  first lookup still runs.
- *Signed in.* Two requests are enough for a shared exchange, for two accounts
  side by side, and for two answers in the wrong order. A third exchange would
  repeat one of the two. `MaxPages = 2` makes the cap an exact fit for one
  account and an overflow for the other.
- *Transport.* With two retries there is a first, a middle and a last attempt.
  The clamp (3) lies between the zero header and the large one (9 s of 2 ticks).
- *IGDB.* Three requests are a token, its successor, and the one that must not
  be sent. Tokens live two ticks and failures one, so both expire.
- *Game page.* A lookup's list reads may lie a tick apart, a success lives two
  ticks, a failure and a miss one, so every answer can be stale when it is read
  and the next one fresh. The lists differ only in the grid they read, so two
  stand for four: one that is followed by another, and the last.
- *Release lists.* The dates -1, 0 and 2 lie before, at and beyond the
  viewer's possible midnights; two calendars put the midnight of a
  two-unit day on even or odd instants. One card per page makes every
  shift of the list visible.

- *Pages.* The lists of the instance hold what a raw page can narrow to: a
  concept whose PS5 title is tried first, two concepts of one game, concepts
  without a game, without a title, with more titles than are tried, and an
  element that does not decode; three raw pages in a row may keep nothing. Two
  faults are enough for a page that fails in part and is asked for again. The
  deadline of the whole wishlist has time for one batch of slow lookups and not
  for two, which the products of one wishlist fill.
- *HTTP.* The answer of a request does not depend on other requests but through
  a shared lookup, so one connection takes any of the 75 requests and two take
  three that meet, a list, a game page with its score and a signed-in list, and in
  one of them a search beside. The grace lies between the calls that fit it and the
  signed-in lists, which do not.
- *Prefetch.* One anonymous tab stands for the three, which differ in nothing
  but their key; the two signed-in tabs differ in who resets them. Four moves are
  a sign-out or sign-in with a route change before and after each of its two
  steps. The two properties were also checked with five moves (2 421 927 states),
  and are proved for any number.

`MaxNext`, `MaxNow`, `MaxRuns`, `MaxRequests`, `MaxChanges`, `MaxMoves` and
`MaxFaults` bound the exploration and are not the code's; `MaxInstant`,
`MaxPages`, `Retries`, `RawPageBound`, `MaxCandidates`, `Limit` and the page sizes
are, with smaller values. Deadlock is not checked for TtlCache and IgdbTokens,
which stop when their numbers are used up, for StoreCall and BoundedPages, where
one call or view ends, for HttpServer, which stops, and for Prefetch, whose shell
may be closed. Symmetry is used only in runs without a liveness property.

## Fairness

Only steps that the program owes are fair. In SignedIn the steps of a handler and
of an exchange are weakly fair, because each Sony call, each exchange and each
crawl has a timeout and tokio polls a woken task. In StoreCall the call itself
is, for the same reason. In BoundedPages the server's step is, because every
lookup has a deadline or a timeout of its own calls, and the client's: the effect
that asks for the page behind an empty one, and the request that follows a
failure within the query library's retries. The user's scrolling and Retry are
not, and `MaxFaults` bounds the faults. In HttpServer the clock, the
end of a service's work, the end of the drain and the end of the grace period are
fair; a client that takes its answer slowly is not, which is why the grace period
exists. No user, no arrival or loss of a message, no panic and no answer of Sony
is ever forced. The other modules state safety only: a call of the cache lasts as
long as its lookup, which TtlCache does not bound.

## Proofs

TLAPS checks these for every value of the constants that satisfies the module's
assumptions (`ASSUME`: the types of the constants, that names of different things
differ, and "Keys is finite", which the eviction needs for cardinalities).

- **TtlCache_proofs.** The properties are not inductive one by one: that a
  completing lookup finds its own entry needs that numbers are handed out once,
  and that an insertion gets a rank above all others needs that no entry has been
  used in the future. `IndInv` adds exactly that (`NumbersHandedOut`) to
  `TypeOK`, `RecencyMatchesEntries` and `EntryFollowsItsLookup`.
  `TypeCorrect`, `RecencyCorrect`, `FollowCorrect` follow. `CapacityCorrect` is
  by cardinality: an insertion adds at most one entry, and `evict_over` drops as
  many ranks as are in excess, which the index equates with entries.
  `ReasonCorrect` proves the action property that an entry leaves only for a
  reason: what `evict_over` drops ranks below everything that it keeps.
  `Refinement` proves `Spec => C!Spec`, the contract.
- **StoreCall_proofs.** For the transport, `BudgetInv` relates the elapsed time to the
  attempts that have ended and the delays before them; `RepeatInv` says that each
  attempt in the history but the last was one to repeat. `CallTypeCorrect`,
  `BudgetCorrect` and `LastAttemptCorrect` follow. A store call implements the transport call
  (`StoreRefinement`), so it inherits its budget (`StoreBudget`). `OutageCorrect`
  adds that a returned outcome is what the adapter makes of the last answer, and
  shows by cases over the decoders that data has been proven by it.
  `PartialCorrect` shows that an answer with data next to a server error is never
  one to repeat, so it is the last one, and is read as data.
- **IgdbTokens_proofs.** `TokensInv` ties requests and lookups to generations
  that have been reached and the slot to the latest request of the current one;
  `TypeCorrect`, `RefreshCorrect`, `HoldCorrect` and the action property
  `DropCorrect` follow.
- **SignedIn_proofs.** `SignedInInv` adds two parts to the types and to
  `CookieWasAccepted`: `RunsInv` (an entry of the table is a running exchange of its
  own NPSSO, and how an exchange ended is on record) and `RequestsInv` (a request
  that waits for an exchange or reads a list does so with a run of its own NPSSO;
  an answer that sets or clears the cookie has its reason on record; a library
  was listed behind a page that was not full). `CookieCorrect`,
  `OwnAccountCorrect`, `WholeLibraryCorrect` and `OutageCorrect` follow, and
  `Refinement` proves that InFlight is CacheContract with a time to live of zero.
- **Games_proofs, the game page.** `GameInv` says of each entry and of each value that a
  lookup has read that it was Sony's answer in its tick (`Answered`) and was
  fresh when it was read (`ReadInv`). For the lists behind a lookup that gives an
  instant at which the game was not in them (`WasIn`), whatever the number of
  lists and the times to live; `ListedCorrect` and `NotFoundCorrect` follow.
- **Games_proofs, the pages.** A set of positions becomes a sequence by `InOrder`;
  the lemmas first prove that it enumerates the set, and is the only sequence that
  does (`EnumerationIsUnique`). `Shows(cards, positions, of)` relates what a list
  of cards has to the part of Sony's list that it stands for, without saying which
  of several positions of one game a card came from; it survives dropping,
  appending and removing repetitions (`PageShows`, `KeptShows`), which equality
  with a filtered list does not. `PagesInv` says so of the browser's cards
  (`ClientInv`), of the raw pages that a request has skipped (`AskedInv`), and of
  the outputs that have come in (`ResolvingInv`), and that a pool has started its
  items in order and at most `Limit` beyond those that ended (`IsPool`).
  `PagesTypeCorrect`, `PagesShowCorrect` and `EmptyGenreCorrect` follow: two lists
  without a repetition that show the same positions in order are equal.
  `EnrichedCorrect` is a counting argument. A batch is the time of one
  `EntryTimeout`. Time passes only while every slot is held by a slow lookup, or
  nothing is left to start, and a slow lookup may end at any time up to its
  deadline. Let n slow lookups come before an item (`SlowBefore`); the item begins
  no later than after the batches that n lookups fill, `Limit` at a time (`Due`):
  the one that began first among the `Limit` slow ones before it has gone by then
  (`FirstOfABatch`). So a list that runs out of time has more slow lookups than the
  deadline allows (`NotOutOfTime`), and an item that is not slow never waits at all
  (`EntryIsEnriched`).
- **Prefetch_proofs.** `PrefetchInv` ties each request of the prefetch to a call of
  its tab (`Owned`), lets at most the newest call hold the run (`Current`), and
  keeps accounts that left out of the data *and* out of the cookies of requests in
  flight (`Clean`), without which a late answer could bring one back.
  `TypeCorrect` and `LeftCorrect` follow. `OpenedCorrect`, the action property
  of an opened tab, needs one more invariant: a call that was aborted has ended in
  the same step (`AbortedHasEnded`), so one that still fetches may be joined.
- **ReleaseLists_proofs.** `SplitIsExact`: if the viewer's next midnight is at
  most `MaxLocalDay` away and the clock is within `Margin` of the instant of each
  list, a game passes window and split of exactly one view. NEW needs the bound
  from one side, UPCOMING from the other: a page of NEW may not be too old, a
  page of UPCOMING may be as old as it likes. `ReleaseInv` carries that to whole
  views: a page keeps the instant of its request, and stays right about every game
  that Sony has not refiled since (`IsPage`), because a cached grid is (`Caches`).
  With it `ShownOnceCorrect` needs only arithmetic: the order of the list is strict
  (`PrecedesIsTotal`), so a game has one place in it, and the pages up to the end
  of a list cover each place once (`SomePage`, `OnePage`), whatever the page size.
- **HttpServer_proofs.** `ServerInv` has five parts. `Connections`: each connection
  has a response exactly in the states that need one, and that response is good
  for its request and has the security headers (`IsGood`). `Lookups`: every call that
  a connection waits for runs, a shared one outside all spans, one of its own in
  the span of its request, and none ends later than `LatestEnd` on the clock of the
  stop: this is what bounds the calls that the end of the grace period can find.
  `Phases` and `Cuts` say what the stop has done so far. `IsLog` ties each line to
  the request that it names, and the one status line of a request to its answer.
  `TypeCorrect`, `LinesCorrect`, `AccountedCorrect` and `ContractCorrect` follow; the
  last goes through every route and every outcome of its service
  (`FollowsTheContract`).

Only model-checked: liveness (`RequestsAreAnswered`, `CallsEnd`, `ViewSettles`,
`StopsInTime`), which is out of the prover's reach under fairness. Every
invariant and action property that a run checks is also a theorem.

## Findings

Each is the counterexample of a run of its own.

1. *signed_in_race.* `expire_cookie_on_rejection` clears the browser's cookie on
   any 401 of a list route. A request of a former NPSSO that Sony rejects after a
   newer sign-in signs the user out of the new one. STACK.md:415 promises that
   "the user signs in once until Sony expires the NPSSO".
2. *http_grace.* `lifecycle.rs:20` takes the crawl's 30 seconds for the longest
   request and gives it 35. A list request exchanges its NPSSO first, under a
   deadline of its own (15 seconds), so a stop may cut a request that Sony would
   still have answered.
3. *prefetch_sign_in.* `signedInQuery.ts:7` says that a sign-in resets the keys
   that are not on screen. `SignIn.tsx:39` only invalidates the key of its own
   form: if the user has opened another page before the answer, that list keeps
   its 401 and shows the form to a signed-in user. With one more sign-in it takes
   the wrong list: the user signs in as the second account from that form and
   leaves, the prefetch (which no 401 of its own has ended yet) requests the list
   with the first account's cookie, the sign-in is accepted, and the late answer
   stays. `NoListOfAnAccountThatLeft` therefore excepts the list of the form.

Seen while reading or modelling, without a run:

- A tab whose refresh failed has data and the status error. `prefetchRunner.ts:138`
  takes it for a tab without data (STACK.md:186: "It skips a tab that has data"):
  the prefetch requests it again, and when that request fails or is aborted,
  `discardIfUnwatched` drops the list that the failed refresh had kept.
- Two runs overlap for a moment after a route change: the one that ends may set
  the other's `stopSignedIn` to null, or discard the query that the other has
  just fetched, if its microtask comes second. The properties do not forbid
  either; they hold because a sign-out resets the lists anyway.
- A sign-out aborts the request of a signed-in tab even when a view has joined it,
  and a sign-out that then fails leaves that view in an error.
- Each page of NEW or UPCOMING is cut from the list of its own request. When the
  list changes in between, the offsets of the other games shift: a card is
  repeated (`Games.tsx`, unlike `Browse.tsx` and `SearchResults.tsx`, keeps it) or
  skipped. STACK.md:362 promises a superset. `EachGameIsShownOnce` speaks of
  pages of one list.
- `extract_category_grid` calls a grid drifted only when its node is. A grid whose
  elements are all of an unknown shape is an empty list, although the comment at
  `catalog.rs:197` says that drift never reads as one.
- A malformed product node decodes to the empty detail that stands for an unknown
  id (`product.rs:91`), so the page of a PS5 game is a 404 for five minutes;
  `games.rs:605` says that only what Sony proves is not found. `NotFoundIsAnswered`
  takes such an answer for Sony's own "missing".
- `grid.rs:185` takes the number of *decoded* concepts for the length of a page
  without page info, so one undecodable element makes a full page the last one.
  `PagesShowEveryGame` and `EmptyGenreIsReal` except the pages of a list whose end
  was misread in this way (`blind`).
- A request that is dropped because its client has gone, or that the end of the
  grace period cuts, writes no completed line, although STACK.md:338 says that each
  request writes one. `EveryRequestIsAccountedFor` speaks of those that answered.
- A lenient detail of a drifted product is an empty success and is kept for six
  hours, where a failure is kept for thirty seconds (#203).

## Not modelled

- `mapper.rs`, `js.rs`, ids, prices, dates and the critic match: pure functions of
  text and JSON. Their tests compare them with JavaScript; a model would only
  spell them out again.
- The decoders' JSON traversal: the modules take what a decoder tells apart (data,
  drift, denied, rotated) and not how it finds it.
- DISCOUNTED and MONTHLY: one cached feed each and one filter of its cards by
  cached details. What could go wrong in them is in TtlCache, BoundedLookups and
  GameLookup already. The score cache is TtlCache with other times to live.
- The OpenAPI document, the generated client, the ranges and content types of
  static files, the formats of the log, and the rendering.
- The contract bot, the examples and the end-to-end tests: other programs.
- Threads: the production runtime is single-threaded (`main.rs`). TtlCache and
  SignedIn take a locked section for a step and do not depend on it; IgdbTokens
  does, and says so.
- Memory, connection pools, and the time that the program itself takes between
  two awaits.
- Two browser tabs at once are in SignedIn (one cookie jar, answers in any order);
  the query cache of Prefetch is that of one of them.

## Plan

The stateful parts of the inventory are modelled. In the order of what is left:

1. The composition of GameLookup and BoundedPages: "a BROWSE card never leads to a
   missing game page" (ADR 0002), with the details of both read from one cache.
