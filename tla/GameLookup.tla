----------------------------- MODULE GameLookup -----------------------------
(***************************************************************************)
(* The game page: Inner::game_by_id of application/games.rs.  A lookup      *)
(* reads the cached lists one after the other and asks for the product      *)
(* itself only when every list misses.  A page found in a list is enriched  *)
(* with a lenient product detail; a page found by its product id needs a    *)
(* strict one.  Every read goes through a TtlCache, so a lookup combines    *)
(* answers of different ages while Sony's store changes under it.           *)
(*                                                                          *)
(* One product id is modelled, and the caches by their one entry for it: a  *)
(* caller joins a running request or a fresh outcome (CacheContract).       *)
(* Eviction and callers that leave are the subject of module TtlCache.      *)
(***************************************************************************)
EXTENDS Integers, Sequences, FiniteSets, SequencesExt

CONSTANTS
    Lookups,    \* game page requests that may run at the same time
    Feeds,      \* the lists in the order game_by_id reads them
    SuccessTtl, \* per cache: the time to live of a success, in ticks
    FailureTtl, \* per cache: the time to live of a failure
    MissTtl,    \* STRICT_DETAIL_MISS_TTL
    MaxNow,     \* bound: the last tick explored
    MaxChanges  \* bound: changes of Sony's store

Lists == ToSet(Feeds)
Details == {"strict", "detail"}
Caches == Lists \cup Details \cup {"price"}

ASSUME FeedsAssumption ==
    /\ Feeds \in Seq(Lists) /\ Len(Feeds) > 0 /\ IsInjective(Feeds)
    /\ Lists \cap {"strict", "detail", "price", "idle", "enrich", "product"} = {}
ASSUME TtlAssumption ==
    /\ SuccessTtl \in [Caches -> Nat \ {0}] /\ FailureTtl \in [Caches -> Nat \ {0}]
    /\ MissTtl \in Nat \ {0} /\ MaxNow \in Nat /\ MaxChanges \in Nat

VARIABLES
    now,        \* the clock
    store,      \* Sony: the lists that show the product, and what its detail is
    changes,    \* how often Sony's store has changed
    cache,      \* per cache: the entry of the product or of the list
    lookups,    \* every game page request: where it is and what it has read
    was         \* history: the states of Sony's store in every tick

vars == <<now, store, changes, cache, lookups, was>>

\* A PS5 game, one without a name, a product that is no PS5 game, no product.
Products == {"game", "nameless", "other", "missing"}
Stores == [listed : SUBSET Lists, product : Products]

\* An entry of a cache, and what a lookup has read of one: what it is and when
\* Sony answered.
NoEntry == [is |-> "none", at |-> 0]
Running == [is |-> "running", at |-> 0]

Results == {"page", "page_without_detail", "not_found", "unavailable"}
Idle == [at |-> "idle", result |-> "none", kind |-> "product", from |-> 0, main |-> NoEntry, price |-> NoEntry]

Init ==
    /\ now = 0 /\ changes = 0
    /\ store \in Stores
    /\ cache = [c \in Caches |-> NoEntry]
    /\ lookups = [l \in Lookups |-> Idle]
    /\ was = [t \in {0} |-> {store}]

-----------------------------------------------------------------------------
(* The caches *)

\* ttl_by_outcome, and the closure of strict_details: a product without a
\* platform is a miss, whoever asked.
TtlWithoutMiss(c, is) == IF is = "failed" THEN FailureTtl[c] ELSE SuccessTtl[c]
Ttl(c, is) ==
    CASE is = "failed" -> FailureTtl[c]
      [] is = "missing" /\ c = "strict" -> MissTtl
      [] OTHER -> SuccessTtl[c]

\* An entry that is past its time to live is as good as none.
Expires(c, time) ==
    cache[c].is \notin {"none", "running"} /\ time >= cache[c].at + Ttl(c, cache[c].is)

\* What get_with gives at once, and the requests it sends.
Reading(c) == IF cache[c] = NoEntry THEN Running ELSE cache[c]
RequestedUnrecorded(S) == cache
Requested(S) == [c \in Caches |-> IF c \in S /\ cache[c] = NoEntry THEN Running ELSE cache[c]]

-----------------------------------------------------------------------------
(* The lookup *)

\* The cache that gives a lookup its main answer in the phase `at`.
MainCache(at) ==
    CASE at \in Lists -> at
      [] at = "enrich" -> "detail"
      [] at = "product" -> "strict"
      [] OTHER -> "price"

InPhase(l) == lookups[l].at # "idle" /\ lookups[l].result = "none"
MainRead(l) == InPhase(l) /\ lookups[l].main # Running

Stop(l, result) ==
    /\ lookups' = [lookups EXCEPT ![l].result = result, ![l].price = NoEntry]
    /\ UNCHANGED cache

\* A list, or two requests at once: join in enrich_with_detail, try_join in
\* by_product_id.
Go(l, at, kind, from) ==
    LET both == at \in {"enrich", "product"} IN
    /\ cache' = Requested(IF both THEN {MainCache(at), "price"} ELSE {at})
    /\ lookups' = [lookups EXCEPT ![l] =
          [at |-> at, result |-> "none", kind |-> kind, from |-> from, main |-> Reading(MainCache(at)),
           price |-> IF both THEN Reading("price") ELSE NoEntry]]

\* game_by_id: an id of another shape than a product id reads the lists too.
Start(l) ==
    /\ ~InPhase(l)
    /\ \E kind \in {"product", "other_id"} : Go(l, Feeds[1], kind, now)
    /\ UNCHANGED <<now, store, changes, was>>

\* Where the lookup goes when a list misses; only a product id has a product.
MissedBeforeLast(l) ==
    LET i == CHOOSE n \in 1..Len(Feeds) : Feeds[n] = lookups[l].at IN
    IF i + 1 < Len(Feeds) THEN Go(l, Feeds[i + 1], lookups[l].kind, lookups[l].from)
    ELSE IF lookups[l].kind = "product" THEN Go(l, "product", "product", lookups[l].from)
    ELSE Stop(l, "not_found")
Missed(l) ==
    LET i == CHOOSE n \in 1..Len(Feeds) : Feeds[n] = lookups[l].at IN
    IF i < Len(Feeds) THEN Go(l, Feeds[i + 1], lookups[l].kind, lookups[l].from)
    ELSE IF lookups[l].kind = "product" THEN Go(l, "product", "product", lookups[l].from)
    ELSE Stop(l, "not_found")

\* game_by_id, find_in_feature: a list fails, shows the product, or does not.
ListAnswered(l) ==
    /\ lookups[l].at \in Lists /\ MainRead(l)
    /\ CASE lookups[l].main.is = "failed" -> Stop(l, "unavailable")
         [] lookups[l].main.is = "listed" /\ lookups[l].kind = "product" ->
               Go(l, "enrich", "product", lookups[l].from)
         [] OTHER -> Missed(l)
    /\ UNCHANGED <<now, store, changes, was>>

\* enrich_with_detail waits for both; a failure is an empty detail or price.
Enriched(l) ==
    /\ lookups[l].at = "enrich"
    /\ MainRead(l) /\ lookups[l].price # Running
    /\ Stop(l, IF lookups[l].main.is \in {"failed", "missing"} THEN "page_without_detail" ELSE "page")
    /\ UNCHANGED <<now, store, changes, was>>

\* by_product_id: a failed detail answers at once, the price is optional.
ProductAnswered(l) ==
    /\ lookups[l].at = "product" /\ MainRead(l)
    /\ lookups[l].main.is = "failed" \/ lookups[l].price # Running
    /\ Stop(l, CASE lookups[l].main.is \in {"failed", "nameless"} -> "unavailable"
                 [] lookups[l].main.is \in {"missing", "other"} -> "not_found"
                 [] OTHER -> "page")
    /\ UNCHANGED <<now, store, changes, was>>

-----------------------------------------------------------------------------
(* Sony and the clock *)

\* Sony's answers to the request of a cache, as the adapter decodes them: a
\* drifted list fails, a missing or malformed product node is an empty detail.
\* A failed price is no price, and nothing tells that from a product without.
Answers(c) ==
    CASE c \in Lists -> {IF c \in store.listed THEN "listed" ELSE "not_listed", "failed"}
      [] c \in Details -> {store.product, "missing", "failed"}
      [] OTHER -> {"price"}

\* Everyone who waits for the request of c receives its answer.
Told(c, answer) == [l \in Lookups |->
    [lookups[l] EXCEPT
        !.main = IF MainCache(lookups[l].at) = c /\ @ = Running THEN [is |-> answer, at |-> now] ELSE @,
        !.price = IF c = "price" /\ @ = Running THEN [is |-> answer, at |-> now] ELSE @]]

\* The request of c ends.  A panic leaves no entry and reads as a failure.
RequestEnds(c) ==
    \E answer \in Answers(c), panicked \in BOOLEAN :
        /\ cache[c] = Running
        /\ panicked => answer \in {"failed", "price"}
        /\ cache' = [cache EXCEPT ![c] = IF panicked THEN NoEntry ELSE [is |-> answer, at |-> now]]
        /\ lookups' = Told(c, answer)
        /\ UNCHANGED <<now, store, changes, was>>

StoreChanges ==
    /\ changes < MaxChanges
    /\ changes' = changes + 1
    /\ store' \in Stores \ {store}
    /\ was' = [was EXCEPT ![now] = @ \cup {store'}]
    /\ UNCHANGED <<now, cache, lookups>>

Tick ==
    /\ now < MaxNow
    /\ now' = now + 1
    /\ cache' = [c \in Caches |-> IF Expires(c, now') THEN NoEntry ELSE cache[c]]
    /\ was' = [t \in 0..now' |-> IF t = now' THEN {store} ELSE was[t]]
    /\ UNCHANGED <<store, changes, lookups>>

Next ==
    \/ \E l \in Lookups : Start(l) \/ ListAnswered(l) \/ Enriched(l) \/ ProductAnswered(l)
    \/ \E c \in Caches : RequestEnds(c)
    \/ StoreChanges \/ Tick

Spec == Init /\ [][Next]_vars

-----------------------------------------------------------------------------
(* Properties *)

Entry == [is : {"none", "running", "listed", "not_listed", "price", "failed"} \cup Products, at : Nat]
Lookup == [at : Lists \cup {"idle", "enrich", "product"}, result : Results \cup {"none"},
           kind : {"product", "other_id"}, from : Nat, main : Entry, price : Entry]

\* Every variable has its type, and a lookup waits only for a request that
\* runs: nobody is forgotten when a request ends, not even by a panic.
TypeOK ==
    /\ now \in Nat /\ store \in Stores /\ changes \in 0..MaxChanges
    /\ cache \in [Caches -> Entry]
    /\ lookups \in [Lookups -> Lookup]
    /\ DOMAIN was = 0..now /\ \A t \in 0..now : was[t] \subseteq Stores
    /\ \A l \in Lookups :
          /\ lookups[l].main = Running => cache[MainCache(lookups[l].at)] = Running
          /\ lookups[l].price = Running => cache["price"] = Running

\* Sony's store had a state of S in a tick that an answer with this time to live
\* may come from, for a lookup that began at `from`.
Was(S, from, ttl) == \E t \in 0..now : t > from - ttl /\ was[t] \cap S # {}
NotFound(l) == lookups[l].result = "not_found" /\ lookups[l].kind = "product"

\* A game that a list has shown all along is never a 404, whatever the product
\* lookup says, and however the lookup's list reads are spread over time.
ListedGameIsFound ==
    \A l \in Lookups : NotFound(l) =>
        \A f \in Lists : Was({s \in Stores : f \notin s.listed}, lookups[l].from, SuccessTtl[f])

\* An outage is never a 404: Sony answered the product lookup, it named a
\* product that is no PS5 game, or it named none.  The latter is believed for
\* MissTtl only, so a product that Sony has just published is found soon.
NotFoundIsAnswered ==
    \A l \in Lookups : NotFound(l) =>
        \/ Was({s \in Stores : s.product = "other"}, lookups[l].from, SuccessTtl["strict"])
        \/ lookups[l].main.is = "missing" /\ lookups[l].main.at > lookups[l].from - MissTtl
=============================================================================
