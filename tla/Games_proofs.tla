---------------------------- MODULE Games_proofs ----------------------------
(***************************************************************************)
(* What application/games.rs and enrich_wishlist of application/account.rs  *)
(* promise, in two parts.                                                   *)
(*                                                                          *)
(* The game page of module GameLookup, for any lists and any times to live: *)
(* a listed game is found and a 404 was answered, although a lookup reads   *)
(* caches of different ages while Sony's store changes.                     *)
(*                                                                          *)
(* BROWSE, search and the wishlist of module BoundedPages, for any lists of *)
(* Sony, any size of a page and any number of lookups at once: the pages    *)
(* show every game once and in Sony's order, an empty genre is no outage,   *)
(* and a slow lookup of the wishlist costs the other entries nothing.       *)
(***************************************************************************)
EXTENDS GameLookup, BoundedPages, FiniteSetTheorems, WellFoundedInduction, TLAPS

\* What the entry of a cache can be.
Kinds(c) == IF c \in Lists THEN {"listed", "not_listed", "failed"}
            ELSE IF c \in Details THEN Products \cup {"failed"} ELSE {"price"}
Phases == Lists \cup {"enrich", "product"}

(***************************************************************************)
(* The arguments w and n are the history `was` and the time `now`: both     *)
(* only grow, and with them everything that is said of a past tick.         *)
(***************************************************************************)
HistoryInv ==
    /\ now \in Nat /\ store \in Stores /\ changes \in 0..MaxChanges
    /\ DOMAIN was = 0..now /\ \A t \in 0..now : was[t] \subseteq Stores
    /\ store \in was[now]

\* An answer says what Sony's store was in the tick of the answer.
Answered(c, e, w, n) ==
    /\ e \in [is : Kinds(c), at : 0..n]
    /\ c \in Lists /\ e.is = "not_listed" => \E s \in w[e.at] : c \notin s.listed
    /\ c = "strict" /\ e.is = "other" => \E s \in w[e.at] : s.product = "other"

\* A kept answer is fresh.
EntryInv(c, e, w, n) ==
    e \in {NoEntry, Running} \/ (Answered(c, e, w, n) /\ n < e.at + Ttl(c, e.is))

Unlisted(f) == {s \in Stores : f \notin s.listed}
WasIn(S, from, ttl, w, n) == \E t \in 0..n : t > from - ttl /\ w[t] \cap S # {}

\* The lists that a lookup in the phase `at` has read, and that missed.
Behind(at) == {i \in 1..Len(Feeds) : at = "product" \/ \E j \in 1..Len(Feeds) : at = Feeds[j] /\ i < j}

\* What a lookup has read was fresh when it was read, so not older than its
\* time to live at the start of the lookup.
ReadInv(q, w, n) ==
    q.at # "idle" =>
        /\ q.from \in 0..n
        /\ q.main = Running \/ /\ Answered(MainCache(q.at), q.main, w, n)
                               /\ q.main.at > q.from - Ttl(MainCache(q.at), q.main.is)
        /\ q.kind = "product" =>
              \A i \in Behind(q.at) : WasIn(Unlisted(Feeds[i]), q.from, SuccessTtl[Feeds[i]], w, n)
        /\ q.kind = "product" /\ q.result = "not_found" =>
              q.at = "product" /\ q.main.is \in {"missing", "other"}
WaitInv(q, entries) ==
    /\ q.main = Running => entries[MainCache(q.at)] = Running
    /\ q.price = Running => entries["price"] = Running
    /\ q.at = "idle" => q = Idle
LookupInv(q, entries, w, n) == q \in Lookup /\ ReadInv(q, w, n) /\ WaitInv(q, entries)

CachesInv ==
    /\ cache \in [Caches -> Entry]
    /\ \A c \in Caches : EntryInv(c, cache[c], was, now)
LookupsInv ==
    /\ lookups \in [Lookups -> Lookup]
    /\ \A l \in Lookups : LookupInv(lookups[l], cache, was, now)

GameInv == HistoryInv /\ CachesInv /\ LookupsInv

-----------------------------------------------------------------------------
(* Constants *)

\* The lists of the lookup order and their caches.
LEMMA FeedFacts ==
    /\ Len(Feeds) \in Nat \ {0} /\ 1 \in 1..Len(Feeds)
    /\ \A i \in 1..Len(Feeds) : Feeds[i] \in Lists
    /\ \A f \in Lists : \E i \in 1..Len(Feeds) : f = Feeds[i]
    /\ \A i, j \in 1..Len(Feeds) : Feeds[i] = Feeds[j] => i = j
    /\ "strict" \notin Lists /\ "detail" \notin Lists /\ "price" \notin Lists
    /\ "idle" \notin Lists /\ "enrich" \notin Lists /\ "product" \notin Lists
PROOF
<1>1. Len(Feeds) \in Nat /\ DOMAIN Feeds = 1..Len(Feeds) /\ Len(Feeds) > 0
  BY FeedsAssumption
<1>2. \A i, j \in 1..Len(Feeds) : Feeds[i] = Feeds[j] => i = j
  BY <1>1, FeedsAssumption DEF IsInjective
<1>3. Lists = {Feeds[i] : i \in 1..Len(Feeds)}
  BY <1>1 DEF Lists, ToSet
<1>4. /\ \A i \in 1..Len(Feeds) : Feeds[i] \in Lists
      /\ \A f \in Lists : \E i \in 1..Len(Feeds) : f = Feeds[i]
  BY <1>3
<1>5. /\ "strict" \notin Lists /\ "detail" \notin Lists /\ "price" \notin Lists
      /\ "idle" \notin Lists /\ "enrich" \notin Lists /\ "product" \notin Lists
  BY FeedsAssumption
<1>6. Len(Feeds) \in Nat \ {0} /\ 1 \in 1..Len(Feeds)
  BY <1>1
<1> QED BY <1>2, <1>4, <1>5, <1>6

LEMMA MainCaches ==
    /\ \A at \in Lists : MainCache(at) = at
    /\ MainCache("enrich") = "detail" /\ MainCache("product") = "strict" /\ MainCache("idle") = "price"
    /\ \A at \in Phases : MainCache(at) \in Caches
    /\ \A f \in Lists : f \in Caches
    /\ "strict" \in Caches /\ "detail" \in Caches /\ "price" \in Caches
PROOF BY FeedFacts DEF MainCache, Phases, Caches, Details

LEMMA KindTypes ==
    /\ \A c : Kinds(c) \subseteq {"listed", "not_listed", "price", "failed"} \cup Products
    /\ NoEntry \in Entry /\ Running \in Entry /\ NoEntry # Running
    /\ \A c, w, n : n \in Nat => \A e : EntryInv(c, e, w, n) => e \in Entry
    /\ \A c, e, w, n : Answered(c, e, w, n) => e.is \notin {"none", "running"} /\ e # Running /\ e # NoEntry
PROOF
<1>1. \A c : Kinds(c) \subseteq {"listed", "not_listed", "price", "failed"} \cup Products
  BY DEF Kinds
<1>2. NoEntry \in Entry /\ Running \in Entry /\ NoEntry # Running
  BY DEF NoEntry, Running, Entry
<1>3. ASSUME NEW c, NEW w, NEW n \in Nat, NEW e, Answered(c, e, w, n)
      PROVE  e \in Entry /\ e.is \notin {"none", "running"} /\ e # Running /\ e # NoEntry
  <2>1. e.is \in Kinds(c) /\ e.at \in Nat /\ e = [is |-> e.is, at |-> e.at]
    BY <1>3 DEF Answered
  <2>2. e.is \in {"listed", "not_listed", "price", "failed"} \cup Products
    BY <1>1, <2>1
  <2> QED BY <2>1, <2>2 DEF Entry, Products, Running, NoEntry
<1>4. ASSUME NEW c, NEW w, NEW n, NEW e, Answered(c, e, w, n)
      PROVE  e.is \notin {"none", "running"} /\ e # Running /\ e # NoEntry
  <2>1. e.is \in Kinds(c)
    BY <1>4 DEF Answered
  <2> QED BY <1>1, <2>1 DEF Products, Running, NoEntry
<1> QED BY <1>1, <1>2, <1>3, <1>4 DEF EntryInv

LEMMA TtlFacts ==
    ASSUME NEW c \in Caches, NEW is
    PROVE  /\ Ttl(c, is) \in Nat \ {0}
           /\ c \in Lists /\ is = "not_listed" => Ttl(c, is) = SuccessTtl[c]
           /\ c = "strict" /\ is = "other" => Ttl(c, is) = SuccessTtl[c]
           /\ c = "strict" /\ is = "missing" => Ttl(c, is) = MissTtl
PROOF
<1>1. SuccessTtl[c] \in Nat \ {0} /\ FailureTtl[c] \in Nat \ {0} /\ MissTtl \in Nat \ {0}
  BY TtlAssumption
<1> QED BY <1>1 DEF Ttl

-----------------------------------------------------------------------------
(* The history grows *)

Grows(w, n, w2, n2) == n \in Nat /\ n2 \in Nat /\ n <= n2 /\ \A t \in 0..n : w[t] \subseteq w2[t]

LEMMA AnsweredGrows ==
    ASSUME NEW w, NEW n, NEW w2, NEW n2, Grows(w, n, w2, n2), NEW c, NEW e, Answered(c, e, w, n)
    PROVE  Answered(c, e, w2, n2)
PROOF
<1>1. e.at \in 0..n /\ e.at \in 0..n2 /\ w[e.at] \subseteq w2[e.at] /\ e.is \in Kinds(c)
      /\ e = [is |-> e.is, at |-> e.at]
  BY DEF Grows, Answered
<1> QED BY <1>1 DEF Answered

LEMMA WasGrows ==
    ASSUME NEW w, NEW n, NEW w2, NEW n2, Grows(w, n, w2, n2), NEW S, NEW from, NEW ttl,
           WasIn(S, from, ttl, w, n)
    PROVE  WasIn(S, from, ttl, w2, n2)
PROOF
<1>1. PICK t \in 0..n : t > from - ttl /\ w[t] \cap S # {}
  BY DEF WasIn
<1>2. t \in 0..n2 /\ w[t] \subseteq w2[t]
  BY <1>1 DEF Grows
<1> QED BY <1>1, <1>2 DEF WasIn

LEMMA ReadGrows ==
    ASSUME NEW w, NEW n, NEW w2, NEW n2, Grows(w, n, w2, n2), NEW q, ReadInv(q, w, n)
    PROVE  ReadInv(q, w2, n2)
PROOF
<1> SUFFICES ASSUME q.at # "idle" PROVE ReadInv(q, w2, n2)
  BY DEF ReadInv
<1>1. q.from \in 0..n2
  BY DEF ReadInv, Grows
<1>2. q.main = Running \/ /\ Answered(MainCache(q.at), q.main, w2, n2)
                          /\ q.main.at > q.from - Ttl(MainCache(q.at), q.main.is)
  BY AnsweredGrows DEF ReadInv
<1>3. q.kind = "product" =>
        \A i \in Behind(q.at) : WasIn(Unlisted(Feeds[i]), q.from, SuccessTtl[Feeds[i]], w2, n2)
  BY WasGrows DEF ReadInv
<1> QED BY <1>1, <1>2, <1>3 DEF ReadInv

-----------------------------------------------------------------------------
(* The steps of a lookup *)

\* Requests that are sent leave what a cache has, and start what it has not.
LEMMA RequestedKeeps ==
    ASSUME CachesInv, NEW X \in SUBSET Caches
    PROVE  /\ Requested(X) \in [Caches -> Entry]
           /\ \A c \in Caches : EntryInv(c, Requested(X)[c], was, now)
           /\ \A c \in Caches : cache[c] = Running => Requested(X)[c] = Running
           /\ \A c \in X : Reading(c) = Running => Requested(X)[c] = Running
PROOF
<1>1. \A c \in Caches : Requested(X)[c] = IF c \in X /\ cache[c] = NoEntry THEN Running ELSE cache[c]
  BY DEF Requested
<1>2. \A c \in Caches : EntryInv(c, Running, was, now)
  BY DEF EntryInv
<1> QED BY <1>1, <1>2, KindTypes DEF CachesInv, Requested, Reading

\* What get_with gives at once is fresh.
LEMMA ReadingIsFresh ==
    ASSUME HistoryInv, CachesInv, NEW c \in Caches, NEW from \in 0..now
    PROVE  /\ Reading(c) \in Entry
           /\ Reading(c) = Running \/ /\ Answered(c, Reading(c), was, now)
                                      /\ Reading(c).at > from - Ttl(c, Reading(c).is)
PROOF
<1>1. EntryInv(c, cache[c], was, now) /\ cache[c] \in Entry
  BY DEF CachesInv
<1>2. CASE cache[c] \in {NoEntry, Running}
  BY <1>2, KindTypes DEF Reading
<1>3. CASE cache[c] \notin {NoEntry, Running}
  <2>1. Answered(c, cache[c], was, now) /\ now < cache[c].at + Ttl(c, cache[c].is) /\ Reading(c) = cache[c]
    BY <1>1, <1>3 DEF EntryInv, Reading
  <2>2. cache[c].at \in Int /\ Ttl(c, cache[c].is) \in Int /\ from \in Int /\ now \in Int /\ from <= now
    BY <1>1, TtlFacts DEF Entry, HistoryInv
  <2>3. cache[c].at > from - Ttl(c, cache[c].is)
    BY <2>1, <2>2
  <2> QED BY <1>1, <2>1, <2>3
<1> QED BY <1>2, <1>3

\* Games::detail and the steps after it: a lookup goes on to the next cache.
LEMMA GoStep ==
    ASSUME GameInv, NEW l \in Lookups, NEW at \in Phases, NEW kind \in {"product", "other_id"},
           NEW from \in 0..now, Go(l, at, kind, from), UNCHANGED <<now, store, changes, was>>,
           kind = "product" =>
               \A i \in Behind(at) : WasIn(Unlisted(Feeds[i]), from, SuccessTtl[Feeds[i]], was, now)
    PROVE  GameInv'
PROOF
<1> DEFINE both == at \in {"enrich", "product"}
           X == IF both THEN {MainCache(at), "price"} ELSE {at}
           main == Reading(MainCache(at))
           price == IF both THEN Reading("price") ELSE NoEntry
           q == [at |-> at, result |-> "none", kind |-> kind, from |-> from, main |-> main, price |-> price]
<1>1. cache' = Requested(X) /\ lookups' = [lookups EXCEPT ![l] = q]
  BY DEF Go
<1>2. X \in SUBSET Caches /\ MainCache(at) \in X /\ (both => "price" \in X)
  BY MainCaches DEF Phases
<1>3. main \in Entry /\ price \in Entry
      /\ (main = Running \/ /\ Answered(MainCache(at), main, was, now)
                            /\ main.at > from - Ttl(MainCache(at), main.is))
  BY MainCaches, ReadingIsFresh, KindTypes DEF GameInv
<1>4. /\ main = Running => cache'[MainCache(at)] = Running
      /\ price = Running => cache'["price"] = Running
  BY <1>1, <1>2, RequestedKeeps, KindTypes DEF GameInv
<1> HIDE DEF X, main, price
<1>5. q \in Lookup
  <2>1. from \in Nat
    BY DEF GameInv, HistoryInv
  <2> QED BY <1>3, <2>1 DEF Lookup, Phases
<1>6. ReadInv(q, was, now)
  BY <1>3 DEF ReadInv
<1>7. WaitInv(q, cache')
  BY <1>4, FeedFacts DEF WaitInv, Phases
<1>8. ASSUME NEW m \in Lookups PROVE LookupInv(lookups'[m], cache', was', now')
  <2>1. CASE m = l
    BY <2>1, <1>1, <1>5, <1>6, <1>7 DEF GameInv, LookupsInv, LookupInv
  <2>2. CASE m # l
    <3>1. lookups'[m] = lookups[m] /\ LookupInv(lookups[m], cache, was, now)
      BY <2>2, <1>1 DEF GameInv, LookupsInv
    <3>2. \A c \in Caches : cache[c] = Running => cache'[c] = Running
      BY <1>1, <1>2, RequestedKeeps DEF GameInv
    <3>3. lookups[m].at \in Phases \cup {"idle"} /\ MainCache(lookups[m].at) \in Caches /\ "price" \in Caches
      BY <3>1, MainCaches DEF LookupInv, Lookup, Phases
    <3> QED BY <3>1, <3>2, <3>3 DEF LookupInv, WaitInv
  <2> QED BY <2>1, <2>2
<1>9. lookups' \in [Lookups -> Lookup]
  BY <1>1, <1>5 DEF GameInv, LookupsInv
<1>10. CachesInv'
  BY <1>1, <1>2, RequestedKeeps DEF GameInv, CachesInv
<1>11. HistoryInv'
  BY DEF GameInv, HistoryInv
<1> QED BY <1>8, <1>9, <1>10, <1>11 DEF GameInv, LookupsInv

\* A lookup that answers leaves the caches as they are.
LEMMA StopStep ==
    ASSUME GameInv, NEW l \in Lookups, NEW result \in Results, Stop(l, result),
           UNCHANGED <<now, store, changes, was>>, lookups[l].at # "idle",
           lookups[l].kind = "product" /\ result = "not_found" =>
               lookups[l].at = "product" /\ lookups[l].main.is \in {"missing", "other"}
    PROVE  GameInv'
PROOF
<1> DEFINE q == [lookups[l] EXCEPT !.result = result, !.price = NoEntry]
<1>1. lookups' = [lookups EXCEPT ![l].result = result, ![l].price = NoEntry] /\ cache' = cache
  BY DEF Stop
<1>2. LookupInv(lookups[l], cache, was, now) /\ lookups[l] \in Lookup
  BY DEF GameInv, LookupsInv
<1>3. q \in Lookup
  BY <1>2, KindTypes DEF Lookup
<1>4. /\ q.at = lookups[l].at /\ q.kind = lookups[l].kind /\ q.from = lookups[l].from
      /\ q.main = lookups[l].main /\ q.price = NoEntry /\ q.result = result
  BY <1>2 DEF Lookup
<1>5. lookups' = [lookups EXCEPT ![l] = q]
  BY <1>1, <1>2 DEF GameInv, LookupsInv, Lookup
<1> HIDE DEF q
<1>6. LookupInv(q, cache, was, now)
  <2>1. ReadInv(q, was, now)
    BY <1>2, <1>4 DEF LookupInv, ReadInv
  <2>2. WaitInv(q, cache)
    BY <1>2, <1>4, KindTypes DEF LookupInv, WaitInv
  <2> QED BY <1>3, <2>1, <2>2 DEF LookupInv
<1>7. \A m \in Lookups : LookupInv(lookups'[m], cache, was, now)
  BY <1>5, <1>6 DEF GameInv, LookupsInv
<1>8. lookups' \in [Lookups -> Lookup]
  BY <1>3, <1>5 DEF GameInv, LookupsInv
<1> QED BY <1>1, <1>7, <1>8 DEF GameInv, LookupsInv, HistoryInv, CachesInv

LEMMA StartStep == ASSUME GameInv, NEW l \in Lookups, Start(l) PROVE GameInv'
PROOF
<1>1. PICK kind \in {"product", "other_id"} : Go(l, Feeds[1], kind, now)
  BY DEF Start
<1>2. Feeds[1] \in Phases /\ Behind(Feeds[1]) = {}
  BY FeedFacts DEF Behind, Phases
<1>3. now \in 0..now /\ UNCHANGED <<now, store, changes, was>>
  BY DEF GameInv, HistoryInv, Start
<1> QED BY <1>1, <1>2, <1>3, GoStep

\* The list of the phase was read, and it missed.
LEMMA MissedStep ==
    ASSUME GameInv, NEW l \in Lookups, lookups[l].at \in Lists, Missed(l),
           UNCHANGED <<now, store, changes, was>>,
           lookups[l].kind = "product" =>
               lookups[l].main # Running /\ lookups[l].main.is = "not_listed"
    PROVE  GameInv'
PROOF
<1> DEFINE q == lookups[l]
           i == CHOOSE n \in 1..Len(Feeds) : Feeds[n] = lookups[l].at
<1>1. i \in 1..Len(Feeds) /\ Feeds[i] = q.at
  BY FeedFacts
<1>2. LookupInv(q, cache, was, now) /\ q \in Lookup
  BY DEF GameInv, LookupsInv
<1>3. q.kind \in {"product", "other_id"} /\ q.from \in 0..now /\ q.at # "idle"
  BY <1>2, FeedFacts DEF LookupInv, Lookup, ReadInv
<1>4. q.kind = "product" => WasIn(Unlisted(Feeds[i]), q.from, SuccessTtl[Feeds[i]], was, now)
  <2> SUFFICES ASSUME q.kind = "product" PROVE WasIn(Unlisted(Feeds[i]), q.from, SuccessTtl[Feeds[i]], was, now)
    OBVIOUS
  <2>1. /\ Answered(q.at, q.main, was, now)
        /\ q.main.at > q.from - Ttl(q.at, q.main.is)
    BY <1>2, <1>3, MainCaches DEF LookupInv, ReadInv
  <2>2. q.main.at \in 0..now /\ \E s \in was[q.main.at] : q.at \notin s.listed
    BY <2>1 DEF Answered
  <2>3. q.main.at > q.from - SuccessTtl[q.at]
    BY <2>1, MainCaches, TtlFacts
  <2>4. was[q.main.at] \subseteq Stores
    BY <2>2 DEF GameInv, HistoryInv
  <2>5. was[q.main.at] \cap Unlisted(q.at) # {}
    BY <2>2, <2>4 DEF Unlisted
  <2> HIDE DEF q
  <2> QED BY <1>1, <2>2, <2>3, <2>5 DEF WasIn
<1>5. q.kind = "product" =>
        \A j \in 1..i : WasIn(Unlisted(Feeds[j]), q.from, SuccessTtl[Feeds[j]], was, now)
  <2> SUFFICES ASSUME q.kind = "product", NEW j \in 1..i
               PROVE  WasIn(Unlisted(Feeds[j]), q.from, SuccessTtl[Feeds[j]], was, now)
    OBVIOUS
  <2>1. CASE j = i
    BY <2>1, <1>4
  <2>2. CASE j # i
    <3>1. i \in Int /\ Len(Feeds) \in Int /\ j \in Int /\ 1 <= j /\ j < i /\ i <= Len(Feeds)
      BY <1>1, <2>2, FeedFacts
    <3>2. j \in 1..Len(Feeds)
      BY <3>1
    <3>3. j \in Behind(q.at)
      BY <1>1, <3>1, <3>2 DEF Behind
    <3> QED BY <1>2, <1>3, <3>3 DEF LookupInv, ReadInv
  <2> QED BY <2>1, <2>2
<1> HIDE DEF i
<1>6. CASE i < Len(Feeds) /\ Go(l, Feeds[i + 1], q.kind, q.from)
  <2>1. i + 1 \in 1..Len(Feeds) /\ i \in Int
    BY <1>1, <1>6, FeedFacts
  <2>2. \A j \in Behind(Feeds[i + 1]) : j \in 1..i
    <3>1. TAKE j \in Behind(Feeds[i + 1])
    <3>2. Feeds[i + 1] # "product" /\ j \in 1..Len(Feeds)
      BY <2>1, FeedFacts DEF Behind
    <3>3. PICK k \in 1..Len(Feeds) : Feeds[i + 1] = Feeds[k] /\ j < k
      BY <3>2 DEF Behind
    <3>4. k = i + 1
      BY <2>1, <3>3, FeedFacts
    <3> QED BY <2>1, <3>2, <3>3, <3>4, FeedFacts
  <2>3. Feeds[i + 1] \in Phases
    BY <2>1, FeedFacts DEF Phases
  <2> HIDE DEF q
  <2> QED BY <1>3, <1>5, <1>6, <2>2, <2>3, GoStep
<1>7. CASE i = Len(Feeds) /\ q.kind = "product" /\ Go(l, "product", "product", q.from)
  <2>1. \A j \in Behind("product") : j \in 1..i
    BY <1>7 DEF Behind
  <2>2. "product" \in Phases
    BY DEF Phases
  <2> HIDE DEF q
  <2> QED BY <1>3, <1>5, <1>7, <2>1, <2>2, GoStep
<1>8. CASE i = Len(Feeds) /\ q.kind # "product" /\ Stop(l, "not_found")
  <2>1. "not_found" \in Results
    BY DEF Results
  <2> QED BY <1>3, <1>8, <2>1, StopStep
<1>9. i \in Int /\ Len(Feeds) \in Int /\ (i < Len(Feeds) \/ i = Len(Feeds))
  BY <1>1, FeedFacts
<1>10. IF i < Len(Feeds) THEN Go(l, Feeds[i + 1], q.kind, q.from)
       ELSE IF q.kind = "product" THEN Go(l, "product", "product", q.from)
       ELSE Stop(l, "not_found")
  BY DEF Missed, i
<1> QED BY <1>6, <1>7, <1>8, <1>9, <1>10

LEMMA ListStep == ASSUME GameInv, NEW l \in Lookups, ListAnswered(l) PROVE GameInv'
PROOF
<1> DEFINE q == lookups[l]
<1>1. q.at \in Lists /\ q.main # Running /\ UNCHANGED <<now, store, changes, was>>
  BY DEF ListAnswered, MainRead
<1>2. LookupInv(q, cache, was, now) /\ q \in Lookup
  BY DEF GameInv, LookupsInv
<1>3. q.at # "idle" /\ q.from \in 0..now /\ Answered(q.at, q.main, was, now)
  BY <1>1, <1>2, FeedFacts, MainCaches DEF LookupInv, ReadInv
<1>4. q.main.is \in {"listed", "not_listed", "failed"}
  BY <1>1, <1>3 DEF Answered, Kinds
<1>5. CASE q.main.is = "failed" /\ Stop(l, "unavailable")
  <2>1. "unavailable" \in Results
    BY DEF Results
  <2> QED BY <1>1, <1>3, <1>5, <2>1, StopStep
<1>6. CASE q.kind = "product" /\ Go(l, "enrich", "product", q.from)
  <2>1. "enrich" \in Phases /\ Behind("enrich") = {}
    BY FeedFacts DEF Phases, Behind
  <2> HIDE DEF q
  <2> QED BY <1>1, <1>3, <1>6, <2>1, GoStep
<1>7. CASE Missed(l) /\ ~(q.main.is = "listed" /\ q.kind = "product") /\ q.main.is # "failed"
  BY <1>1, <1>4, <1>7, MissedStep
<1> QED BY <1>5, <1>6, <1>7 DEF ListAnswered

LEMMA EnrichedStep == ASSUME GameInv, NEW l \in Lookups, Enriched(l) PROVE GameInv'
PROOF
<1>1. lookups[l].at = "enrich" /\ UNCHANGED <<now, store, changes, was>>
  BY DEF Enriched
<1>2. PICK result \in {"page_without_detail", "page"} : Stop(l, result)
  BY DEF Enriched
<1>3. result \in Results /\ result # "not_found"
  BY DEF Results
<1> QED BY <1>1, <1>2, <1>3, StopStep

LEMMA ProductStep == ASSUME GameInv, NEW l \in Lookups, ProductAnswered(l) PROVE GameInv'
PROOF
<1> DEFINE q == lookups[l]
<1>1. q.at = "product" /\ q.main # Running /\ UNCHANGED <<now, store, changes, was>>
  BY DEF ProductAnswered, MainRead
<1>2. CASE q.main.is \in {"missing", "other"} /\ Stop(l, "not_found")
  <2>1. "not_found" \in Results
    BY DEF Results
  <2> QED BY <1>1, <1>2, <2>1, StopStep
<1>3. ASSUME NEW result \in {"unavailable", "page"}, Stop(l, result) PROVE GameInv'
  <2>1. result \in Results /\ result # "not_found"
    BY DEF Results
  <2> QED BY <1>1, <1>3, <2>1, StopStep
<1> QED BY <1>2, <1>3 DEF ProductAnswered

-----------------------------------------------------------------------------
(* Sony and the clock *)

\* Sony answers with what its store is now.
LEMMA AnswerIsTrue ==
    ASSUME HistoryInv, NEW c \in Caches, NEW answer \in Answers(c)
    PROVE  /\ Answered(c, [is |-> answer, at |-> now], was, now)
           /\ now < now + Ttl(c, answer)
           /\ [is |-> answer, at |-> now] \in Entry
PROOF
<1> DEFINE e == [is |-> answer, at |-> now]
<1>1. now \in 0..now /\ store \in was[now] /\ store \in Stores /\ now \in Nat
  BY DEF HistoryInv
<1>2. store.product \in Products
  BY <1>1 DEF Stores
<1>3. c \in Lists \/ c \in Details \/ c = "price"
  BY DEF Caches
<1>4. ASSUME c \in Lists PROVE Answered(c, e, was, now)
  <2>1. c \notin Details /\ c # "strict"
    BY <1>4, FeedFacts DEF Details
  <2>2. answer \in {"listed", "not_listed", "failed"} /\ (answer = "not_listed" => c \notin store.listed)
    <3>1. answer = (IF c \in store.listed THEN "listed" ELSE "not_listed") \/ answer = "failed"
      BY <1>4, <2>1 DEF Answers
    <3> QED BY <3>1
  <2> QED BY <1>1, <1>4, <2>1, <2>2 DEF Answered, Kinds
<1>5. ASSUME c \in Details PROVE Answered(c, e, was, now)
  <2>1. c \notin Lists
    BY <1>5, FeedFacts DEF Details
  <2>2. answer \in Products \cup {"failed"} /\ (answer = "other" => store.product = "other")
    BY <1>2, <1>5, <2>1 DEF Answers, Products
  <2> QED BY <1>1, <1>5, <2>1, <2>2 DEF Answered, Kinds
<1>6. ASSUME c = "price" PROVE Answered(c, e, was, now)
  <2>1. c \notin Lists /\ c \notin Details
    BY <1>6, FeedFacts DEF Details
  <2>2. answer = "price"
    BY <2>1 DEF Answers
  <2> QED BY <1>1, <1>6, <2>1, <2>2 DEF Answered, Kinds
<1>7. Answered(c, e, was, now)
  BY <1>3, <1>4, <1>5, <1>6
<1>8. now < now + Ttl(c, answer)
  <2>1. Ttl(c, answer) \in Nat \ {0}
    BY TtlFacts
  <2> QED BY <1>1, <2>1
<1>9. e \in Entry
  BY <1>1, <1>7, KindTypes DEF Answered, Entry
<1> QED BY <1>7, <1>8, <1>9

\* A lookup that receives the answer of c.
ToldTo(q, c, answer) ==
    [q EXCEPT
        !.main = IF MainCache(q.at) = c /\ q.main = Running THEN [is |-> answer, at |-> now] ELSE q.main,
        !.price = IF c = "price" /\ q.price = Running THEN [is |-> answer, at |-> now] ELSE q.price]

LEMMA ToldStep ==
    ASSUME GameInv, NEW c \in Caches, NEW answer \in Answers(c), NEW q, LookupInv(q, cache, was, now),
           NEW entries, \A d \in Caches : d # c => entries[d] = cache[d]
    PROVE  LookupInv(ToldTo(q, c, answer), entries, was, now)
PROOF
<1> DEFINE e == [is |-> answer, at |-> now]
           main == IF MainCache(q.at) = c /\ q.main = Running THEN e ELSE q.main
           price == IF c = "price" /\ q.price = Running THEN e ELSE q.price
           told == ToldTo(q, c, answer)
<1>1. Answered(c, e, was, now) /\ now < now + Ttl(c, answer) /\ e \in Entry /\ e # Running
  BY AnswerIsTrue, KindTypes DEF GameInv
<1>2. q \in Lookup
  BY DEF LookupInv
<1>3. main \in Entry /\ price \in Entry
  BY <1>1, <1>2 DEF Lookup
<1>4. /\ told \in Lookup
      /\ told.at = q.at /\ told.kind = q.kind /\ told.from = q.from /\ told.result = q.result
      /\ told.main = main /\ told.price = price
  <2>1. told = [q EXCEPT !.main = main, !.price = price]
    BY DEF ToldTo
  <2> HIDE DEF main, price, told
  <2> QED BY <1>2, <1>3, <2>1 DEF Lookup
<1>5. q.at \in Phases \cup {"idle"} /\ MainCache(q.at) \in Caches /\ "price" \in Caches
  BY <1>2, MainCaches DEF Lookup, Phases
<1>6. ReadInv(told, was, now)
  <2> SUFFICES ASSUME q.at # "idle" PROVE ReadInv(told, was, now)
    BY <1>4 DEF ReadInv
  <2>1. /\ q.from \in 0..now
        /\ q.main = Running \/ /\ Answered(MainCache(q.at), q.main, was, now)
                               /\ q.main.at > q.from - Ttl(MainCache(q.at), q.main.is)
        /\ q.kind = "product" =>
              \A i \in Behind(q.at) : WasIn(Unlisted(Feeds[i]), q.from, SuccessTtl[Feeds[i]], was, now)
        /\ q.kind = "product" /\ q.result = "not_found" =>
              q.at = "product" /\ q.main.is \in {"missing", "other"}
    BY DEF LookupInv, ReadInv
  <2>2. CASE MainCache(q.at) = c /\ q.main = Running
    <3>1. told.main = e
      BY <1>4, <2>2
    <3>2. e.at > q.from - Ttl(c, answer)
      <4>1. now \in Int /\ Ttl(c, answer) \in Nat \ {0} /\ q.from \in Int /\ q.from <= now
        BY <2>1, TtlFacts DEF GameInv, HistoryInv
      <4> QED BY <4>1
    <3>3. ~(q.kind = "product" /\ q.result = "not_found")
      BY <2>1, <2>2 DEF Running
    <3> HIDE DEF e, told, main, price
    <3>4. e.is = answer
      BY DEF e
    <3> QED BY <1>1, <1>4, <2>1, <2>2, <3>1, <3>2, <3>3, <3>4 DEF ReadInv
  <2>3. CASE ~(MainCache(q.at) = c /\ q.main = Running)
    <3>1. told.main = q.main
      BY <1>4, <2>3
    <3> HIDE DEF told, main, price
    <3> QED BY <1>4, <2>1, <3>1 DEF ReadInv
  <2> QED BY <2>2, <2>3
<1>7. WaitInv(told, entries)
  <2>1. told.main = Running => q.main = Running /\ MainCache(q.at) # c
    BY <1>1, <1>4
  <2>2. told.price = Running => q.price = Running /\ c # "price"
    BY <1>1, <1>4
  <2>3. q.at = "idle" => told = Idle
    <3> SUFFICES ASSUME q = Idle PROVE told = Idle
      BY DEF LookupInv, WaitInv
    <3>1. main = NoEntry /\ price = NoEntry
      BY KindTypes DEF Idle
    <3>2. told = [Idle EXCEPT !.main = NoEntry, !.price = NoEntry]
      BY <3>1 DEF ToldTo
    <3> QED BY <3>2 DEF Idle
  <2> HIDE DEF told, main, price
  <2> QED BY <1>4, <1>5, <2>1, <2>2, <2>3 DEF LookupInv, WaitInv
<1> QED BY <1>4, <1>6, <1>7 DEF LookupInv

LEMMA RequestStep == ASSUME GameInv, NEW c \in Caches, RequestEnds(c) PROVE GameInv'
PROOF
<1>1. PICK answer \in Answers(c), panicked \in BOOLEAN :
        /\ cache' = [cache EXCEPT ![c] = IF panicked THEN NoEntry ELSE [is |-> answer, at |-> now]]
        /\ lookups' = Told(c, answer)
  BY DEF RequestEnds
<1>2. UNCHANGED <<now, store, changes, was>>
  BY DEF RequestEnds
<1>3. Answered(c, [is |-> answer, at |-> now], was, now) /\ now < now + Ttl(c, answer)
      /\ [is |-> answer, at |-> now] \in Entry
  BY AnswerIsTrue DEF GameInv
<1>4. CachesInv'
  <2> DEFINE new == IF panicked THEN NoEntry ELSE [is |-> answer, at |-> now]
  <2>1. new \in Entry /\ EntryInv(c, new, was, now)
    BY <1>3, KindTypes DEF EntryInv
  <2>2. cache' = [cache EXCEPT ![c] = new]
    BY <1>1
  <2> HIDE DEF new
  <2> QED BY <1>2, <2>1, <2>2 DEF GameInv, CachesInv
<1>5. \A d \in Caches : d # c => cache'[d] = cache[d]
  BY <1>1 DEF GameInv, CachesInv
<1>6. ASSUME NEW m \in Lookups PROVE LookupInv(lookups'[m], cache', was', now')
  <2>1. LookupInv(lookups[m], cache, was, now)
    BY DEF GameInv, LookupsInv
  <2>2. lookups'[m] = ToldTo(lookups[m], c, answer)
    BY <1>1 DEF Told, ToldTo
  <2> QED BY <1>2, <1>5, <2>1, <2>2, ToldStep
<1>7. lookups' \in [Lookups -> Lookup]
  <2>1. lookups' = [m \in Lookups |-> lookups'[m]]
    BY <1>1 DEF Told
  <2> QED BY <1>6, <2>1 DEF LookupInv
<1>8. HistoryInv'
  BY <1>2 DEF GameInv, HistoryInv
<1> QED BY <1>4, <1>6, <1>7, <1>8 DEF GameInv, LookupsInv

\* Sony's store and the clock take away nothing that was said of the past.
LEMMA PastStep ==
    ASSUME GameInv, Grows(was, now, was', now'), HistoryInv', UNCHANGED lookups,
           cache' \in [Caches -> Entry],
           \A c \in Caches : EntryInv(c, cache'[c], was', now'),
           \A c \in Caches : cache[c] = Running => cache'[c] = Running
    PROVE  GameInv'
PROOF
<1>1. ASSUME NEW m \in Lookups PROVE LookupInv(lookups[m], cache', was', now')
  <2>1. LookupInv(lookups[m], cache, was, now)
    BY DEF GameInv, LookupsInv
  <2>2. ReadInv(lookups[m], was', now')
    BY <2>1, ReadGrows DEF LookupInv
  <2>3. MainCache(lookups[m].at) \in Caches /\ "price" \in Caches
    BY <2>1, MainCaches DEF LookupInv, Lookup, Phases
  <2> QED BY <2>1, <2>2, <2>3 DEF LookupInv, WaitInv
<1> QED BY <1>1 DEF GameInv, LookupsInv, CachesInv

LEMMA EntryGrows ==
    ASSUME NEW w, NEW n, NEW w2, Grows(w, n, w2, n), NEW c, NEW e, EntryInv(c, e, w, n)
    PROVE  EntryInv(c, e, w2, n)
PROOF BY AnsweredGrows DEF EntryInv

LEMMA StoreStep == ASSUME GameInv, StoreChanges PROVE GameInv'
PROOF
<1>1. /\ now' = now /\ cache' = cache /\ lookups' = lookups /\ changes' = changes + 1 /\ changes < MaxChanges
      /\ store' \in Stores /\ was' = [was EXCEPT ![now] = was[now] \cup {store'}]
  BY DEF StoreChanges
<1>2. now \in Nat /\ now \in 0..now /\ DOMAIN was = 0..now /\ \A t \in 0..now : was[t] \subseteq Stores
  BY DEF GameInv, HistoryInv
<1>3. \A t \in 0..now : was'[t] = IF t = now THEN was[now] \cup {store'} ELSE was[t]
  BY <1>1, <1>2
<1>4. Grows(was, now, was', now')
  BY <1>1, <1>2, <1>3 DEF Grows
<1>5. HistoryInv'
  <2>1. changes' \in 0..MaxChanges
    BY <1>1, TtlAssumption DEF GameInv, HistoryInv
  <2>2. \A t \in 0..now : was'[t] \subseteq Stores
    BY <1>1, <1>2, <1>3
  <2> QED BY <1>1, <1>2, <1>3, <2>1, <2>2 DEF HistoryInv
<1>6. \A c \in Caches : EntryInv(c, cache'[c], was', now')
  BY <1>1, <1>4, EntryGrows DEF GameInv, CachesInv
<1> QED BY <1>1, <1>4, <1>5, <1>6, PastStep DEF GameInv, CachesInv

LEMMA TickStep == ASSUME GameInv, Tick PROVE GameInv'
PROOF
<1>1. /\ now' = now + 1 /\ store' = store /\ changes' = changes /\ lookups' = lookups
      /\ cache' = [c \in Caches |-> IF Expires(c, now') THEN NoEntry ELSE cache[c]]
      /\ was' = [t \in 0..now' |-> IF t = now' THEN {store} ELSE was[t]]
  BY DEF Tick
<1>2. now \in Nat /\ now' \in Nat /\ now' \in 0..now' /\ store \in Stores
      /\ DOMAIN was = 0..now /\ \A t \in 0..now : was[t] \subseteq Stores
  BY <1>1 DEF GameInv, HistoryInv
<1>3. \A t \in 0..now' : was'[t] = IF t = now' THEN {store} ELSE was[t]
  BY <1>1
<1>4. \A t \in 0..now : t \in 0..now' /\ t # now'
  BY <1>1, <1>2
<1>5. Grows(was, now, was', now')
  BY <1>1, <1>2, <1>3, <1>4 DEF Grows
<1>6. HistoryInv'
  <2>1. \A t \in 0..now' : was'[t] \subseteq Stores
    <3>1. TAKE t \in 0..now'
    <3>2. t = now' \/ t \in 0..now
      BY <1>1, <1>2
    <3> QED BY <1>2, <1>3, <1>4, <3>2
  <2>2. DOMAIN was' = 0..now' /\ store' \in was'[now']
    BY <1>1, <1>2, <1>3
  <2> QED BY <1>1, <1>2, <2>1, <2>2 DEF GameInv, HistoryInv
<1>7. ASSUME NEW c \in Caches PROVE EntryInv(c, cache'[c], was', now')
  <2>1. EntryInv(c, cache[c], was, now) /\ cache[c] \in Entry
    BY DEF GameInv, CachesInv
  <2>2. CASE cache'[c] \in {NoEntry, Running}
    BY <2>2 DEF EntryInv
  <2>3. CASE cache'[c] \notin {NoEntry, Running}
    <3>1. cache'[c] = cache[c] /\ ~Expires(c, now')
      BY <1>1, <2>3
    <3>2. Answered(c, cache[c], was, now)
      BY <2>1, <2>3, <3>1 DEF EntryInv
    <3>3. ~(now' >= cache[c].at + Ttl(c, cache[c].is))
      BY <3>1, <3>2, KindTypes DEF Expires
    <3>4. now' < cache[c].at + Ttl(c, cache[c].is)
      <4>1. cache[c].at \in Nat /\ Ttl(c, cache[c].is) \in Nat
        BY <2>1, TtlFacts DEF Entry
      <4> QED BY <1>2, <3>3, <4>1
    <3> QED BY <1>5, <3>1, <3>2, <3>4, AnsweredGrows DEF EntryInv
  <2> QED BY <2>2, <2>3
<1>8. \A c \in Caches : cache[c] = Running => cache'[c] = Running
  BY <1>1 DEF Expires, Running
<1>9. cache' \in [Caches -> Entry]
  BY <1>1, KindTypes DEF GameInv, CachesInv
<1> QED BY <1>1, <1>5, <1>6, <1>7, <1>8, <1>9, PastStep

-----------------------------------------------------------------------------
(* The theorems *)

\* The inductive invariant of the game page, GameInv, from which the theorems
\* below follow.
THEOREM Invariant == Spec => []GameInv
PROOF
<1>1. ASSUME Init PROVE GameInv
  <2>1. HistoryInv
    <3>1. now = 0 /\ changes = 0 /\ store \in Stores /\ was = [t \in {0} |-> {store}]
      BY <1>1 DEF Init
    <3>2. 0..0 = {0}
      OBVIOUS
    <3> QED BY <3>1, <3>2, TtlAssumption DEF HistoryInv
  <2>2. CachesInv
    BY <1>1, KindTypes DEF Init, CachesInv, EntryInv
  <2>3. Idle \in Lookup /\ Idle.main # Running /\ Idle.price # Running /\ Idle.at = "idle"
    BY KindTypes DEF Idle, Lookup
  <2>4. LookupsInv
    <3>1. \A w, n, entries : LookupInv(Idle, entries, w, n)
      BY <2>3 DEF LookupInv, ReadInv, WaitInv
    <3> QED BY <1>1, <2>3, <3>1 DEF Init, LookupsInv
  <2> QED BY <2>1, <2>2, <2>4 DEF GameInv
<1>2. ASSUME GameInv, [Next]_vars PROVE GameInv'
  <2>1. CASE UNCHANGED vars
    BY <1>2, <2>1 DEF vars, GameInv, HistoryInv, CachesInv, LookupsInv
  <2>2. CASE Next
    BY <1>2, <2>2, StartStep, ListStep, EnrichedStep, ProductStep, RequestStep, StoreStep, TickStep DEF Next
  <2> QED BY <1>2, <2>1, <2>2
<1> QED BY <1>1, <1>2, PTL DEF Spec

\* A lookup waits only for requests that run, whatever ends or panics.
THEOREM TypeCorrect == Spec => []TypeOK
PROOF
<1>1. GameInv => TypeOK
  BY DEF GameInv, HistoryInv, CachesInv, LookupsInv, LookupInv, WaitInv, TypeOK
<1> QED BY <1>1, Invariant, PTL

\* A game that a list has shown all along is never a 404.
THEOREM ListedCorrect == Spec => []ListedGameIsFound
PROOF
<1>1. ASSUME GameInv, NEW l \in Lookups, NotFound(l), NEW f \in Lists
      PROVE  Was({s \in Stores : f \notin s.listed}, lookups[l].from, SuccessTtl[f])
  <2>1. LookupInv(lookups[l], cache, was, now)
    BY <1>1 DEF GameInv, LookupsInv
  <2>2. lookups[l].at # "idle"
    BY <1>1, <2>1 DEF LookupInv, WaitInv, Idle, NotFound
  <2>3. lookups[l].at = "product" /\ lookups[l].kind = "product"
    BY <1>1, <2>1, <2>2 DEF LookupInv, ReadInv, NotFound
  <2>4. PICK i \in 1..Len(Feeds) : f = Feeds[i]
    BY FeedFacts
  <2>5. WasIn(Unlisted(f), lookups[l].from, SuccessTtl[f], was, now)
    BY <2>1, <2>2, <2>3, <2>4 DEF LookupInv, ReadInv, Behind
  <2> QED BY <2>5 DEF WasIn, Was, Unlisted
<1>2. GameInv => ListedGameIsFound
  BY <1>1 DEF ListedGameIsFound
<1> QED BY <1>2, Invariant, PTL

\* An outage is never a 404, and a product that Sony did not know is not one for
\* longer than a miss is kept.
THEOREM NotFoundCorrect == Spec => []NotFoundIsAnswered
PROOF
<1>1. ASSUME GameInv, NEW l \in Lookups, NotFound(l)
      PROVE  \/ Was({s \in Stores : s.product = "other"}, lookups[l].from, SuccessTtl["strict"])
             \/ lookups[l].main.is = "missing" /\ lookups[l].main.at > lookups[l].from - MissTtl
  <2> DEFINE q == lookups[l]
  <2>1. LookupInv(q, cache, was, now) /\ HistoryInv
    BY <1>1 DEF GameInv, LookupsInv
  <2>2. q.at # "idle"
    BY <1>1, <2>1 DEF LookupInv, WaitInv, Idle, NotFound
  <2>3. q.at = "product" /\ q.main.is \in {"missing", "other"}
    BY <1>1, <2>1, <2>2 DEF LookupInv, ReadInv, NotFound
  <2>4. Answered("strict", q.main, was, now) /\ q.main.at > q.from - Ttl("strict", q.main.is)
    BY <2>1, <2>2, <2>3, MainCaches DEF LookupInv, ReadInv, Running
  <2> HIDE DEF q
  <2>5. CASE q.main.is = "missing"
    BY <2>4, <2>5, MainCaches, TtlFacts DEF q
  <2>6. CASE q.main.is = "other"
    <3>1. q.main.at > q.from - SuccessTtl["strict"]
      BY <2>4, <2>6, MainCaches, TtlFacts
    <3>2. q.main.at \in 0..now /\ \E s \in was[q.main.at] : s.product = "other"
      BY <2>4, <2>6 DEF Answered
    <3>3. was[q.main.at] \subseteq Stores
      BY <2>1, <3>2 DEF HistoryInv
    <3>4. was[q.main.at] \cap {s \in Stores : s.product = "other"} # {}
      BY <3>2, <3>3
    <3> QED BY <3>1, <3>2, <3>4 DEF Was, q
  <2> QED BY <2>3, <2>5, <2>6
<1>2. GameInv => NotFoundIsAnswered
  BY <1>1 DEF NotFoundIsAnswered
<1> QED BY <1>2, Invariant, PTL

(***************************************************************************)
(* BROWSE, search and the wishlist.  A position is an element of Sony's     *)
(* list; what becomes of it is followed from the raw page through the items *)
(* and their lookups to the cards of the browser by two relations: a        *)
(* sequence enumerates a set of numbers, and a list of cards shows a set of *)
(* positions.                                                               *)
(***************************************************************************)

-----------------------------------------------------------------------------
(* The numbers of a set in order *)

\* A set of numbers has a least one.
LEMMA LeastNatural ==
    ASSUME NEW T \in SUBSET Nat, T # {}
    PROVE  \E n \in T : \A m \in T : n <= m
<1>1. PICK n \in T : \A m \in T : <<m, n>> \notin OpToRel(<, Nat)
    BY NatLessThanWellFounded, WFMin
<1>2. \A m \in T : ~(m < n)
    BY <1>1 DEF OpToRel
<1> QED  BY <1>2

\* How many numbers of a set are not above one of them.
Below(numbers, n) == {m \in numbers : m <= n}
Rank(numbers, n) == Cardinality(Below(numbers, n))

\* The rank of a number in a set is one of its places.
LEMMA RankType ==
    ASSUME NEW numbers \in SUBSET Nat, IsFiniteSet(numbers), NEW n \in numbers
    PROVE  Rank(numbers, n) \in 1..Cardinality(numbers)
<1>1. IsFiniteSet(Below(numbers, n)) /\ Cardinality(Below(numbers, n)) <= Cardinality(numbers)
    BY FS_Subset DEF Below
<1>2. n \in Below(numbers, n)
    BY DEF Below
<1>3. Cardinality(Below(numbers, n)) \in Nat /\ Cardinality(numbers) \in Nat
    BY <1>1, FS_CardinalityType
<1>4. Cardinality(Below(numbers, n)) # 0
    BY <1>1, <1>2, FS_EmptySet
<1> QED  BY <1>1, <1>3, <1>4 DEF Rank

LEMMA RankGrows ==
    ASSUME NEW numbers \in SUBSET Nat, IsFiniteSet(numbers), NEW m \in numbers, NEW n \in numbers, m < n
    PROVE  Rank(numbers, m) < Rank(numbers, n)
<1>1. IsFiniteSet(Below(numbers, n))
    BY FS_Subset DEF Below
<1>2. m \in Nat /\ n \in Nat
    OBVIOUS
<1>5. \A p \in Nat : p <= m => p <= n
    BY <1>2
<1>6. n \notin Below(numbers, m) /\ n \in Below(numbers, n)
    BY <1>2 DEF Below
<1>7. Below(numbers, m) \in SUBSET Below(numbers, n)
    BY <1>5 DEF Below
<1>3. Rank(numbers, m) <= Rank(numbers, n) /\ Rank(numbers, m) # Rank(numbers, n)
    BY <1>1, <1>6, <1>7, FS_Subset DEF Rank
<1>4. Rank(numbers, m) \in Nat /\ Rank(numbers, n) \in Nat
    BY RankType, FS_CardinalityType
<1> QED  BY <1>3, <1>4

\* Every rank is taken.
LEMMA RankIsOnto ==
    ASSUME NEW numbers \in SUBSET Nat, IsFiniteSet(numbers), NEW k \in 1..Cardinality(numbers)
    PROVE  \E n \in numbers : Rank(numbers, n) = k
<1> DEFINE Free == {i \in 1..Cardinality(numbers) : \A n \in numbers : Rank(numbers, n) # i}
<1>1. Cardinality(numbers) \in Nat
    BY FS_CardinalityType
<1> SUFFICES ASSUME Free # {} PROVE FALSE
    OBVIOUS
<1>2. Free \in SUBSET Nat
    BY <1>1
<1>3. PICK i \in Free : \A j \in Free : i <= j
    BY <1>2, LeastNatural
<1>4. i \in 1..Cardinality(numbers) /\ \A n \in numbers : Rank(numbers, n) # i
    OBVIOUS
<1>5. ASSUME NEW above \in SUBSET numbers, above # {}, \A n \in numbers \ above : Rank(numbers, n) <= i - 1,
             NEW below \in SUBSET numbers, IsFiniteSet(below), Cardinality(below) = i - 1,
             numbers \ above = below, \A n \in above, m \in below : m < n
      PROVE  FALSE
    <2>1. PICK n \in above : \A m \in above : n <= m
        BY <1>5, LeastNatural
    <2>2. Below(numbers, n) = below \cup {n}
        <3>1. n \in numbers /\ n \in Nat
            BY <1>5
        <3>2. \A m \in numbers : m \in Nat /\ (m \in above \/ m \in below)
            BY <1>5
        <3>3. \A m \in below : m \in numbers /\ m < n
            BY <1>5
        <3>4. \A m \in above : m <= n => m = n
            BY <1>5, <2>1, <3>1
        <3>5. n \in Below(numbers, n)
            BY <3>1 DEF Below
        <3>6. ASSUME NEW m \in below  PROVE m \in Below(numbers, n)
            <4>1. m \in Nat /\ m \in numbers /\ m < n
                BY <3>2, <3>3
            <4> QED  BY <3>1, <4>1 DEF Below
        <3>7. ASSUME NEW m \in Below(numbers, n)  PROVE m \in below \cup {n}
            <4>1. m \in numbers /\ m <= n
                BY DEF Below
            <4> QED  BY <3>2, <3>4, <4>1
        <3> QED  BY <3>5, <3>6, <3>7
    <2>3. n \notin below
        BY <1>5
    <2>4. Cardinality(below \cup {n}) = (i - 1) + 1
        BY <1>5, <2>3, FS_AddElement
    <2>5. Rank(numbers, n) = i
        BY <1>4, <2>2, <2>4 DEF Rank
    <2> QED  BY <1>4, <2>5
<1>6. CASE i = 1
    <2>1. numbers # {}
        BY <1>1, <1>4, FS_EmptySet
    <2>2. IsFiniteSet({}) /\ Cardinality({}) = i - 1
        BY <1>6, FS_EmptySet
    <2> DEFINE above == numbers
               below == {}
    <2>3. /\ above \in SUBSET numbers /\ above # {} /\ below \in SUBSET numbers /\ numbers \ above = below
          /\ \A n \in numbers \ above : Rank(numbers, n) <= i - 1
          /\ \A n \in above, m \in below : m < n
        BY <2>1
    <2> HIDE DEF above, below
    <2> QED  BY <1>5, <2>2, <2>3 DEF below
<1>7. CASE i # 1
    <2>1. i - 1 \in 1..Cardinality(numbers) /\ i - 1 \notin Free
        BY <1>1, <1>3, <1>4, <1>7
    <2>2. PICK p \in numbers : Rank(numbers, p) = i - 1
        BY <2>1
    <2> DEFINE below == Below(numbers, p)
               above == numbers \ below
    <2>3. IsFiniteSet(below) /\ below \in SUBSET numbers /\ Cardinality(below) = i - 1
        BY <2>2, FS_Subset DEF Below, Rank
    <2>4. above # {}
        <3> SUFFICES ASSUME above = {} PROVE FALSE
            OBVIOUS
        <3>1. below = numbers
            BY <2>3
        <3> QED  BY <1>1, <1>4, <2>3, <3>1
    <2>5. \A n \in above, m \in below : m < n
        BY DEF Below
    <2>6. \A n \in numbers \ above : Rank(numbers, n) <= i - 1
        <3> TAKE n \in numbers \ above
        <3>1. n \in numbers /\ n <= p /\ n \in Nat /\ p \in Nat
            BY DEF Below
        <3>2. n = p \/ n < p
            BY <3>1
        <3>3. n < p => Rank(numbers, n) < i - 1
            BY <2>2, <3>1, RankGrows
        <3>4. Rank(numbers, n) \in Nat /\ i - 1 \in Nat
            BY <2>1, <3>1, RankType, <1>1
        <3> QED  BY <2>2, <3>2, <3>3, <3>4
    <2>7. numbers \ above = below /\ above \in SUBSET numbers
        BY <2>3
    <2> HIDE DEF above, below
    <2> QED  BY <1>5, <2>3, <2>4, <2>5, <2>6, <2>7
<1> QED  BY <1>6, <1>7

\* An enumeration of a set of numbers in increasing order.
Enumerates(order, numbers) ==
    /\ \E n \in Nat : DOMAIN order = 1..n
    /\ \A k \in DOMAIN order : order[k] \in numbers
    /\ \A n \in numbers : \E k \in DOMAIN order : order[k] = n
    /\ \A j, k \in DOMAIN order : j < k => order[j] < order[k]

\* InOrder lists the numbers of a finite set, each once, in increasing order.
LEMMA InOrderEnumerates ==
    ASSUME NEW numbers \in SUBSET Nat, IsFiniteSet(numbers)
    PROVE  Enumerates(InOrder[numbers], numbers) /\ DOMAIN InOrder[numbers] = 1..Cardinality(numbers)
<1> DEFINE order == InOrder[numbers]
           N == Cardinality(numbers)
<1>1. N \in Nat
    BY FS_CardinalityType
<1>2. order = [k \in 1..N |-> CHOOSE n \in numbers : Rank(numbers, n) = k]
    BY DEF InOrder, Rank, Below
<1> HIDE DEF order
<1>3. ASSUME NEW k \in 1..N
      PROVE  order[k] \in numbers /\ Rank(numbers, order[k]) = k
    <2>1. \E n \in numbers : Rank(numbers, n) = k
        BY RankIsOnto
    <2> QED  BY <1>2, <2>1
<1>4. ASSUME NEW m \in numbers, NEW n \in numbers, ~(m < n)  PROVE Rank(numbers, m) >= Rank(numbers, n)
    <2>1. m = n \/ n < m
        BY <1>4
    <2>2. Rank(numbers, m) \in Nat /\ Rank(numbers, n) \in Nat
        BY <1>1, RankType
    <2> QED  BY <2>1, <2>2, RankGrows
<1>5. ASSUME NEW n \in numbers  PROVE \E k \in DOMAIN order : order[k] = n
    <2> DEFINE k == Rank(numbers, n)
    <2>1. k \in 1..N
        BY RankType
    <2>2. order[k] \in numbers /\ Rank(numbers, order[k]) = Rank(numbers, n)
        BY <1>3, <2>1
    <2> DEFINE p == order[k]
    <2>3. p \in Nat /\ n \in Nat /\ p \in numbers /\ Rank(numbers, p) = Rank(numbers, n)
        BY <2>2
    <2> HIDE DEF p
    <2>4. Rank(numbers, n) \in Nat
        BY <1>1, RankType
    <2>5. ~(p < n) /\ ~(n < p)
        BY <2>3, <2>4, RankGrows
    <2>6. p = n
        BY <2>3, <2>5
    <2> QED  BY <1>2, <2>1, <2>6 DEF p
<1>6. ASSUME NEW j \in 1..N, NEW k \in 1..N, j < k  PROVE order[j] < order[k]
    <2> DEFINE m == order[j]
               n == order[k]
    <2>1. m \in numbers /\ n \in numbers /\ Rank(numbers, m) = j /\ Rank(numbers, n) = k
        BY <1>3
    <2> HIDE DEF m, n
    <2>2. ~(m < n) => j >= k
        BY <1>4, <2>1
    <2> QED  BY <1>6, <2>2 DEF m, n
<1> QED  BY <1>1, <1>2, <1>3, <1>5, <1>6 DEF Enumerates, order

\* There is one such enumeration.
LEMMA EnumerationIsUnique ==
    ASSUME NEW numbers \in SUBSET Nat, NEW f, NEW g, Enumerates(f, numbers), Enumerates(g, numbers)
    PROVE  DOMAIN f = DOMAIN g /\ \A k \in DOMAIN f : f[k] = g[k]
<1>1. PICK m \in Nat : DOMAIN f = 1..m
    BY DEF Enumerates
<1>2. PICK n \in Nat : DOMAIN g = 1..n
    BY DEF Enumerates
<1>3. ASSUME NEW a, NEW b, Enumerates(a, numbers), Enumerates(b, numbers), NEW p \in Nat, NEW q \in Nat,
             DOMAIN a = 1..p, DOMAIN b = 1..q
      PROVE  ~ \E k \in 1..p : ~(k \in 1..q /\ a[k] >= b[k])
    <2> DEFINE Bad == {k \in 1..p : ~(k \in 1..q /\ a[k] >= b[k])}
    <2> SUFFICES ASSUME Bad # {} PROVE FALSE
        OBVIOUS
    <2>1. PICK k \in Bad : \A j \in Bad : k <= j
        <3>1. Bad \in SUBSET Nat
            OBVIOUS
        <3> QED  BY <3>1, LeastNatural
    <2>2. k \in 1..p /\ ~(k \in 1..q /\ a[k] >= b[k])
        OBVIOUS
    <2>3. a[k] \in numbers
        BY <1>3, <2>2 DEF Enumerates
    <2>4. PICK j \in 1..q : b[j] = a[k]
        BY <1>3, <2>3 DEF Enumerates
    <2>5. ~(j < k)
        <3> SUFFICES ASSUME j < k PROVE FALSE
            OBVIOUS
        <3>1. j \in 1..p /\ j \notin Bad
            BY <2>1, <2>2
        <3>2. a[j] >= b[j]
            BY <3>1
        <3>3. a[j] < a[k]
            BY <1>3, <2>2, <3>1 DEF Enumerates
        <3>4. a[j] \in Nat /\ a[k] \in Nat
            BY <1>3, <2>3, <3>1 DEF Enumerates
        <3> QED  BY <2>4, <3>2, <3>3, <3>4
    <2>6. k \in 1..q
        BY <2>2, <2>4, <2>5
    <2>7. b[k] <= b[j]
        <3>1. k = j \/ k < j
            BY <2>5, <2>6
        <3>2. b[k] \in Nat /\ b[j] \in Nat
            BY <1>3, <2>6 DEF Enumerates
        <3>3. k \in DOMAIN b /\ j \in DOMAIN b
            BY <1>3, <2>6
        <3>4. k < j => b[k] < b[j]
            BY <1>3, <3>3 DEF Enumerates
        <3> QED  BY <3>1, <3>2, <3>4
    <2>8. a[k] \in Nat /\ b[k] \in Nat
        BY <1>3, <2>3, <2>6 DEF Enumerates
    <2> QED  BY <2>2, <2>4, <2>6, <2>7, <2>8
<1>4. \A k \in 1..m : k \in 1..n /\ f[k] >= g[k]
    BY <1>1, <1>2, <1>3
<1>5. \A k \in 1..n : k \in 1..m /\ g[k] >= f[k]
    BY <1>1, <1>2, <1>3
<1>6. 1..m = 1..n
    BY <1>4, <1>5
<1>7. \A k \in 1..m : f[k] \in Nat /\ g[k] \in Nat
    BY <1>1, <1>2, <1>6 DEF Enumerates
<1>8. \A k \in 1..m : f[k] = g[k]
    BY <1>4, <1>5, <1>6, <1>7
<1> QED  BY <1>1, <1>2, <1>6, <1>8

-----------------------------------------------------------------------------
(* Sequences of cards *)

IsSequence(s) == \E n \in Nat : s = [k \in 1..n |-> s[k]]

LEMMA Concatenation ==
    ASSUME NEW a, NEW b, NEW m \in Nat, NEW n \in Nat, a = [k \in 1..m |-> a[k]], b = [k \in 1..n |-> b[k]]
    PROVE  a \o b = [k \in 1..(m + n) |-> IF k <= m THEN a[k] ELSE b[k - m]]
<1> DEFINE S == {a[k] : k \in 1..m} \cup {b[k] : k \in 1..n}
<1>1. \A k \in 1..m : a[k] \in S
    OBVIOUS
<1>2. \A k \in 1..n : b[k] \in S
    OBVIOUS
<1> HIDE DEF S
<1>3. a \in [1..m -> S] /\ b \in [1..n -> S]
    BY <1>1, <1>2
<1>4. a \in Seq(S) /\ b \in Seq(S) /\ Len(a) = m /\ Len(b) = n
    BY <1>3
<1>5. a \o b \in Seq(S) /\ Len(a \o b) = m + n
    BY <1>4
<1>6. \A k \in 1..(m + n) : (a \o b)[k] = IF k <= m THEN a[k] ELSE b[k - m]
    BY <1>4
<1> QED  BY <1>5, <1>6

\* Picked keeps the elements of the chosen places, in their order.
LEMMA PickedFacts ==
    ASSUME NEW seq, NEW places \in SUBSET Nat, IsFiniteSet(places)
    PROVE  /\ IsSequence(Picked(seq, places))
           /\ DOMAIN Picked(seq, places) = DOMAIN InOrder[places]
           /\ \A k \in DOMAIN InOrder[places] : Picked(seq, places)[k] = seq[InOrder[places][k]]
<1> DEFINE order == InOrder[places]
<1>1. DOMAIN order = 1..Cardinality(places) /\ Cardinality(places) \in Nat
    BY InOrderEnumerates, FS_CardinalityType
<1>2. Picked(seq, places) = [k \in DOMAIN order |-> seq[order[k]]]
    BY DEF Picked
<1> HIDE DEF order
<1>3. Picked(seq, places) = [k \in 1..Cardinality(places) |-> Picked(seq, places)[k]]
    BY <1>1, <1>2
<1> QED  BY <1>1, <1>2, <1>3 DEF IsSequence, order

\* Cards that stand for the games of a set of positions of Sony's list, in order:
\* of[n] is the card of position n, and at[k] is the position behind cards[k].
ShowsAt(at, cards, positions, of) ==
    /\ \A k \in DOMAIN cards : at[k] \in positions /\ cards[k].card = of[at[k]] /\ of[at[k]] # NoCard
    /\ \A j, k \in DOMAIN cards : j < k => at[j] < at[k]
    /\ \A n \in positions : of[n] # NoCard => \E k \in DOMAIN cards : at[k] <= n /\ cards[k].card = of[n]
Shows(cards, positions, of) == \E at \in [DOMAIN cards -> positions] : ShowsAt(at, cards, positions, of)
EachOnce(cards) == \A j, k \in DOMAIN cards : j # k => cards[j].card # cards[k].card

LEMMA ShowsBecause ==
    ASSUME NEW at, NEW cards, NEW positions, NEW of, ShowsAt(at, cards, positions, of)
    PROVE  Shows(cards, positions, of)
<1> DEFINE f == [k \in DOMAIN cards |-> at[k]]
<1>1. f \in [DOMAIN cards -> positions]
    BY DEF ShowsAt
<1>2. ShowsAt(f, cards, positions, of)
    BY DEF ShowsAt
<1> QED  BY <1>1, <1>2 DEF Shows

\* Two parts of the list, one behind the other.
LEMMA ShowsBoth ==
    ASSUME NEW A \in SUBSET Nat, NEW B \in SUBSET Nat, NEW a, NEW b, NEW of,
           \A m \in A, n \in B : m < n,
           IsSequence(a), IsSequence(b), Shows(a, A, of), Shows(b, B, of)
    PROVE  Shows(a \o b, A \cup B, of) /\ IsSequence(a \o b)
<1>1. PICK m \in Nat : a = [k \in 1..m |-> a[k]]
    BY DEF IsSequence
<1>2. PICK n \in Nat : b = [k \in 1..n |-> b[k]]
    BY DEF IsSequence
<1>3. PICK f \in [DOMAIN a -> A] : ShowsAt(f, a, A, of)
    BY DEF Shows
<1>4. PICK g \in [DOMAIN b -> B] : ShowsAt(g, b, B, of)
    BY DEF Shows
<1> DEFINE c == a \o b
           h == [k \in 1..(m + n) |-> IF k <= m THEN f[k] ELSE g[k - m]]
<1>5. c = [k \in 1..(m + n) |-> IF k <= m THEN a[k] ELSE b[k - m]]
    BY <1>1, <1>2, Concatenation
<1>6. DOMAIN a = 1..m /\ DOMAIN b = 1..n
    BY <1>1, <1>2
<1> HIDE DEF c
<1>7. DOMAIN c = 1..(m + n) /\ IsSequence(c)
    <2>1. m + n \in Nat /\ DOMAIN c = 1..(m + n)
        BY <1>5
    <2>2. c = [k \in 1..(m + n) |-> c[k]]
        BY <1>5, <2>1
    <2> QED  BY <2>1, <2>2 DEF IsSequence
<1>8. ASSUME NEW k \in 1..(m + n)
      PROVE  \/ k \in 1..m /\ c[k] = a[k] /\ h[k] = f[k]
             \/ k - m \in 1..n /\ ~(k <= m) /\ c[k] = b[k - m] /\ h[k] = g[k - m]
    BY <1>5
<1>9. \A k \in 1..m : k \in 1..(m + n) /\ c[k] = a[k] /\ h[k] = f[k]
    BY <1>5
<1>10. \A k \in 1..n : k + m \in 1..(m + n) /\ c[k + m] = b[k] /\ h[k + m] = g[k]
    BY <1>5
<1> HIDE DEF h
<1>11. \A k \in 1..m : f[k] \in A /\ a[k].card = of[f[k]] /\ of[f[k]] # NoCard
    BY <1>3, <1>6 DEF ShowsAt
<1>12. \A k \in 1..n : g[k] \in B /\ b[k].card = of[g[k]] /\ of[g[k]] # NoCard
    BY <1>4, <1>6 DEF ShowsAt
<1>13. \A k \in 1..(m + n) : h[k] \in A \cup B /\ c[k].card = of[h[k]] /\ of[h[k]] # NoCard
    BY <1>8, <1>11, <1>12
<1>14. \A j, k \in 1..(m + n) : j < k => h[j] < h[k]
    <2> TAKE j, k \in 1..(m + n)
    <2> HAVE j < k
    <2>1. CASE k \in 1..m
        <3>1. j \in 1..m
            BY <2>1
        <3>2. h[j] = f[j] /\ h[k] = f[k]
            BY <1>9, <2>1, <3>1
        <3> QED  BY <1>3, <1>6, <2>1, <3>1, <3>2 DEF ShowsAt
    <2>2. CASE ~(k \in 1..m) /\ j \in 1..m
        <3>1. h[j] = f[j] /\ h[k] = g[k - m] /\ k - m \in 1..n
            BY <1>8, <2>2
        <3>2. f[j] \in A /\ g[k - m] \in B
            BY <1>11, <1>12, <2>2, <3>1
        <3> QED  BY <3>1, <3>2
    <2>3. CASE ~(k \in 1..m) /\ ~(j \in 1..m)
        <3>1. h[j] = g[j - m] /\ h[k] = g[k - m] /\ k - m \in 1..n /\ j - m \in 1..n
            BY <1>8, <2>3
        <3>2. j - m < k - m
            OBVIOUS
        <3> QED  BY <1>4, <1>6, <3>1, <3>2 DEF ShowsAt
    <2> QED  BY <2>1, <2>2, <2>3
<1>15. ASSUME NEW p \in A \cup B, of[p] # NoCard
       PROVE  \E k \in 1..(m + n) : h[k] <= p /\ c[k].card = of[p]
    <2>1. CASE p \in A
        <3>1. PICK k \in 1..m : f[k] <= p /\ a[k].card = of[p]
            BY <1>3, <1>6, <1>15, <2>1 DEF ShowsAt
        <3> QED  BY <1>9, <3>1
    <2>2. CASE p \in B
        <3>1. PICK k \in 1..n : g[k] <= p /\ b[k].card = of[p]
            BY <1>4, <1>6, <1>15, <2>2 DEF ShowsAt
        <3> QED  BY <1>10, <3>1
    <2> QED  BY <2>1, <2>2
<1>16. ShowsAt(h, c, A \cup B, of)
    BY <1>7, <1>13, <1>14, <1>15 DEF ShowsAt
<1> QED  BY <1>7, <1>16, ShowsBecause DEF c

\* Nothing is shown of positions without a game.
LEMMA ShowsNothing ==
    ASSUME NEW positions, NEW of, \A n \in positions : of[n] = NoCard
    PROVE  Shows(<< >>, positions, of) /\ IsSequence(<< >>)
<1> DEFINE none == << >>
<1>1. DOMAIN none = {} /\ none = [k \in 1..0 |-> none[k]]
    OBVIOUS
<1> HIDE DEF none
<1>2. ShowsAt(none, none, positions, of)
    BY <1>1 DEF ShowsAt
<1> QED  BY <1>1, <1>2, ShowsBecause DEF IsSequence, none

LEMMA ShowsNothingOfNothing ==
    ASSUME NEW of  PROVE Shows(<< >>, {}, of) /\ IsSequence(<< >>)
BY ShowsNothing

\* Of positions with a game, something is shown.
LEMMA ShowsSomething ==
    ASSUME NEW cards, NEW positions, NEW of, Shows(cards, positions, of), IsSequence(cards)
    PROVE  cards = << >> <=> \A n \in positions : of[n] = NoCard
<1>1. PICK at \in [DOMAIN cards -> positions] : ShowsAt(at, cards, positions, of)
    BY DEF Shows
<1>2. PICK m \in Nat : cards = [k \in 1..m |-> cards[k]]
    BY DEF IsSequence
<1>3. cards = << >> <=> DOMAIN cards = {}
    <2>1. DOMAIN cards = {} => m = 0
        BY <1>2
    <2>2. m = 0 => cards = << >>
        BY <1>2
    <2> QED  BY <2>1, <2>2
<1> QED  BY <1>1, <1>3 DEF ShowsAt

\* The first of the cards of each game.
LEMMA ShowsFirst ==
    ASSUME NEW positions \in SUBSET Nat, NEW cards, NEW of, IsSequence(cards), Shows(cards, positions, of)
    PROVE  /\ IsSequence(FirstCards(cards)) /\ Shows(FirstCards(cards), positions, of)
           /\ EachOnce(FirstCards(cards))
<1>1. PICK m \in Nat : cards = [k \in 1..m |-> cards[k]]
    BY DEF IsSequence
<1>2. PICK at \in [DOMAIN cards -> positions] : ShowsAt(at, cards, positions, of)
    BY DEF Shows
<1> DEFINE keys == [k \in DOMAIN cards |-> cards[k].card]
           places == FirstPlaces(keys)
           order == InOrder[places]
           first == FirstCards(cards)
<1>3. DOMAIN cards = 1..m /\ DOMAIN keys = 1..m
    BY <1>1
<1>4. places = {k \in 1..m : \A j \in 1..m : j < k => cards[j].card # cards[k].card}
    BY <1>3 DEF FirstPlaces
<1>5. places \in SUBSET Nat /\ places \in SUBSET (1..m)
    BY <1>4
<1>6. IsFiniteSet(places)
    <2>1. IsFiniteSet(1..m)
        BY FS_Interval
    <2> QED  BY <1>5, <2>1, FS_Subset
<1>7. first = Picked(cards, places)
    BY DEF FirstCards
<1>8. \A k \in places, j \in 1..m : j < k => cards[j].card # cards[k].card
    BY <1>4
<1>9. \A k \in 1..m : (\A j \in 1..m : j < k => cards[j].card # cards[k].card) => k \in places
    BY <1>4
<1> HIDE DEF places, first, keys
<1>10. IsSequence(first) /\ DOMAIN first = DOMAIN order /\ \A k \in DOMAIN order : first[k] = cards[order[k]]
    BY <1>5, <1>6, <1>7, PickedFacts
<1>11. Enumerates(order, places)
    BY <1>5, <1>6, InOrderEnumerates
<1> HIDE DEF order
<1>12. \A k \in DOMAIN first : order[k] \in places /\ order[k] \in 1..m /\ first[k] = cards[order[k]]
    BY <1>5, <1>10, <1>11 DEF Enumerates
<1>13. \A j, k \in DOMAIN first : j < k => order[j] < order[k]
    BY <1>10, <1>11 DEF Enumerates
<1> DEFINE f == [k \in DOMAIN first |-> at[order[k]]]
<1>14. \A k \in DOMAIN first : f[k] \in positions /\ first[k].card = of[f[k]] /\ of[f[k]] # NoCard
    BY <1>2, <1>3, <1>12 DEF ShowsAt
<1>15. \A j, k \in DOMAIN first : j < k => f[j] < f[k]
    BY <1>2, <1>3, <1>12, <1>13 DEF ShowsAt
<1>16. ASSUME NEW n \in positions, of[n] # NoCard
       PROVE  \E k \in DOMAIN first : f[k] <= n /\ first[k].card = of[n]
    <2> DEFINE Same == {k \in 1..m : cards[k].card = of[n]}
    <2>1. PICK i \in 1..m : at[i] <= n /\ cards[i].card = of[n]
        BY <1>2, <1>3, <1>16 DEF ShowsAt
    <2>2. Same \in SUBSET Nat /\ Same # {}
        BY <2>1
    <2>3. PICK p \in Same : \A q \in Same : p <= q
        BY <2>2, LeastNatural
    <2>4. p \in 1..m /\ cards[p].card = of[n] /\ p <= i
        BY <2>1, <2>3
    <2>5. \A j \in 1..m : j < p => cards[j].card # cards[p].card
        BY <2>3, <2>4
    <2>6. p \in places
        BY <1>9, <2>4, <2>5
    <2>7. PICK k \in DOMAIN first : order[k] = p
        BY <1>10, <1>11, <2>6 DEF Enumerates
    <2>8. p = i \/ p < i
        BY <2>1, <2>4
    <2>9. at[p] \in Nat /\ at[i] \in Nat
        BY <1>2, <1>3, <2>1, <2>4 DEF ShowsAt
    <2>10. at[p] <= at[i]
        <3>1. \A j, q \in 1..m : j < q => at[j] < at[q]
            BY <1>2, <1>3 DEF ShowsAt
        <3>2. p < i => at[p] < at[i]
            BY <2>1, <2>4, <3>1
        <3> HIDE DEF Same
        <3> QED  BY <2>8, <2>9, <3>2
    <2>11. at[p] <= n
        <3>1. n \in Nat
            OBVIOUS
        <3> QED  BY <2>1, <2>9, <2>10, <3>1
    <2>12. f[k] = at[p] /\ first[k] = cards[p]
        BY <1>12, <2>7
    <2> QED  BY <2>4, <2>11, <2>12
<1>17. ShowsAt(f, first, positions, of)
    <2> HIDE DEF f
    <2> QED  BY <1>14, <1>15, <1>16 DEF ShowsAt
<1>18. EachOnce(first)
    <2> SUFFICES ASSUME NEW j \in DOMAIN first, NEW k \in DOMAIN first, j # k
                 PROVE  first[j].card # first[k].card
        BY DEF EachOnce
    <2>1. PICK n \in Nat : DOMAIN first = 1..n
        BY <1>10, <1>11 DEF Enumerates
    <2>2. j < k \/ k < j
        BY <2>1
    <2>3. order[j] < order[k] \/ order[k] < order[j]
        BY <1>13, <2>2
    <2> QED  BY <1>8, <1>12, <2>3
<1> QED  BY <1>10, <1>17, <1>18, ShowsBecause DEF first

\* Cards that show each game once are the cards of those positions.
LEMMA ShowsExactly ==
    ASSUME NEW positions \in SUBSET Nat, NEW cards, NEW of, IsSequence(cards), EachOnce(cards),
           Shows(cards, positions, of), IsFiniteSet(positions), \A n \in positions : of[n] = CardOf(n)
    PROVE  [k \in DOMAIN cards |-> cards[k].card] = CardsOf(positions)
<1>1. PICK m \in Nat : cards = [k \in 1..m |-> cards[k]]
    BY DEF IsSequence
<1>2. PICK at \in [DOMAIN cards -> positions] : ShowsAt(at, cards, positions, of)
    BY DEF Shows
<1> DEFINE firsts == FirstsOf(positions)
           order == InOrder[firsts]
<1>3. \A n : n \in firsts <=> n \in positions /\ of[n] # NoCard /\ \A i \in positions : i < n => of[i] # of[n]
    BY DEF FirstsOf
<1>4. firsts \in SUBSET Nat /\ IsFiniteSet(firsts)
    BY FS_Subset DEF FirstsOf
<1>5. CardsOf(positions) = [k \in DOMAIN order |-> CardOf(order[k])]
    BY DEF CardsOf
<1> HIDE DEF firsts
<1>6. Enumerates(order, firsts)
    BY <1>4, InOrderEnumerates
<1> HIDE DEF order
<1>7. DOMAIN at = 1..m /\ DOMAIN cards = 1..m
    BY <1>1, <1>2
<1>8. \A k \in 1..m : at[k] \in positions /\ cards[k].card = of[at[k]] /\ of[at[k]] # NoCard
    BY <1>2, <1>7 DEF ShowsAt
<1>9. \A n \in positions : of[n] # NoCard => \E k \in 1..m : at[k] <= n /\ cards[k].card = of[n]
    BY <1>2, <1>7 DEF ShowsAt
<1>10. \A j, k \in 1..m : j # k => cards[j].card # cards[k].card
    BY <1>7 DEF EachOnce
<1>11. \A k \in 1..m : at[k] \in firsts
    <2> TAKE k \in 1..m
    <2> SUFFICES ASSUME NEW i \in positions, i < at[k], of[i] = of[at[k]] PROVE FALSE
        BY <1>3, <1>8
    <2>1. PICK j \in 1..m : at[j] <= i /\ cards[j].card = of[i]
        BY <1>8, <1>9
    <2>2. cards[j].card = cards[k].card
        BY <1>8, <2>1
    <2>3. j = k
        BY <1>10, <2>2
    <2>4. at[k] \in Nat /\ i \in Nat
        BY <1>8
    <2> QED  BY <2>1, <2>3, <2>4
<1>12. ASSUME NEW n \in firsts  PROVE \E k \in 1..m : at[k] = n
    <2>1. n \in positions /\ of[n] # NoCard /\ n \in Nat
        BY <1>3
    <2>2. PICK k \in 1..m : at[k] <= n /\ cards[k].card = of[n]
        BY <1>9, <2>1
    <2>3. of[at[k]] = of[n] /\ at[k] \in positions /\ at[k] \in Nat
        BY <1>8, <2>2
    <2>4. ~(at[k] < n)
        BY <1>3, <2>3
    <2> QED  BY <2>1, <2>2, <2>3, <2>4
<1>13. \A j, k \in 1..m : j < k => at[j] < at[k]
    BY <1>2, <1>7 DEF ShowsAt
<1>14. Enumerates(at, firsts)
    BY <1>7, <1>11, <1>12, <1>13 DEF Enumerates
<1>15. DOMAIN at = DOMAIN order /\ \A k \in DOMAIN at : at[k] = order[k]
    BY <1>4, <1>6, <1>14, EnumerationIsUnique
<1>16. \A k \in 1..m : cards[k].card = CardOf(order[k])
    BY <1>7, <1>8, <1>15
<1> QED  BY <1>5, <1>7, <1>15, <1>16

-----------------------------------------------------------------------------
(* The inductive invariant *)

\* The card of every position of Sony's list; the positions of the raw page that
\* the request reads, and the first position of each of its items.
CardAt == [n \in DOMAIN list |-> CardOf(n)]
PagePositions == IF view \in Paged THEN RawPositions(request.offset) ELSE DOMAIN list
PageOrder == InOrder[FirstEntries(PagePositions)]

OpeningInv ==
    /\ view \in Views /\ sorted \in BOOLEAN /\ slow \subseteq ProductIds
    /\ faults \in 0..MaxFaults /\ held \in BOOLEAN
    /\ Len(list) \in Nat /\ DOMAIN list = 1..Len(list)
    /\ \A n \in DOMAIN list : IsElement(view, list[n])

\* The lookups of a page: each has ended once at most, and those that have ended
\* give back the slot to the next item.
IsPool(pool, size) ==
    /\ DOMAIN pool = {"size", "started", "done"} /\ pool.size = size /\ IsSequence(pool.done)
    /\ pool.started = Least(size, Len(pool.done) + Limit)
    /\ Finished(pool) \subseteq 1..pool.started
    /\ Cardinality(Finished(pool)) = Len(pool.done)

\* The products that were tried before are no games, and one is left to try.
TriedInv(item, tried) ==
    /\ tried \in Nat \ {0}
    /\ \A j \in 1..(tried - 1) : item.candidates[j] \notin Ps5Games
    /\ item.candidates # << >> => tried \in DOMAIN item.candidates

\* A lookup fails, or it finds what the element stands for.
Resolves(output, card) == output = Failed \/ output.card = card

ResolvingInv ==
    /\ request.items = Items(PagePositions)
    /\ DOMAIN request.tried = DOMAIN request.items /\ DOMAIN request.since = DOMAIN request.items
    /\ \A k \in DOMAIN request.items : TriedInv(request.items[k], request.tried[k])
    /\ IsPool(request.pool, Len(request.items))
    /\ \A k \in DOMAIN request.pool.done :
          Resolves(request.pool.done[k].output, CardAt[PageOrder[request.pool.done[k].item]])
    \* What the answer may say of the end of the list.
    /\ ~request.last => view \in Paged /\ request.offset + Size <= Len(list)
    /\ request.last /\ ~request.blind => (view \in Paged => request.offset + Size >= Len(list))

IsRequest ==
    /\ DOMAIN request = {"state", "offset", "left", "last", "blind", "items", "pool", "tried", "since", "clock", "lost"}
    /\ request.state \in {"none", "reading", "resolving"} /\ request.clock \in 0..TotalTimeout
    /\ request.last \in BOOLEAN /\ request.blind \in BOOLEAN

\* A request has read on from the next page of the browser, and nothing was lost
\* or left out on the way.
AskedInv ==
    /\ client.status = "fetching"
    /\ request.offset \in client.next..Len(list) /\ request.left \in 1..RawPageBound
    /\ request.lost \subseteq (client.next + 1)..request.offset
    /\ Shows(<< >>, ((client.next + 1)..request.offset) \ request.lost, CardAt)
    /\ view = "browse" => request.lost = {}
    /\ view = "wishlist" => request.offset = 0

RequestInv ==
    /\ IsRequest
    /\ request.state = "none" => request = NoRequest
    /\ request.state # "none" => AskedInv
    /\ request.state = "reading" => request = ReadFrom(request.offset, request.left, request.lost)
    /\ request.state = "resolving" => ResolvingInv

ClientInv ==
    /\ DOMAIN client = {"status", "retried", "loaded", "next", "cards", "lost", "blind"}
    /\ client.status \in {"idle", "fetching", "failed"} /\ client.next \in {End} \cup (0..Len(list))
    /\ client.retried \in BOOLEAN /\ client.loaded \in BOOLEAN /\ client.blind \in BOOLEAN
    /\ client.status # "idle" => client.next # End
    /\ client.status # "fetching" => request = NoRequest
    /\ ~client.loaded => client.next = 0 /\ client.cards = << >>
    /\ IsSequence(client.cards)
    /\ client.lost \subseteq 1..Reached
    /\ ~client.blind => Shows(client.cards, (1..Reached) \ client.lost, CardAt)
    /\ view = "browse" /\ client.cards = << >> => client.lost = {}
    /\ view = "wishlist" => EachOnce(client.cards) /\ (client.loaded => client.next = End)

PagesInv == OpeningInv /\ RequestInv /\ ClientInv

-----------------------------------------------------------------------------
(* Entries and their cards *)

LEMMA ViewCases == OpeningInv => view = "browse" \/ view = "search" \/ view = "wishlist"
BY DEF OpeningInv, Views, Paged

LEMMA ElementFacts ==
    ASSUME OpeningInv, NEW n \in DOMAIN list
    PROVE  /\ list[n].kind \in {"concept", "product", "malformed"}
           /\ list[n].products \in Seq(ProductIds)
           /\ list[n].kind # "malformed" => list[n].id # NoCard
           /\ list[n].kind = "product" => list[n].products = <<list[n].id>>
           /\ view = "search" /\ list[n].kind = "product" => (list[n].inScope <=> list[n].id \in Ps5Games)
BY DEF OpeningInv, IsElement

\* Whether an element is an entry does not depend on the page it is on.
LEMMA EntryIsEntry ==
    ASSUME OpeningInv, NEW positions
    PROVE  \A n : n \in Entries(positions) <=> n \in positions /\ n \in Entries({n})
<1>1. CASE view = "browse"
    BY <1>1 DEF Entries, Concepts, Decoded
<1>2. CASE view = "search"
    BY <1>2 DEF Entries, Decoded
<1>3. CASE view = "wishlist"
    BY <1>3 DEF Entries, Decoded
<1> QED  BY <1>1, <1>2, <1>3, ViewCases

LEMMA EntryFacts ==
    ASSUME OpeningInv, NEW n \in DOMAIN list
    PROVE  /\ n \in Entries({n}) => list[n].kind # "malformed"
           /\ view = "browse" => (n \in Entries({n}) <=> list[n].kind = "concept")
           /\ view = "search" => (n \in Entries({n}) <=> list[n].kind # "malformed" /\ InSearchScope(n))
<1>1. CASE view = "browse"
    BY <1>1 DEF Entries, Concepts, Decoded
<1>2. CASE view = "search"
    BY <1>2 DEF Entries, Decoded
<1>3. CASE view = "wishlist"
    BY <1>3 DEF Entries, Decoded
<1> QED  BY <1>1, <1>2, <1>3, ViewCases

\* The first candidate that is a game.
LEMMA FirstGameIs ==
    ASSUME NEW candidates, DOMAIN candidates \subseteq Nat, NEW k \in DOMAIN candidates, candidates[k] \in Ps5Games,
           \A j \in DOMAIN candidates : j < k => candidates[j] \notin Ps5Games
    PROVE  FirstGame(candidates) = candidates[k]
<1> DEFINE games == {i \in DOMAIN candidates : candidates[i] \in Ps5Games}
           first == CHOOSE i \in games : \A j \in games : i <= j
<1>1. k \in games /\ games \subseteq Nat
    OBVIOUS
<1>2. \A j \in games : ~(j < k)
    OBVIOUS
<1>3. \A j \in games : k <= j
    BY <1>1, <1>2
<1>4. first \in games /\ \A j \in games : first <= j
    BY <1>1, <1>3
<1>5. first = k
    <2> HIDE DEF games, first
    <2> QED  BY <1>1, <1>3, <1>4
<1>6. games # {}
    BY <1>1
<1> QED  BY <1>5, <1>6 DEF FirstGame

LEMMA NoFirstGame ==
    ASSUME NEW candidates, \A k \in DOMAIN candidates : candidates[k] \notin Ps5Games
    PROVE  FirstGame(candidates) = NoCard
BY DEF FirstGame

LEMMA FirstGameOfOne ==
    ASSUME NEW p  PROVE FirstGame(<<p>>) = IF p \in Ps5Games THEN p ELSE NoCard
<1> DEFINE one == <<p>>
<1>1. DOMAIN one = {1} /\ one[1] = p
    OBVIOUS
<1> HIDE DEF one
<1>2. CASE p \in Ps5Games
    <2>1. FirstGame(one) = one[1]
        BY <1>1, <1>2, FirstGameIs
    <2> QED  BY <1>1, <1>2, <2>1 DEF one
<1>3. CASE p \notin Ps5Games
    BY <1>1, <1>3, NoFirstGame DEF one
<1> QED  BY <1>2, <1>3

\* The card that an element stands for, view by view.
LEMMA CardFacts ==
    ASSUME OpeningInv, NEW n \in DOMAIN list, n \in Entries({n})
    PROVE  /\ view = "browse" => CardOf(n) = FirstGame(CandidateIds(list[n].products))
           /\ view = "search" =>
                 /\ list[n].products \in Seq(ProductIds) /\ list[n].products # << >>
                 /\ IdOf(n) = Head(list[n].products)
                 /\ CardOf(n) = IF IdOf(n) \in Ps5Games THEN IdOf(n) ELSE NoCard
                 /\ IsKnown(n) => IdOf(n) \in Ps5Games
           /\ view = "wishlist" => CardOf(n) = IdOf(n) /\ IdOf(n) # NoCard
<1>1. ASSUME view = "browse"
      PROVE  CardOf(n) = FirstGame(CandidateIds(list[n].products))
    BY <1>1 DEF CardOf, CandidatesOf
<1>2. ASSUME view = "search"
      PROVE  /\ list[n].products \in Seq(ProductIds) /\ list[n].products # << >>
             /\ IdOf(n) = Head(list[n].products)
             /\ CardOf(n) = IF IdOf(n) \in Ps5Games THEN IdOf(n) ELSE NoCard
             /\ IsKnown(n) => IdOf(n) \in Ps5Games
    <2>1. list[n].products \in Seq(ProductIds) /\ list[n].kind \in {"concept", "product"} /\ InSearchScope(n)
        BY <1>2, ElementFacts, EntryFacts
    <2>2. list[n].products # << >>
        <3>1. list[n].kind = "product" => Len(list[n].products) = 1
            <4>1. \A x : Len(<<x>>) = 1
                OBVIOUS
            <4>2. list[n].kind = "product" => list[n].products = <<list[n].id>>
                BY ElementFacts
            <4> QED  BY <4>1, <4>2
        <3>2. list[n].kind = "concept" => list[n].products # << >>
            BY <2>1 DEF InSearchScope
        <3> QED  BY <2>1, <3>1, <3>2
    <2>3. IdOf(n) = Head(list[n].products)
        BY <1>2 DEF IdOf
    <2>4. CardOf(n) = FirstGame(<<Head(list[n].products)>>)
        BY <1>2 DEF CardOf, CandidatesOf
    <2>5. ASSUME IsKnown(n)  PROVE IdOf(n) \in Ps5Games
        <3>1. list[n].kind = "product" /\ list[n].inScope
            BY <2>1, <2>5 DEF IsKnown, InSearchScope
        <3>2. list[n].id \in Ps5Games /\ list[n].products = <<list[n].id>>
            BY <1>2, <3>1, ElementFacts
        <3> QED  BY <2>3, <3>2
    <2> QED  BY <2>1, <2>2, <2>3, <2>4, <2>5, FirstGameOfOne
<1>3. ASSUME view = "wishlist"
      PROVE  CardOf(n) = IdOf(n) /\ IdOf(n) # NoCard
    <2>1. CardOf(n) = IdOf(n)
        BY <1>3 DEF CardOf
    <2>2. IdOf(n) = list[n].id
        BY <1>3 DEF IdOf
    <2> QED  BY <2>1, <2>2, ElementFacts, EntryFacts
<1> QED  BY <1>1, <1>2, <1>3

\* Entries of one id stand for one card.
LEMMA AlikeCards ==
    ASSUME OpeningInv, NEW positions \in SUBSET DOMAIN list, NEW n \in Entries(positions), NEW m \in Alike(n, positions)
    PROVE  m \in Entries(positions) /\ CardOf(m) = CardOf(n)
<1>1. m \in Entries(positions) /\ IdOf(m) = IdOf(n)
    BY DEF Alike
<1>2. m \in DOMAIN list /\ m \in Entries({m}) /\ n \in DOMAIN list /\ n \in Entries({n})
    BY <1>1, EntryIsEntry
<1>3. CASE view = "browse"
    <2>1. IdOf(m) = m /\ IdOf(n) = n
        BY <1>3 DEF IdOf
    <2> QED  BY <1>1, <2>1
<1>4. CASE view = "search"
    <2>1. CardOf(m) = IF IdOf(m) \in Ps5Games THEN IdOf(m) ELSE NoCard
        BY <1>2, <1>4, CardFacts
    <2>2. CardOf(n) = IF IdOf(n) \in Ps5Games THEN IdOf(n) ELSE NoCard
        BY <1>2, <1>4, CardFacts
    <2> QED  BY <1>1, <2>1, <2>2
<1>5. CASE view = "wishlist"
    BY <1>1, <1>2, <1>5, CardFacts
<1> QED  BY <1>1, <1>3, <1>4, <1>5, ViewCases

-----------------------------------------------------------------------------
(* The items of a page *)

\* The items of a page are its first entries, in Sony's order.
LEMMA ItemsFacts ==
    ASSUME OpeningInv, NEW positions \in SUBSET DOMAIN list
    PROVE  LET items == Items(positions)
               order == InOrder[FirstEntries(positions)]
           IN  /\ Enumerates(order, FirstEntries(positions))
               /\ IsSequence(items) /\ Len(items) \in Nat
               /\ DOMAIN items = 1..Len(items) /\ DOMAIN order = 1..Len(items)
               /\ \A k \in DOMAIN items :
                     items[k] = Item(order[k], positions) /\ order[k] \in FirstEntries(positions)
<1> DEFINE firsts == FirstEntries(positions)
           order == InOrder[firsts]
           items == Items(positions)
           N == Cardinality(firsts)
<1>1. DOMAIN list \in SUBSET Nat /\ IsFiniteSet(DOMAIN list)
    BY FS_Interval DEF OpeningInv
<1>2. firsts \in SUBSET positions
    BY EntryIsEntry DEF FirstEntries
<1>3. firsts \in SUBSET Nat /\ IsFiniteSet(firsts)
    <2>1. firsts \in SUBSET DOMAIN list
        BY <1>2
    <2> HIDE DEF firsts
    <2> QED  BY <1>1, <2>1, FS_Subset
<1>4. items = [k \in DOMAIN order |-> Item(order[k], positions)]
    BY DEF Items
<1> HIDE DEF items, firsts
<1>5. Enumerates(order, firsts) /\ DOMAIN order = 1..N /\ N \in Nat
    BY <1>3, InOrderEnumerates, FS_CardinalityType
<1> HIDE DEF order, N
<1>6. items = [k \in 1..N |-> Item(order[k], positions)]
    BY <1>4, <1>5
<1>7. IsSequence(items) /\ Len(items) = N /\ DOMAIN items = 1..N
    <2>1. items = [k \in 1..N |-> items[k]]
        BY <1>6
    <2> QED  BY <1>5, <2>1 DEF IsSequence
<1>8. \A k \in DOMAIN items : items[k] = Item(order[k], positions) /\ order[k] \in firsts
    BY <1>5, <1>6, <1>7 DEF Enumerates
<1> QED  BY <1>5, <1>7, <1>8 DEF items, order, firsts

-----------------------------------------------------------------------------
(* What the outputs of a page show *)

\* The positions of the items whose lookup failed.
LostOf(items, outputs) == UNION {items[k].at : k \in {i \in DOMAIN outputs : outputs[i] = Failed}}

\* The cards of the outputs with a card are those of the positions of the page,
\* apart from the positions whose lookup failed.
LEMMA PageShows ==
    ASSUME OpeningInv, NEW positions \in SUBSET DOMAIN list, NEW outputs, NEW sel, NEW cards,
           DOMAIN outputs = DOMAIN Items(positions),
           \A k \in DOMAIN outputs : Resolves(outputs[k], CardAt[InOrder[FirstEntries(positions)][k]]),
           Enumerates(sel, {k \in DOMAIN outputs : outputs[k].card # NoCard}),
           cards = [k \in DOMAIN sel |-> outputs[sel[k]]]
    PROVE  /\ IsSequence(cards)
           /\ Shows(cards, positions \ LostOf(Items(positions), outputs), CardAt)
           /\ view = "wishlist" => EachOnce(cards)
<1> DEFINE items == Items(positions)
           firsts == FirstEntries(positions)
           order == InOrder[firsts]
           lost == LostOf(items, outputs)
           with == {k \in DOMAIN outputs : outputs[k].card # NoCard}
<1>1. /\ Enumerates(order, firsts) /\ Len(items) \in Nat /\ DOMAIN items = 1..Len(items) /\ DOMAIN order = 1..Len(items)
      /\ \A k \in DOMAIN items : items[k] = Item(order[k], positions) /\ order[k] \in firsts
    BY ItemsFacts
<1>2. \A n : n \in firsts <=> n \in Entries(positions) /\ \A m \in Alike(n, positions) : n <= m
    BY DEF FirstEntries
<1>3. \A n : n \in Entries(positions) => n \in positions /\ n \in DOMAIN list /\ n \in Nat /\ n \in Alike(n, positions)
    <2> TAKE n
    <2> HAVE n \in Entries(positions)
    <2>1. n \in positions /\ n \in DOMAIN list
        BY EntryIsEntry
    <2>2. n \in Nat
        BY <2>1 DEF OpeningInv
    <2>3. n \in Alike(n, positions)
        BY DEF Alike
    <2> QED  BY <2>1, <2>2, <2>3
<1>4. \A k \in DOMAIN items : items[k].at = Alike(order[k], positions)
    BY <1>1 DEF Item
<1>5. \A n : n \in lost <=> \E k \in DOMAIN items : outputs[k] = Failed /\ n \in Alike(order[k], positions)
    BY <1>4 DEF LostOf
<1>6. Failed.card = NoCard
    BY DEF Failed, Card
<1>7. \A k : k \in with <=> k \in DOMAIN items /\ outputs[k].card # NoCard
    OBVIOUS
<1>8. \A k \in DOMAIN items : Resolves(outputs[k], CardAt[order[k]])
    OBVIOUS
<1>9. Enumerates(sel, with)
    OBVIOUS
<1>10. cards = [k \in DOMAIN sel |-> outputs[sel[k]]]
    OBVIOUS
<1> HIDE DEF items, firsts, lost, with
<1> HIDE DEF order
\* Two items never share a position.
<1>11. \A i, k \in DOMAIN items : order[k] \in Alike(order[i], positions) => i = k
    <2> TAKE i, k \in DOMAIN items
    <2> HAVE order[k] \in Alike(order[i], positions)
    <2>1. order[i] \in firsts /\ order[k] \in firsts
        BY <1>1
    <2>2. order[i] \in Alike(order[k], positions)
        BY <1>2, <2>1 DEF Alike
    <2>3. order[i] <= order[k] /\ order[k] <= order[i]
        BY <1>2, <2>1, <2>2
    <2>4. order[i] \in Nat /\ order[k] \in Nat
        BY <1>2, <1>3, <2>1
    <2>5. order[i] = order[k]
        BY <2>3, <2>4
    <2>6. \A a, b \in DOMAIN items : a < b => order[a] < order[b]
        BY <1>1 DEF Enumerates
    <2>7. i \in Nat /\ k \in Nat
        BY <1>1
    <2>8. ~(i < k) /\ ~(k < i)
        BY <2>4, <2>5, <2>6
    <2> QED  BY <2>7, <2>8
<1>12. PICK c \in Nat : DOMAIN sel = 1..c
    BY <1>9 DEF Enumerates
<1>13. IsSequence(cards) /\ DOMAIN cards = 1..c
    <2>1. cards = [k \in 1..c |-> cards[k]]
        BY <1>10, <1>12
    <2> QED  BY <2>1, <1>12 DEF IsSequence
<1>14. \A k \in 1..c : sel[k] \in DOMAIN items /\ cards[k] = outputs[sel[k]] /\ cards[k].card # NoCard
    BY <1>7, <1>9, <1>10, <1>12 DEF Enumerates
<1>15. \A k \in 1..c : cards[k].card = CardAt[order[sel[k]]]
    BY <1>6, <1>8, <1>14 DEF Resolves
<1>16. \A k \in 1..c : order[sel[k]] \in firsts /\ order[sel[k]] \in positions
    BY <1>1, <1>2, <1>3, <1>14
<1>17. \A k \in 1..c : order[sel[k]] \notin lost
    BY <1>5, <1>6, <1>11, <1>14
<1>18. \A j, k \in 1..c : j < k => order[sel[j]] < order[sel[k]]
    <2>1. \A j, k \in 1..c : j < k => sel[j] < sel[k]
        BY <1>9, <1>12 DEF Enumerates
    <2>2. \A a, b \in DOMAIN items : a < b => order[a] < order[b]
        BY <1>1 DEF Enumerates
    <2> QED  BY <1>14, <2>1, <2>2
<1>19. ASSUME NEW n \in positions \ lost, CardAt[n] # NoCard
       PROVE  \E k \in 1..c : order[sel[k]] <= n /\ cards[k].card = CardAt[n]
    <2>1. n \in DOMAIN list /\ CardAt[n] = CardOf(n)
        BY DEF CardAt
    <2>2. n \in Entries({n})
        BY <1>19, <2>1 DEF CardOf
    <2>3. n \in Entries(positions)
        BY <2>2, EntryIsEntry
    <2> DEFINE alike == Alike(n, positions)
    <2>4. alike \in SUBSET Nat /\ n \in alike
        BY <1>3, <2>3 DEF Alike
    <2>5. PICK m \in alike : \A p \in alike : m <= p
        BY <2>4, LeastNatural
    <2>6. m \in Entries(positions) /\ CardOf(m) = CardOf(n)
        BY <2>3, AlikeCards
    <2>7. \A p \in Alike(m, positions) : p \in alike
        BY <2>3, <2>5 DEF Alike
    <2>8. m \in firsts
        BY <1>2, <2>5, <2>6, <2>7
    <2>9. PICK i \in DOMAIN items : order[i] = m
        BY <1>1, <2>8 DEF Enumerates
    <2>10. n \in Alike(order[i], positions)
        BY <2>3, <2>5, <2>9 DEF Alike
    <2>11. outputs[i] # Failed
        BY <1>5, <2>10
    <2>12. outputs[i].card = CardAt[m]
        BY <1>8, <2>9, <2>11 DEF Resolves
    <2>13. CardAt[m] = CardAt[n]
        BY <1>3, <2>1, <2>6 DEF CardAt
    <2>14. i \in with
        BY <1>7, <1>19, <2>12, <2>13
    <2>15. PICK k \in 1..c : sel[k] = i
        BY <1>9, <1>12, <2>14 DEF Enumerates
    <2>16. order[sel[k]] <= n /\ cards[k].card = CardAt[n]
        BY <1>14, <2>4, <2>5, <2>9, <2>12, <2>13, <2>15
    <2> QED  BY <2>16
<1> DEFINE at == [k \in 1..c |-> order[sel[k]]]
<1>20. ShowsAt(at, cards, positions \ lost, CardAt)
    <2>1. \A k \in 1..c : at[k] = order[sel[k]]
        OBVIOUS
    <2> HIDE DEF at
    <2> QED  BY <1>13, <1>14, <1>15, <1>16, <1>17, <1>18, <1>19, <2>1 DEF ShowsAt
<1>21. ASSUME view = "wishlist"  PROVE EachOnce(cards)
    <2> SUFFICES ASSUME NEW j \in 1..c, NEW k \in 1..c, j # k PROVE cards[j].card # cards[k].card
        BY <1>13 DEF EachOnce
    <2>1. \A i \in 1..c : CardAt[order[sel[i]]] = IdOf(order[sel[i]])
        <3> TAKE i \in 1..c
        <3> DEFINE n == order[sel[i]]
        <3>1. n \in Entries(positions) /\ n \in DOMAIN list
            BY <1>2, <1>3, <1>16
        <3> HIDE DEF n
        <3>2. n \in Entries({n})
            BY <3>1, EntryIsEntry
        <3>3. CardOf(n) = IdOf(n)
            BY <1>21, <3>1, <3>2, CardFacts
        <3>4. CardAt[n] = IdOf(n)
            BY <3>1, <3>3 DEF CardAt
        <3> QED  BY <3>4 DEF n
    <2>2. order[sel[k]] \in Entries(positions)
        BY <1>2, <1>16
    <2>3. IdOf(order[sel[j]]) = IdOf(order[sel[k]]) => sel[j] = sel[k]
        BY <1>11, <1>14, <2>2 DEF Alike
    <2>4. sel[j] # sel[k]
        <3>1. j < k \/ k < j
            OBVIOUS
        <3>2. sel[j] < sel[k] \/ sel[k] < sel[j]
            BY <1>9, <1>12, <3>1 DEF Enumerates
        <3>3. \A i \in DOMAIN items : i \in Nat
            BY <1>1
        <3>4. sel[j] \in Nat /\ sel[k] \in Nat
            BY <1>14, <3>3
        <3> QED  BY <3>2, <3>4
    <2> QED  BY <1>15, <2>1, <2>3, <2>4
<1> QED  BY <1>13, <1>20, <1>21, ShowsBecause DEF lost, items

\* What read_browse_page, search_games and enrich_wishlist keep.
LEMMA KeptShows ==
    ASSUME OpeningInv, NEW positions \in SUBSET DOMAIN list, NEW outputs,
           DOMAIN outputs = DOMAIN Items(positions),
           \A k \in DOMAIN outputs : Resolves(outputs[k], CardAt[InOrder[FirstEntries(positions)][k]])
    PROVE  /\ IsSequence(Kept(outputs))
           /\ Shows(Kept(outputs), positions \ LostOf(Items(positions), outputs), CardAt)
           /\ view = "wishlist" => EachOnce(Kept(outputs))
<1> DEFINE with == {k \in DOMAIN outputs : outputs[k].card # NoCard}
           sel == InOrder[with]
           cards == Picked(outputs, with)
           rest == positions \ LostOf(Items(positions), outputs)
<1>1. DOMAIN outputs = 1..Len(Items(positions)) /\ Len(Items(positions)) \in Nat
    BY ItemsFacts
<1>2. IsFiniteSet(DOMAIN outputs) /\ DOMAIN outputs \in SUBSET Nat
    BY <1>1, FS_Interval
<1>3. with \in SUBSET Nat /\ IsFiniteSet(with)
    BY <1>2, FS_Subset
<1>4. Enumerates(sel, with)
    <2> HIDE DEF with
    <2> QED  BY <1>3, InOrderEnumerates
<1>5. cards = [k \in DOMAIN sel |-> outputs[sel[k]]]
    BY DEF Picked
<1>6. IsSequence(cards) /\ Shows(cards, rest, CardAt) /\ (view = "wishlist" => EachOnce(cards))
    <2> HIDE DEF cards, sel
    <2> QED  BY <1>4, <1>5, PageShows
<1>7. Kept(outputs) = IF view = "browse" THEN FirstCards(cards) ELSE cards
    BY DEF Kept
<1>8. rest \in SUBSET Nat
    BY DEF OpeningInv
<1> HIDE DEF cards, rest
<1>9. IsSequence(FirstCards(cards)) /\ Shows(FirstCards(cards), rest, CardAt)
    BY <1>6, <1>8, ShowsFirst
<1> QED  BY <1>6, <1>7, <1>9 DEF rest

-----------------------------------------------------------------------------
(* The constants, and the lists that do not change *)

LEMMA Bounds ==
    /\ Size \in Nat \ {0} /\ RawPageBound \in Nat \ {0} /\ MaxCandidates \in Nat \ {0} /\ Limit \in Nat \ {0}
    /\ EntryTimeout \in Nat \ {0} /\ TotalTimeout \in Nat \ {0} /\ MaxFaults \in Nat /\ End \notin Nat
    /\ NoCard \notin ProductIds /\ Ps5Games \subseteq ProductIds
BY BoundedPagesAssumption

\* What a step that leaves the list alone cannot change.
LEMMA SameList ==
    ASSUME opened' = opened
    PROVE  /\ view' = view /\ list' = list
           /\ \A n : (CardOf(n))' = CardOf(n)
           /\ CardAt' = CardAt
           /\ \A positions : /\ (Items(positions))' = Items(positions)
                             /\ (FirstEntries(positions))' = FirstEntries(positions)
<1>1. view' = view /\ list' = list
    BY DEF opened
<1>2. \A n : (IdOf(n))' = IdOf(n) /\ (CandidatesOf(n))' = CandidatesOf(n) /\ (IsKnown(n))' = IsKnown(n)
    BY <1>1 DEF IdOf, CandidatesOf, IsKnown
<1>3. \A positions : (Entries(positions))' = Entries(positions)
    BY <1>1 DEF Entries, Decoded, Concepts, InSearchScope
<1>4. \A n, positions : (Alike(n, positions))' = Alike(n, positions)
    BY <1>2, <1>3 DEF Alike
<1>5. \A positions : (FirstEntries(positions))' = FirstEntries(positions)
    BY <1>3, <1>4 DEF FirstEntries
<1>6. \A n, positions : (Item(n, positions))' = Item(n, positions)
    BY <1>2, <1>4 DEF Item
<1>7. \A positions : (Items(positions))' = Items(positions)
    BY <1>5, <1>6 DEF Items
<1>8. \A n : (CardOf(n))' = CardOf(n)
    BY <1>1, <1>2, <1>3 DEF CardOf
<1>9. CardAt' = CardAt
    BY <1>1, <1>8 DEF CardAt
<1> QED  BY <1>1, <1>5, <1>7, <1>8, <1>9

LEMMA SamePage ==
    ASSUME opened' = opened, request'.offset = request.offset
    PROVE  /\ PagePositions' = PagePositions /\ PageOrder' = PageOrder
           /\ (Items(PagePositions))' = Items(PagePositions)
<1>1. view' = view /\ list' = list
    BY SameList
<1>2. PagePositions' = PagePositions
    BY <1>1 DEF PagePositions, RawPositions
<1>3. \A positions : /\ (Items(positions))' = Items(positions)
                     /\ (FirstEntries(positions))' = FirstEntries(positions)
    BY SameList
<1> QED  BY <1>2, <1>3 DEF PageOrder

-----------------------------------------------------------------------------
(* The lookups of a page *)

LEMMA Appending ==
    ASSUME NEW s, NEW x, NEW n \in Nat, s = [k \in 1..n |-> s[k]]
    PROVE  Append(s, x) = [k \in 1..(n + 1) |-> IF k <= n THEN s[k] ELSE x] /\ Len(s) = n
<1> DEFINE S == {s[k] : k \in 1..n} \cup {x}
<1>1. (\A k \in 1..n : s[k] \in S) /\ x \in S
    OBVIOUS
<1> HIDE DEF S
<1>2. s \in [1..n -> S]
    BY <1>1
<1>3. s \in Seq(S) /\ Len(s) = n
    BY <1>2
<1>4. Append(s, x) \in Seq(S) /\ Len(Append(s, x)) = n + 1
    BY <1>1, <1>3
<1>5. \A k \in 1..(n + 1) : Append(s, x)[k] = IF k <= n THEN s[k] ELSE x
    BY <1>1, <1>3
<1> QED  BY <1>3, <1>4, <1>5

LEMMA PoolBegins ==
    ASSUME NEW size \in Nat
    PROVE  IsPool(NewPool(size, Limit), size) /\ NewPool(size, Limit).done = << >>
<1> DEFINE pool == NewPool(size, Limit)
<1>1. pool = [size |-> size, started |-> Least(size, Limit), done |-> << >>]
    BY DEF NewPool
<1> HIDE DEF pool
<1>2. pool.done = << >> /\ pool.started = Least(size, Limit)
    BY <1>1
<1>3. Len(pool.done) = 0 /\ DOMAIN pool.done = {} /\ IsSequence(pool.done)
    BY <1>2, ShowsNothingOfNothing
<1>4. Finished(pool) = {}
    BY <1>3 DEF Finished
<1>5. Len(pool.done) + Limit = Limit
    BY <1>3, Bounds
<1>6. DOMAIN pool = {"size", "started", "done"} /\ pool.size = size
    BY <1>1
<1>7. pool.started = Least(size, Len(pool.done) + Limit)
    BY <1>2, <1>5
<1>8. Cardinality(Finished(pool)) = Len(pool.done)
    BY <1>3, <1>4, FS_EmptySet
<1> QED  BY <1>2, <1>3, <1>4, <1>6, <1>7, <1>8 DEF IsPool, pool

\* The types of a pool, whose lookups have started in order.
LEMMA PoolFacts ==
    ASSUME NEW pool, NEW size \in Nat, IsPool(pool, size)
    PROVE  /\ Len(pool.done) \in Nat /\ DOMAIN pool.done = 1..Len(pool.done)
           /\ pool.done = [k \in 1..Len(pool.done) |-> pool.done[k]]
           /\ pool.started \in 0..size /\ pool.size = size
           /\ IsFiniteSet(Finished(pool)) /\ IsFiniteSet(Unfinished(pool))
<1>1. PICK n \in Nat : pool.done = [k \in 1..n |-> pool.done[k]]
    BY DEF IsPool, IsSequence
<1>2. Len(pool.done) = n /\ DOMAIN pool.done = 1..n
    BY <1>1
<1>3. pool.started \in 0..size /\ pool.size = size
    <2>1. Limit \in Nat
        BY Bounds
    <2> QED  BY <1>2, <2>1 DEF IsPool, Least
<1>4. IsFiniteSet(1..pool.started)
    BY <1>3, FS_Interval
<1>5. Finished(pool) \in SUBSET (1..pool.started) /\ Unfinished(pool) \in SUBSET (1..pool.started)
    BY DEF IsPool, Unfinished
<1> QED  BY <1>1, <1>2, <1>3, <1>4, <1>5, FS_Subset

\* No more lookups run than the bound allows.
LEMMA PoolIsBounded ==
    ASSUME NEW pool, NEW size \in Nat, IsPool(pool, size)
    PROVE  Cardinality(Unfinished(pool)) <= Limit
<1> DEFINE started == pool.started
           finished == Finished(pool)
           n == Len(pool.done)
<1>1. n \in Nat /\ started \in 0..size /\ IsFiniteSet(finished) /\ Limit \in Nat
    BY PoolFacts, Bounds
<1>2. finished \in SUBSET (1..started) /\ Cardinality(finished) = n /\ started = Least(size, n + Limit)
    BY DEF IsPool
<1>3. Unfinished(pool) = (1..started) \ finished
    BY DEF Unfinished
<1> HIDE DEF finished, started, n
<1>4. IsFiniteSet(1..started) /\ Cardinality(1..started) = started
    BY <1>1, FS_Interval
<1>5. (1..started) \cap finished = finished
    BY <1>2
<1>6. Cardinality((1..started) \ finished) = Cardinality(1..started) - Cardinality((1..started) \cap finished)
    BY <1>4, FS_Difference
<1>7. Cardinality(Unfinished(pool)) = started - n
    BY <1>2, <1>3, <1>4, <1>5, <1>6
<1>8. started <= n + Limit
    BY <1>1, <1>2 DEF Least
<1> QED  BY <1>1, <1>7, <1>8

\* in_order_bounded: the end of a lookup records its output and frees its slot.
LEMMA PoolGoesOn ==
    ASSUME NEW pool, NEW size \in Nat, IsPool(pool, size), NEW k \in Unfinished(pool), NEW output
    PROVE  LET after == Finish(pool, k, output, Limit)
               n == Len(pool.done)
           IN  /\ IsPool(after, size) /\ k \in 1..size
               /\ DOMAIN after.done = 1..(n + 1) /\ after.done[n + 1] = [item |-> k, output |-> output]
               /\ \A j \in 1..n : after.done[j] = pool.done[j]
               /\ Finished(after) = Finished(pool) \cup {k} /\ pool.started <= after.started
<1> DEFINE after == Finish(pool, k, output, Limit)
           n == Len(pool.done)
           new == [item |-> k, output |-> output]
           done == Append(pool.done, new)
<1>1. /\ n \in Nat /\ DOMAIN pool.done = 1..n /\ pool.done = [j \in 1..n |-> pool.done[j]]
      /\ pool.started \in 0..size /\ IsFiniteSet(Finished(pool)) /\ Limit \in Nat
    BY PoolFacts, Bounds
<1>2. done = [j \in 1..(n + 1) |-> IF j <= n THEN pool.done[j] ELSE new]
    BY <1>1, Appending
<1>3. DOMAIN pool = {"size", "started", "done"} /\ pool.size = size
    BY DEF IsPool
<1>4. after = [pool EXCEPT !.done = done, !.started = Least(pool.size, Len(done) + Limit)]
    BY DEF Finish
<1> HIDE DEF after, done, new
<1>5. DOMAIN after = {"size", "started", "done"} /\ after.size = size
      /\ after.done = done /\ after.started = Least(size, Len(done) + Limit)
    BY <1>3, <1>4
<1>6. Len(done) = n + 1 /\ DOMAIN done = 1..(n + 1) /\ IsSequence(done)
    <2>1. n + 1 \in Nat
        BY <1>1
    <2> DEFINE m == n + 1
    <2>2. done = [j \in 1..m |-> done[j]]
        BY <1>2
    <2> HIDE DEF n
    <2> QED  BY <2>1, <2>2 DEF IsSequence
<1>7. \A j \in 1..n : j \in 1..(n + 1) /\ done[j] = pool.done[j]
    BY <1>1, <1>2
<1>8. n + 1 \in 1..(n + 1) /\ done[n + 1] = new
    BY <1>1, <1>2
<1>9. after.done = done /\ after.started = Least(size, (n + 1) + Limit)
    BY <1>5, <1>6
<1>10. new.item = k
    BY DEF new
<1> HIDE DEF n
<1>11. \A j \in 1..(n + 1) : j \in 1..n \/ j = n + 1
    BY <1>1
<1>12. Finished(after) = Finished(pool) \cup {k}
    <2>1. Finished(after) = {done[j].item : j \in 1..(n + 1)}
        BY <1>6, <1>9 DEF Finished
    <2>2. Finished(pool) = {pool.done[j].item : j \in 1..n}
        BY <1>1 DEF Finished
    <2> QED  BY <1>7, <1>8, <1>10, <1>11, <2>1, <2>2
<1>13. k \in 1..pool.started /\ k \notin Finished(pool)
    BY DEF Unfinished
<1>14. Cardinality(Finished(after)) = Len(after.done)
    <2>1. Cardinality(Finished(pool)) = n
        BY DEF IsPool, n
    <2>2. Cardinality(Finished(pool) \cup {k}) = Cardinality(Finished(pool)) + 1
        BY <1>1, <1>13, FS_AddElement
    <2>3. Len(after.done) = n + 1
        BY <1>6, <1>9
    <2> QED  BY <1>12, <2>1, <2>2, <2>3
<1>15. Finished(after) \subseteq 1..after.started /\ k \in 1..size /\ pool.started <= after.started
    <2>1. pool.started = Least(size, n + Limit)
        BY DEF IsPool, n
    <2>2. pool.started <= after.started /\ after.started \in Nat
        BY <1>1, <1>9, <2>1 DEF Least
    <2>3. Finished(pool) \subseteq 1..pool.started
        BY DEF IsPool
    <2> QED  BY <1>1, <1>12, <1>13, <2>2, <2>3
<1>17. after.started = Least(size, Len(after.done) + Limit)
    BY <1>6, <1>9
<1>18. IsPool(after, size)
    BY <1>6, <1>9, <1>5, <1>14, <1>15, <1>17 DEF IsPool
<1> QED  BY <1>6, <1>7, <1>8, <1>9, <1>12, <1>15, <1>18 DEF after, new, n

\* in_order_bounded: each item has the output of its own lookup.
LEMMA PoolCompletes ==
    ASSUME NEW pool, NEW size \in Nat, IsPool(pool, size), IsComplete(pool)
    PROVE  /\ DOMAIN Outputs(pool) = 1..size
           /\ \A i \in 1..size : \E k \in DOMAIN pool.done :
                 pool.done[k].item = i /\ Outputs(pool)[i] = pool.done[k].output
<1>1. pool.size = size
    BY PoolFacts
<1>2. \A i \in 1..size : \E k \in DOMAIN pool.done : pool.done[k].item = i
    BY <1>1 DEF IsComplete, Finished
<1> QED  BY <1>1, <1>2 DEF Outputs

LEMMA CandidateFacts ==
    ASSUME NEW products \in Seq(ProductIds)
    PROVE  CandidateIds(products) \in Seq(ProductIds)
<1>1. ASSUME NEW s \in Seq(ProductIds), NEW places \in SUBSET DOMAIN s
      PROVE  Picked(s, places) \in Seq(ProductIds)
    <2>1. DOMAIN s = 1..Len(s) /\ Len(s) \in Nat
        OBVIOUS
    <2>2. places \in SUBSET Nat /\ IsFiniteSet(places)
        <3>1. IsFiniteSet(1..Len(s))
            BY <2>1, FS_Interval
        <3> QED  BY <2>1, <3>1, FS_Subset
    <2> DEFINE order == InOrder[places]
    <2>3. Enumerates(order, places)
        BY <2>2, InOrderEnumerates
    <2>4. Picked(s, places) = [k \in DOMAIN order |-> s[order[k]]]
        BY DEF Picked
    <2> HIDE DEF order
    <2>5. PICK n \in Nat : DOMAIN order = 1..n
        BY <2>3 DEF Enumerates
    <2>6. \A k \in 1..n : s[order[k]] \in ProductIds
        BY <2>3, <2>5 DEF Enumerates
    <2>7. Picked(s, places) \in [1..n -> ProductIds]
        BY <2>4, <2>5, <2>6
    <2> QED  BY <2>7
<1> DEFINE ids == Picked(products, FirstPlaces(products))
           titles == {k \in DOMAIN ids : ids[k] \in Ps5Titles}
           first == Picked(ids, titles)
           second == Picked(ids, DOMAIN ids \ titles)
           ordered == first \o second
<1>2. ids \in Seq(ProductIds)
    <2>1. FirstPlaces(products) \in SUBSET DOMAIN products
        BY DEF FirstPlaces
    <2> QED  BY <1>1, <2>1
<1> HIDE DEF ids
<1>3. titles \in SUBSET DOMAIN ids /\ DOMAIN ids \ titles \in SUBSET DOMAIN ids
    OBVIOUS
<1>4. first \in Seq(ProductIds) /\ second \in Seq(ProductIds)
    <2> HIDE DEF titles
    <2> QED  BY <1>1, <1>2, <1>3
<1>5. CandidateIds(products) = SubSeq(ordered, 1, Least(MaxCandidates, Len(ordered)))
    BY DEF CandidateIds, ids
<1> HIDE DEF first, second, titles
<1>6. ordered \in Seq(ProductIds)
    BY <1>4
<1> HIDE DEF ordered
<1>7. Least(MaxCandidates, Len(ordered)) \in 0..Len(ordered)
    BY <1>6, Bounds DEF Least
<1> QED  BY <1>5, <1>6, <1>7

-----------------------------------------------------------------------------
(* What the steps keep *)

LEMMA OpeningStep ==
    ASSUME OpeningInv, opened' = opened, faults' \in 0..MaxFaults, held' \in BOOLEAN
    PROVE  OpeningInv'
<1>1. view' = view /\ list' = list /\ sorted' = sorted /\ slow' = slow
    BY DEF opened
<1> QED  BY <1>1 DEF OpeningInv, IsElement

LEMMA ClientStep ==
    ASSUME OpeningInv, ClientInv, opened' = opened, client' = client,
           client.status = "fetching" \/ request' = NoRequest
    PROVE  ClientInv'
<1>1. view' = view /\ list' = list /\ CardAt' = CardAt
    BY SameList
<1>2. Reached' = Reached
    BY <1>1 DEF Reached
<1> QED  BY <1>1, <1>2 DEF ClientInv

LEMMA AskedStep ==
    ASSUME AskedInv, opened' = opened, client' = client, request'.offset = request.offset,
           request'.left = request.left, request'.lost = request.lost
    PROVE  AskedInv'
<1>1. view' = view /\ list' = list /\ CardAt' = CardAt
    BY SameList
<1> QED  BY <1>1 DEF AskedInv

\* Positions without a game show nothing.
LEMMA ShowsMore ==
    ASSUME NEW A, NEW B, NEW cards, NEW of, Shows(<< >>, A, of), Shows(cards, B, of)
    PROVE  Shows(cards, A \cup B, of)
<1>1. \A n \in A : of[n] = NoCard
    BY ShowsNothingOfNothing, ShowsSomething
<1>2. PICK at \in [DOMAIN cards -> B] : ShowsAt(at, cards, B, of)
    BY DEF Shows
<1>3. ShowsAt(at, cards, A \cup B, of)
    BY <1>1, <1>2 DEF ShowsAt
<1> QED  BY <1>3, ShowsBecause

\* A request reads a page of Sony's list, behind what the browser has.
LEMMA PageFacts ==
    ASSUME OpeningInv, AskedInv, ClientInv
    PROVE  /\ client.next \in Nat /\ request.offset \in Nat /\ Len(list) \in Nat
           /\ client.next <= request.offset /\ request.offset <= Len(list)
           /\ request.lost \subseteq (client.next + 1)..request.offset
           /\ PagePositions \in SUBSET DOMAIN list
           /\ view \in Paged => PagePositions = (request.offset + 1)..(request.offset + Least(Size, Len(list) - request.offset))
           /\ view = "wishlist" => PagePositions = 1..Len(list) /\ request.offset = 0 /\ client.next = 0
<1>1. Len(list) \in Nat /\ DOMAIN list = 1..Len(list)
    BY DEF OpeningInv
<1>2. request.offset \in client.next..Len(list) /\ request.lost \subseteq (client.next + 1)..request.offset
    BY DEF AskedInv
<1>3. client.next \in 0..Len(list)
    BY DEF AskedInv, ClientInv
<1>4. client.next \in Nat /\ request.offset \in Nat /\ client.next <= request.offset /\ request.offset <= Len(list)
    BY <1>1, <1>2, <1>3
<1>5. view \in Paged => PagePositions = (request.offset + 1)..(request.offset + Least(Size, Len(list) - request.offset))
    BY DEF PagePositions, RawPositions
<1>6. view \notin Paged => PagePositions = DOMAIN list
    BY DEF PagePositions
<1>7. PagePositions \in SUBSET DOMAIN list
    <2>1. CASE view \notin Paged
        BY <1>6, <2>1
    <2>2. CASE view \in Paged
        <3>1. request.offset + Least(Size, Len(list) - request.offset) <= Len(list)
            BY <1>1, <1>4, Bounds DEF Least
        <3>2. Least(Size, Len(list) - request.offset) \in Nat
            BY <1>1, <1>4, Bounds DEF Least
        <3> QED  BY <1>1, <1>4, <1>5, <2>2, <3>1, <3>2
    <2> QED  BY <2>1, <2>2
<1>8. ASSUME view = "wishlist"  PROVE PagePositions = 1..Len(list) /\ request.offset = 0 /\ client.next = 0
    <2>1. view \notin Paged
        BY <1>8 DEF Paged
    <2>2. request.offset = 0
        BY <1>8 DEF AskedInv
    <2> QED  BY <1>1, <1>4, <1>6, <2>1, <2>2
<1> QED  BY <1>1, <1>2, <1>4, <1>5, <1>7, <1>8

\* A failed request.
LEMMA FailStep ==
    ASSUME PagesInv, AskedInv, opened' = opened, faults' \in 0..MaxFaults, RequestFails
    PROVE  PagesInv'
<1>1. view' = view /\ list' = list /\ CardAt' = CardAt
    BY SameList
<1>2. request' = NoRequest /\ held' \in BOOLEAN
    BY DEF RequestFails
<1>3. OpeningInv'
    BY <1>2, OpeningStep DEF PagesInv
<1>4. RequestInv'
    <2>1. /\ DOMAIN NoRequest = {"state", "offset", "left", "last", "blind", "items", "pool", "tried", "since", "clock", "lost"}
          /\ NoRequest.state = "none" /\ NoRequest.clock = 0 /\ NoRequest.last = FALSE /\ NoRequest.blind = FALSE
        BY DEF NoRequest
    <2>2. 0 \in 0..TotalTimeout
        BY Bounds
    <2> QED  BY <1>2, <2>1, <2>2 DEF RequestInv, IsRequest
<1>5. /\ DOMAIN client = {"status", "retried", "loaded", "next", "cards", "lost", "blind"}
      /\ client.status = "fetching" /\ client.next # End
    BY DEF PagesInv, ClientInv, AskedInv
<1>6. /\ DOMAIN client' = DOMAIN client /\ client'.loaded = client.loaded /\ client'.next = client.next
      /\ client'.cards = client.cards /\ client'.lost = client.lost /\ client'.blind = client.blind
      /\ client'.status \in {"fetching", "failed"} /\ client'.retried \in BOOLEAN
    BY <1>5 DEF RequestFails
<1>7. Reached' = Reached
    BY <1>1, <1>6 DEF Reached
<1>8. ClientInv'
    BY <1>1, <1>2, <1>5, <1>6, <1>7 DEF ClientInv, PagesInv
<1> QED  BY <1>3, <1>4, <1>8 DEF PagesInv

\* The browser asks for the next page.
LEMMA AskStep ==
    ASSUME PagesInv, client.next # End, Ask
    PROVE  PagesInv'
<1>1. opened' = opened /\ faults' = faults /\ held' = held
    BY DEF Ask
<1>2. view' = view /\ list' = list /\ CardAt' = CardAt
    BY <1>1, SameList
<1>3. OpeningInv'
    <2>1. faults' \in 0..MaxFaults /\ held' \in BOOLEAN
        BY <1>1 DEF PagesInv, OpeningInv
    <2> QED  BY <1>1, <2>1, OpeningStep DEF PagesInv
<1>4. DOMAIN client = {"status", "retried", "loaded", "next", "cards", "lost", "blind"}
    BY DEF PagesInv, ClientInv
<1>5. /\ DOMAIN client' = DOMAIN client /\ client'.loaded = client.loaded /\ client'.next = client.next
      /\ client'.cards = client.cards /\ client'.lost = client.lost /\ client'.blind = client.blind
      /\ client'.status = "fetching" /\ client'.retried = client.retried
    BY <1>4 DEF Ask
<1>6. Reached' = Reached
    BY <1>2, <1>5 DEF Reached
<1>7. ClientInv'
    BY <1>2, <1>4, <1>5, <1>6 DEF ClientInv, PagesInv
<1>8. client.next \in 0..Len(list) /\ Len(list) \in Nat
    BY DEF PagesInv, ClientInv, OpeningInv
<1>9. request' = ReadFrom(client.next, RawPageBound, {})
    BY DEF Ask, NewRequest
<1>10. /\ DOMAIN request' = {"state", "offset", "left", "last", "blind", "items", "pool", "tried", "since", "clock", "lost"}
       /\ request'.state = "reading" /\ request'.offset = client.next /\ request'.left = RawPageBound
       /\ request'.lost = {} /\ request'.clock = 0 /\ request'.last = FALSE /\ request'.blind = FALSE
    BY <1>9 DEF ReadFrom, NoRequest
<1>11. AskedInv'
    <2>1. client.next \in client.next..Len(list) /\ RawPageBound \in 1..RawPageBound
        BY <1>8, Bounds
    <2>2. (client.next + 1)..client.next = {}
        BY <1>8
    <2>3. Shows(<< >>, ((client.next + 1)..client.next) \ {}, CardAt)
        BY <2>2, ShowsNothingOfNothing
    <2>4. view = "wishlist" => client.next = 0
        BY DEF PagesInv, ClientInv
    <2> QED  BY <1>2, <1>5, <1>10, <2>1, <2>3, <2>4 DEF AskedInv
<1>12. RequestInv'
    <2>1. 0 \in 0..TotalTimeout
        BY Bounds
    <2>2. IsRequest'
        BY <1>10, <2>1 DEF IsRequest
    <2>3. request'.state = "reading"
        BY <1>10
    <2>4. request' = ReadFrom(request'.offset, request'.left, request'.lost)
        BY <1>9, <1>10
    <2> QED  BY <1>11, <2>2, <2>3, <2>4 DEF RequestInv, ReadFrom, NoRequest
<1> QED  BY <1>3, <1>7, <1>12 DEF PagesInv

\* The candidates of an entry are a sequence.
LEMMA CandidatesFacts ==
    ASSUME OpeningInv, NEW n \in DOMAIN list, n \in Entries({n})
    PROVE  \E S : CandidatesOf(n) \in Seq(S)
<1>1. ASSUME view = "browse"  PROVE CandidatesOf(n) \in Seq(ProductIds)
    BY <1>1, ElementFacts, CandidateFacts DEF CandidatesOf
<1>2. ASSUME view = "search"  PROVE CandidatesOf(n) \in Seq({Head(list[n].products)})
    <2> DEFINE p == Head(list[n].products)
    <2>1. CandidatesOf(n) = <<p>>
        BY <1>2 DEF CandidatesOf
    <2> HIDE DEF p
    <2>2. <<p>> \in Seq({p})
        OBVIOUS
    <2> QED  BY <2>1, <2>2 DEF p
<1>3. ASSUME view = "wishlist"  PROVE CandidatesOf(n) \in Seq({list[n].id})
    <2>1. CandidatesOf(n) = <<list[n].id>> \/ CandidatesOf(n) = << >>
        BY <1>3 DEF CandidatesOf
    <2>2. \A p : <<p>> \in Seq({p}) /\ << >> \in Seq({p})
        OBVIOUS
    <2> QED  BY <2>1, <2>2
<1> QED  BY <1>1, <1>2, <1>3, ViewCases

\* A page of as many concepts as were asked for is a full one.
LEMMA FullPage ==
    ASSUME OpeningInv, AskedInv, ClientInv, view \in Paged, ~(Cardinality(Concepts(PagePositions)) < Size)
    PROVE  request.offset + Size <= Len(list)
<1> DEFINE offset == request.offset
           rest == Least(Size, Len(list) - offset)
           concepts == Concepts(PagePositions)
<1>1. offset \in Nat /\ Len(list) \in Nat /\ offset <= Len(list) /\ PagePositions = (offset + 1)..(offset + rest)
    BY PageFacts
<1>2. rest \in Nat /\ rest <= Len(list) - offset /\ rest <= Size /\ Size \in Nat
    BY <1>1, Bounds DEF Least
<1>3. concepts \in SUBSET PagePositions
    BY DEF Concepts, Decoded
<1> HIDE DEF offset, rest, concepts
<1>4. IsFiniteSet(PagePositions) /\ Cardinality(PagePositions) = rest
    <2>1. offset + 1 \in Int /\ offset + rest \in Int
        BY <1>1, <1>2
    <2>2. Cardinality((offset + 1)..(offset + rest))
          = IF offset + 1 > offset + rest THEN 0 ELSE (offset + rest) - (offset + 1) + 1
        BY <2>1, FS_Interval
    <2>3. IsFiniteSet((offset + 1)..(offset + rest))
        BY <2>1, FS_Interval
    <2> QED  BY <1>1, <1>2, <2>2, <2>3
<1>5. Cardinality(concepts) <= rest /\ Cardinality(concepts) \in Nat
    BY <1>3, <1>4, FS_Subset, FS_CardinalityType
<1>6. Cardinality(concepts) >= Size
    BY <1>2, <1>5 DEF concepts
<1> QED  BY <1>1, <1>2, <1>5, <1>6 DEF offset

\* Sony's page arrives.
LEMMA PageReadStep ==
    ASSUME PagesInv, NEW readable \in BOOLEAN, PageRead(readable)
    PROVE  PagesInv'
<1> DEFINE items == Items(PagePositions)
           pool == NewPool(Len(items), Limit)
           atEnd == view \in Paged => request.offset + Size >= Len(list)
           short == Cardinality(Concepts(PagePositions)) < Size
<1>1. OpeningInv /\ RequestInv /\ ClientInv
    BY DEF PagesInv
<1>2. request.state = "reading" /\ opened' = opened /\ faults' = faults /\ held' = held /\ client' = client
    BY DEF PageRead
<1>3. AskedInv /\ client.status = "fetching"
    BY <1>1, <1>2 DEF RequestInv, AskedInv
<1>4. DOMAIN request = {"state", "offset", "left", "last", "blind", "items", "pool", "tried", "since", "clock", "lost"}
      /\ request.clock \in 0..TotalTimeout
    BY <1>1 DEF RequestInv, IsRequest
<1>5. /\ DOMAIN request' = DOMAIN request /\ request'.state = "resolving"
      /\ request'.offset = request.offset /\ request'.left = request.left /\ request'.lost = request.lost
      /\ request'.clock = request.clock
      /\ request'.items = items /\ request'.pool = pool
      /\ request'.last = (IF readable THEN atEnd ELSE short) /\ request'.blind = (~readable /\ short /\ ~atEnd)
      /\ request'.tried = [k \in DOMAIN items |-> 1] /\ request'.since = [k \in DOMAIN items |-> 0]
    BY <1>4 DEF PageRead, PagePositions
<1>6. OpeningInv' /\ ClientInv'
    <2>1. faults' \in 0..MaxFaults /\ held' \in BOOLEAN
        BY <1>1, <1>2 DEF OpeningInv
    <2> QED  BY <1>1, <1>2, <1>3, <2>1, OpeningStep, ClientStep
<1>7. AskedInv'
    BY <1>2, <1>3, <1>5, AskedStep
<1>8. PagePositions' = PagePositions /\ (Items(PagePositions))' = items /\ view' = view /\ list' = list
    BY <1>2, <1>5, SamePage, SameList
<1>9. PagePositions \in SUBSET DOMAIN list
    BY <1>1, <1>3, PageFacts
<1>10. \A k \in DOMAIN items : TriedInv(items[k], 1)
    <2> TAKE k \in DOMAIN items
    <2> DEFINE order == InOrder[FirstEntries(PagePositions)]
               n == order[k]
    <2>1. items[k] = Item(n, PagePositions) /\ n \in FirstEntries(PagePositions)
        BY <1>1, <1>9, ItemsFacts
    <2> HIDE DEF n, items
    <2>2. n \in Entries(PagePositions)
        BY <2>1 DEF FirstEntries
    <2>3. n \in DOMAIN list /\ n \in Entries({n})
        BY <1>1, <1>9, <2>2, EntryIsEntry
    <2>4. items[k].candidates = CandidatesOf(n)
        BY <2>1 DEF Item
    <2>5. PICK S : CandidatesOf(n) \in Seq(S)
        BY <1>1, <2>3, CandidatesFacts
    <2>6. CandidatesOf(n) # << >> => 1 \in DOMAIN CandidatesOf(n)
        BY <2>5
    <2> QED  BY <2>4, <2>6 DEF TriedInv
<1>11. Len(items) \in Nat
    BY <1>1, <1>9, ItemsFacts
<1>12. IsPool(pool, Len(items)) /\ DOMAIN pool.done = {}
    <2>1. pool.done = << >>
        BY <1>11, PoolBegins
    <2> HIDE DEF pool
    <2> QED  BY <1>11, <2>1, PoolBegins DEF pool
<1>13. ~request'.last => view \in Paged /\ request.offset + Size <= Len(list)
    <2>1. request.offset \in Nat /\ Len(list) \in Nat /\ Size \in Nat
        BY <1>1, <1>3, PageFacts, Bounds
    <2>2. CASE readable
        <3>1. request'.last = atEnd
            BY <1>5, <2>2
        <3>2. ~atEnd => view \in Paged /\ ~(request.offset + Size >= Len(list))
            OBVIOUS
        <3> HIDE DEF atEnd
        <3> QED  BY <2>1, <3>1, <3>2
    <2>3. CASE ~readable
        <3>1. view \in Paged
            BY <2>3 DEF PageRead, Paged
        <3> QED  BY <1>1, <1>3, <1>5, <2>3, <3>1, FullPage
    <2> QED  BY <2>2, <2>3
<1>14. request'.last /\ ~request'.blind => atEnd
    BY <1>5
<1>18. request'.last \in BOOLEAN /\ request'.blind \in BOOLEAN
    <2>1. atEnd \in BOOLEAN /\ short \in BOOLEAN /\ (~readable /\ short /\ ~atEnd) \in BOOLEAN
        OBVIOUS
    <2> HIDE DEF atEnd, short
    <2> QED  BY <1>5, <2>1
<1> HIDE DEF items, pool, atEnd, short
<1>15. ResolvingInv'
    <2>1. request'.items = (Items(PagePositions))'
        BY <1>5, <1>8
    <2>2. IsPool(request'.pool, Len(request'.items))
        BY <1>5, <1>12
    <2>3. DOMAIN request'.pool.done = {}
        BY <1>5, <1>12
    <2>4. \A k \in DOMAIN request'.items : TriedInv(request'.items[k], request'.tried[k])
        BY <1>5, <1>10
    <2>5. DOMAIN request'.tried = DOMAIN request'.items /\ DOMAIN request'.since = DOMAIN request'.items
        BY <1>5
    <2>6. ~request'.last => view' \in Paged /\ request'.offset + Size <= Len(list')
        BY <1>5, <1>8, <1>13
    <2>7. request'.last /\ ~request'.blind => (view' \in Paged => request'.offset + Size >= Len(list'))
        BY <1>5, <1>8, <1>14 DEF atEnd
    <2> QED  BY <2>1, <2>2, <2>3, <2>4, <2>5, <2>6, <2>7 DEF ResolvingInv
<1>16. IsRequest'
    BY <1>4, <1>5, <1>18 DEF IsRequest
<1>17. RequestInv'
    BY <1>5, <1>7, <1>15, <1>16 DEF RequestInv
<1> QED  BY <1>6, <1>17 DEF PagesInv

\* What holds while the items of a page are looked up.
LEMMA ResolvingFacts ==
    ASSUME PagesInv, request.state = "resolving"
    PROVE  /\ OpeningInv /\ ClientInv /\ AskedInv /\ ResolvingInv /\ client.status = "fetching"
           /\ DOMAIN request = {"state", "offset", "left", "last", "blind", "items", "pool", "tried", "since", "clock", "lost"}
           /\ request.clock \in 0..TotalTimeout /\ faults \in 0..MaxFaults /\ held \in BOOLEAN
           /\ Len(request.items) \in Nat /\ DOMAIN request.items = 1..Len(request.items)
           /\ PagePositions \in SUBSET DOMAIN list
           /\ \A k \in DOMAIN request.items :
                 request.items[k] = Item(PageOrder[k], PagePositions) /\ PageOrder[k] \in FirstEntries(PagePositions)
<1>1. OpeningInv /\ ClientInv /\ AskedInv /\ ResolvingInv
    BY DEF PagesInv, RequestInv
<1>2. /\ client.status = "fetching" /\ request.clock \in 0..TotalTimeout /\ faults \in 0..MaxFaults /\ held \in BOOLEAN
      /\ DOMAIN request = {"state", "offset", "left", "last", "blind", "items", "pool", "tried", "since", "clock", "lost"}
    BY DEF PagesInv, RequestInv, IsRequest, AskedInv, OpeningInv
<1>3. request.items = Items(PagePositions) /\ PagePositions \in SUBSET DOMAIN list
    BY <1>1, PageFacts DEF ResolvingInv
<1>4. LET items == Items(PagePositions)
          order == InOrder[FirstEntries(PagePositions)]
      IN  /\ Len(items) \in Nat /\ DOMAIN items = 1..Len(items)
          /\ \A k \in DOMAIN items : items[k] = Item(order[k], PagePositions) /\ order[k] \in FirstEntries(PagePositions)
    BY <1>1, <1>3, ItemsFacts
<1> QED  BY <1>1, <1>2, <1>3, <1>4 DEF PageOrder

\* A step while the lookups of a page run.
LEMMA ResolvingStep ==
    ASSUME PagesInv, request.state = "resolving", opened' = opened, client' = client,
           faults' \in 0..MaxFaults, held' = held,
           DOMAIN request' = DOMAIN request, request'.state = "resolving",
           request'.offset = request.offset, request'.left = request.left, request'.lost = request.lost,
           request'.last = request.last, request'.blind = request.blind, request'.items = request.items,
           request'.clock \in 0..TotalTimeout,
           DOMAIN request'.tried = DOMAIN request.items, DOMAIN request'.since = DOMAIN request.items,
           \A k \in DOMAIN request.items : TriedInv(request.items[k], request'.tried[k]),
           IsPool(request'.pool, Len(request.items)),
           \A k \in DOMAIN request'.pool.done :
               Resolves(request'.pool.done[k].output, CardAt[PageOrder[request'.pool.done[k].item]])
    PROVE  PagesInv'
<1>1. /\ OpeningInv /\ ClientInv /\ AskedInv /\ ResolvingInv /\ client.status = "fetching" /\ held \in BOOLEAN
      /\ DOMAIN request = {"state", "offset", "left", "last", "blind", "items", "pool", "tried", "since", "clock", "lost"}
    BY ResolvingFacts
<1>2. OpeningInv' /\ ClientInv'
    BY <1>1, OpeningStep, ClientStep
<1>3. AskedInv'
    BY <1>1, AskedStep
<1>4. view' = view /\ list' = list /\ CardAt' = CardAt /\ PageOrder' = PageOrder
      /\ PagePositions' = PagePositions /\ (Items(PagePositions))' = Items(PagePositions)
    BY SamePage, SameList
<1>5. ResolvingInv'
    <2>1. request'.items = (Items(PagePositions))'
        BY <1>1, <1>4 DEF ResolvingInv
    <2>2. \A k \in DOMAIN request'.pool.done :
              Resolves(request'.pool.done[k].output, CardAt'[PageOrder'[request'.pool.done[k].item]])
        BY <1>4
    <2>3. ~request'.last => view' \in Paged /\ request'.offset + Size <= Len(list')
        BY <1>1, <1>4 DEF ResolvingInv
    <2>4. request'.last /\ ~request'.blind => (view' \in Paged => request'.offset + Size >= Len(list'))
        BY <1>1, <1>4 DEF ResolvingInv
    <2>5. /\ DOMAIN request'.tried = DOMAIN request'.items /\ DOMAIN request'.since = DOMAIN request'.items
          /\ \A k \in DOMAIN request'.items : TriedInv(request'.items[k], request'.tried[k])
          /\ IsPool(request'.pool, Len(request'.items))
        OBVIOUS
    <2> QED  BY <2>1, <2>2, <2>3, <2>4, <2>5 DEF ResolvingInv
<1>6. IsRequest'
    <2>1. request.last \in BOOLEAN /\ request.blind \in BOOLEAN
        BY DEF PagesInv, RequestInv, IsRequest
    <2> QED  BY <1>1, <2>1 DEF IsRequest
<1> QED  BY <1>2, <1>3, <1>5, <1>6 DEF PagesInv, RequestInv

\* A lookup that ends with what its element stands for.
LEMMA ItemEndsStep ==
    ASSUME PagesInv, NEW k, IsRunning(k), NEW output, Resolves(output, CardAt[PageOrder[k]]), ItemEnds(k, output),
           opened' = opened, client' = client, faults' \in 0..MaxFaults, held' = held
    PROVE  PagesInv'
<1> DEFINE size == Len(request.items)
           pool == request.pool
           after == Finish(pool, k, output, Limit)
           n == Len(pool.done)
<1>1. request.state = "resolving" /\ k \in Unfinished(pool)
    BY DEF IsRunning
<1>2. /\ DOMAIN request = {"state", "offset", "left", "last", "blind", "items", "pool", "tried", "since", "clock", "lost"}
      /\ request.clock \in 0..TotalTimeout /\ size \in Nat /\ ResolvingInv
    BY <1>1, ResolvingFacts
<1>3. /\ IsPool(pool, size) /\ DOMAIN request.tried = DOMAIN request.items /\ DOMAIN request.since = DOMAIN request.items
      /\ \A i \in DOMAIN request.items : TriedInv(request.items[i], request.tried[i])
      /\ \A i \in DOMAIN pool.done : Resolves(pool.done[i].output, CardAt[PageOrder[pool.done[i].item]])
    BY <1>2 DEF ResolvingInv
<1>4. /\ DOMAIN request' = DOMAIN request /\ request'.state = request.state
      /\ request'.offset = request.offset /\ request'.left = request.left /\ request'.lost = request.lost
      /\ request'.last = request.last /\ request'.blind = request.blind /\ request'.items = request.items
      /\ request'.clock = request.clock /\ request'.tried = request.tried
      /\ request'.pool = after /\ DOMAIN request'.since = DOMAIN request.since
    BY <1>2 DEF ItemEnds
<1> HIDE DEF pool, size
<1>5. /\ IsPool(after, size) /\ DOMAIN after.done = 1..(n + 1) /\ after.done[n + 1] = [item |-> k, output |-> output]
      /\ \A j \in 1..n : after.done[j] = pool.done[j]
    BY <1>1, <1>2, <1>3, PoolGoesOn
<1>6. n \in Nat /\ DOMAIN pool.done = 1..n
    BY <1>2, <1>3, PoolFacts
<1> HIDE DEF after, n
<1>7. \A i \in DOMAIN after.done : Resolves(after.done[i].output, CardAt[PageOrder[after.done[i].item]])
    <2> TAKE i \in DOMAIN after.done
    <2>1. i \in 1..n \/ i = n + 1
        BY <1>5, <1>6
    <2>2. CASE i \in 1..n
        <3>1. after.done[i] = pool.done[i] /\ i \in DOMAIN pool.done
            BY <1>5, <1>6, <2>2
        <3>2. Resolves(pool.done[i].output, CardAt[PageOrder[pool.done[i].item]])
            BY <1>3, <3>1
        <3> QED  BY <3>1, <3>2
    <2>3. CASE i = n + 1
        <3>1. after.done[i].output = output /\ after.done[i].item = k
            BY <1>5, <2>3
        <3> QED  BY <3>1
    <2> QED  BY <2>1, <2>2, <2>3
<1>8. IsPool(request'.pool, Len(request.items))
    BY <1>4, <1>5 DEF size
<1>9. \A i \in DOMAIN request'.pool.done :
          Resolves(request'.pool.done[i].output, CardAt[PageOrder[request'.pool.done[i].item]])
    BY <1>4, <1>7
<1>10. \A i \in DOMAIN request.items : TriedInv(request.items[i], request'.tried[i])
    BY <1>3, <1>4
<1> QED  BY <1>1, <1>2, <1>3, <1>4, <1>8, <1>9, <1>10, ResolvingStep

-----------------------------------------------------------------------------
(* What the lookups come to *)

\* The item k of the page is that of the position PageOrder[k].
LEMMA RunningFacts ==
    ASSUME PagesInv, NEW k, IsRunning(k)
    PROVE  LET n == PageOrder[k]
               item == request.items[k]
           IN  /\ request.state = "resolving" /\ k \in DOMAIN request.items
               /\ n \in DOMAIN list /\ n \in Entries({n}) /\ CardAt[n] = CardOf(n)
               /\ item.id = IdOf(n) /\ item.candidates = CandidatesOf(n) /\ item.known = IsKnown(n)
               /\ TriedInv(item, request.tried[k])
<1> DEFINE n == PageOrder[k]
           item == request.items[k]
<1>1. request.state = "resolving" /\ k \in Unfinished(request.pool)
    BY DEF IsRunning
<1>2. /\ OpeningInv /\ ResolvingInv /\ Len(request.items) \in Nat /\ DOMAIN request.items = 1..Len(request.items)
      /\ PagePositions \in SUBSET DOMAIN list
      /\ \A i \in DOMAIN request.items :
            request.items[i] = Item(PageOrder[i], PagePositions) /\ PageOrder[i] \in FirstEntries(PagePositions)
    BY <1>1, ResolvingFacts
<1>3. IsPool(request.pool, Len(request.items))
    BY <1>2 DEF ResolvingInv
<1>4. k \in DOMAIN request.items
    <2>1. request.pool.started \in 0..Len(request.items)
        BY <1>2, <1>3, PoolFacts
    <2>2. k \in 1..request.pool.started
        BY <1>1 DEF Unfinished
    <2> QED  BY <1>2, <2>1, <2>2
<1>5. item = Item(n, PagePositions) /\ n \in Entries(PagePositions)
    BY <1>2, <1>4 DEF FirstEntries
<1> HIDE DEF n, item
<1>6. n \in DOMAIN list /\ n \in Entries({n})
    BY <1>2, <1>5, EntryIsEntry
<1>7. CardAt[n] = CardOf(n)
    BY <1>6 DEF CardAt
<1>8. item.id = IdOf(n) /\ item.candidates = CandidatesOf(n) /\ item.known = IsKnown(n)
    BY <1>5 DEF Item
<1>9. TriedInv(item, request.tried[k])
    BY <1>2, <1>4 DEF ResolvingInv, item
<1> QED  BY <1>1, <1>4, <1>6, <1>7, <1>8, <1>9 DEF n, item

\* Whatever a lookup answers, its item resolves to the card of its element.
LEMMA ResolutionIsTrue ==
    ASSUME PagesInv, NEW k, IsRunning(k), request.items[k].candidates # << >>, NEW found \in BOOLEAN,
           ~GoesOn(request.items[k], request.tried[k], found)
    PROVE  Resolves(Resolution(request.items[k], request.tried[k], found), CardAt[PageOrder[k]])
<1> DEFINE n == PageOrder[k]
           item == request.items[k]
           tried == request.tried[k]
<1>1. /\ request.state = "resolving" /\ n \in DOMAIN list /\ n \in Entries({n}) /\ CardAt[n] = CardOf(n)
      /\ item.id = IdOf(n) /\ item.candidates = CandidatesOf(n) /\ item.known = IsKnown(n)
      /\ TriedInv(item, tried)
    BY RunningFacts
<1>2. OpeningInv
    BY DEF PagesInv
<1>3. item.candidates # << >> /\ ~GoesOn(item, tried, found)
    OBVIOUS
<1>4. \A id, from : Card(id, from).card = id
    BY DEF Card
<1> HIDE DEF n, item, tried
<1>5. PICK S : item.candidates \in Seq(S)
    BY <1>1, <1>2, CandidatesFacts
<1>6. /\ Len(item.candidates) \in Nat /\ DOMAIN item.candidates = 1..Len(item.candidates)
      /\ tried \in DOMAIN item.candidates /\ tried \in Nat
      /\ \A j \in 1..(tried - 1) : item.candidates[j] \notin Ps5Games
    BY <1>1, <1>3, <1>5 DEF TriedInv
<1>7. \A j \in DOMAIN item.candidates : j < tried => item.candidates[j] \notin Ps5Games
    BY <1>6
<1>8. ASSUME view = "browse"
      PROVE  Resolves(BrowseResolution(item, tried, found), CardOf(n))
    <2>1. CardOf(n) = FirstGame(item.candidates)
        BY <1>1, <1>2, <1>8, CardFacts DEF CandidatesOf
    <2>2. CASE ~found
        BY <2>2 DEF BrowseResolution, Resolves
    <2>3. CASE found /\ item.candidates[tried] \in Ps5Games
        <3>1. FirstGame(item.candidates) = item.candidates[tried]
            BY <1>6, <1>7, <2>3, FirstGameIs
        <3>2. BrowseResolution(item, tried, found) = Card(item.candidates[tried], "store")
            BY <2>3 DEF BrowseResolution
        <3> QED  BY <1>4, <2>1, <3>1, <3>2 DEF Resolves
    <2>4. CASE found /\ item.candidates[tried] \notin Ps5Games
        <3>1. ~(tried < Len(item.candidates))
            BY <1>3, <1>8, <2>4 DEF GoesOn, BrowseGoesOn
        <3>2. \A j \in DOMAIN item.candidates : j < tried \/ j = tried
            BY <1>6, <3>1
        <3>3. \A j \in DOMAIN item.candidates : item.candidates[j] \notin Ps5Games
            BY <1>7, <2>4, <3>2
        <3>4. FirstGame(item.candidates) = NoCard
            BY <3>3, NoFirstGame
        <3>5. BrowseResolution(item, tried, found) = Card(NoCard, "dropped")
            BY <2>4 DEF BrowseResolution, Dropped
        <3> QED  BY <1>4, <2>1, <3>4, <3>5 DEF Resolves
    <2> QED  BY <2>2, <2>3, <2>4
<1>9. ASSUME view = "search"
      PROVE  Resolves(SearchResolution(item, found), CardOf(n))
    <2>1. CardOf(n) = IF item.id \in Ps5Games THEN item.id ELSE NoCard
        BY <1>1, <1>2, <1>9, CardFacts
    <2>2. item.known => item.id \in Ps5Games
        BY <1>1, <1>2, <1>9, CardFacts
    <2>3. CASE item.known
        <3>1. SearchResolution(item, found).card = item.id
            BY <1>4, <2>3 DEF SearchResolution
        <3> QED  BY <2>1, <2>2, <2>3, <3>1 DEF Resolves
    <2>4. CASE ~item.known /\ found
        <3>1. SearchResolution(item, found) = IF item.id \in Ps5Games THEN Card(item.id, "store") ELSE Card(NoCard, "dropped")
            BY <2>4 DEF SearchResolution, Dropped
        <3> QED  BY <1>4, <2>1, <3>1 DEF Resolves
    <2>5. CASE ~item.known /\ ~found
        BY <2>5 DEF SearchResolution, Resolves
    <2> QED  BY <2>3, <2>4, <2>5
<1>10. ASSUME view = "wishlist"
       PROVE  Resolves(EnrichedEntry(item, found), CardOf(n))
    <2>1. CardOf(n) = item.id
        BY <1>1, <1>2, <1>10, CardFacts
    <2>2. EnrichedEntry(item, found).card = item.id
        BY <1>4 DEF EnrichedEntry
    <2> QED  BY <2>1, <2>2 DEF Resolves
<1>11. Resolves(Resolution(item, tried, found), CardOf(n))
    <2>1. CASE view = "browse"
        BY <1>8, <2>1 DEF Resolution
    <2>2. CASE view = "search"
        BY <1>9, <2>2 DEF Resolution
    <2>3. CASE view = "wishlist"
        BY <1>10, <2>3 DEF Resolution
    <2> QED  BY <1>2, <2>1, <2>2, <2>3, ViewCases
<1> QED  BY <1>1, <1>11 DEF n, item, tried

\* What an item is without a lookup agrees with what its element stands for.
LEMMA WithoutIsTrue ==
    ASSUME PagesInv, NEW k, IsRunning(k), view = "wishlist" \/ request.items[k].candidates = << >>
    PROVE  Resolves(Without(request.items[k]), CardAt[PageOrder[k]])
<1> DEFINE n == PageOrder[k]
           item == request.items[k]
<1>1. /\ n \in DOMAIN list /\ n \in Entries({n}) /\ CardAt[n] = CardOf(n)
      /\ item.id = IdOf(n) /\ item.candidates = CandidatesOf(n)
    BY RunningFacts
<1>2. OpeningInv /\ (view = "wishlist" \/ item.candidates = << >>)
    BY DEF PagesInv
<1>3. \A id, from : Card(id, from).card = id
    BY DEF Card
<1> HIDE DEF n, item
<1>4. CASE view = "wishlist"
    <2>1. CardOf(n) = item.id
        BY <1>1, <1>2, <1>4, CardFacts
    <2>2. Without(item).card = item.id
        BY <1>3, <1>4 DEF Without, EnrichedEntry
    <2> QED  BY <1>1, <2>1, <2>2 DEF Resolves, n, item
<1>5. CASE view = "browse"
    <2>1. CardOf(n) = FirstGame(item.candidates) /\ item.candidates = << >>
        BY <1>1, <1>2, <1>5, CardFacts DEF CandidatesOf
    <2>2. CardOf(n) = NoCard
        BY <2>1, NoFirstGame
    <2>3. Without(item).card = NoCard
        BY <1>3, <1>5 DEF Without, Dropped
    <2> QED  BY <1>1, <2>2, <2>3 DEF Resolves, n, item
<1>6. CASE view = "search"
    <2>1. item.candidates = <<Head(list[n].products)>> /\ item.candidates = << >>
        BY <1>1, <1>2, <1>6 DEF CandidatesOf
    <2>2. \A p : <<p>> # << >>
        OBVIOUS
    <2> QED  BY <2>1, <2>2
<1> QED  BY <1>2, <1>4, <1>5, <1>6, ViewCases

\* A lookup finds its product or fails.
LEMMA LookupEndsStep ==
    ASSUME PagesInv, NEW k, NEW found \in BOOLEAN, LookupEnds(k, found)
    PROVE  PagesInv'
<1> DEFINE item == request.items[k]
           tried == request.tried[k]
<1>1. /\ IsRunning(k) /\ item.candidates # << >> /\ (found \/ faults < MaxFaults)
      /\ faults' = (IF found THEN faults ELSE faults + 1)
      /\ opened' = opened /\ held' = held /\ client' = client
    BY DEF LookupEnds
<1>2. /\ request.state = "resolving" /\ k \in DOMAIN request.items
      /\ PageOrder[k] \in DOMAIN list /\ PageOrder[k] \in Entries({PageOrder[k]})
      /\ item.candidates = CandidatesOf(PageOrder[k]) /\ TriedInv(item, tried)
    BY <1>1, RunningFacts
<1>3. faults' \in 0..MaxFaults
    <2>1. faults \in 0..MaxFaults
        BY <1>2, ResolvingFacts
    <2> QED  BY <1>1, <2>1, Bounds
<1>4. CASE GoesOn(item, tried, found)
    <2>1. request' = [request EXCEPT !.tried[k] = @ + 1]
        BY <1>4 DEF LookupEnds
    <2>2. /\ DOMAIN request = {"state", "offset", "left", "last", "blind", "items", "pool", "tried", "since", "clock", "lost"}
          /\ request.clock \in 0..TotalTimeout /\ ResolvingInv /\ OpeningInv
        BY <1>2, ResolvingFacts
    <2>3. /\ DOMAIN request.tried = DOMAIN request.items /\ DOMAIN request.since = DOMAIN request.items
          /\ IsPool(request.pool, Len(request.items))
          /\ \A i \in DOMAIN request.items : TriedInv(request.items[i], request.tried[i])
        BY <2>2 DEF ResolvingInv
    <2>4. \A i \in DOMAIN request.pool.done :
              Resolves(request.pool.done[i].output, CardAt[PageOrder[request.pool.done[i].item]])
        BY <2>2 DEF ResolvingInv
    <2>5. /\ DOMAIN request' = DOMAIN request /\ request'.state = request.state
          /\ request'.offset = request.offset /\ request'.left = request.left /\ request'.lost = request.lost
          /\ request'.last = request.last /\ request'.blind = request.blind /\ request'.items = request.items
          /\ request'.clock = request.clock /\ request'.pool = request.pool /\ request'.since = request.since
          /\ request'.tried = [request.tried EXCEPT ![k] = request.tried[k] + 1]
        BY <2>1, <2>2
    <2>6. TriedInv(item, tried + 1)
        <3>1. item.candidates[tried] \notin Ps5Games /\ tried < Len(item.candidates)
            BY <1>4 DEF GoesOn, BrowseGoesOn
        <3>2. PICK S : item.candidates \in Seq(S)
            BY <1>2, <2>2, CandidatesFacts
        <3>3. tried \in Nat \ {0} /\ \A j \in 1..(tried - 1) : item.candidates[j] \notin Ps5Games
            BY <1>2 DEF TriedInv
        <3> HIDE DEF item, tried
        <3>4. tried + 1 \in Nat \ {0} /\ tried + 1 \in DOMAIN item.candidates
            BY <3>1, <3>2, <3>3
        <3>5. \A j \in 1..((tried + 1) - 1) : j \in 1..(tried - 1) \/ j = tried
            BY <3>3
        <3> QED  BY <3>1, <3>3, <3>4, <3>5 DEF TriedInv
    <2>7. \A i \in DOMAIN request.items : TriedInv(request.items[i], request'.tried[i])
        <3> TAKE i \in DOMAIN request.items
        <3>1. CASE i = k
            BY <1>2, <2>3, <2>5, <2>6, <3>1
        <3>2. CASE i # k
            <4>1. request'.tried[i] = request.tried[i]
                BY <2>3, <2>5, <3>2
            <4> QED  BY <2>3, <4>1
        <3> QED  BY <3>1, <3>2
    <2>8. \A i \in DOMAIN request'.pool.done :
              Resolves(request'.pool.done[i].output, CardAt[PageOrder[request'.pool.done[i].item]])
        BY <2>4, <2>5
    <2> QED  BY <1>1, <1>2, <1>3, <2>2, <2>3, <2>5, <2>7, <2>8, ResolvingStep
<1>5. CASE ~GoesOn(item, tried, found)
    <2>1. ItemEnds(k, Resolution(item, tried, found))
        BY <1>5 DEF LookupEnds
    <2> DEFINE output == Resolution(item, tried, found)
    <2>2. Resolves(output, CardAt[PageOrder[k]])
        BY <1>1, <1>5, ResolutionIsTrue
    <2> HIDE DEF output
    <2>3. ItemEnds(k, output)
        BY <2>1 DEF output
    <2> QED  BY <1>1, <1>3, <2>2, <2>3, ItemEndsStep
<1> QED  BY <1>4, <1>5

\* An item has nothing to look up, or its deadline passes.
LEMMA WithoutStep ==
    ASSUME PagesInv, NEW k, NothingToLookUp(k) \/ EntryTimesOut(k)
    PROVE  PagesInv'
<1> DEFINE output == Without(request.items[k])
<1>1. /\ IsRunning(k) /\ ItemEnds(k, output) /\ (view = "wishlist" \/ request.items[k].candidates = << >>)
      /\ opened' = opened /\ faults' = faults /\ held' = held /\ client' = client
    BY DEF NothingToLookUp, EntryTimesOut
<1>2. Resolves(output, CardAt[PageOrder[k]])
    BY <1>1, WithoutIsTrue
<1>3. faults' \in 0..MaxFaults
    BY <1>1 DEF PagesInv, OpeningInv
<1> HIDE DEF output
<1> QED  BY <1>1, <1>2, <1>3, ItemEndsStep

LEMMA TimeStep == ASSUME PagesInv, TimePasses PROVE PagesInv'
<1>1. /\ request.state = "resolving" /\ request.clock < TotalTimeout
      /\ opened' = opened /\ faults' = faults /\ held' = held /\ client' = client
      /\ request' = [request EXCEPT !.clock = @ + 1]
    BY DEF TimePasses
<1>2. /\ DOMAIN request = {"state", "offset", "left", "last", "blind", "items", "pool", "tried", "since", "clock", "lost"}
      /\ request.clock \in 0..TotalTimeout /\ faults \in 0..MaxFaults /\ ResolvingInv
    BY <1>1, ResolvingFacts
<1>3. /\ DOMAIN request' = DOMAIN request /\ request'.state = request.state
      /\ request'.offset = request.offset /\ request'.left = request.left /\ request'.lost = request.lost
      /\ request'.last = request.last /\ request'.blind = request.blind /\ request'.items = request.items
      /\ request'.pool = request.pool /\ request'.since = request.since /\ request'.tried = request.tried
      /\ request'.clock = request.clock + 1
    BY <1>1, <1>2
<1>4. request'.clock \in 0..TotalTimeout
    BY <1>1, <1>2, <1>3, Bounds
<1>5. /\ DOMAIN request.tried = DOMAIN request.items /\ DOMAIN request.since = DOMAIN request.items
      /\ IsPool(request.pool, Len(request.items))
      /\ \A i \in DOMAIN request.items : TriedInv(request.items[i], request.tried[i])
    BY <1>2 DEF ResolvingInv
<1>6. \A i \in DOMAIN request.pool.done :
          Resolves(request.pool.done[i].output, CardAt[PageOrder[request.pool.done[i].item]])
    BY <1>2 DEF ResolvingInv
<1> QED  BY <1>1, <1>2, <1>3, <1>4, <1>5, <1>6, ResolvingStep

-----------------------------------------------------------------------------
(* The end of a page *)

\* The answer reaches as far as it tells the browser.
LEMMA AnswerReaches ==
    ASSUME OpeningInv, ClientInv, AskedInv, ResolvingInv, request.last => ~request.blind
    PROVE  LET reached == IF request.last THEN Len(list) ELSE NextOffset
           IN  /\ reached \in request.offset..Len(list)
               /\ PagePositions = (request.offset + 1)..reached
<1> DEFINE offset == request.offset
<1>1. offset \in Nat /\ Len(list) \in Nat /\ offset <= Len(list) /\ Size \in Nat
    BY PageFacts, Bounds
<1>2. ASSUME ~request.last
      PROVE  NextOffset \in offset..Len(list) /\ PagePositions = (offset + 1)..NextOffset
    <2>1. view \in Paged /\ offset + Size <= Len(list)
        BY <1>2 DEF ResolvingInv
    <2>2. Least(Size, Len(list) - offset) = Size
        BY <1>1, <2>1 DEF Least
    <2>3. PagePositions = (offset + 1)..(offset + Size)
        BY <2>1, <2>2, PageFacts
    <2> QED  BY <1>1, <2>1, <2>3 DEF NextOffset
<1>3. ASSUME request.last
      PROVE  PagePositions = (offset + 1)..Len(list)
    <2>1. CASE view \in Paged
        <3>1. offset + Size >= Len(list)
            BY <1>3, <2>1 DEF ResolvingInv
        <3>2. offset + Least(Size, Len(list) - offset) = Len(list)
            BY <1>1, <3>1 DEF Least
        <3> QED  BY <2>1, <3>2, PageFacts
    <2>2. CASE view = "wishlist"
        <3>1. PagePositions = 1..Len(list) /\ offset = 0
            BY <2>2, PageFacts
        <3> QED  BY <3>1
    <2> QED  BY <2>1, <2>2 DEF OpeningInv, Views
<1> QED  BY <1>1, <1>2, <1>3

\* An answer adds the cards of a page to those of the browser.
LEMMA AnswerStep ==
    ASSUME PagesInv, request.state = "resolving", NEW cards, NEW lost,
           IsSequence(cards), Shows(cards, PagePositions \ lost, CardAt), lost \subseteq PagePositions,
           view = "wishlist" => EachOnce(cards), view = "browse" /\ cards = << >> => lost = {},
           Answer(cards, request.lost \cup lost), opened' = opened, faults' = faults, held' = held
    PROVE  PagesInv'
<1> DEFINE offset == request.offset
           before == 1..Reached
           between == (client.next + 1)..offset
<1>1. /\ OpeningInv /\ ClientInv /\ AskedInv /\ ResolvingInv /\ client.status = "fetching"
      /\ faults \in 0..MaxFaults /\ held \in BOOLEAN /\ PagePositions \in SUBSET DOMAIN list
    BY ResolvingFacts
<1>2. OpeningInv'
    BY <1>1, OpeningStep
<1>3. view' = view /\ list' = list /\ CardAt' = CardAt
    BY SameList
<1>4. request' = NoRequest
    BY DEF Answer
<1>5. RequestInv'
    <2>1. /\ DOMAIN NoRequest = {"state", "offset", "left", "last", "blind", "items", "pool", "tried", "since", "clock", "lost"}
          /\ NoRequest.state = "none" /\ NoRequest.clock = 0 /\ NoRequest.last = FALSE /\ NoRequest.blind = FALSE
        BY DEF NoRequest
    <2>2. 0 \in 0..TotalTimeout
        BY Bounds
    <2> QED  BY <1>4, <2>1, <2>2 DEF RequestInv, IsRequest
<1>6. /\ DOMAIN client' = {"status", "retried", "loaded", "next", "cards", "lost", "blind"}
      /\ client'.status = "idle" /\ client'.retried = FALSE /\ client'.loaded = TRUE
      /\ client'.next = (IF request.last THEN End ELSE NextOffset)
      /\ client'.cards = client.cards \o cards /\ client'.lost = client.lost \cup (request.lost \cup lost)
      /\ client'.blind = (client.blind \/ request.blind)
    BY DEF Answer
<1>7. /\ offset \in Nat /\ Len(list) \in Nat /\ offset <= Len(list) /\ Size \in Nat /\ DOMAIN list = 1..Len(list)
      /\ client.next \in Nat /\ client.next <= offset /\ request.lost \subseteq between /\ client.next # End
    BY <1>1, PageFacts, Bounds DEF OpeningInv
<1>8. Reached = client.next
    BY <1>7 DEF Reached
<1>9. request.last \in BOOLEAN /\ request.blind \in BOOLEAN /\ client.blind \in BOOLEAN
    BY <1>1 DEF PagesInv, RequestInv, IsRequest, ClientInv
<1>10. client'.next \in {End} \cup (0..Len(list))
    <2>1. ~request.last => offset + Size <= Len(list)
        BY <1>1 DEF ResolvingInv
    <2> QED  BY <1>6, <1>7, <2>1 DEF NextOffset
<1>11. Reached' = IF request.last THEN Len(list) ELSE NextOffset
    <2>1. ~request.last => NextOffset \in Nat
        BY <1>7 DEF NextOffset
    <2>2. ~request.last => client'.next # End
        BY <1>6, <2>1, Bounds
    <2> QED  BY <1>3, <1>6, <2>2 DEF Reached
<1>12. Reached' \in offset..Len(list)
    <2>1. ~request.last => offset + Size <= Len(list)
        BY <1>1 DEF ResolvingInv
    <2> QED  BY <1>7, <1>11, <2>1 DEF NextOffset
<1>13. PagePositions \subseteq (offset + 1)..Reached'
    <2>1. CASE request.last
        <3>1. Reached' = Len(list)
            BY <1>11, <2>1
        <3>2. CASE view \in Paged
            <4>1. PagePositions = (offset + 1)..(offset + Least(Size, Len(list) - offset))
                BY <1>1, <3>2, PageFacts
            <4>2. offset + Least(Size, Len(list) - offset) <= Len(list) /\ Least(Size, Len(list) - offset) \in Nat
                BY <1>7 DEF Least
            <4> QED  BY <1>7, <3>1, <4>1, <4>2
        <3>3. CASE view = "wishlist"
            <4>1. PagePositions = 1..Len(list) /\ offset = 0
                BY <1>1, <3>3, PageFacts
            <4> QED  BY <3>1, <4>1
        <3> QED  BY <1>1, <3>2, <3>3 DEF OpeningInv, Views
    <2>2. CASE ~request.last
        <3>1. view \in Paged /\ offset + Size <= Len(list)
            BY <1>1, <2>2 DEF ResolvingInv
        <3>2. Least(Size, Len(list) - offset) = Size
            BY <1>7, <3>1 DEF Least
        <3>3. PagePositions = (offset + 1)..(offset + Size)
            BY <1>1, <3>1, <3>2, PageFacts
        <3> QED  BY <1>11, <2>2, <3>3 DEF NextOffset
    <2> QED  BY <1>9, <2>1, <2>2
<1>14. client.lost \subseteq before /\ IsSequence(client.cards)
    BY <1>1 DEF ClientInv
<1>15. client'.lost \subseteq 1..Reached'
    <2>1. before \subseteq 1..Reached'
        BY <1>7, <1>8, <1>12
    <2>2. between \subseteq 1..Reached'
        BY <1>7, <1>12
    <2>3. PagePositions \subseteq 1..Reached'
        BY <1>7, <1>12, <1>13
    <2> QED  BY <1>6, <1>7, <1>14, <2>1, <2>2, <2>3
<1>16. IsSequence(client'.cards)
    <2>1. PICK m \in Nat : client.cards = [k \in 1..m |-> client.cards[k]]
        BY <1>14 DEF IsSequence
    <2>2. PICK c \in Nat : cards = [k \in 1..c |-> cards[k]]
        BY DEF IsSequence
    <2> DEFINE both == client.cards \o cards
    <2>3. both = [k \in 1..(m + c) |-> IF k <= m THEN client.cards[k] ELSE cards[k - m]]
        BY <2>1, <2>2, Concatenation
    <2>4. m + c \in Nat /\ DOMAIN both = 1..(m + c)
        BY <2>3
    <2> HIDE DEF both
    <2>5. both = [k \in 1..(m + c) |-> both[k]]
        BY <2>3, <2>4
    <2> QED  BY <1>6, <2>4, <2>5 DEF IsSequence, both
<1>17. ASSUME ~client'.blind
       PROVE  Shows(client'.cards, (1..Reached') \ client'.lost, CardAt)
    <2>1. ~client.blind /\ ~request.blind
        BY <1>6, <1>17
    <2>2. PagePositions = (offset + 1)..Reached'
        BY <1>1, <1>11, <2>1, AnswerReaches
    <2> DEFINE A == before \ client.lost
               B == between \ request.lost
               C == PagePositions \ lost
    <2>3. Shows(client.cards, A, CardAt)
        BY <1>1, <2>1 DEF ClientInv
    <2>4. Shows(<< >>, B, CardAt)
        BY <1>1 DEF AskedInv
    <2>5. Shows(cards, B \cup C, CardAt)
        <3> HIDE DEF B
        <3> QED  BY <2>4, ShowsMore
    <2>6. A \in SUBSET Nat /\ B \cup C \in SUBSET Nat
        BY <1>1, <1>7, <1>8
    <2>7. \A m \in A, n \in B \cup C : m < n
        BY <1>1, <1>7, <1>8, <2>2
    <2>8. A \cup (B \cup C) = (1..Reached') \ (client.lost \cup (request.lost \cup lost))
        <3>1. 1..Reached' = before \cup (between \cup PagePositions)
            BY <1>7, <1>8, <1>12, <2>2
        <3>2. before \cap between = {} /\ before \cap PagePositions = {} /\ between \cap PagePositions = {}
            BY <1>7, <1>8, <2>2
        <3> HIDE DEF before, between
        <3> QED  BY <1>7, <1>14, <3>1, <3>2
    <2>9. Shows(client.cards \o cards, A \cup (B \cup C), CardAt)
        <3> HIDE DEF A, B, C
        <3> QED  BY <1>14, <2>3, <2>5, <2>6, <2>7, ShowsBoth
    <2> QED  BY <1>6, <2>8, <2>9
<1>18. ASSUME view = "browse", client'.cards = << >>
       PROVE  client'.lost = {}
    <2>1. client.cards = << >> /\ cards = << >>
        <3>1. PICK m \in Nat : client.cards = [k \in 1..m |-> client.cards[k]]
            BY <1>14 DEF IsSequence
        <3>2. PICK c \in Nat : cards = [k \in 1..c |-> cards[k]]
            BY DEF IsSequence
        <3> DEFINE both == client.cards \o cards
        <3>3. both = [k \in 1..(m + c) |-> IF k <= m THEN client.cards[k] ELSE cards[k - m]]
            BY <3>1, <3>2, Concatenation
        <3>4. m + c = 0
            <4>1. both = << >>
                BY <1>6, <1>18
            <4>2. DOMAIN both = 1..(m + c)
                BY <3>3
            <4> HIDE DEF both
            <4>3. DOMAIN both = {}
                BY <4>1
            <4>4. m + c \in Nat
                OBVIOUS
            <4> QED  BY <4>2, <4>3, <4>4
        <3>5. m = 0 /\ c = 0
            BY <3>4
        <3> QED  BY <3>1, <3>2, <3>5
    <2>2. lost = {}
        BY <1>18, <2>1
    <2>3. client.lost = {}
        BY <1>1, <1>18, <2>1 DEF ClientInv
    <2>4. request.lost = {}
        BY <1>1, <1>18 DEF AskedInv
    <2> QED  BY <1>6, <2>2, <2>3, <2>4
<1>19. ASSUME view = "wishlist"
       PROVE  EachOnce(client'.cards) /\ client'.next = End
    <2>1. ~client.loaded
        BY <1>1, <1>7, <1>19 DEF ClientInv
    <2>2. client.cards = << >>
        BY <1>1, <2>1 DEF ClientInv
    <2>3. PICK c \in Nat : cards = [k \in 1..c |-> cards[k]]
        BY DEF IsSequence
    <2>4. << >> \o cards = cards
        <3> DEFINE S == {cards[k] : k \in 1..c}
        <3>1. \A k \in 1..c : cards[k] \in S
            OBVIOUS
        <3> HIDE DEF S
        <3>2. cards \in Seq(S)
            <4>1. cards \in [1..c -> S]
                BY <2>3, <3>1
            <4> QED  BY <4>1
        <3> QED  BY <3>2
    <2>5. request.last
        BY <1>1, <1>9, <1>19 DEF ResolvingInv, Paged
    <2> QED  BY <1>6, <1>19, <2>2, <2>4, <2>5
<1>20. client'.blind \in BOOLEAN
    BY <1>6, <1>9
<1>21. ClientInv'
    BY <1>3, <1>4, <1>6, <1>10, <1>15, <1>16, <1>17, <1>18, <1>19, <1>20 DEF ClientInv
<1> QED  BY <1>2, <1>5, <1>21 DEF PagesInv

\* The positions of the items of a page are positions of the page.
LEMMA LostPositions ==
    ASSUME PagesInv, request.state = "resolving", NEW outputs, DOMAIN outputs = DOMAIN request.items
    PROVE  LostOf(request.items, outputs) \subseteq PagePositions
<1>1. OpeningInv /\ \A k \in DOMAIN request.items : request.items[k] = Item(PageOrder[k], PagePositions)
    BY ResolvingFacts
<1>2. \A k \in DOMAIN request.items : request.items[k].at = Alike(PageOrder[k], PagePositions)
    <2> TAKE k \in DOMAIN request.items
    <2> DEFINE item == request.items[k]
               n == PageOrder[k]
    <2>1. item = Item(n, PagePositions)
        BY <1>1
    <2> HIDE DEF item, n
    <2>2. item.at = Alike(n, PagePositions)
        BY <2>1 DEF Item
    <2> QED  BY <2>2 DEF item, n
<1>3. \A n : Alike(n, PagePositions) \subseteq PagePositions
    BY <1>1, EntryIsEntry DEF Alike
<1> QED  BY <1>2, <1>3 DEF LostOf

\* read_browse_page, search_games and enrich_wishlist: a page is answered, reads
\* on, or fails.
LEMMA PageResolvedStep == ASSUME PagesInv, PageResolved PROVE PagesInv'
<1> DEFINE outputs == Outputs(request.pool)
           kept == Kept(outputs)
           lost == LostOf(request.items, outputs)
           size == Len(request.items)
<1>1. request.state = "resolving" /\ IsComplete(request.pool) /\ opened' = opened /\ faults' = faults
    BY DEF PageResolved
<1>2. /\ OpeningInv /\ ClientInv /\ AskedInv /\ ResolvingInv /\ client.status = "fetching"
      /\ faults \in 0..MaxFaults /\ held \in BOOLEAN /\ PagePositions \in SUBSET DOMAIN list
      /\ size \in Nat /\ DOMAIN request.items = 1..size
    BY <1>1, ResolvingFacts
<1>3. /\ request.items = Items(PagePositions) /\ IsPool(request.pool, size)
      /\ \A k \in DOMAIN request.pool.done :
            Resolves(request.pool.done[k].output, CardAt[PageOrder[request.pool.done[k].item]])
    BY <1>2 DEF ResolvingInv
<1>4. /\ DOMAIN outputs = 1..size
      /\ \A i \in 1..size : \E k \in DOMAIN request.pool.done :
            request.pool.done[k].item = i /\ outputs[i] = request.pool.done[k].output
    BY <1>1, <1>2, <1>3, PoolCompletes
<1> HIDE DEF outputs
<1>5. \A i \in DOMAIN outputs : Resolves(outputs[i], CardAt[PageOrder[i]])
    <2> TAKE i \in DOMAIN outputs
    <2>1. PICK k \in DOMAIN request.pool.done :
              request.pool.done[k].item = i /\ outputs[i] = request.pool.done[k].output
        BY <1>4
    <2>2. Resolves(request.pool.done[k].output, CardAt[PageOrder[request.pool.done[k].item]])
        BY <1>3
    <2> QED  BY <2>1, <2>2
<1>6. DOMAIN outputs = DOMAIN Items(PagePositions)
    BY <1>2, <1>3, <1>4
<1>7. /\ IsSequence(kept) /\ Shows(kept, PagePositions \ lost, CardAt)
      /\ view = "wishlist" => EachOnce(kept)
    <2>1. \A i \in DOMAIN outputs : Resolves(outputs[i], CardAt[InOrder[FirstEntries(PagePositions)][i]])
        BY <1>5 DEF PageOrder
    <2> QED  BY <1>2, <1>3, <1>6, <2>1, KeptShows
<1>8. lost \subseteq PagePositions
    BY <1>1, <1>2, <1>4, LostPositions
<1>9. LostItems(outputs) = lost
    BY DEF LostItems, LostOf
<1>10. ASSUME view = "browse", kept = << >>, ~IsOutage(outputs)
       PROVE  lost = {}
    <2>1. \A k \in DOMAIN outputs : outputs[k] # Failed
        BY <1>10 DEF IsOutage
    <2> QED  BY <2>1 DEF LostOf
<1>11. CASE IsOutage(outputs)
    <2>1. RequestFails
        BY <1>11 DEF PageResolved, outputs
    <2> QED  BY <1>1, <1>2, <2>1, FailStep
<1>12. CASE ~IsOutage(outputs) /\ ~ReadsOn(kept)
    <2>1. Answer(kept, request.lost \cup lost) /\ held' = held
        BY <1>9, <1>12 DEF PageResolved, outputs
    <2>2. view = "browse" /\ kept = << >> => lost = {}
        BY <1>10, <1>12
    <2> HIDE DEF kept, lost
    <2> QED  BY <1>1, <1>7, <1>8, <2>1, <2>2, AnswerStep
<1>13. CASE ~IsOutage(outputs) /\ ReadsOn(kept)
    <2> DEFINE offset == request.offset
               after == ReadFrom(NextOffset, request.left - 1, request.lost \cup lost)
    <2>1. request' = after /\ held' = held /\ client' = client
        BY <1>9, <1>13 DEF PageResolved, outputs
    <2>2. view \in Paged /\ ~request.last /\ kept = << >> /\ request.left > 1
        BY <1>13 DEF ReadsOn
    <2>3. OpeningInv' /\ ClientInv'
        BY <1>1, <1>2, <2>1, OpeningStep, ClientStep
    <2>4. view' = view /\ list' = list /\ CardAt' = CardAt
        BY <1>1, SameList
    <2>5. /\ DOMAIN request' = {"state", "offset", "left", "last", "blind", "items", "pool", "tried", "since", "clock", "lost"}
          /\ request'.state = "reading" /\ request'.offset = NextOffset /\ request'.left = request.left - 1
          /\ request'.lost = request.lost \cup lost /\ request'.clock = 0
          /\ request'.last = FALSE /\ request'.blind = FALSE
        BY <2>1 DEF ReadFrom, NoRequest
    <2>6. IsRequest'
        <3>1. 0 \in 0..TotalTimeout
            BY Bounds
        <3> QED  BY <2>5, <3>1 DEF IsRequest
    <2>7. NextOffset \in offset..Len(list) /\ PagePositions = (offset + 1)..NextOffset
        BY <1>2, <2>2, AnswerReaches
    <2>8. /\ offset \in Nat /\ Len(list) \in Nat /\ client.next \in Nat /\ client.next <= offset
          /\ request.lost \subseteq (client.next + 1)..offset
        BY <1>2, PageFacts
    <2>9. request'.left \in 1..RawPageBound
        <3>1. request.left \in 1..RawPageBound
            BY <1>2 DEF AskedInv
        <3> QED  BY <2>2, <2>5, <3>1, Bounds
    <2>10. request.lost \cup lost \subseteq (client.next + 1)..NextOffset
        BY <1>8, <2>7, <2>8
    <2>11. Shows(<< >>, ((client.next + 1)..NextOffset) \ (request.lost \cup lost), CardAt)
        <3> DEFINE B == ((client.next + 1)..offset) \ request.lost
                   C == PagePositions \ lost
        <3>1. Shows(<< >>, B, CardAt)
            BY <1>2 DEF AskedInv
        <3>2. Shows(<< >>, C, CardAt)
            BY <1>7, <2>2
        <3>3. Shows(<< >>, B \cup C, CardAt)
            <4> HIDE DEF B, C
            <4> QED  BY <3>1, <3>2, ShowsMore
        <3>4. (client.next + 1)..NextOffset = ((client.next + 1)..offset) \cup PagePositions
            BY <2>7, <2>8
        <3>5. ((client.next + 1)..offset) \cap PagePositions = {}
            BY <2>7, <2>8
        <3>6. B \cup C = ((client.next + 1)..NextOffset) \ (request.lost \cup lost)
            BY <1>8, <2>8, <3>4, <3>5
        <3> QED  BY <3>3, <3>6
    <2>12. view = "browse" => request.lost \cup lost = {}
        BY <1>2, <1>10, <1>13, <2>2 DEF AskedInv
    <2>13. NextOffset \in client.next..Len(list)
        BY <2>7, <2>8
    <2>14. view # "wishlist"
        BY <2>2 DEF Paged
    <2> HIDE DEF lost, kept, after
    <2>15. AskedInv'
        BY <1>2, <2>1, <2>4, <2>5, <2>9, <2>10, <2>11, <2>12, <2>13, <2>14 DEF AskedInv
    <2>16. request' = ReadFrom(request'.offset, request'.left, request'.lost)
        BY <2>1, <2>5 DEF after
    <2>17. RequestInv'
        BY <2>5, <2>6, <2>15, <2>16 DEF RequestInv, ReadFrom, NoRequest
    <2> QED  BY <2>3, <2>17 DEF PagesInv
<1> QED  BY <1>11, <1>12, <1>13

\* The whole wishlist is out of time: every entry keeps its card.
LEMMA TotalTimesOutStep == ASSUME PagesInv, TotalTimesOut PROVE PagesInv'
<1> DEFINE cards == [k \in DOMAIN request.items |-> Card(request.items[k].id, "list")]
           sel == [k \in DOMAIN request.items |-> k]
           size == Len(request.items)
<1>1. /\ view = "wishlist" /\ request.state = "resolving" /\ Answer(cards, {})
      /\ opened' = opened /\ faults' = faults /\ held' = held
    BY DEF TotalTimesOut
<1>2. /\ OpeningInv /\ ClientInv /\ AskedInv /\ ResolvingInv /\ PagePositions \in SUBSET DOMAIN list
      /\ size \in Nat /\ DOMAIN request.items = 1..size
      /\ \A k \in DOMAIN request.items :
            request.items[k] = Item(PageOrder[k], PagePositions) /\ PageOrder[k] \in FirstEntries(PagePositions)
    BY <1>1, ResolvingFacts
<1>3. request.items = Items(PagePositions)
    BY <1>2 DEF ResolvingInv
<1>4. \A k \in 1..size : cards[k].card = CardAt[PageOrder[k]] /\ cards[k].card # NoCard
    <2> TAKE k \in 1..size
    <2> DEFINE n == PageOrder[k]
               item == request.items[k]
    <2>5. item = Item(n, PagePositions) /\ n \in FirstEntries(PagePositions)
        BY <1>2
    <2> HIDE DEF n, item
    <2>1. item.id = IdOf(n) /\ n \in Entries(PagePositions)
        BY <2>5 DEF Item, FirstEntries
    <2>2. n \in DOMAIN list /\ n \in Entries({n})
        BY <1>2, <2>1, EntryIsEntry
    <2>3. CardAt[n] = IdOf(n) /\ IdOf(n) # NoCard
        BY <1>1, <1>2, <2>2, CardFacts DEF CardAt
    <2>4. cards[k].card = item.id
        BY <1>2 DEF Card, item
    <2> QED  BY <2>1, <2>3, <2>4 DEF n
<1>5. DOMAIN cards = 1..size /\ DOMAIN sel = 1..size
    BY <1>2
<1>6. cards = [k \in DOMAIN sel |-> cards[sel[k]]]
    <2>1. cards = [k \in 1..size |-> cards[k]] /\ \A k \in 1..size : sel[k] = k
        BY <1>2
    <2> HIDE DEF cards, sel
    <2> QED  BY <1>5, <2>1
<1>7. Enumerates(sel, {k \in DOMAIN cards : cards[k].card # NoCard})
    <2>1. {k \in DOMAIN cards : cards[k].card # NoCard} = 1..size
        <3> HIDE DEF cards
        <3> QED  BY <1>4, <1>5
    <2>2. \A k \in 1..size : sel[k] = k
        BY <1>2
    <2> HIDE DEF sel
    <2>3. Enumerates(sel, 1..size)
        BY <1>2, <1>5, <2>2 DEF Enumerates
    <2> QED  BY <2>1, <2>3
<1> HIDE DEF cards, sel
<1>8. \A k \in DOMAIN cards : Resolves(cards[k], CardAt[InOrder[FirstEntries(PagePositions)][k]])
    BY <1>4, <1>5 DEF Resolves, PageOrder
<1>9. DOMAIN cards = DOMAIN Items(PagePositions)
    BY <1>2, <1>3, <1>5
<1>10. LostOf(Items(PagePositions), cards) = {}
    <2>1. Failed.card = NoCard
        BY DEF Failed, Card
    <2>2. \A k \in DOMAIN cards : cards[k] # Failed
        BY <1>4, <1>5, <2>1
    <2> QED  BY <2>2 DEF LostOf
<1>11. /\ IsSequence(cards) /\ Shows(cards, PagePositions \ LostOf(Items(PagePositions), cards), CardAt)
       /\ view = "wishlist" => EachOnce(cards)
    BY <1>2, <1>6, <1>7, <1>8, <1>9, PageShows
<1>12. request.lost = {}
    <2>1. client.next = 0 /\ request.offset = 0 /\ request.lost \subseteq (client.next + 1)..request.offset
        BY <1>1, <1>2, PageFacts
    <2> QED  BY <2>1
<1>13. Shows(cards, PagePositions \ {}, CardAt)
    BY <1>10, <1>11
<1>14. Answer(cards, request.lost \cup {})
    BY <1>1, <1>12
<1> QED  BY <1>1, <1>11, <1>13, <1>14, AnswerStep

-----------------------------------------------------------------------------
(* The steps and the theorems of the pages *)

\* A view opens.
LEMMA PagesInitInv == PagesInit => PagesInv
<1> SUFFICES ASSUME PagesInit PROVE PagesInv
    OBVIOUS
<1>1. PICK opening \in Openings : view = opening.view /\ list = opening.list
    BY DEF PagesInit
<1>2. OpeningInv
    <2>1. /\ view \in Views /\ Len(list) \in Nat /\ DOMAIN list = 1..Len(list)
          /\ \A n \in DOMAIN list : IsElement(view, list[n])
        BY <1>1, BoundedPagesAssumption
    <2>2. sorted \in BOOLEAN /\ slow \subseteq ProductIds /\ held \in BOOLEAN
        BY DEF PagesInit
    <2>3. faults \in 0..MaxFaults
        BY Bounds DEF PagesInit
    <2> QED  BY <2>1, <2>2, <2>3 DEF OpeningInv
<1>3. RequestInv
    <2>1. /\ DOMAIN NoRequest = {"state", "offset", "left", "last", "blind", "items", "pool", "tried", "since", "clock", "lost"}
          /\ NoRequest.state = "none" /\ NoRequest.clock = 0 /\ NoRequest.last = FALSE /\ NoRequest.blind = FALSE
        BY DEF NoRequest
    <2>2. 0 \in 0..TotalTimeout
        BY Bounds
    <2> QED  BY <2>1, <2>2 DEF PagesInit, RequestInv, IsRequest
<1>4. ClientInv
    <2>1. client = [status |-> "idle", retried |-> FALSE, loaded |-> FALSE, next |-> 0,
                    cards |-> << >>, lost |-> {}, blind |-> FALSE] /\ request = NoRequest
        BY DEF PagesInit
    <2>2. /\ DOMAIN client = {"status", "retried", "loaded", "next", "cards", "lost", "blind"}
          /\ client.status = "idle" /\ client.retried = FALSE /\ client.loaded = FALSE /\ client.next = 0
          /\ client.cards = << >> /\ client.lost = {} /\ client.blind = FALSE
        BY <2>1
    <2>3. Len(list) \in Nat
        BY <1>2 DEF OpeningInv
    <2>4. Reached = 0
        BY <2>2, Bounds DEF Reached
    <2>5. Shows(<< >>, (1..0) \ {}, CardAt) /\ IsSequence(<< >>)
        BY ShowsNothingOfNothing
    <2>6. EachOnce(<< >>)
        BY DEF EachOnce
    <2> QED  BY <2>1, <2>2, <2>3, <2>4, <2>5, <2>6 DEF ClientInv
<1> QED  BY <1>2, <1>3, <1>4 DEF PagesInv

\* Every step keeps the invariant.
LEMMA PagesNextInv == PagesInv /\ [PagesNext]_pagesVars => PagesInv'
<1> SUFFICES ASSUME PagesInv, [PagesNext]_pagesVars PROVE PagesInv'
    OBVIOUS
<1>1. ASSUME NEW readable \in BOOLEAN, PageRead(readable) PROVE PagesInv'
    BY <1>1, PageReadStep
<1>2. ASSUME PageFails PROVE PagesInv'
    <2>1. request.state = "reading" /\ RequestFails /\ opened' = opened
        BY <1>2 DEF PageFails
    <2>2. faults' \in 0..MaxFaults
        <3>1. faults \in 0..MaxFaults
            BY DEF PagesInv, OpeningInv
        <3> QED  BY <1>2, <3>1, Bounds DEF PageFails
    <2>3. AskedInv
        BY <2>1 DEF PagesInv, RequestInv
    <2> QED  BY <2>1, <2>2, <2>3, FailStep
<1>3. ASSUME opened' = opened, faults' = faults, held' \in BOOLEAN, request' = request, client' = client
      PROVE  PagesInv'
    <2>1. OpeningInv'
        BY <1>3, OpeningStep DEF PagesInv, OpeningInv
    <2>2. view' = view /\ list' = list /\ CardAt' = CardAt
        BY <1>3, SameList
    <2>3. Reached' = Reached
        BY <1>3, <2>2 DEF Reached
    <2>4. ClientInv'
        BY <1>3, <2>2, <2>3 DEF ClientInv, PagesInv
    <2>5. PagePositions' = PagePositions /\ PageOrder' = PageOrder /\ (Items(PagePositions))' = Items(PagePositions)
        BY <1>3, SamePage
    <2>6. AskedInv => AskedInv'
        BY <1>3, <2>2 DEF AskedInv
    <2>7. ResolvingInv => ResolvingInv'
        BY <1>3, <2>2, <2>5 DEF ResolvingInv
    <2>8. RequestInv'
        BY <1>3, <2>6, <2>7 DEF RequestInv, IsRequest, PagesInv
    <2> QED  BY <2>1, <2>4, <2>8 DEF PagesInv
<1>4. ASSUME FailureExpires PROVE PagesInv'
    BY <1>3, <1>4 DEF FailureExpires
<1>5. ASSUME UNCHANGED pagesVars PROVE PagesInv'
    BY <1>3, <1>5 DEF pagesVars, opened, PagesInv, OpeningInv
<1>6. ASSUME NEW k \in DOMAIN request.items,
             NothingToLookUp(k) \/ EntryTimesOut(k) \/ \E found \in BOOLEAN : LookupEnds(k, found)
      PROVE  PagesInv'
    BY <1>6, WithoutStep, LookupEndsStep
<1>7. ASSUME TimePasses \/ TotalTimesOut \/ PageResolved PROVE PagesInv'
    BY <1>7, TimeStep, TotalTimesOutStep, PageResolvedStep
<1>8. ASSUME Fetch \/ AskAgain \/ ScrollDown \/ Retry PROVE PagesInv'
    <2>1. Ask
        BY <1>8 DEF Fetch, AskAgain, ScrollDown, Retry
    <2>2. client.status # "idle" => client.next # End
        BY DEF PagesInv, ClientInv
    <2>3. client.next # End
        BY <1>8, <2>2 DEF Fetch, AskAgain, ScrollDown, Retry, AwaitingMore
    <2> QED  BY <2>1, <2>3, AskStep
<1> QED  BY <1>1, <1>2, <1>4, <1>5, <1>6, <1>7, <1>8 DEF PagesNext, ServerStep

\* The inductive invariant of the pages: what the browser has loaded shows the
\* part of Sony's list before its next page, and the request goes on from there.
THEOREM PagesInvariant == PagesSpec => []PagesInv
<1> QED  BY PagesInitInv, PagesNextInv, PTL DEF PagesSpec

LEMMA PagesTypeFollows == PagesInv => PagesTypeOK
<1> SUFFICES ASSUME PagesInv PROVE PagesTypeOK
    OBVIOUS
<1>1. OpeningInv /\ RequestInv /\ ClientInv /\ IsRequest
    BY DEF PagesInv, RequestInv
<1>2. CASE request.state = "none"
    <2>1. request = NoRequest
        BY <1>1, <1>2 DEF RequestInv
    <2>2. /\ NoRequest.left = 0 /\ NoRequest.items = << >> /\ NoRequest.tried = << >>
          /\ NoRequest.pool = NewPool(0, Limit)
        BY DEF NoRequest
    <2>3. Cardinality(Unfinished(request.pool)) <= Limit
        BY <2>1, <2>2, PoolBegins, PoolIsBounded
    <2>4. request.left \in 0..RawPageBound /\ DOMAIN request.tried = DOMAIN request.items
        BY <2>1, <2>2, Bounds
    <2>5. client.lost \subseteq DOMAIN list
        BY <1>1 DEF ClientInv, OpeningInv, Reached
    <2> QED  BY <1>1, <2>3, <2>4, <2>5 DEF OpeningInv, IsRequest, ClientInv, PagesTypeOK
<1>3. CASE request.state # "none"
    <2>1. AskedInv
        BY <1>1, <1>3 DEF RequestInv
    <2>2. request.left \in 0..RawPageBound
        BY <2>1, Bounds DEF AskedInv
    <2>3. Cardinality(Unfinished(request.pool)) <= Limit /\ DOMAIN request.tried = DOMAIN request.items
        <3>1. CASE request.state = "reading"
            <4>1. request = ReadFrom(request.offset, request.left, request.lost)
                BY <1>1, <3>1 DEF RequestInv
            <4>2. request.items = << >> /\ request.tried = << >> /\ request.pool = NewPool(0, Limit)
                BY <4>1 DEF ReadFrom, NoRequest
            <4> QED  BY <4>2, PoolBegins, PoolIsBounded
        <3>2. CASE request.state = "resolving"
            <4>1. ResolvingInv /\ Len(request.items) \in Nat
                BY <3>2, ResolvingFacts
            <4> QED  BY <4>1, PoolIsBounded DEF ResolvingInv
        <3> QED  BY <1>1, <1>3, <3>1, <3>2 DEF IsRequest
    <2>4. client.lost \subseteq DOMAIN list
        BY <1>1 DEF ClientInv, OpeningInv, Reached
    <2> QED  BY <1>1, <2>2, <2>3, <2>4 DEF OpeningInv, IsRequest, ClientInv, PagesTypeOK
<1> QED  BY <1>2, <1>3

\* Every variable has its type, and no more lookups run than the bound allows, for
\* every list, page size and bound.
THEOREM PagesTypeCorrect == PagesSpec => []PagesTypeOK
<1> QED  BY PagesInvariant, PagesTypeFollows, PTL

\* Without blind pages, the cards are shown of all that was read.
LEMMA ShownIs ==
    ASSUME PagesInv, ~client.blind
    PROVE  LET covered == (1..Reached) \ client.lost
           IN  /\ IsSequence(Shown) /\ EachOnce(Shown) /\ Shows(Shown, covered, CardAt)
               /\ covered \in SUBSET Nat /\ IsFiniteSet(covered) /\ covered \subseteq DOMAIN list
               /\ \A n \in covered : CardAt[n] = CardOf(n)
<1> DEFINE covered == (1..Reached) \ client.lost
<1>1. OpeningInv /\ ClientInv
    BY DEF PagesInv
<1>2. Len(list) \in Nat /\ DOMAIN list = 1..Len(list)
    BY <1>1 DEF OpeningInv
<1>3. Reached \in 0..Len(list)
    BY <1>1, <1>2 DEF ClientInv, Reached
<1>4. covered \in SUBSET Nat /\ covered \subseteq DOMAIN list
    BY <1>2, <1>3
<1>5. IsFiniteSet(covered)
    <2>1. IsFiniteSet(1..Reached) /\ covered \in SUBSET (1..Reached)
        BY <1>3, FS_Interval
    <2> HIDE DEF covered
    <2> QED  BY <2>1, FS_Subset
<1>6. \A n \in covered : CardAt[n] = CardOf(n)
    BY <1>4 DEF CardAt
<1>7. IsSequence(client.cards) /\ Shows(client.cards, covered, CardAt) /\ (view = "wishlist" => EachOnce(client.cards))
    BY <1>1 DEF ClientInv
<1> HIDE DEF covered
<1>8. CASE view \in Paged
    <2>1. Shown = FirstCards(client.cards)
        BY <1>8 DEF Shown
    <2> QED  BY <1>4, <1>5, <1>6, <1>7, <2>1, ShowsFirst DEF covered
<1>9. CASE view = "wishlist"
    <2>1. Shown = client.cards
        BY <1>9 DEF Shown, Paged
    <2> QED  BY <1>4, <1>5, <1>6, <1>7, <1>9, <2>1 DEF covered
<1> QED  BY <1>1, <1>8, <1>9 DEF OpeningInv, Views

\* Two lists without repetition that show the same positions are the same.
LEMMA PagesShowFollows == PagesInv => PagesShowEveryGame
<1> SUFFICES ASSUME PagesInv, client.loaded, ~client.blind
             PROVE  [k \in DOMAIN Shown |-> Shown[k].card] = CardsOf((1..Reached) \ client.lost)
    BY DEF PagesShowEveryGame
<1> DEFINE covered == (1..Reached) \ client.lost
           cards == Shown
<1>1. /\ IsSequence(cards) /\ EachOnce(cards) /\ Shows(cards, covered, CardAt)
      /\ covered \in SUBSET Nat /\ IsFiniteSet(covered)
      /\ \A n \in covered : CardAt[n] = CardOf(n)
    BY ShownIs
<1> HIDE DEF covered, cards
<1>2. [k \in DOMAIN cards |-> cards[k].card] = CardsOf(covered)
    BY <1>1, ShowsExactly
<1> QED  BY <1>2 DEF covered, cards

\* The loaded pages show each game of the part of the list that they cover, once and
\* in Sony's order, but for those whose own lookup failed.
THEOREM PagesShowCorrect == PagesSpec => []PagesShowEveryGame
<1> QED  BY PagesInvariant, PagesShowFollows, PTL

LEMMA EmptyGenreFollows == PagesInv => EmptyGenreIsReal
<1> SUFFICES ASSUME PagesInv, view = "browse", client.next = End, ~client.blind, Shown = << >>
             PROVE  AllCards = << >>
    BY DEF EmptyGenreIsReal
<1> DEFINE covered == (1..Reached) \ client.lost
           cards == Shown
<1>1. /\ IsSequence(cards) /\ EachOnce(cards) /\ Shows(cards, covered, CardAt)
      /\ covered \in SUBSET Nat /\ IsFiniteSet(covered) /\ covered \subseteq DOMAIN list
      /\ \A n \in covered : CardAt[n] = CardOf(n)
    BY ShownIs
<1>2. ClientInv /\ Reached = Len(list)
    BY DEF PagesInv, Reached
<1>3. client.lost = {}
    <2>1. IsSequence(client.cards) /\ Shows(client.cards, covered, CardAt)
        BY <1>2 DEF ClientInv
    <2>2. cards = << >>
        OBVIOUS
    <2> HIDE DEF covered, cards
    <2>3. client.cards = << >>
        BY <1>1, <2>1, <2>2, ShowsSomething
    <2> QED  BY <1>2, <2>3 DEF ClientInv
<1>4. covered = 1..Len(list)
    BY <1>2, <1>3
<1>5. cards = << >>
    OBVIOUS
<1> HIDE DEF covered, cards
<1>6. [k \in DOMAIN cards |-> cards[k].card] = CardsOf(covered)
    BY <1>1, ShowsExactly
<1>7. CardsOf(covered) = << >>
    BY <1>5, <1>6
<1> QED  BY <1>4, <1>7 DEF AllCards

\* A genre that reads as empty to its end has no PS5 game, however many lookups failed.
THEOREM EmptyGenreCorrect == PagesSpec => []EmptyGenreIsReal
<1> QED  BY PagesInvariant, EmptyGenreFollows, PTL

-----------------------------------------------------------------------------
(* The slow lookups of the wishlist *)

\* The items whose lookup takes time, and whether the whole list can wait for them:
\* Limit of them hold a slot for at most EntryTimeout, and no slot waits longer.
SlowItems == {k \in DOMAIN request.items : request.items[k].candidates # << >> /\ request.items[k].candidates[1] \in slow}
SlowPositions == {n \in DOMAIN list : list[n].id \in slow}
FewAreSlow == Cardinality(SlowPositions) <= Limit * ((TotalTimeout - 1) \div EntryTimeout)

IsEnriched(card) == card.card \in Ps5Games \ slow => card.from = "store"

\* The slow items before an item fill whole batches, of Limit lookups for EntryTimeout
\* each; a time is due for the item if it is not after those batches.
SlowBefore(k) == {i \in SlowItems : i < k}
Due(k, time) == \E batch \in Nat : batch * Limit <= Cardinality(SlowBefore(k)) /\ time <= batch * EntryTimeout

\* A lookup begins when it is due, an item that has not begun is still due, and only
\* a slow lookup waits, up to its deadline.
WaitingInv ==
    /\ \A k \in DOMAIN request.items : request.since[k] \in 0..request.clock
    /\ \A k \in Unfinished(request.pool) :
          /\ Due(k, request.since[k])
          /\ k \in SlowItems => request.clock <= request.since[k] + EntryTimeout
          /\ k \notin SlowItems => request.since[k] = request.clock
    /\ \A k \in DOMAIN request.items \ 1..request.pool.started : Due(k, request.clock)
    /\ faults = 0 => \A k \in DOMAIN request.pool.done : IsEnriched(request.pool.done[k].output)

EnrichInv ==
    view = "wishlist" =>
       /\ request.state = "resolving" => WaitingInv
       /\ faults = 0 /\ FewAreSlow => \A k \in DOMAIN client.cards : IsEnriched(client.cards[k])

LEMMA OneMore ==
    ASSUME NEW a \in Nat, NEW b \in Nat
    PROVE  (a + 1) * b = a * b + b /\ a * b \in Nat
OBVIOUS

LEMMA BatchesGrow ==
    ASSUME NEW a \in Nat, NEW b \in Nat, NEW c \in Nat, a <= b
    PROVE  a * c <= b * c
OBVIOUS

\* As many batches as the deadline allows end before it.
LEMMA LastBatch ==
    ASSUME NEW total \in Nat \ {0}, NEW each \in Nat \ {0}, NEW batch \in Nat, total <= batch * each + each
    PROVE  (total - 1) \div each <= batch /\ (total - 1) \div each \in Nat
<1> DEFINE fit == (total - 1) \div each
<1>1. fit \in Nat /\ fit * each <= total - 1
    OBVIOUS
<1> HIDE DEF fit
<1>2. (batch + 1) * each = batch * each + each /\ batch * each \in Nat
    BY OneMore
<1>3. ~(batch + 1 <= fit)
    <2> SUFFICES ASSUME batch + 1 <= fit PROVE FALSE
        OBVIOUS
    <2>1. (batch + 1) * each <= fit * each
        BY <1>1, BatchesGrow
    <2>2. fit * each \in Nat
        BY <1>1, OneMore
    <2> DEFINE x == batch * each
               y == fit * each
               z == (batch + 1) * each
    <2>3. z <= y /\ y <= total - 1 /\ total <= x + each /\ z = x + each /\ x \in Nat /\ y \in Nat
        BY <1>1, <1>2, <2>1, <2>2
    <2> HIDE DEF x, y, z
    <2> QED  BY <2>3
<1> QED  BY <1>1, <1>3 DEF fit

\* A running lookup of the wishlist tries the one product that it has.
LEMMA SlowFacts ==
    ASSUME PagesInv, view = "wishlist", NEW k, IsRunning(k)
    PROVE  /\ k \in DOMAIN request.items
           /\ k \in SlowItems <=> request.items[k].candidates # << >> /\ Candidate(k) \in slow
           /\ request.items[k].candidates # << >> =>
                 Candidate(k) = request.items[k].id /\ (k \in SlowItems <=> request.items[k].id \in slow)
           /\ request.items[k].candidates = << >> => request.items[k].id \notin ProductIds
<1> DEFINE n == PageOrder[k]
           item == request.items[k]
           tried == request.tried[k]
<1>1. /\ k \in DOMAIN request.items /\ n \in DOMAIN list /\ n \in Entries({n})
      /\ item.id = IdOf(n) /\ item.candidates = CandidatesOf(n) /\ TriedInv(item, tried)
    BY RunningFacts
<1>2. OpeningInv
    BY DEF PagesInv
<1>3. k \in SlowItems <=> item.candidates # << >> /\ item.candidates[1] \in slow
    BY <1>1 DEF SlowItems
<1>4. Candidate(k) = item.candidates[tried]
    BY DEF Candidate
<1> HIDE DEF n, item, tried
<1>5. item.id = list[n].id
    BY <1>1 DEF IdOf
<1>6. item.candidates = IF list[n].kind = "product" THEN <<list[n].id>> ELSE << >>
    BY <1>1 DEF CandidatesOf
<1>7. ASSUME item.candidates # << >>  PROVE item.candidates[1] = item.id /\ tried = 1
    <2>1. item.candidates = <<list[n].id>>
        BY <1>6, <1>7
    <2>2. \A p : DOMAIN <<p>> = {1} /\ <<p>>[1] = p
        OBVIOUS
    <2>3. tried \in DOMAIN item.candidates
        BY <1>1, <1>7 DEF TriedInv
    <2> QED  BY <1>5, <2>1, <2>2, <2>3
<1>8. ASSUME item.candidates = << >>  PROVE item.id \notin ProductIds
    <2>1. \A p : <<p>> # << >>
        OBVIOUS
    <2>2. list[n].kind # "product"
        BY <1>6, <1>8, <2>1
    <2>3. list[n].kind # "malformed"
        BY <1>1, <1>2, EntryFacts
    <2>4. IsElement(view, list[n])
        BY <1>1, <1>2 DEF OpeningInv
    <2> QED  BY <1>5, <2>2, <2>3, <2>4 DEF IsElement
<1> QED  BY <1>1, <1>3, <1>4, <1>7, <1>8 DEF item

\* Types of what waits.
LEMMA WaitingFacts ==
    ASSUME PagesInv, request.state = "resolving", WaitingInv
    PROVE  /\ request.clock \in Nat /\ Len(request.items) \in Nat /\ DOMAIN request.items = 1..Len(request.items)
           /\ IsPool(request.pool, Len(request.items))
           /\ request.pool.started \in 0..Len(request.items) /\ request.pool.size = Len(request.items)
           /\ \A k \in Unfinished(request.pool) : k \in DOMAIN request.items /\ k \in 1..request.pool.started
           /\ \A k \in DOMAIN request.items : request.since[k] \in Nat /\ request.since[k] <= request.clock
<1>1. /\ request.clock \in 0..TotalTimeout /\ Len(request.items) \in Nat /\ DOMAIN request.items = 1..Len(request.items)
      /\ ResolvingInv
    BY ResolvingFacts
<1>2. request.clock \in Nat
    BY <1>1, Bounds
<1>3. IsPool(request.pool, Len(request.items))
    BY <1>1 DEF ResolvingInv
<1>4. request.pool.started \in 0..Len(request.items) /\ request.pool.size = Len(request.items)
    BY <1>1, <1>3, PoolFacts
<1>5. \A k \in Unfinished(request.pool) : k \in DOMAIN request.items /\ k \in 1..request.pool.started
    BY <1>1, <1>4 DEF Unfinished
<1>6. \A k \in DOMAIN request.items : request.since[k] \in 0..request.clock
    BY DEF WaitingInv
<1> QED  BY <1>1, <1>2, <1>3, <1>4, <1>5, <1>6

LEMMA SlowBeforeIsFinite ==
    ASSUME NEW size \in Nat, DOMAIN request.items = 1..size
    PROVE  /\ IsFiniteSet(SlowItems) /\ Cardinality(SlowItems) \in Nat
           /\ \A k : /\ IsFiniteSet(SlowBefore(k)) /\ Cardinality(SlowBefore(k)) \in Nat
                    /\ Cardinality(SlowBefore(k)) <= Cardinality(SlowItems)
<1>1. IsFiniteSet(1..size) /\ SlowItems \in SUBSET (1..size)
    BY FS_Interval DEF SlowItems
<1>2. IsFiniteSet(SlowItems) /\ Cardinality(SlowItems) \in Nat
    BY <1>1, FS_Subset, FS_CardinalityType
<1>3. ASSUME NEW k
      PROVE  /\ IsFiniteSet(SlowBefore(k)) /\ Cardinality(SlowBefore(k)) \in Nat
             /\ Cardinality(SlowBefore(k)) <= Cardinality(SlowItems)
    <2>1. SlowBefore(k) \in SUBSET SlowItems
        BY DEF SlowBefore
    <2> QED  BY <1>2, <2>1, FS_Subset, FS_CardinalityType
<1> QED  BY <1>2, <1>3

\* Of slow items that hold all slots, the first has a batch fewer before it than an
\* item behind all of them.
LEMMA FirstOfABatch ==
    ASSUME NEW size \in Nat, DOMAIN request.items = 1..size, NEW running \in SUBSET SlowItems,
           IsFiniteSet(running), Cardinality(running) \in Nat, Cardinality(running) >= Limit,
           NEW k \in Nat, \A i \in running : i < k
    PROVE  \E j \in running : Cardinality(SlowBefore(j)) + Limit <= Cardinality(SlowBefore(k))
<1>1. Limit \in Nat \ {0} /\ SlowItems \in SUBSET (1..size)
    BY Bounds DEF SlowItems
<1>2. running \in SUBSET Nat /\ running # {}
    <2>1. running \in SUBSET Nat
        BY <1>1
    <2>2. Cardinality(running) # 0
        BY <1>1
    <2> QED  BY <2>1, <2>2, FS_EmptySet
<1>3. PICK j \in running : \A i \in running : j <= i
    BY <1>2, LeastNatural
<1>4. /\ IsFiniteSet(SlowBefore(j)) /\ Cardinality(SlowBefore(j)) \in Nat
      /\ IsFiniteSet(SlowBefore(k)) /\ Cardinality(SlowBefore(k)) \in Nat
    BY SlowBeforeIsFinite
<1>5. SlowBefore(j) \cap running = {}
    <2> SUFFICES ASSUME NEW i \in SlowBefore(j), i \in running PROVE FALSE
        OBVIOUS
    <2>1. i < j /\ j <= i /\ i \in Nat /\ j \in Nat
        BY <1>2, <1>3 DEF SlowBefore
    <2> QED  BY <2>1
<1>6. SlowBefore(j) \cup running \in SUBSET SlowBefore(k)
    <2>1. \A i \in running : i \in SlowBefore(k)
        BY DEF SlowBefore
    <2>2. ASSUME NEW i \in SlowBefore(j)  PROVE i \in SlowBefore(k)
        <3>1. i \in SlowItems /\ i < j /\ j < k
            BY <1>3 DEF SlowBefore
        <3>2. i \in Nat /\ j \in Nat
            BY <1>1, <1>2, <3>1
        <3>3. i < k
            BY <3>1, <3>2
        <3> QED  BY <3>1, <3>3 DEF SlowBefore
    <2> QED  BY <2>1, <2>2
<1>7. Cardinality(SlowBefore(j) \cup running) = Cardinality(SlowBefore(j)) + Cardinality(running)
    <2>1. Cardinality(SlowBefore(j) \cup running)
              = Cardinality(SlowBefore(j)) + Cardinality(running) - Cardinality(SlowBefore(j) \cap running)
        BY <1>4, FS_Union
    <2>2. Cardinality(SlowBefore(j) \cap running) = 0
        BY <1>5, FS_EmptySet
    <2> QED  BY <1>4, <2>1, <2>2
<1>8. Cardinality(SlowBefore(j) \cup running) <= Cardinality(SlowBefore(k))
    BY <1>4, <1>6, FS_Subset
<1>9. Cardinality(SlowBefore(j)) + Limit <= Cardinality(SlowBefore(k))
    BY <1>1, <1>4, <1>7, <1>8
<1> QED  BY <1>3, <1>9

\* The end of a lookup lets the next item begin, which was due until now.
LEMMA ItemEndsKeepsWaiting ==
    ASSUME PagesInv, WaitingInv, NEW k, IsRunning(k), NEW output, ItemEnds(k, output), opened' = opened,
           faults' = 0 => faults = 0 /\ IsEnriched(output)
    PROVE  WaitingInv'
<1> DEFINE size == Len(request.items)
           pool == request.pool
           after == Finish(pool, k, output, Limit)
           n == Len(pool.done)
           new == Unfinished(after) \ Unfinished(pool)
<1>1. request.state = "resolving" /\ k \in Unfinished(pool)
    BY DEF IsRunning
<1>2. /\ request.clock \in Nat /\ size \in Nat /\ DOMAIN request.items = 1..size
      /\ IsPool(pool, size) /\ pool.started \in 0..size /\ pool.size = size
      /\ \A i \in Unfinished(pool) : i \in DOMAIN request.items /\ i \in 1..pool.started
      /\ \A i \in DOMAIN request.items : request.since[i] \in Nat /\ request.since[i] <= request.clock
    BY <1>1, WaitingFacts
<1>3. /\ DOMAIN request = {"state", "offset", "left", "last", "blind", "items", "pool", "tried", "since", "clock", "lost"}
      /\ ResolvingInv
    BY <1>1, ResolvingFacts
<1>4. DOMAIN request.since = DOMAIN request.items
    BY <1>3 DEF ResolvingInv
<1>5. /\ request'.items = request.items /\ request'.clock = request.clock /\ request'.pool = after
      /\ request'.since = [i \in DOMAIN request.since |-> IF i \in new THEN request.clock ELSE request.since[i]]
    BY <1>3 DEF ItemEnds
<1> HIDE DEF pool, size
<1>6. /\ IsPool(after, size) /\ DOMAIN after.done = 1..(n + 1) /\ after.done[n + 1] = [item |-> k, output |-> output]
      /\ \A j \in 1..n : after.done[j] = pool.done[j]
      /\ Finished(after) = Finished(pool) \cup {k} /\ pool.started <= after.started
    BY <1>1, <1>2, PoolGoesOn
<1>7. n \in Nat /\ DOMAIN pool.done = 1..n
    BY <1>2, PoolFacts
<1>8. after.started \in 0..size /\ after.size = size
    BY <1>2, <1>6, PoolFacts
<1>9. Unfinished(pool) = (1..pool.started) \ Finished(pool) /\ Unfinished(after) = (1..after.started) \ Finished(after)
    BY DEF Unfinished
<1> HIDE DEF after, n
<1>10. \A i : i \in new <=> i \in 1..after.started /\ i \notin 1..pool.started
    <2>1. k \in 1..pool.started
        BY <1>1, <1>2
    <2>2. Finished(pool) \subseteq 1..pool.started
        BY <1>2 DEF IsPool
    <2> QED  BY <1>2, <1>6, <1>8, <1>9, <2>1, <2>2
<1>11. \A i \in Unfinished(after) : i \in new \/ i \in Unfinished(pool)
    OBVIOUS
<1> HIDE DEF new
<1>12. \A i \in DOMAIN request.items :
           /\ i \in new => request'.since[i] = request.clock
           /\ i \notin new => request'.since[i] = request.since[i]
    BY <1>4, <1>5
<1>13. \A i \in 1..pool.started : i \in DOMAIN request.items /\ i \notin new /\ i \in 1..after.started
    BY <1>2, <1>6, <1>8, <1>10
<1>14. SlowItems' = SlowItems
    <2>1. slow' = slow
        BY DEF opened
    <2> QED  BY <1>5, <2>1 DEF SlowItems
<1>15. \A i \in DOMAIN request'.items : request'.since[i] \in 0..request'.clock
    BY <1>2, <1>5, <1>12
<1>16. ASSUME faults' = 0
       PROVE  (\A i \in DOMAIN request.pool.done : IsEnriched(request.pool.done[i].output))'
    <2>1. slow' = slow
        BY DEF opened
    <2>2. \A i \in DOMAIN pool.done : IsEnriched(pool.done[i].output)
        BY <1>16 DEF WaitingInv, pool
    <2>3. \A i \in DOMAIN after.done : IsEnriched(after.done[i].output)
        <3> TAKE i \in DOMAIN after.done
        <3>1. i \in 1..n \/ i = n + 1
            BY <1>6, <1>7
        <3>2. CASE i \in 1..n
            <4>1. after.done[i] = pool.done[i] /\ i \in DOMAIN pool.done
                BY <1>6, <1>7, <3>2
            <4> QED  BY <2>2, <4>1
        <3>3. CASE i = n + 1
            <4>1. after.done[i].output = output
                BY <1>6, <3>3
            <4> QED  BY <1>16, <4>1
        <3> QED  BY <3>1, <3>2, <3>3
    <2> QED  BY <1>5, <2>1, <2>3 DEF IsEnriched
<1>17. \A i, time : Due(i, time)' <=> Due(i, time)
    BY <1>14 DEF Due, SlowBefore
<1>18. ASSUME NEW i \in Unfinished(after)
       PROVE  /\ Due(i, request'.since[i])
              /\ i \in SlowItems => request.clock <= request'.since[i] + EntryTimeout
              /\ i \notin SlowItems => request'.since[i] = request.clock
    <2>1. i \in DOMAIN request.items /\ EntryTimeout \in Nat
        BY <1>2, <1>8, <1>9, Bounds
    <2>2. CASE i \in new
        <3>1. request'.since[i] = request.clock /\ i \notin 1..pool.started
            BY <1>10, <1>12, <2>1, <2>2
        <3>2. Due(i, request.clock)
            BY <2>1, <3>1 DEF WaitingInv, pool
        <3> QED  BY <1>2, <2>1, <3>1, <3>2
    <2>3. CASE i \notin new
        <3>1. request'.since[i] = request.since[i] /\ i \in Unfinished(pool)
            BY <1>11, <1>12, <2>1, <2>3
        <3> QED  BY <3>1 DEF WaitingInv, pool
    <2> QED  BY <2>2, <2>3
<1>19. ASSUME NEW i \in DOMAIN request.items \ 1..after.started  PROVE Due(i, request.clock)
    <2>1. i \notin 1..pool.started
        BY <1>13, <1>19
    <2> QED  BY <2>1 DEF WaitingInv, pool
<1> QED  BY <1>5, <1>14, <1>15, <1>16, <1>17, <1>18, <1>19 DEF WaitingInv

\* As many lookups run as the bound allows, unless all have started.
LEMMA PoolRuns ==
    ASSUME NEW pool, NEW size \in Nat, IsPool(pool, size)
    PROVE  /\ Cardinality(Unfinished(pool)) = pool.started - Len(pool.done)
           /\ Cardinality(Unfinished(pool)) \in Nat
           /\ Cardinality(Unfinished(pool)) >= Limit \/ pool.started = size
           /\ ~IsComplete(pool) => Cardinality(Unfinished(pool)) # 0
<1> DEFINE started == pool.started
           finished == Finished(pool)
           n == Len(pool.done)
<1>1. n \in Nat /\ started \in 0..size /\ IsFiniteSet(finished) /\ Limit \in Nat \ {0} /\ pool.size = size
      /\ IsFiniteSet(Unfinished(pool))
    BY PoolFacts, Bounds
<1>2. finished \in SUBSET (1..started) /\ Cardinality(finished) = n /\ started = Least(size, n + Limit)
    BY DEF IsPool
<1>3. Unfinished(pool) = (1..started) \ finished
    BY DEF Unfinished
<1>4. IsComplete(pool) <=> finished = 1..size
    BY <1>1 DEF IsComplete
<1> HIDE DEF finished, started, n
<1>5. IsFiniteSet(1..started) /\ Cardinality(1..started) = started
    BY <1>1, FS_Interval
<1>6. (1..started) \cap finished = finished
    BY <1>2
<1>7. Cardinality((1..started) \ finished) = Cardinality(1..started) - Cardinality((1..started) \cap finished)
    BY <1>5, FS_Difference
<1>8. Cardinality(Unfinished(pool)) = started - n
    BY <1>2, <1>3, <1>5, <1>6, <1>7
<1>9. Cardinality(Unfinished(pool)) \in Nat
    BY <1>1, FS_CardinalityType
<1>10. started - n >= Limit \/ started = size
    BY <1>1, <1>2 DEF Least
<1>11. ASSUME started - n = 0  PROVE IsComplete(pool)
    <2>1. started = size
        BY <1>1, <1>10, <1>11
    <2>2. Unfinished(pool) = {}
        BY <1>1, <1>8, <1>11, FS_EmptySet
    <2> QED  BY <1>2, <1>3, <1>4, <2>1, <2>2
<1> QED  BY <1>8, <1>9, <1>10, <1>11 DEF started, n

\* Time passes while slow lookups hold every slot: an item behind them is due for
\* a batch longer than the first of them was.
LEMMA TimeKeepsWaiting ==
    ASSUME PagesInv, view = "wishlist", WaitingInv, TimePasses
    PROVE  WaitingInv'
<1> DEFINE pool == request.pool
           clock == request.clock
           size == Len(request.items)
           running == Unfinished(pool)
<1>1. /\ request.state = "resolving" /\ ~IsComplete(pool)
      /\ \A k \in running :
            request.items[k].candidates # << >> /\ Candidate(k) \in slow /\ Waited(k) < EntryTimeout
      /\ opened' = opened /\ faults' = faults /\ request' = [request EXCEPT !.clock = @ + 1]
    BY DEF TimePasses
<1>2. /\ clock \in Nat /\ size \in Nat /\ DOMAIN request.items = 1..size
      /\ IsPool(pool, size) /\ pool.started \in 0..size
      /\ \A k \in running : k \in DOMAIN request.items /\ k \in 1..pool.started
      /\ \A k \in DOMAIN request.items : request.since[k] \in Nat /\ request.since[k] <= clock
    BY <1>1, WaitingFacts
<1>3. DOMAIN request = {"state", "offset", "left", "last", "blind", "items", "pool", "tried", "since", "clock", "lost"}
    BY <1>1, ResolvingFacts
<1>4. /\ request'.items = request.items /\ request'.pool = pool /\ request'.since = request.since
      /\ request'.clock = clock + 1
    BY <1>1, <1>3
<1>5. slow' = slow /\ SlowItems' = SlowItems
    BY <1>1, <1>4 DEF opened, SlowItems
<1>6. running \in SUBSET SlowItems
    BY <1>1, SlowFacts DEF IsRunning
<1>7. \A i, time : Due(i, time)' <=> Due(i, time)
    BY <1>5 DEF Due, SlowBefore
<1>8. EntryTimeout \in Nat \ {0} /\ Limit \in Nat \ {0}
    BY Bounds
<1>9. \A k \in DOMAIN request'.items : request'.since[k] \in 0..request'.clock
    BY <1>2, <1>4
<1>10. faults' = 0 => (\A k \in DOMAIN request.pool.done : IsEnriched(request.pool.done[k].output))'
    BY <1>1, <1>4, <1>5 DEF WaitingInv, IsEnriched
<1>11. \A k \in running : clock + 1 <= request.since[k] + EntryTimeout
    BY <1>1, <1>2, <1>8 DEF Waited
<1>12. \A k \in running : Due(k, request.since[k])
    BY DEF WaitingInv
<1>13. /\ IsFiniteSet(running) /\ Cardinality(running) \in Nat
       /\ Cardinality(running) >= Limit \/ pool.started = size
    BY <1>2, PoolFacts, PoolRuns
<1>14. ASSUME NEW k \in DOMAIN request.items \ 1..pool.started  PROVE Due(k, clock + 1)
    <2>1. k \in Nat /\ \A i \in running : i < k
        BY <1>2, <1>14
    <2>2. Cardinality(running) >= Limit
        BY <1>2, <1>13, <1>14
    <2>3. PICK j \in running : Cardinality(SlowBefore(j)) + Limit <= Cardinality(SlowBefore(k))
        BY <1>2, <1>6, <1>13, <2>1, <2>2, FirstOfABatch
    <2>4. PICK batch \in Nat : batch * Limit <= Cardinality(SlowBefore(j)) /\ request.since[j] <= batch * EntryTimeout
        BY <1>12 DEF Due
    <2> DEFINE full == batch * Limit
               start == batch * EntryTimeout
    <2>5. /\ (batch + 1) * Limit = full + Limit /\ full \in Nat
          /\ (batch + 1) * EntryTimeout = start + EntryTimeout /\ start \in Nat
        BY <1>8, OneMore
    <2>6. full <= Cardinality(SlowBefore(j)) /\ request.since[j] <= start
        BY <2>4
    <2> HIDE DEF full, start
    <2>7. Cardinality(SlowBefore(j)) \in Nat /\ Cardinality(SlowBefore(k)) \in Nat
        BY <1>2, SlowBeforeIsFinite
    <2>8. full + Limit <= Cardinality(SlowBefore(k))
        BY <1>8, <2>3, <2>5, <2>6, <2>7
    <2>9. clock + 1 <= start + EntryTimeout
        BY <1>2, <1>8, <1>11, <2>5, <2>6
    <2> QED  BY <2>5, <2>8, <2>9 DEF Due
<1>15. /\ Unfinished(request'.pool) = running
       /\ \A k \in running : k \in SlowItems' /\ Due(k, request.since[k])' /\ request'.clock <= request'.since[k] + EntryTimeout
    BY <1>4, <1>5, <1>6, <1>7, <1>11, <1>12
<1>16. \A k \in DOMAIN request'.items \ 1..request'.pool.started : Due(k, request.clock)'
    BY <1>4, <1>7, <1>14
<1> HIDE DEF running, clock, pool
<1> QED  BY <1>9, <1>10, <1>15, <1>16 DEF WaitingInv

\* The whole list does not run out of time with few slow lookups.
LEMMA NotOutOfTime ==
    ASSUME PagesInv, view = "wishlist", request.state = "resolving", WaitingInv, request.clock = TotalTimeout,
           ~IsComplete(request.pool)
    PROVE  ~FewAreSlow
<1> DEFINE order == InOrder[FirstEntries(PagePositions)]
           f == [k \in SlowItems |-> order[k]]
           fit == (TotalTimeout - 1) \div EntryTimeout
<1>1. /\ OpeningInv /\ ResolvingInv /\ Len(request.items) \in Nat /\ DOMAIN request.items = 1..Len(request.items)
      /\ PagePositions \in SUBSET DOMAIN list
      /\ \A k \in DOMAIN request.items :
            request.items[k] = Item(PageOrder[k], PagePositions) /\ PageOrder[k] \in FirstEntries(PagePositions)
    BY ResolvingFacts
<1>2. Enumerates(order, FirstEntries(PagePositions)) /\ DOMAIN order = DOMAIN request.items
    <2>1. request.items = Items(PagePositions)
        BY <1>1 DEF ResolvingInv
    <2> QED  BY <1>1, <2>1, ItemsFacts
<1>3. order = PageOrder
    BY DEF PageOrder
<1> HIDE DEF order
<1>4. \A k \in SlowItems : k \in DOMAIN request.items /\ order[k] \in SlowPositions
    <2> TAKE k \in SlowItems
    <2> DEFINE n == order[k]
               item == request.items[k]
    <2>1. k \in DOMAIN request.items /\ item.candidates # << >> /\ item.candidates[1] \in slow
        BY DEF SlowItems
    <2>2. item = Item(n, PagePositions) /\ n \in FirstEntries(PagePositions)
        BY <1>1, <1>3, <2>1
    <2> HIDE DEF n, item
    <2>3. item.candidates = CandidatesOf(n) /\ n \in Entries(PagePositions)
        BY <2>2 DEF Item, FirstEntries
    <2>4. n \in DOMAIN list
        BY <1>1, <2>3, EntryIsEntry
    <2>5. item.candidates = IF list[n].kind = "product" THEN <<list[n].id>> ELSE << >>
        BY <2>3 DEF CandidatesOf
    <2>6. list[n].id \in slow
        <3>1. \A p : <<p>>[1] = p
            OBVIOUS
        <3> QED  BY <2>1, <2>5, <3>1
    <2> QED  BY <2>1, <2>4, <2>6 DEF SlowPositions, n
<1>5. \A j, k \in SlowItems : j # k => order[j] # order[k]
    <2> TAKE j, k \in SlowItems
    <2> HAVE j # k
    <2>1. j \in Nat /\ k \in Nat /\ j \in DOMAIN order /\ k \in DOMAIN order
        BY <1>1, <1>2, <1>4
    <2>2. j < k \/ k < j
        BY <2>1
    <2>3. order[j] < order[k] \/ order[k] < order[j]
        BY <1>2, <2>1, <2>2 DEF Enumerates
    <2>4. order[j] \in Nat /\ order[k] \in Nat
        BY <1>1, <1>4 DEF SlowPositions, OpeningInv
    <2> QED  BY <2>3, <2>4
<1>6. IsFiniteSet(SlowPositions)
    <2>1. IsFiniteSet(DOMAIN list)
        BY <1>1, FS_Interval DEF OpeningInv
    <2>2. SlowPositions \in SUBSET DOMAIN list
        BY DEF SlowPositions
    <2> QED  BY <2>1, <2>2, FS_Subset
<1>7. f \in Injection(SlowItems, SlowPositions)
    BY <1>4, <1>5 DEF Injection, IsInjective
<1>8. IsFiniteSet(SlowItems) /\ Cardinality(SlowItems) <= Cardinality(SlowPositions)
    <2> HIDE DEF f
    <2> QED  BY <1>6, <1>7, FS_Injection
<1>9. TotalTimeout \in Nat \ {0} /\ EntryTimeout \in Nat \ {0} /\ Limit \in Nat \ {0}
    BY Bounds
<1>10. PICK k \in Unfinished(request.pool) : TRUE
    <2>1. IsPool(request.pool, Len(request.items)) /\ Len(request.items) \in Nat
        BY WaitingFacts
    <2>2. Cardinality(Unfinished(request.pool)) # 0
        BY <2>1, PoolRuns
    <2> QED  BY <2>2, FS_EmptySet
<1>11. /\ k \in DOMAIN request.items /\ request.since[k] \in Nat
       /\ IsFiniteSet(SlowBefore(k)) /\ Cardinality(SlowBefore(k)) \in Nat
       /\ Cardinality(SlowBefore(k)) <= Cardinality(SlowItems) /\ Cardinality(SlowItems) \in Nat
    BY <1>1, WaitingFacts, SlowBeforeIsFinite
<1>12. PICK batch \in Nat : batch * Limit <= Cardinality(SlowBefore(k)) /\ request.since[k] <= batch * EntryTimeout
    BY <1>10 DEF WaitingInv, Due
<1>13. \E last \in Nat : TotalTimeout <= last * EntryTimeout + EntryTimeout /\ last * Limit < Cardinality(SlowItems)
    <2> DEFINE full == batch * Limit
               start == batch * EntryTimeout
    <2>1. full \in Nat /\ start \in Nat
        BY <1>9, OneMore
    <2>2. full <= Cardinality(SlowBefore(k)) /\ request.since[k] <= start
        BY <1>12
    <2>3. CASE k \in SlowItems
        <3>1. TotalTimeout <= request.since[k] + EntryTimeout
            BY <2>3 DEF WaitingInv
        <3>2. Cardinality(SlowBefore(k)) # Cardinality(SlowItems)
            <4>1. SlowBefore(k) \in SUBSET SlowItems /\ k \notin SlowBefore(k)
                BY <1>1, <1>11 DEF SlowBefore
            <4> QED  BY <1>8, <2>3, <4>1, FS_Subset
        <3> HIDE DEF full, start
        <3>3. TotalTimeout <= start + EntryTimeout /\ full < Cardinality(SlowItems)
            BY <1>9, <1>11, <2>1, <2>2, <3>1, <3>2
        <3> QED  BY <3>3 DEF full, start
    <2>4. CASE k \notin SlowItems
        <3>1. request.since[k] = TotalTimeout
            BY <2>4 DEF WaitingInv
        <3>2. TotalTimeout <= start /\ full <= Cardinality(SlowItems)
            BY <1>9, <1>11, <2>1, <2>2, <3>1
        <3>3. batch # 0
            BY <1>9, <3>2
        <3>4. batch - 1 \in Nat /\ (batch - 1) + 1 = batch
            BY <3>3
        <3>5. /\ batch * Limit = (batch - 1) * Limit + Limit /\ (batch - 1) * Limit \in Nat
              /\ batch * EntryTimeout = (batch - 1) * EntryTimeout + EntryTimeout
            BY <1>9, <3>4, OneMore
        <3> DEFINE before == (batch - 1) * Limit
        <3>6. full = before + Limit /\ before \in Nat
            BY <3>5
        <3>7. TotalTimeout <= (batch - 1) * EntryTimeout + EntryTimeout
            BY <3>2, <3>5
        <3> HIDE DEF before, full, start
        <3>8. before < Cardinality(SlowItems)
            BY <1>9, <1>11, <2>1, <3>2, <3>6
        <3> QED  BY <3>4, <3>7, <3>8 DEF before
    <2> QED  BY <2>3, <2>4
<1>14. PICK last \in Nat : TotalTimeout <= last * EntryTimeout + EntryTimeout /\ last * Limit < Cardinality(SlowItems)
    BY <1>13
<1>15. fit <= last /\ fit \in Nat
    BY <1>9, <1>14, LastBatch
<1>16. FewAreSlow <=> Cardinality(SlowPositions) <= Limit * fit
    BY DEF FewAreSlow
<1> HIDE DEF fit
<1>17. fit * Limit <= last * Limit /\ Limit * fit = fit * Limit
    BY <1>9, <1>15, BatchesGrow
<1> DEFINE a == fit * Limit
           b == last * Limit
<1>18. a \in Nat /\ b \in Nat
    BY <1>9, <1>15, OneMore
<1>19. Cardinality(SlowItems) \in Nat /\ Cardinality(SlowPositions) \in Nat
    BY <1>6, <1>8, FS_CardinalityType
<1>20. a <= b /\ b < Cardinality(SlowItems) /\ (FewAreSlow <=> Cardinality(SlowPositions) <= a)
    BY <1>14, <1>16, <1>17
<1> HIDE DEF a, b
<1> QED  BY <1>8, <1>18, <1>19, <1>20

LEMMA EnrichKeeps ==
    ASSUME EnrichInv, opened' = opened, client'.cards = client.cards, faults' = 0 => faults = 0,
           view = "wishlist" /\ request'.state = "resolving" => WaitingInv'
    PROVE  EnrichInv'
<1>1. view' = view /\ list' = list /\ slow' = slow
    BY DEF opened
<1>2. FewAreSlow' = FewAreSlow
    BY <1>1 DEF FewAreSlow, SlowPositions
<1>3. \A card : IsEnriched(card)' = IsEnriched(card)
    BY <1>1 DEF IsEnriched
<1>4. ASSUME view = "wishlist", faults' = 0, FewAreSlow
      PROVE  \A k \in DOMAIN client'.cards : IsEnriched(client.cards[k])
    BY <1>4 DEF EnrichInv
<1>5. ASSUME view = "wishlist", faults' = 0, FewAreSlow
      PROVE  (\A k \in DOMAIN client.cards : IsEnriched(client.cards[k]))'
    BY <1>1, <1>4, <1>5 DEF IsEnriched
<1> QED  BY <1>1, <1>2, <1>5 DEF EnrichInv

\* The one answer of the wishlist.
LEMMA AnswerEnriches ==
    ASSUME PagesInv, view = "wishlist", request.state = "resolving", NEW cards, NEW lost, IsSequence(cards),
           Answer(cards, lost), opened' = opened,
           faults' = 0 /\ FewAreSlow => \A k \in DOMAIN cards : IsEnriched(cards[k])
    PROVE  EnrichInv'
<1>1. view' = view /\ list' = list /\ slow' = slow
    BY DEF opened
<1>2. FewAreSlow' = FewAreSlow
    BY <1>1 DEF FewAreSlow, SlowPositions
<1>3. client'.cards = client.cards \o cards /\ request'.state = "none"
    BY DEF Answer, NoRequest
<1>4. client.cards = << >>
    <2>1. ClientInv /\ client.status = "fetching"
        BY ResolvingFacts
    <2> QED  BY <2>1 DEF ClientInv
<1>5. << >> \o cards = cards
    <2>1. PICK c \in Nat : cards = [k \in 1..c |-> cards[k]]
        BY DEF IsSequence
    <2> DEFINE S == {cards[k] : k \in 1..c}
    <2>2. \A k \in 1..c : cards[k] \in S
        OBVIOUS
    <2> HIDE DEF S
    <2>3. cards \in [1..c -> S]
        BY <2>1, <2>2
    <2>4. cards \in Seq(S)
        BY <2>3
    <2> QED  BY <2>4
<1>6. client'.cards = cards
    BY <1>3, <1>4, <1>5
<1>7. ASSUME faults' = 0, FewAreSlow
      PROVE  (\A k \in DOMAIN client.cards : IsEnriched(client.cards[k]))'
    BY <1>1, <1>6, <1>7 DEF IsEnriched
<1> QED  BY <1>1, <1>2, <1>3, <1>7 DEF EnrichInv

\* The wishlist is answered when its last lookup ends.
LEMMA ResolvedEnriches ==
    ASSUME PagesInv, EnrichInv, view = "wishlist", PageResolved
    PROVE  EnrichInv'
<1> DEFINE outputs == Outputs(request.pool)
           cards == Kept(outputs)
           size == Len(request.items)
           with == {k \in DOMAIN outputs : outputs[k].card # NoCard}
           sel == InOrder[with]
<1>1. request.state = "resolving" /\ IsComplete(request.pool) /\ opened' = opened /\ faults' = faults
    BY DEF PageResolved
<1>2. Answer(cards, request.lost \cup LostItems(outputs))
    BY DEF PageResolved, IsOutage, ReadsOn, Paged
<1>3. /\ OpeningInv /\ ResolvingInv /\ size \in Nat /\ WaitingInv
    BY <1>1, ResolvingFacts DEF EnrichInv
<1>4. IsPool(request.pool, size)
    BY <1>3 DEF ResolvingInv
<1>5. /\ DOMAIN outputs = 1..size
      /\ \A i \in 1..size : \E k \in DOMAIN request.pool.done :
            request.pool.done[k].item = i /\ outputs[i] = request.pool.done[k].output
    BY <1>1, <1>3, <1>4, PoolCompletes
<1>6. cards = Picked(outputs, with)
    BY DEF Kept
<1> HIDE DEF outputs, cards
<1>7. with \in SUBSET Nat /\ IsFiniteSet(with)
    <2>1. with \in SUBSET (1..size) /\ IsFiniteSet(1..size)
        BY <1>3, <1>5, FS_Interval
    <2>2. with \in SUBSET Nat
        BY <1>3, <1>5
    <2> HIDE DEF with
    <2>3. IsFiniteSet(with)
        BY <2>1, FS_Subset
    <2> QED  BY <2>2, <2>3
<1>8. \A k \in with : k \in 1..size
    BY <1>5
<1> HIDE DEF with
<1>9. IsSequence(cards) /\ DOMAIN cards = DOMAIN sel /\ \A k \in DOMAIN sel : cards[k] = outputs[sel[k]]
    BY <1>6, <1>7, PickedFacts
<1>10. Enumerates(sel, with)
    BY <1>7, InOrderEnumerates
<1> HIDE DEF sel
<1>11. \A k \in DOMAIN cards : sel[k] \in 1..size /\ cards[k] = outputs[sel[k]]
    BY <1>8, <1>9, <1>10 DEF Enumerates
<1>12. ASSUME faults' = 0
       PROVE  \A k \in DOMAIN cards : IsEnriched(cards[k])
    <2>1. \A k \in DOMAIN request.pool.done : IsEnriched(request.pool.done[k].output)
        BY <1>1, <1>3, <1>12 DEF WaitingInv
    <2> TAKE k \in DOMAIN cards
    <2>2. PICK i \in DOMAIN request.pool.done : outputs[sel[k]] = request.pool.done[i].output
        BY <1>5, <1>11
    <2> QED  BY <1>11, <2>1, <2>2
<1> QED  BY <1>1, <1>2, <1>9, <1>12, AnswerEnriches

\* An entry that ends has its store card, unless its lookup is slow: only a slow one
\* waits until it is out of time.
LEMMA EntryIsEnriched ==
    ASSUME PagesInv, view = "wishlist", NEW k, IsRunning(k), WaitingInv
    PROVE  /\ IsEnriched(EnrichedEntry(request.items[k], TRUE))
           /\ NothingToLookUp(k) \/ EntryTimesOut(k) => IsEnriched(Without(request.items[k]))
<1> DEFINE item == request.items[k]
<1>1. \A id, from : Card(id, from).card = id /\ Card(id, from).from = from
    BY DEF Card
<1>2. item.id \in Ps5Games => EnrichedEntry(item, TRUE).from = "store"
    BY <1>1 DEF EnrichedEntry
<1>3. EnrichedEntry(item, TRUE).card = item.id /\ Without(item).card = item.id
    BY <1>1 DEF EnrichedEntry, Without
<1>4. ASSUME NothingToLookUp(k)  PROVE item.id \notin Ps5Games
    <2>1. item.id \notin ProductIds
        BY <1>4, SlowFacts DEF NothingToLookUp
    <2> QED  BY <2>1, Bounds
<1>5. ASSUME EntryTimesOut(k)  PROVE item.id \notin Ps5Games \ slow
    <2>1. request.state = "resolving" /\ k \in Unfinished(request.pool) /\ request.clock - request.since[k] >= EntryTimeout
        BY <1>5 DEF EntryTimesOut, IsRunning, Waited
    <2>2. request.clock \in Nat /\ EntryTimeout \in Nat \ {0}
        BY <2>1, WaitingFacts, Bounds
    <2>3. k \in DOMAIN request.items /\ request.since[k] \in Nat /\ request.since[k] <= request.clock
        BY <2>1, WaitingFacts
    <2>4. request.since[k] # request.clock
        BY <2>1, <2>2, <2>3
    <2>7. k \in SlowItems
        BY <2>1, <2>4 DEF WaitingInv
    <2>8. item.candidates # << >>
        BY <2>7 DEF SlowItems
    <2>9. item.id \in slow
        BY <2>7, <2>8, SlowFacts
    <2> QED  BY <2>9
<1> QED  BY <1>2, <1>3, <1>4, <1>5 DEF IsEnriched

LEMMA FaultsGrow ==
    ASSUME PagesInv, faults' = faults \/ faults' = faults + 1
    PROVE  faults' = 0 => faults = 0
<1>1. faults \in 0..MaxFaults /\ MaxFaults \in Nat
    BY Bounds DEF PagesInv, OpeningInv
<1>2. faults \in Nat
    BY <1>1
<1> QED  BY <1>2

\* No time has passed when the list arrives.
LEMMA ReadBeginsToWait ==
    ASSUME PagesInv, view = "wishlist", NEW readable \in BOOLEAN, PageRead(readable)
    PROVE  WaitingInv'
<1> DEFINE items == Items(PagePositions)
           pool == NewPool(Len(items), Limit)
<1>1. OpeningInv /\ RequestInv /\ ClientInv /\ request.state = "reading"
    BY DEF PagesInv, PageRead
<1>2. AskedInv /\ request = ReadFrom(request.offset, request.left, request.lost)
    BY <1>1 DEF RequestInv
<1>3. request.clock = 0
    <2>1. \A a, b, c : ReadFrom(a, b, c).clock = 0
        BY DEF ReadFrom, NoRequest
    <2> QED  BY <1>2, <2>1
<1>4. DOMAIN request = {"state", "offset", "left", "last", "blind", "items", "pool", "tried", "since", "clock", "lost"}
    BY <1>1 DEF RequestInv, IsRequest
<1>5. /\ request'.clock = request.clock /\ request'.items = items /\ request'.pool = pool
      /\ request'.since = [k \in DOMAIN items |-> 0]
    BY <1>4 DEF PageRead, PagePositions
<1>6. PagePositions \in SUBSET DOMAIN list
    BY <1>1, <1>2, PageFacts
<1>7. Len(items) \in Nat /\ DOMAIN items = 1..Len(items)
    BY <1>1, <1>6, ItemsFacts
<1> HIDE DEF items
<1>8. pool.done = << >> /\ IsPool(pool, Len(items))
    BY <1>7, PoolBegins
<1> HIDE DEF pool
<1>9. DOMAIN request'.pool.done = {}
    BY <1>5, <1>8
<1>10. \A k \in DOMAIN request'.items : request'.since[k] = 0
    BY <1>5
<1>11. request'.clock = 0
    BY <1>3, <1>5
<1>12. \A k \in DOMAIN request'.items : request'.since[k] \in 0..request'.clock
    BY <1>10, <1>11
<1>13. (\A k \in DOMAIN request.pool.done : IsEnriched(request.pool.done[k].output))'
    BY <1>9
<1>14. \A k : Due(k, 0)'
    <2> TAKE k
    <2>1. SlowBefore(k)' \in SUBSET DOMAIN items
        BY <1>5 DEF SlowBefore, SlowItems
    <2>2. IsFiniteSet(DOMAIN items)
        BY <1>7, FS_Interval
    <2>3. Cardinality(SlowBefore(k)') \in Nat
        BY <2>1, <2>2, FS_Subset, FS_CardinalityType
    <2>4. 0 * Limit = 0 /\ 0 * EntryTimeout = 0
        BY Bounds
    <2> QED  BY <2>3, <2>4 DEF Due
<1>15. \A k \in Unfinished(request'.pool) : k \in DOMAIN request'.items
    <2>1. pool.started \in 0..Len(items)
        BY <1>7, <1>8, PoolFacts
    <2> QED  BY <1>5, <1>7, <2>1 DEF Unfinished
<1>16. \A k \in Unfinished(request'.pool) :
          /\ Due(k, request.since[k])'
          /\ request'.clock <= request'.since[k] + EntryTimeout
          /\ request'.since[k] = request'.clock
    BY <1>10, <1>11, <1>14, <1>15, Bounds
<1> QED  BY <1>11, <1>12, <1>13, <1>14, <1>16 DEF WaitingInv

\* Of the wishlist, the end of a lookup enriches its entry, unless Sony fails.
LEMMA LookupEnriches ==
    ASSUME PagesInv, EnrichInv, view = "wishlist", NEW k, NEW found \in BOOLEAN,
           NothingToLookUp(k) \/ EntryTimesOut(k) \/ LookupEnds(k, found)
    PROVE  EnrichInv'
<1>1. IsRunning(k) /\ opened' = opened /\ client' = client
    BY DEF NothingToLookUp, EntryTimesOut, LookupEnds
<1>2. WaitingInv
    BY <1>1 DEF EnrichInv, IsRunning
<1>4. faults' = 0 => faults = 0
    <2>1. faults' = faults \/ faults' = faults + 1
        BY DEF NothingToLookUp, EntryTimesOut, LookupEnds
    <2> QED  BY <2>1, FaultsGrow
<1>5. ASSUME NEW output, ItemEnds(k, output), faults' = 0 => IsEnriched(output)
      PROVE  EnrichInv'
    <2>1. faults' = 0 => faults = 0 /\ IsEnriched(output)
        BY <1>4, <1>5
    <2>2. WaitingInv'
        BY <1>1, <1>2, <1>5, <2>1, ItemEndsKeepsWaiting
    <2>3. client'.cards = client.cards
        BY <1>1
    <2> QED  BY <1>1, <1>4, <2>2, <2>3, EnrichKeeps
<1>6. CASE NothingToLookUp(k) \/ EntryTimesOut(k)
    <2>1. ItemEnds(k, Without(request.items[k]))
        BY <1>6 DEF NothingToLookUp, EntryTimesOut
    <2>2. IsEnriched(Without(request.items[k]))
        BY <1>1, <1>2, <1>6, EntryIsEnriched
    <2> QED  BY <1>5, <2>1, <2>2
<1>7. CASE LookupEnds(k, found)
    <2> DEFINE item == request.items[k]
               output == Resolution(item, request.tried[k], found)
    <2>1. ~GoesOn(item, request.tried[k], found)
        BY DEF GoesOn
    <2>2. ItemEnds(k, output) /\ faults' = (IF found THEN faults ELSE faults + 1)
        BY <1>7, <2>1 DEF LookupEnds
    <2>3. output = EnrichedEntry(item, found)
        BY DEF Resolution
    <2>4. ASSUME faults' = 0  PROVE found = TRUE
        <3>1. faults = 0
            BY <1>4, <2>4
        <3>2. ~found => faults' = 1
            BY <2>2, <3>1
        <3> QED  BY <2>4, <3>2
    <2>5. IsEnriched(EnrichedEntry(item, TRUE))
        BY <1>1, <1>2, EntryIsEnriched
    <2> HIDE DEF item, output
    <2>6. faults' = 0 => IsEnriched(output)
        BY <2>3, <2>4, <2>5
    <2> QED  BY <1>5, <2>2, <2>6
<1> QED  BY <1>6, <1>7

LEMMA EnrichInit == PagesInit => EnrichInv
<1> SUFFICES ASSUME PagesInit PROVE EnrichInv
    OBVIOUS
<1>1. request = NoRequest /\ client.cards = << >>
    BY DEF PagesInit
<1>2. request.state # "resolving" /\ DOMAIN client.cards = {}
    BY <1>1 DEF NoRequest
<1> QED  BY <1>2 DEF EnrichInv

\* Every step keeps what is said of slow lookups.
LEMMA EnrichNext == PagesInv /\ EnrichInv /\ [PagesNext]_pagesVars => EnrichInv'
<1> SUFFICES ASSUME PagesInv, EnrichInv, [PagesNext]_pagesVars PROVE EnrichInv'
    OBVIOUS
<1>1. ASSUME opened' = opened, client'.cards = client.cards, request'.state # "resolving",
             faults' = faults \/ faults' = faults + 1
      PROVE  EnrichInv'
    BY <1>1, FaultsGrow, EnrichKeeps
<1>2. ASSUME view' = view, view # "wishlist"  PROVE EnrichInv'
    BY <1>2 DEF EnrichInv
<1>3. CASE view # "wishlist"
    <2>1. opened' = opened
        BY DEF PagesNext, ServerStep, PageRead, PageFails, FailureExpires, NothingToLookUp, EntryTimesOut, LookupEnds,
               TimePasses, TotalTimesOut, PageResolved, Fetch, AskAgain, ScrollDown, Retry, Ask, pagesVars, opened
    <2> QED  BY <1>2, <1>3, <2>1 DEF opened
<1>4. CASE view = "wishlist"
    <2>1. ASSUME NEW readable \in BOOLEAN, PageRead(readable) PROVE EnrichInv'
        <3>1. opened' = opened /\ client'.cards = client.cards /\ faults' = faults
            BY <2>1 DEF PageRead
        <3>2. WaitingInv'
            BY <1>4, <2>1, ReadBeginsToWait
        <3> QED  BY <3>1, <3>2, EnrichKeeps
    <2>2. ASSUME PageFails PROVE EnrichInv'
        <3>1. /\ opened' = opened /\ request' = NoRequest /\ (faults' = faults \/ faults' = faults + 1)
              /\ client' = [client EXCEPT !.status = "failed", !.retried = FALSE]
            BY <1>4, <2>2 DEF PageFails, RequestFails
        <3>2. client'.cards = client.cards /\ request'.state # "resolving"
            BY <3>1 DEF NoRequest
        <3> QED  BY <1>1, <3>1, <3>2
    <2>3. ASSUME opened' = opened, faults' = faults, request' = request, client' = client PROVE EnrichInv'
        <3>1. view' = view /\ list' = list /\ slow' = slow
            BY <2>3 DEF opened
        <3>2. SlowItems' = SlowItems
            BY <2>3, <3>1 DEF SlowItems
        <3>3. (request.state = "resolving" => WaitingInv) => (request.state = "resolving" => WaitingInv)'
            BY <2>3, <3>1, <3>2 DEF WaitingInv, Due, SlowBefore, IsEnriched
        <3> QED  BY <2>3, <3>1, <3>3, EnrichKeeps DEF EnrichInv
    <2>4. ASSUME FailureExpires \/ UNCHANGED pagesVars PROVE EnrichInv'
        BY <2>3, <2>4 DEF FailureExpires, pagesVars, opened
    <2>5. ASSUME NEW k \in DOMAIN request.items,
                 NothingToLookUp(k) \/ EntryTimesOut(k) \/ \E found \in BOOLEAN : LookupEnds(k, found)
          PROVE  EnrichInv'
        BY <1>4, <2>5, LookupEnriches
    <2>6. ASSUME TimePasses PROVE EnrichInv'
        <3>1. opened' = opened /\ client' = client /\ faults' = faults /\ request.state = "resolving"
            BY <2>6 DEF TimePasses
        <3>2. WaitingInv
            BY <1>4, <3>1 DEF EnrichInv
        <3>3. WaitingInv'
            BY <1>4, <2>6, <3>2, TimeKeepsWaiting
        <3> QED  BY <3>1, <3>3, EnrichKeeps
    <2>7. ASSUME TotalTimesOut PROVE EnrichInv'
        <3> DEFINE cards == [k \in DOMAIN request.items |-> Card(request.items[k].id, "list")]
        <3>1. /\ request.state = "resolving" /\ request.clock = TotalTimeout
              /\ ~IsComplete(request.pool) /\ Answer(cards, {}) /\ opened' = opened
            BY <2>7 DEF TotalTimesOut
        <3>2. WaitingInv
            BY <1>4, <3>1 DEF EnrichInv
        <3>3. ~FewAreSlow
            BY <1>4, <3>1, <3>2, NotOutOfTime
        <3>4. IsSequence(cards)
            <4>1. Len(request.items) \in Nat /\ DOMAIN request.items = 1..Len(request.items)
                BY <3>1, ResolvingFacts
            <4> QED  BY <4>1 DEF IsSequence
        <3> HIDE DEF cards
        <3> QED  BY <1>4, <3>1, <3>3, <3>4, AnswerEnriches
    <2>8. ASSUME PageResolved PROVE EnrichInv'
        BY <1>4, <2>8, ResolvedEnriches
    <2>9. ASSUME Fetch \/ AskAgain \/ ScrollDown \/ Retry PROVE EnrichInv'
        <3>1. Ask
            BY <2>9 DEF Fetch, AskAgain, ScrollDown, Retry
        <3>2. opened' = opened /\ client'.cards = client.cards /\ faults' = faults /\ request' = NewRequest(client.next)
            BY <3>1 DEF Ask
        <3>3. \A offset : NewRequest(offset).state = "reading"
            BY DEF NewRequest, ReadFrom, NoRequest
        <3>4. request'.state # "resolving"
            BY <3>2, <3>3
        <3> QED  BY <1>1, <3>2, <3>4
    <2> QED  BY <2>1, <2>2, <2>4, <2>5, <2>6, <2>7, <2>8, <2>9 DEF PagesNext, ServerStep
<1> QED  BY <1>3, <1>4

LEMMA EnrichedFollows == EnrichInv => EnrichedUnlessTooManySlow
<1> SUFFICES ASSUME EnrichInv, view = "wishlist", faults = 0, FewAreSlow,
                    NEW k \in DOMAIN Shown, Shown[k].card \in Ps5Games \ slow
             PROVE  Shown[k].from = "store"
    BY DEF EnrichedUnlessTooManySlow, FewAreSlow, SlowPositions
<1>1. Shown = client.cards
    BY DEF Shown, Paged
<1>2. \A i \in DOMAIN client.cards : IsEnriched(client.cards[i])
    BY DEF EnrichInv
<1>3. IsEnriched(Shown[k])
    BY <1>1, <1>2
<1> QED  BY <1>3 DEF IsEnriched

\* However many entries the wishlist has and whichever lookups are slow: as long as
\* the slow ones fit into the deadline, every other entry that the store knows has
\* its store card.
THEOREM EnrichedCorrect == PagesSpec => []EnrichedUnlessTooManySlow
<1>1. PagesInit => PagesInv /\ EnrichInv
    BY PagesInitInv, EnrichInit
<1>2. PagesInv /\ EnrichInv /\ [PagesNext]_pagesVars => (PagesInv /\ EnrichInv)'
    BY PagesNextInv, EnrichNext
<1> QED  BY <1>1, <1>2, EnrichedFollows, PTL DEF PagesSpec

=============================================================================
