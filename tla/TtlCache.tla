------------------------------ MODULE TtlCache ------------------------------
(***************************************************************************)
(* crates/server/src/application/cache.rs: the bounded cache of lookup      *)
(* outcomes behind every list, detail page, price and critic score.         *)
(*                                                                          *)
(* Every section under the mutex is one action.  The lookup runs as a task  *)
(* of its own: callers come and go, entries are evicted or replaced, and    *)
(* the task still completes later against whatever the cache then holds.    *)
(***************************************************************************)
EXTENDS Integers, FiniteSets

CONSTANTS
    Keys,       \* cache keys
    Callers,    \* requests that call get_with
    Outcomes,   \* lookup outcomes, as far as the time to live tells them apart
    Ttl,        \* the `ttl` closure: clock ticks that each outcome lives
    MaxInstant, \* the last instant tokio's clock can represent
    Capacity,   \* entries the cache may hold
    MaxNext,    \* bound: numbers handed out by `bump`
    MaxNow      \* bound: clock ticks

\* The state of a lookup task that has no outcome (yet).
Running == "running"
Panicked == "panicked"
\* A caller that waits for nothing.
Idle == [key |-> "no_key", id |-> 0]

ASSUME KeysAssumption == IsFiniteSet(Keys) /\ "no_key" \notin Keys
ASSUME OutcomesAssumption == Running \notin Outcomes /\ Panicked \notin Outcomes
ASSUME TtlAssumption == Ttl \in [Outcomes -> Nat]
ASSUME NumbersAssumption ==
    MaxInstant \in Nat /\ Capacity \in Nat /\ MaxNext \in Nat /\ MaxNow \in Nat

VARIABLES
    entries,    \* State.entries: an entry, or NoEntry, for every key
    recency,    \* State.recency: <<recency number, key>>
    next,       \* State.next
    lookups,    \* the spawned lookup tasks by number
    calls,      \* the shared lookup each caller awaits
    now         \* Instant::now()

cacheVars == <<entries, recency, next>>
vars == <<entries, recency, next, lookups, calls, now>>

Waiting(c) == calls[c].id # 0

-----------------------------------------------------------------------------
(* Entries *)

Never == -1
NoEntry == [id |-> 0, used |-> 0, expiresAt |-> Never]
Present(es) == {k \in Keys : es[k].id # 0}

\* The locked state, passed through the helpers of `impl State`.
State == [entries |-> entries, recency |-> recency]

BumpForgotten == next
Bump == next + 1

ExpiredLate(entry) == entry.expiresAt # Never /\ now > entry.expiresAt
Expired(entry) == entry.expiresAt # Never /\ now >= entry.expiresAt

HasSettledEntry(k) == entries[k].expiresAt # Never /\ ~Expired(entries[k])
HasFreshEntry(k) == entries[k].id # 0 /\ ~Expired(entries[k])

RemoveKeyKeepsRecency(s, k) == [s EXCEPT !.entries[k] = NoEntry]
RemoveKey(s, k) ==
    IF s.entries[k].id = 0 THEN s
    ELSE [entries |-> [s.entries EXCEPT ![k] = NoEntry],
          recency |-> {p \in s.recency : p[1] # s.entries[k].used}]

\* BTreeMap::insert: the number maps to this key only.
Ranked(r, used, k) == {p \in r : p[1] # used} \cup {<<used, k>>}

Insert(s, k, entry) ==
    LET cleared == RemoveKey(s, k)
    IN  [entries |-> [cleared.entries EXCEPT ![k] = entry],
         recency |-> Ranked(cleared.recency, entry.used, k)]

RemoveLookup(s, k, id) == IF s.entries[k].id = id THEN RemoveKey(s, k) ELSE s

(***************************************************************************)
(* evict_over: pop the smallest recency number until the cache fits, that   *)
(* is, drop as many of the least recently used entries as are in excess.    *)
(***************************************************************************)
Drop(s, popped) ==
    [entries |-> [k \in Keys |-> IF \E p \in popped : p[2] = k THEN NoEntry ELSE s.entries[k]],
     recency |-> s.recency \ popped]
EvictOneTooLate(s) ==
    LET excess == Cardinality(Present(s.entries)) - (Capacity + 1)
    IN  Drop(s, {p \in s.recency : Cardinality({q \in s.recency : q[1] < p[1]}) < excess})
EvictOver(s) ==
    LET excess == Cardinality(Present(s.entries)) - Capacity
    IN  Drop(s, {p \in s.recency : Cardinality({q \in s.recency : q[1] < p[1]}) < excess})

SetState(s) == entries' = s.entries /\ recency' = s.recency

-----------------------------------------------------------------------------
(* Operations *)

Init ==
    /\ lookups = [i \in {} |-> {}]
    /\ calls = [c \in Callers |-> Idle]
    /\ now = 0
    /\ entries = [k \in Keys |-> NoEntry]
    /\ recency = {}
    /\ next = 0

(***************************************************************************)
(* get_with, when fresh_entry finds a usable entry: it becomes the most     *)
(* recently used one and the caller awaits its shared lookup.               *)
(***************************************************************************)
GetCached(c, k) ==
    /\ ~Waiting(c)
    /\ next < MaxNext
    /\ HasFreshEntry(k)
    /\ next' = Bump
    /\ entries' = [entries EXCEPT ![k].used = Bump]
    /\ recency' = Ranked({p \in recency : p[1] # entries[k].used}, Bump, k)
    /\ calls' = [calls EXCEPT ![c] = [key |-> k, id |-> entries[k].id]]
    /\ UNCHANGED <<now, lookups>>

(***************************************************************************)
(* get_with, when it does not: fresh_entry has removed an expired entry,    *)
(* start_lookup numbers and spawns the task, inserts the pending entry and  *)
(* evicts over the capacity, the new entry itself if the capacity is zero.  *)
(***************************************************************************)
StartLookup(c, k) ==
    /\ ~Waiting(c)
    /\ next < MaxNext
    /\ ~HasFreshEntry(k)
    /\ next' = Bump
    /\ lookups' = [i \in DOMAIN lookups \cup {Bump} |->
                      IF i = Bump THEN [key |-> k, end |-> Running, at |-> 0] ELSE lookups[i]]
    /\ SetState(EvictOver(Insert(RemoveKey(State, k), k,
                   [id |-> Bump, used |-> Bump, expiresAt |-> Never])))
    /\ calls' = [calls EXCEPT ![c] = [key |-> k, id |-> Bump]]
    /\ UNCHANGED now

\* Instant::now().checked_add(ttl): a sum past the clock's end never expires.
ExpiresAt(o) == IF now + Ttl[o] > MaxInstant THEN Never ELSE now + Ttl[o]

\* Inner::complete
CompletedAnyLookup(k, id, o) ==
    IF Ttl[o] = 0 THEN RemoveLookup(State, k, id)
    ELSE IF entries[k].id # 0 THEN [State EXCEPT !.entries[k].expiresAt = ExpiresAt(o)]
    ELSE State
Completed(k, id, o) ==
    IF Ttl[o] = 0 THEN RemoveLookup(State, k, id)
    ELSE IF entries[k].id = id THEN [State EXCEPT !.entries[k].expiresAt = ExpiresAt(o)]
    ELSE State

\* The task ends; from here on `shared.await` returns to its callers.
TaskEnds(id, end) ==
    /\ lookups[id].end = Running
    /\ lookups' = [lookups EXCEPT ![id].end = end, ![id].at = now]
    /\ UNCHANGED <<next, calls, now>>

\* The task's last poll: the outcome is recorded, then the callers can have it.
CompleteLookup(id, o) ==
    /\ TaskEnds(id, o)
    /\ SetState(Completed(lookups[id].key, id, o))

\* The lookup panics: PendingGuard drops while armed.
PanicLookup(id) ==
    /\ TaskEnds(id, Panicked)
    /\ SetState(RemoveLookup(State, lookups[id].key, id))

\* shared.await returns the outcome, or LookupPanicked, to the caller.
Receive(c) ==
    /\ Waiting(c)
    /\ lookups[calls[c].id].end # Running
    /\ calls' = [calls EXCEPT ![c] = Idle]
    /\ UNCHANGED <<cacheVars, lookups, now>>

\* The caller is dropped while it waits: the task does not notice.
Leave(c) ==
    /\ Waiting(c)
    /\ calls' = [calls EXCEPT ![c] = Idle]
    /\ UNCHANGED <<cacheVars, lookups, now>>

Tick == now < MaxNow /\ now' = now + 1 /\ UNCHANGED <<cacheVars, lookups, calls>>

Next ==
    \/ \E c \in Callers, k \in Keys : GetCached(c, k) \/ StartLookup(c, k)
    \/ \E id \in DOMAIN lookups : PanicLookup(id) \/ \E o \in Outcomes : CompleteLookup(id, o)
    \/ \E c \in Callers : Receive(c) \/ Leave(c)
    \/ Tick

Spec == Init /\ [][Next]_vars

-----------------------------------------------------------------------------
(* Properties *)

Entry == [id : Nat, used : Nat, expiresAt : Nat \cup {Never}]
Lookup == [key : Keys, end : Outcomes \cup {Running, Panicked}, at : Nat]
Call == [key : Keys, id : Nat \ {0}] \cup {Idle}

\* Every variable of the cache has its type.
TypeOK ==
    /\ now \in Nat
    /\ next \in Nat
    /\ entries \in [Keys -> Entry]
    /\ recency \in SUBSET (Nat \X Keys)
    /\ DOMAIN lookups \subseteq 1..next
    /\ lookups \in [DOMAIN lookups -> Lookup]
    /\ calls \in [Callers -> Call]

(***************************************************************************)
(* State.recency and Entry.used are two records of the same order: every    *)
(* entry is ranked exactly once, at its `used` number, and nothing else is  *)
(* ranked.  A leftover rank would make evict_over pop a number without      *)
(* freeing an entry, or drop a live entry by a removed one's number.        *)
(***************************************************************************)
Indexed(s) ==
    /\ s.recency = {<<s.entries[k].used, k>> : k \in Present(s.entries)}
    /\ \A j, k \in Present(s.entries) : s.entries[j].used = s.entries[k].used => j = k
RecencyMatchesEntries == Indexed(State)

\* evict_over keeps the cache, pending entries included, within its capacity.
WithinCapacity == Cardinality(Present(entries)) <= Capacity

(***************************************************************************)
(* An entry is only ever stamped by the lookup that filled it.  A lookup    *)
(* that was evicted, or whose entry expired and was filled anew, completes  *)
(* or panics without touching its successor: an entry without an expiry is  *)
(* one whose own lookup still runs (or never expires), one with an expiry   *)
(* counts from the end of its own lookup, and no entry is left behind by a  *)
(* lookup that panicked or whose outcome must not be cached.                *)
(***************************************************************************)
EntryFollowsItsLookup ==
    \A k \in Present(entries) :
       LET entry == entries[k] task == lookups[entry.id] IN
       /\ entry.id \in DOMAIN lookups
       /\ task.key = k
       /\ \/ task.end = Running /\ entry.expiresAt = Never
          \/ /\ task.end \in Outcomes
             /\ Ttl[task.end] > 0
             /\ entry.expiresAt = IF task.at + Ttl[task.end] > MaxInstant
                                  THEN Never ELSE task.at + Ttl[task.end]

(***************************************************************************)
(* An entry leaves the cache for one of three reasons only: its time is up, *)
(* its own lookup has just ended with nothing to keep, or the cache is full *)
(* and every entry that stays was used after it.  So concurrent callers of  *)
(* a key share its pending lookup, an ended lookup never takes its          *)
(* successor along, and a read protects an entry that others do not use.    *)
(***************************************************************************)
EndsNow(id) == lookups[id].end = Running /\ lookups'[id].end # Running
EvictedAsOldest(k) ==
    /\ k \notin Present(entries')
    /\ Cardinality(Present(entries')) >= Capacity
    /\ \A j \in Present(entries') : entries'[j].used > entries[k].used
EntriesLeaveForAReason ==
    [][\A k \in Present(entries) :
         entries'[k].id # entries[k].id
            => Expired(entries[k]) \/ EndsNow(entries[k].id) \/ EvictedAsOldest(k)]_vars

\* get_with gives each caller what the contract promises it.
C == INSTANCE CacheContract WITH LookupIds <- 1..MaxNext
ImplementsContract == C!Spec

=============================================================================
