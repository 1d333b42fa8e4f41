--------------------------- MODULE TtlCache_proofs ---------------------------
(***************************************************************************)
(* Proofs about TtlCache, for every set of keys, callers and outcomes,      *)
(* every time to live and every capacity.                                   *)
(***************************************************************************)
EXTENDS TtlCache, TLAPS, FiniteSetTheorems, WellFoundedInduction

States == [entries : [Keys -> Entry], recency : SUBSET (Nat \X Keys)]
NewEntry(n) == [id |-> n, used |-> n, expiresAt |-> Never]

\* State::remove_key keeps the locked state well typed.
LEMMA RemoveKeyType ==
  ASSUME NEW s \in States, NEW k \in Keys
  PROVE  RemoveKey(s, k) \in States
  BY DEF States, RemoveKey, NoEntry, Entry, Never

\* State::insert keeps the locked state well typed.
LEMMA InsertType ==
  ASSUME NEW s \in States, NEW k \in Keys, NEW e \in Entry
  PROVE  Insert(s, k, e) \in States
  <1> DEFINE cleared == RemoveKey(s, k)
  <1>1. cleared \in States BY RemoveKeyType
  <1> HIDE DEF cleared
  <1>2. Ranked(cleared.recency, e.used, k) \in SUBSET (Nat \X Keys)
    BY <1>1 DEF States, Ranked, Entry
  <1>3. [cleared.entries EXCEPT ![k] = e] \in [Keys -> Entry]
    BY <1>1 DEF States
  <1> QED BY <1>2, <1>3 DEF Insert, States, cleared

\* State::evict_over keeps the locked state well typed.
LEMMA EvictType ==
  ASSUME NEW s \in States
  PROVE  EvictOver(s) \in States
  BY DEF States, EvictOver, Drop, NoEntry, Entry, Never

\* State::remove_lookup keeps the locked state well typed.
LEMMA RemoveLookupType ==
  ASSUME NEW s \in States, NEW k \in Keys, NEW id \in Nat
  PROVE  RemoveLookup(s, k, id) \in States
  BY RemoveKeyType DEF RemoveLookup

\* Inner::complete keeps the locked state well typed.
LEMMA CompletedType ==
  ASSUME TypeOK, NEW k \in Keys, NEW id \in Nat, NEW o \in Outcomes
  PROVE  Completed(k, id, o) \in States
  <1>1. State \in States BY DEF TypeOK, State, States
  <1>2. ExpiresAt(o) \in Nat \cup {Never}
    BY TtlAssumption, NumbersAssumption DEF TypeOK, ExpiresAt, Never
  <1>3. [State EXCEPT !.entries[k].expiresAt = ExpiresAt(o)] \in States
    BY <1>1, <1>2 DEF States, Entry
  <1> QED BY <1>1, <1>3, RemoveLookupType DEF Completed

\* Every action of the cache preserves the types of its variables.
LEMMA TypeStep == TypeOK /\ [Next]_vars => TypeOK'
  <1> SUFFICES ASSUME TypeOK, [Next]_vars PROVE TypeOK'
    OBVIOUS
  <1>1. State \in States BY DEF TypeOK, State, States
  <1>2. ASSUME NEW c \in Callers, NEW k \in Keys, GetCached(c, k) PROVE TypeOK'
    <2>1. [entries EXCEPT ![k].used = Bump] \in [Keys -> Entry]
      BY DEF TypeOK, Entry, Bump
    <2>2. recency' \in SUBSET (Nat \X Keys)
      BY <1>2 DEF GetCached, Ranked, TypeOK, Bump
    <2>3. calls' \in [Callers -> Call]
      BY <1>2 DEF GetCached, HasFreshEntry, TypeOK, Call, Entry
    <2> QED BY <1>2, <2>1, <2>2, <2>3 DEF GetCached, TypeOK, Bump
  <1>3. ASSUME NEW c \in Callers, NEW k \in Keys, StartLookup(c, k) PROVE TypeOK'
    <2>1. NewEntry(Bump) \in Entry
      BY DEF TypeOK, NewEntry, Entry, Bump, Never
    <2>2. EvictOver(Insert(RemoveKey(State, k), k, NewEntry(Bump))) \in States
      BY <1>1, <2>1, RemoveKeyType, InsertType, EvictType
    <2>3. entries' \in [Keys -> Entry] /\ recency' \in SUBSET (Nat \X Keys)
      BY <1>3, <2>2 DEF StartLookup, SetState, States, NewEntry
    <2>4. lookups' \in [DOMAIN lookups' -> Lookup] /\ DOMAIN lookups' \subseteq 1..next'
      BY <1>3 DEF StartLookup, TypeOK, Lookup, Bump, Running
    <2>5. calls' \in [Callers -> Call]
      BY <1>3 DEF StartLookup, TypeOK, Call, Bump
    <2> QED BY <1>3, <2>3, <2>4, <2>5 DEF StartLookup, TypeOK, Bump
  <1>4. ASSUME NEW id \in DOMAIN lookups, NEW end \in Outcomes \cup {Panicked}, TaskEnds(id, end)
        PROVE  /\ lookups' \in [DOMAIN lookups' -> Lookup] /\ DOMAIN lookups' \subseteq 1..next'
               /\ next' \in Nat /\ now' \in Nat /\ calls' \in [Callers -> Call]
               /\ id \in Nat /\ lookups[id].key \in Keys
    BY <1>4 DEF TaskEnds, TypeOK, Lookup
  <1>5. ASSUME NEW id \in DOMAIN lookups, PanicLookup(id) PROVE TypeOK'
    <2>1. lookups[id].key \in Keys /\ id \in Nat BY <1>4, <1>5 DEF PanicLookup
    <2>2. RemoveLookup(State, lookups[id].key, id) \in States
      BY <1>1, <2>1, RemoveLookupType
    <2>3. entries' \in [Keys -> Entry] /\ recency' \in SUBSET (Nat \X Keys)
      BY <1>5, <2>2 DEF PanicLookup, SetState, States
    <2> QED BY <1>4, <1>5, <2>3 DEF PanicLookup, TypeOK
  <1>6. ASSUME NEW id \in DOMAIN lookups, NEW o \in Outcomes, CompleteLookup(id, o) PROVE TypeOK'
    <2>1. lookups[id].key \in Keys /\ id \in Nat BY <1>4, <1>6 DEF CompleteLookup
    <2>2. Completed(lookups[id].key, id, o) \in States
      BY <2>1, CompletedType
    <2>3. entries' \in [Keys -> Entry] /\ recency' \in SUBSET (Nat \X Keys)
      BY <1>6, <2>2 DEF CompleteLookup, SetState, States
    <2> QED BY <1>4, <1>6, <2>3 DEF CompleteLookup, TypeOK
  <1>7. ASSUME NEW c \in Callers, Receive(c) \/ Leave(c) PROVE TypeOK'
    BY <1>7 DEF Receive, Leave, cacheVars, TypeOK, Call
  <1>8. CASE Tick
    BY <1>8 DEF Tick, cacheVars, TypeOK
  <1>9. CASE UNCHANGED vars
    BY <1>9 DEF vars, TypeOK
  <1> QED BY <1>2, <1>3, <1>5, <1>6, <1>7, <1>8, <1>9 DEF Next

\* The cache starts well typed.
LEMMA InitType == ASSUME Init PROVE TypeOK
  <1>1. DOMAIN lookups = {} /\ lookups \in [DOMAIN lookups -> Lookup]
    BY DEF Init
  <1>2. entries \in [Keys -> Entry]
    BY DEF Init, NoEntry, Entry, Never
  <1>3. calls \in [Callers -> Call]
    BY DEF Init, Call
  <1> QED BY <1>1, <1>2, <1>3 DEF Init, TypeOK

\* The cache's variables keep their types in every behaviour.
THEOREM TypeCorrect == Spec => []TypeOK
  <1>1. Init => TypeOK BY InitType
  <1> QED BY <1>1, TypeStep, PTL DEF Spec

-----------------------------------------------------------------------------
(***************************************************************************)
(* The inductive invariant.  The properties of the runs are not inductive   *)
(* alone: that a new rank is not taken, and that a new lookup number is not *)
(* in use, needs every number in the cache to be at most `next`.            *)
(***************************************************************************)
NumbersHandedOut == next <= MaxNext /\ \A k \in Keys : entries[k].used <= next
IndInv == TypeOK /\ RecencyMatchesEntries /\ EntryFollowsItsLookup /\ NumbersHandedOut

\* Removing a key removes its rank and no other.
LEMMA RemoveKeyIndexed ==
  ASSUME NEW s \in States, NEW k \in Keys, Indexed(s)
  PROVE  Indexed(RemoveKey(s, k))
  <1>1. CASE s.entries[k].id = 0
    BY <1>1 DEF RemoveKey
  <1>2. CASE s.entries[k].id # 0
    <2> DEFINE t == RemoveKey(s, k)
    <2>1. t = [entries |-> [s.entries EXCEPT ![k] = NoEntry],
               recency |-> {p \in s.recency : p[1] # s.entries[k].used}]
      BY <1>2 DEF RemoveKey
    <2>2. Present(t.entries) = Present(s.entries) \ {k}
      BY <2>1 DEF Present, NoEntry, States
    <2>3. \A j \in Present(t.entries) : t.entries[j] = s.entries[j] /\ j # k
      BY <2>1, <2>2 DEF Present, States
    <2>4. k \in Present(s.entries)
      BY <1>2 DEF Present
    <2> HIDE DEF t
    <2>5. t.recency = {<<t.entries[j].used, j>> : j \in Present(t.entries)}
      BY <2>1, <2>2, <2>3, <2>4 DEF Indexed
    <2> QED BY <2>2, <2>3, <2>5 DEF Indexed, t
  <1> QED BY <1>1, <1>2

\* Inserting with a rank above every other keeps the two orders equal.
LEMMA InsertIndexed ==
  ASSUME NEW s \in States, NEW k \in Keys, NEW e \in Entry, Indexed(s),
         e.id # 0, \A j \in Keys : s.entries[j].used < e.used
  PROVE  Indexed(Insert(s, k, e))
  <1> DEFINE c == RemoveKey(s, k)
             t == Insert(s, k, e)
  <1>1. c \in States /\ Indexed(c)
    BY RemoveKeyType, RemoveKeyIndexed
  <1>2. \A j \in Keys : c.entries[j].used < e.used
    BY DEF RemoveKey, States, NoEntry, Entry
  <1>3. k \notin Present(c.entries)
    BY DEF RemoveKey, Present, NoEntry, States
  <1>4. t = [entries |-> [c.entries EXCEPT ![k] = e],
             recency |-> {p \in c.recency : p[1] # e.used} \cup {<<e.used, k>>}]
    BY DEF Insert, Ranked
  <1> HIDE DEF c, t
  <1>5. Present(t.entries) = Present(c.entries) \cup {k}
    BY <1>1, <1>4 DEF Present, States
  <1>6. t.entries[k] = e /\ \A j \in Present(c.entries) : j # k /\ t.entries[j] = c.entries[j]
    BY <1>1, <1>3, <1>4 DEF Present, States
  <1>7. {p \in c.recency : p[1] # e.used} = c.recency
    BY <1>1, <1>2 DEF Indexed, Present, States, Entry
  <1>8. t.recency = c.recency \cup {<<e.used, k>>}
    BY <1>4, <1>7
  <1>9. t.recency = {<<t.entries[j].used, j>> : j \in Present(t.entries)}
    BY <1>1, <1>5, <1>6, <1>8 DEF Indexed
  <1>10. \A i, j \in Present(t.entries) : t.entries[i].used = t.entries[j].used => i = j
    BY <1>1, <1>2, <1>5, <1>6 DEF Indexed, Present, States, Entry
  <1> QED BY <1>9, <1>10 DEF Indexed, t

\* Dropping any set of ranks with their entries keeps the two orders equal.
LEMMA DropIndexed ==
  ASSUME NEW s \in States, Indexed(s), NEW popped \in SUBSET s.recency
  PROVE  Indexed(Drop(s, popped))
  <1> DEFINE t == Drop(s, popped)
  <1>1. t = [entries |-> [k \in Keys |-> IF \E p \in popped : p[2] = k THEN NoEntry ELSE s.entries[k]],
             recency |-> s.recency \ popped]
    BY DEF Drop
  <1> HIDE DEF t
  <1>2. \A k \in Present(t.entries) :
           k \in Present(s.entries) /\ t.entries[k] = s.entries[k] /\ ~\E p \in popped : p[2] = k
    BY <1>1 DEF Present, NoEntry
  <1>3. \A k \in Present(s.entries) : (~\E p \in popped : p[2] = k) => k \in Present(t.entries)
    BY <1>1 DEF Present
  <1>4. \A p \in s.recency : \E k \in Present(s.entries) : p = <<s.entries[k].used, k>>
    BY DEF Indexed
  <1>5. \A k \in Present(s.entries) :
           (\E p \in popped : p[2] = k) <=> <<s.entries[k].used, k>> \in popped
    BY <1>4
  <1>6. t.recency = {<<t.entries[k].used, k>> : k \in Present(t.entries)}
    <2>1. ASSUME NEW p \in t.recency
          PROVE  p \in {<<t.entries[k].used, k>> : k \in Present(t.entries)}
      <3>1. PICK k \in Present(s.entries) : p = <<s.entries[k].used, k>>
        BY <1>1, <1>4
      <3>2. ~\E q \in popped : q[2] = k
        BY <1>1, <1>5, <3>1
      <3> QED BY <1>2, <1>3, <3>1, <3>2
    <2>2. ASSUME NEW k \in Present(t.entries)
          PROVE  <<t.entries[k].used, k>> \in t.recency
      <3>1. k \in Present(s.entries) /\ t.entries[k] = s.entries[k]
        BY <1>2
      <3>2. <<s.entries[k].used, k>> \in s.recency
        BY <3>1 DEF Indexed
      <3>3. <<s.entries[k].used, k>> \notin popped
        BY <1>2, <1>5, <3>1
      <3>4. t.recency = s.recency \ popped BY <1>1
      <3> QED BY <3>1, <3>2, <3>3, <3>4
    <2> QED BY <2>1, <2>2
  <1> QED BY <1>2, <1>6 DEF Indexed, t

\* What evict_over and a new entry leave of the other keys' entries.
LEMMA StartedEntries ==
  ASSUME NEW s \in States, NEW k \in Keys, NEW e \in Entry,
         NEW t, t = EvictOver(Insert(RemoveKey(s, k), k, e))
  PROVE  \A j \in Keys : \/ t.entries[j] = NoEntry
                         \/ j = k /\ t.entries[j] = e
                         \/ j # k /\ t.entries[j] = s.entries[j]
  <1> DEFINE i == Insert(RemoveKey(s, k), k, e)
  <1>1. \A j \in Keys : \/ j = k /\ i.entries[j] = e
                        \/ j # k /\ i.entries[j] = s.entries[j]
    BY DEF Insert, RemoveKey, States
  <1>2. i \in States BY RemoveKeyType, InsertType
  <1> HIDE DEF i
  <1>3. \A j \in Keys : t.entries[j] \in {NoEntry, i.entries[j]}
    BY <1>2 DEF EvictOver, Drop, i
  <1> QED BY <1>1, <1>3

\* Dropping or stamping an entry is all that the end of a lookup does to it.
LEMMA RemoveLookupEntries ==
  ASSUME NEW s \in States, NEW k \in Keys, NEW id \in Nat
  PROVE  /\ \A j \in Keys : RemoveLookup(s, k, id).entries[j] \in {NoEntry, s.entries[j]}
         /\ id # 0 => RemoveLookup(s, k, id).entries[k].id # id
  BY DEF RemoveLookup, RemoveKey, States, NoEntry

\* The recency order and Entry.used stay equal in every step.
LEMMA IndexStep ==
  ASSUME IndInv, [Next]_vars PROVE RecencyMatchesEntries'
  <1> USE DEF IndInv
  <1>1. State \in States /\ Indexed(State)
    BY DEF TypeOK, State, States, RecencyMatchesEntries
  <1>2. ASSUME NEW c \in Callers, NEW k \in Keys, GetCached(c, k) PROVE RecencyMatchesEntries'
    <2>1. entries' = [entries EXCEPT ![k].used = next + 1] /\ entries[k].id # 0
      BY <1>2 DEF GetCached, Bump, HasFreshEntry
    <2>2. Present(entries') = Present(entries) /\ k \in Present(entries)
      BY <2>1 DEF Present, TypeOK, Entry
    <2>3. \A j \in Keys : entries[j].used \in Nat /\ entries[j].used < next + 1
      BY DEF TypeOK, Entry, NumbersHandedOut
    <2>4. entries'[k].used = next + 1 /\ \A j \in Keys : j # k => entries'[j] = entries[j]
      BY <2>1 DEF TypeOK, Entry
    <2>5. recency' = {p \in {q \in recency : q[1] # entries[k].used} : p[1] # next + 1}
                        \cup {<<next + 1, k>>}
      BY <1>2 DEF GetCached, Ranked, Bump
    <2>6. recency = {<<entries[j].used, j>> : j \in Present(entries)}
      BY <1>1 DEF Indexed, State
    <2>7. \A i, j \in Present(entries) : entries[i].used = entries[j].used => i = j
      BY <1>1 DEF Indexed, State
    <2>8. recency' = {<<entries'[j].used, j>> : j \in Present(entries')}
      <3>1. ASSUME NEW p \in recency' PROVE p \in {<<entries'[j].used, j>> : j \in Present(entries')}
        <4>1. CASE p = <<next + 1, k>> BY <2>2, <2>4, <4>1
        <4>2. CASE p # <<next + 1, k>>
          <5>1. p \in recency /\ p[1] # entries[k].used BY <2>5, <4>2
          <5>2. PICK j \in Present(entries) : p = <<entries[j].used, j>> BY <2>6, <5>1
          <5>3. j # k /\ j \in Keys BY <5>1, <5>2 DEF Present
          <5> QED BY <2>2, <2>4, <5>2, <5>3
        <4> QED BY <4>1, <4>2
      <3>2. ASSUME NEW j \in Present(entries') PROVE <<entries'[j].used, j>> \in recency'
        <4>1. CASE j = k BY <2>4, <2>5, <4>1
        <4>2. CASE j # k
          <5>1. j \in Present(entries) /\ entries'[j] = entries[j] /\ j \in Keys
            BY <2>2, <2>4, <4>2 DEF Present
          <5>2. entries[j].used # entries[k].used /\ entries[j].used # next + 1
            BY <2>2, <2>3, <2>7, <4>2, <5>1
          <5>3. <<entries[j].used, j>> \in recency BY <2>6, <5>1
          <5> QED BY <2>5, <5>1, <5>2, <5>3
        <4> QED BY <4>1, <4>2
      <3> QED BY <3>1, <3>2
    <2>9. \A i, j \in Present(entries') : entries'[i].used = entries'[j].used => i = j
      BY <2>2, <2>3, <2>4, <2>7 DEF Present
    <2> QED BY <2>8, <2>9 DEF RecencyMatchesEntries, Indexed, State
  <1>3. ASSUME NEW c \in Callers, NEW k \in Keys, StartLookup(c, k) PROVE RecencyMatchesEntries'
    <2> DEFINE r == RemoveKey(State, k)
               t == EvictOver(Insert(r, k, NewEntry(Bump)))
    <2>1. r \in States /\ Indexed(r) BY <1>1, RemoveKeyType, RemoveKeyIndexed
    <2>2. NewEntry(Bump) \in Entry /\ NewEntry(Bump).id # 0
      BY DEF TypeOK, NewEntry, Entry, Bump, Never
    <2>3. \A j \in Keys : r.entries[j].used < NewEntry(Bump).used
      BY DEF RemoveKey, State, NoEntry, TypeOK, Entry, NumbersHandedOut, NewEntry, Bump
    <2> HIDE DEF r
    <2>4. Insert(r, k, NewEntry(Bump)) \in States /\ Indexed(Insert(r, k, NewEntry(Bump)))
      BY <2>1, <2>2, <2>3, InsertType, InsertIndexed
    <2>5. Indexed(t)
      BY <2>4, DropIndexed DEF EvictOver
    <2>6. State' = [entries |-> t.entries, recency |-> t.recency]
      BY <1>3 DEF StartLookup, SetState, State, NewEntry, r
    <2> HIDE DEF t
    <2> QED BY <2>5, <2>6 DEF RecencyMatchesEntries, Indexed
  <1>4. ASSUME NEW id \in DOMAIN lookups
        PROVE  id \in Nat /\ lookups[id].key \in Keys
    BY DEF TypeOK, Lookup
  <1>5. ASSUME NEW id \in DOMAIN lookups
        PROVE  Indexed(RemoveLookup(State, lookups[id].key, id))
    BY <1>1, <1>4, RemoveKeyIndexed DEF RemoveLookup
  <1>6. ASSUME NEW id \in DOMAIN lookups, PanicLookup(id) PROVE RecencyMatchesEntries'
    <2> DEFINE t == RemoveLookup(State, lookups[id].key, id)
    <2>1. Indexed(t) BY <1>5
    <2>2. State' = [entries |-> t.entries, recency |-> t.recency]
      BY <1>6 DEF PanicLookup, SetState, State
    <2> HIDE DEF t
    <2> QED BY <2>1, <2>2 DEF RecencyMatchesEntries, Indexed
  <1>7. ASSUME NEW id \in DOMAIN lookups, NEW o \in Outcomes, CompleteLookup(id, o)
        PROVE  RecencyMatchesEntries'
    <2> DEFINE k == lookups[id].key
               t == Completed(k, id, o)
               stamped == [State EXCEPT !.entries[k].expiresAt = ExpiresAt(o)]
    <2>1. Indexed(stamped)
      <3>1. stamped.recency = recency /\ stamped.entries = [entries EXCEPT ![k].expiresAt = ExpiresAt(o)]
        BY DEF State
      <3>2. \A j \in Keys : /\ stamped.entries[j].used = entries[j].used
                            /\ stamped.entries[j].id = entries[j].id
        <4>1. entries \in [Keys -> Entry] /\ k \in Keys BY <1>4 DEF TypeOK
        <4> QED BY <3>1, <4>1 DEF Entry
      <3>3. Present(stamped.entries) = Present(entries) /\ Present(entries) \subseteq Keys
        BY <3>2 DEF Present
      <3> HIDE DEF stamped
      <3>4. /\ recency = {<<entries[j].used, j>> : j \in Present(entries)}
            /\ \A i, j \in Present(entries) : entries[i].used = entries[j].used => i = j
        BY <1>1 DEF Indexed, State
      <3>5. {<<stamped.entries[j].used, j>> : j \in Present(stamped.entries)}
               = {<<entries[j].used, j>> : j \in Present(entries)}
        BY <3>2, <3>3
      <3>6. \A i, j \in Present(stamped.entries) :
               stamped.entries[i].used = stamped.entries[j].used => i = j
        BY <3>2, <3>3, <3>4
      <3>7. stamped.recency = recency BY <3>1
      <3> QED BY <3>4, <3>5, <3>6, <3>7 DEF Indexed
    <2>2. Indexed(t) BY <1>1, <1>5, <2>1 DEF Completed
    <2>3. State' = [entries |-> t.entries, recency |-> t.recency]
      BY <1>7 DEF CompleteLookup, SetState, State
    <2> HIDE DEF t
    <2> QED BY <2>2, <2>3 DEF RecencyMatchesEntries, Indexed
  <1>8. ASSUME UNCHANGED <<entries, recency>> PROVE RecencyMatchesEntries'
    BY <1>8 DEF RecencyMatchesEntries, Indexed, State, Present
  <1> QED BY <1>2, <1>3, <1>6, <1>7, <1>8 DEF Next, Receive, Leave, Tick, cacheVars, vars

\* An entry is stamped, and removed, by the lookup that filled it and no other.
LEMMA FollowStep ==
  ASSUME IndInv, [Next]_vars PROVE EntryFollowsItsLookup'
  <1> USE DEF IndInv
  <1>1. State \in States
    BY DEF TypeOK, State, States
  <1>2. \A k \in Keys : entries[k].id # 0 =>
           /\ entries[k].id \in DOMAIN lookups
           /\ lookups[entries[k].id].key = k
           /\ \/ lookups[entries[k].id].end = Running /\ entries[k].expiresAt = Never
              \/ /\ lookups[entries[k].id].end \in Outcomes
                 /\ Ttl[lookups[entries[k].id].end] > 0
                 /\ entries[k].expiresAt =
                      IF lookups[entries[k].id].at + Ttl[lookups[entries[k].id].end] > MaxInstant
                      THEN Never ELSE lookups[entries[k].id].at + Ttl[lookups[entries[k].id].end]
    BY DEF EntryFollowsItsLookup, Present
  <1>3. ASSUME NEW c \in Callers, NEW k \in Keys, GetCached(c, k) PROVE EntryFollowsItsLookup'
    <2>1. \A j \in Keys : /\ entries'[j].id = entries[j].id
                          /\ entries'[j].expiresAt = entries[j].expiresAt
      BY <1>3 DEF GetCached, TypeOK, Entry
    <2>2. lookups' = lookups BY <1>3 DEF GetCached
    <2> QED BY <1>2, <2>1, <2>2 DEF EntryFollowsItsLookup, Present
  <1>4. ASSUME NEW c \in Callers, NEW k \in Keys, StartLookup(c, k) PROVE EntryFollowsItsLookup'
    <2>1. NewEntry(Bump) \in Entry
      BY DEF TypeOK, NewEntry, Entry, Bump, Never
    <2>2. \A j \in Keys : \/ entries'[j] = NoEntry
                          \/ j = k /\ entries'[j] = NewEntry(Bump)
                          \/ j # k /\ entries'[j] = entries[j]
      BY <1>1, <1>4, <2>1, StartedEntries DEF StartLookup, SetState, State, NewEntry
    <2>3. Bump \notin DOMAIN lookups BY DEF TypeOK, Bump
    <2>4. /\ DOMAIN lookups' = DOMAIN lookups \cup {Bump}
          /\ lookups'[Bump] = [key |-> k, end |-> Running, at |-> 0]
          /\ \A i \in DOMAIN lookups : lookups'[i] = lookups[i]
      BY <1>4, <2>3 DEF StartLookup
    <2>5. ASSUME NEW j \in Present(entries)'
          PROVE  \/ j = k /\ entries'[j] = NewEntry(Bump)
                 \/ entries'[j] = entries[j] /\ entries[j].id # 0
      BY <2>2 DEF Present, NoEntry
    <2> QED BY <1>2, <2>4, <2>5 DEF EntryFollowsItsLookup, Present, NewEntry
  <1>5. ASSUME NEW id \in DOMAIN lookups, NEW end, TaskEnds(id, end)
        PROVE  /\ lookups[id].end = Running /\ id \in Nat \ {0} /\ lookups[id].key \in Keys
               /\ DOMAIN lookups' = DOMAIN lookups
               /\ lookups'[id].key = lookups[id].key /\ lookups'[id].end = end /\ lookups'[id].at = now
               /\ \A i \in DOMAIN lookups : i # id => lookups'[i] = lookups[i]
    <2>1. id \in Nat \ {0} /\ lookups[id] \in Lookup
      BY DEF TypeOK
    <2>2. lookups[id].end = Running /\ lookups' = [lookups EXCEPT ![id].end = end, ![id].at = now]
      BY <1>5 DEF TaskEnds
    <2>3. /\ DOMAIN lookups' = DOMAIN lookups
          /\ \A i \in DOMAIN lookups : i # id => lookups'[i] = lookups[i]
      BY <2>2
    <2>4. lookups'[id] = [lookups[id] EXCEPT !.end = end, !.at = now]
      BY <2>2
    <2>5. DOMAIN lookups[id] = {"key", "end", "at"} /\ lookups[id].key \in Keys
      BY <2>1 DEF Lookup
    <2>6. lookups'[id].key = lookups[id].key /\ lookups'[id].end = end /\ lookups'[id].at = now
      BY <2>4, <2>5
    <2> QED BY <2>1, <2>2, <2>3, <2>5, <2>6
  <1>6. ASSUME NEW id \in DOMAIN lookups, NEW end, TaskEnds(id, end),
               SetState(RemoveLookup(State, lookups[id].key, id))
        PROVE  EntryFollowsItsLookup'
    <2>1. \A j \in Keys : entries'[j] \in {NoEntry, entries[j]}
      BY <1>1, <1>5, <1>6, RemoveLookupEntries DEF SetState, State
    <2>2. entries'[lookups[id].key].id # id
      BY <1>1, <1>5, <1>6, RemoveLookupEntries DEF SetState, State
    <2>3. ASSUME NEW j \in Present(entries)'
          PROVE  j \in Keys /\ entries'[j] = entries[j] /\ entries[j].id \notin {0, id}
      <3>1. j \in Keys /\ entries'[j] = entries[j] /\ entries[j].id # 0
        BY <2>1 DEF Present, NoEntry
      <3>2. entries[j].id = id => lookups[id].key = j BY <1>2, <3>1
      <3> QED BY <2>2, <3>1, <3>2
    <2>4. ASSUME NEW j \in Present(entries)'
          PROVE  /\ entries[j].id \in DOMAIN lookups /\ DOMAIN lookups' = DOMAIN lookups
                 /\ lookups'[entries[j].id] = lookups[entries[j].id]
      BY <1>2, <1>5, <1>6, <2>3
    <2> QED BY <1>2, <2>3, <2>4 DEF EntryFollowsItsLookup
  <1>7. ASSUME NEW id \in DOMAIN lookups, PanicLookup(id) PROVE EntryFollowsItsLookup'
    BY <1>6, <1>7 DEF PanicLookup
  <1>8. ASSUME NEW id \in DOMAIN lookups, NEW o \in Outcomes, CompleteLookup(id, o)
        PROVE  EntryFollowsItsLookup'
    <2> DEFINE k == lookups[id].key
    <2>1. TaskEnds(id, o) /\ SetState(Completed(k, id, o)) BY <1>8 DEF CompleteLookup
    <2>2. CASE Ttl[o] = 0
      BY <1>6, <2>1, <2>2 DEF Completed
    <2>3. CASE Ttl[o] # 0 /\ entries[k].id = id
      <3>1. entries' = [entries EXCEPT ![k].expiresAt = ExpiresAt(o)]
        BY <2>1, <2>3 DEF Completed, SetState, State
      <3>2. k \in Keys BY <1>5, <2>1
      <3>3. /\ entries'[k].id = id /\ entries'[k].expiresAt = ExpiresAt(o)
            /\ \A j \in Keys : j # k => entries'[j] = entries[j]
        BY <2>3, <3>1, <3>2 DEF TypeOK, Entry
      <3>4. ASSUME NEW j \in Present(entries)', j # k
            PROVE  j \in Keys /\ entries'[j] = entries[j] /\ entries[j].id \notin {0, id}
        BY <1>2, <3>3, <3>4 DEF Present
      <3>5. Ttl[o] \in Nat /\ Ttl[o] > 0 BY <2>3, TtlAssumption
      <3>6. \A j \in Present(entries)' : j \in Keys /\ entries'[j].id # 0 BY DEF Present
      <3>7. now' = now BY <2>1 DEF TaskEnds
      <3>8. k \in Present(entries)' =>
              /\ entries'[k].id \in DOMAIN lookups'
              /\ lookups'[entries'[k].id].key = k
              /\ lookups'[entries'[k].id].end = o /\ lookups'[entries'[k].id].at = now
        BY <1>5, <2>1, <3>3
      <3> HIDE DEF k
      <3>9. ASSUME NEW j \in Present(entries)'
            PROVE  /\ entries'[j].id \in DOMAIN lookups'
                   /\ lookups'[entries'[j].id].key = j
                   /\ \/ lookups'[entries'[j].id].end = Running /\ entries'[j].expiresAt = Never
                      \/ /\ lookups'[entries'[j].id].end \in Outcomes
                         /\ Ttl[lookups'[entries'[j].id].end] > 0
                         /\ entries'[j].expiresAt =
                              IF lookups'[entries'[j].id].at + Ttl[lookups'[entries'[j].id].end] > MaxInstant
                              THEN Never ELSE lookups'[entries'[j].id].at + Ttl[lookups'[entries'[j].id].end]
        <4>1. CASE j = k BY <3>3, <3>5, <3>8, <4>1 DEF ExpiresAt
        <4>2. CASE j # k
          <5>1. j \in Keys /\ entries'[j] = entries[j] /\ entries[j].id \notin {0, id}
            BY <3>4, <4>2
          <5>2. entries[j].id \in DOMAIN lookups BY <1>2, <5>1
          <5>3. lookups'[entries[j].id] = lookups[entries[j].id] /\ DOMAIN lookups' = DOMAIN lookups
            BY <1>5, <2>1, <5>1, <5>2
          <5> QED BY <1>2, <5>1, <5>2, <5>3
        <4> QED BY <4>1, <4>2
      <3> QED BY <3>9 DEF EntryFollowsItsLookup
    <2>4. CASE Ttl[o] # 0 /\ entries[k].id # id
      <3>1. entries' = entries
        BY <2>1, <2>4 DEF Completed, SetState, State
      <3>2. ASSUME NEW j \in Present(entries)' PROVE j \in Keys /\ entries[j].id \notin {0, id}
        BY <1>2, <2>4, <3>1 DEF Present
      <3> HIDE DEF k
      <3> QED BY <1>2, <1>5, <2>1, <3>1, <3>2 DEF EntryFollowsItsLookup
    <2> QED BY <2>2, <2>3, <2>4
  <1>9. ASSUME UNCHANGED <<entries, lookups>> PROVE EntryFollowsItsLookup'
    BY <1>9 DEF EntryFollowsItsLookup, Present
  <1> QED BY <1>3, <1>4, <1>7, <1>8, <1>9 DEF Next, Receive, Leave, Tick, cacheVars, vars

\* `next` only grows, and every number in the cache was handed out by `bump`.
LEMMA NumbersStep ==
  ASSUME IndInv, [Next]_vars PROVE NumbersHandedOut'
  <1> USE DEF IndInv
  <1>1. State \in States
    BY DEF TypeOK, State, States
  <1>2. \A k \in Keys : entries[k].used <= next /\ entries[k].used \in Nat
    BY DEF NumbersHandedOut, TypeOK, Entry
  <1>3. ASSUME NEW c \in Callers, NEW k \in Keys, GetCached(c, k) PROVE NumbersHandedOut'
    <2>1. \A j \in Keys : entries'[j].used \in {entries[j].used, next + 1}
      BY <1>3 DEF GetCached, Bump, TypeOK, Entry
    <2>2. next' = next + 1 /\ next' <= MaxNext
      BY <1>3, NumbersAssumption DEF GetCached, Bump, TypeOK
    <2> QED BY <1>2, <2>1, <2>2 DEF NumbersHandedOut, TypeOK
  <1>4. ASSUME NEW c \in Callers, NEW k \in Keys, StartLookup(c, k) PROVE NumbersHandedOut'
    <2>1. NewEntry(Bump) \in Entry
      BY DEF TypeOK, NewEntry, Entry, Bump, Never
    <2>2. \A j \in Keys : entries'[j] \in {NoEntry, NewEntry(Bump), entries[j]}
      BY <1>1, <1>4, <2>1, StartedEntries DEF StartLookup, SetState, State, NewEntry
    <2>3. next' = next + 1 /\ next' <= MaxNext
      BY <1>4, NumbersAssumption DEF StartLookup, Bump, TypeOK
    <2> QED BY <1>2, <2>2, <2>3 DEF NumbersHandedOut, NoEntry, NewEntry, Bump, TypeOK
  <1>5. ASSUME NEW id \in DOMAIN lookups, PanicLookup(id) PROVE NumbersHandedOut'
    <2>1. \A j \in Keys : entries'[j] \in {NoEntry, entries[j]}
      BY <1>1, <1>5, RemoveLookupEntries DEF PanicLookup, SetState, State, TypeOK, Lookup
    <2> QED BY <1>2, <1>5, <2>1 DEF PanicLookup, TaskEnds, NumbersHandedOut, NoEntry, TypeOK
  <1>6. ASSUME NEW id \in DOMAIN lookups, NEW o \in Outcomes, CompleteLookup(id, o)
        PROVE  NumbersHandedOut'
    <2>1. id \in Nat /\ lookups[id].key \in Keys BY DEF TypeOK, Lookup
    <2>2. \A j \in Keys : entries'[j].used \in {0, entries[j].used}
      <3>1. \A j \in Keys : RemoveLookup(State, lookups[id].key, id).entries[j] \in {NoEntry, entries[j]}
        BY <1>1, <2>1, RemoveLookupEntries DEF State
      <3>2. \A j \in Keys :
              [State EXCEPT !.entries[lookups[id].key].expiresAt = ExpiresAt(o)].entries[j].used
                = entries[j].used
        BY <2>1 DEF State, TypeOK, Entry
      <3>3. entries' = Completed(lookups[id].key, id, o).entries
        BY <1>6 DEF CompleteLookup, SetState
      <3>4. State.entries = entries BY DEF State
      <3> QED BY <3>1, <3>2, <3>3, <3>4 DEF Completed, NoEntry
    <2> QED BY <1>2, <1>6, <2>2 DEF CompleteLookup, TaskEnds, NumbersHandedOut, TypeOK
  <1>7. ASSUME UNCHANGED <<entries, next>> PROVE NumbersHandedOut'
    BY <1>7 DEF NumbersHandedOut
  <1> QED BY <1>3, <1>4, <1>5, <1>6, <1>7 DEF Next, Receive, Leave, Tick, cacheVars, vars

\* The inductive invariant holds in every behaviour of the cache.
THEOREM Invariant == Spec => []IndInv
  <1>1. ASSUME Init PROVE IndInv
    <2>1. Present(entries) = {} /\ recency = {}
      BY <1>1 DEF Init, Present, NoEntry
    <2>2. NumbersHandedOut
      BY <1>1, NumbersAssumption DEF Init, NumbersHandedOut, NoEntry
    <2>3. RecencyMatchesEntries /\ EntryFollowsItsLookup
      BY <2>1 DEF RecencyMatchesEntries, Indexed, State, EntryFollowsItsLookup
    <2>4. TypeOK BY <1>1, InitType
    <2> QED BY <2>2, <2>3, <2>4 DEF IndInv
  <1>2. IndInv /\ [Next]_vars => IndInv'
    BY TypeStep, IndexStep, FollowStep, NumbersStep DEF IndInv
  <1> QED BY <1>1, <1>2, PTL DEF Spec

\* State.recency ranks every entry exactly once, at its `used` number.
THEOREM RecencyCorrect == Spec => []RecencyMatchesEntries
  <1>1. IndInv => RecencyMatchesEntries BY DEF IndInv
  <1> QED BY <1>1, Invariant, PTL

\* A late, evicted or panicked lookup never touches its successor's entry.
THEOREM FollowCorrect == Spec => []EntryFollowsItsLookup
  <1>1. IndInv => EntryFollowsItsLookup BY DEF IndInv
  <1> QED BY <1>1, Invariant, PTL

-----------------------------------------------------------------------------
(* Capacity *)

\* A non-empty recency order has a least recently used entry to pop.
LEMMA LeastRank ==
  ASSUME NEW r \in SUBSET (Nat \X Keys), r # {}
  PROVE  \E m \in r : {q \in r : q[1] < m[1]} = {}
  <1> DEFINE ranks == {q[1] : q \in r}
  <1>1. ranks \subseteq Nat /\ ranks # {} BY DEF ranks
  <1> HIDE DEF ranks
  <1>2. PICK n \in ranks : \A y \in ranks : ~ (<<y, n>> \in OpToRel(<, Nat))
    BY <1>1, NatLessThanWellFounded, WFMin
  <1>3. \A y \in ranks : ~ (y < n)
    BY <1>1, <1>2 DEF OpToRel
  <1> QED BY <1>3 DEF ranks

\* evict_over after one insertion brings the cache back to its capacity.
LEMMA EvictFits ==
  ASSUME NEW s \in States, Indexed(s), Cardinality(Present(s.entries)) <= Capacity + 1
  PROVE  Cardinality(Present(EvictOver(s).entries)) <= Capacity
  <1> DEFINE excess == Cardinality(Present(s.entries)) - Capacity
             popped == {p \in s.recency : Cardinality({q \in s.recency : q[1] < p[1]}) < excess}
             t == EvictOver(s)
  <1>1. /\ IsFiniteSet(Present(s.entries)) /\ Cardinality(Present(s.entries)) \in Nat
        /\ Present(t.entries) \subseteq Present(s.entries)
    <2>1. Present(s.entries) \subseteq Keys BY DEF Present
    <2>2. Present(t.entries) \subseteq Present(s.entries)
      BY DEF EvictOver, Drop, Present, NoEntry
    <2> QED BY <2>1, <2>2, KeysAssumption, FS_Subset, FS_CardinalityType
  <1>2. CASE Cardinality(Present(s.entries)) <= Capacity
    <2>1. Cardinality(Present(t.entries)) <= Cardinality(Present(s.entries))
          /\ Cardinality(Present(t.entries)) \in Nat
      BY <1>1, FS_Subset, FS_CardinalityType
    <2> QED BY <1>1, <1>2, <2>1, NumbersAssumption
  <1>3. CASE Cardinality(Present(s.entries)) = Capacity + 1
    <2>1. Present(s.entries) # {}
      BY <1>3, NumbersAssumption, FS_EmptySet
    <2>2. s.recency # {} /\ s.recency \in SUBSET (Nat \X Keys)
      <3>1. PICK k \in Present(s.entries) : TRUE BY <2>1
      <3>2. <<s.entries[k].used, k>> \in s.recency BY <3>1 DEF Indexed
      <3> QED BY <3>2 DEF States
    <2>3. PICK m \in s.recency : {q \in s.recency : q[1] < m[1]} = {}
      BY <2>2, LeastRank
    <2>4. excess = 1 BY <1>3, NumbersAssumption
    <2>5. m \in popped
      BY <2>3, <2>4, FS_EmptySet
    <2>6. PICK k \in Present(s.entries) : m = <<s.entries[k].used, k>>
      BY <2>3 DEF Indexed
    <2>7. k \in Keys /\ m[2] = k BY <2>6 DEF Present
    <2>8. t.entries[k] = NoEntry
      BY <2>5, <2>7 DEF EvictOver, Drop
    <2>9. k \notin Present(t.entries)
      BY <2>8 DEF Present, NoEntry
    <2>10. Present(t.entries) \subseteq Present(s.entries) \ {k}
      BY <1>1, <2>9
    <2>11. Cardinality(Present(s.entries) \ {k}) = Cardinality(Present(s.entries)) - 1
           /\ IsFiniteSet(Present(s.entries) \ {k})
      BY <1>1, <2>6, FS_RemoveElement
    <2>12. Cardinality(Present(t.entries)) <= Cardinality(Present(s.entries) \ {k})
      BY <2>10, <2>11, FS_Subset
    <2> QED BY <1>3, <2>11, <2>12, NumbersAssumption
  <1> QED BY <1>1, <1>2, <1>3, NumbersAssumption

\* No step leaves more entries than the capacity.
LEMMA CapacityStep ==
  ASSUME IndInv, WithinCapacity, [Next]_vars PROVE WithinCapacity'
  <1> USE DEF IndInv
  <1>1. /\ State \in States /\ Indexed(State)
        /\ IsFiniteSet(Present(entries)) /\ Cardinality(Present(entries)) \in Nat
    <2>1. Present(entries) \subseteq Keys BY DEF Present
    <2> QED BY <2>1, KeysAssumption, FS_Subset, FS_CardinalityType
            DEF TypeOK, State, States, RecencyMatchesEntries
  <1>2. ASSUME Present(entries') \subseteq Present(entries) PROVE WithinCapacity'
    <2>1. Cardinality(Present(entries')) <= Cardinality(Present(entries))
          /\ Cardinality(Present(entries')) \in Nat
      BY <1>1, <1>2, FS_Subset, FS_CardinalityType
    <2> QED BY <1>1, <2>1, NumbersAssumption DEF WithinCapacity, Present
  <1>3. ASSUME NEW c \in Callers, NEW k \in Keys, GetCached(c, k) PROVE WithinCapacity'
    <2>1. Present(entries') \subseteq Present(entries)
      BY <1>3 DEF GetCached, Present, TypeOK, Entry
    <2> QED BY <1>2, <2>1
  <1>4. ASSUME NEW c \in Callers, NEW k \in Keys, StartLookup(c, k) PROVE WithinCapacity'
    <2> DEFINE r == RemoveKey(State, k)
               i == Insert(r, k, NewEntry(Bump))
    <2>1. r \in States /\ Indexed(r) BY <1>1, RemoveKeyType, RemoveKeyIndexed
    <2>2. NewEntry(Bump) \in Entry /\ NewEntry(Bump).id # 0
      BY DEF TypeOK, NewEntry, Entry, Bump, Never
    <2>3. \A j \in Keys : r.entries[j].used < NewEntry(Bump).used
      BY DEF RemoveKey, State, NoEntry, TypeOK, Entry, NumbersHandedOut, NewEntry, Bump
    <2>4. i \in States /\ Indexed(i)
      <3> HIDE DEF r
      <3> QED BY <2>1, <2>2, <2>3, InsertType, InsertIndexed
    <2>5. Present(i.entries) \subseteq Present(entries) \cup {k}
      BY DEF Insert, RemoveKey, Present, State, NoEntry, TypeOK
    <2>6. Cardinality(Present(entries) \cup {k}) <= Capacity + 1
          /\ IsFiniteSet(Present(entries) \cup {k})
          /\ Cardinality(Present(entries) \cup {k}) \in Nat
      <3>1. /\ Cardinality(Present(entries) \cup {k}) \in
                 {Cardinality(Present(entries)), Cardinality(Present(entries)) + 1}
            /\ IsFiniteSet(Present(entries) \cup {k})
        BY <1>1, FS_AddElement
      <3> QED BY <1>1, <3>1, NumbersAssumption DEF WithinCapacity
    <2>7. Cardinality(Present(i.entries)) <= Cardinality(Present(entries) \cup {k})
          /\ Cardinality(Present(i.entries)) \in Nat
      BY <2>5, <2>6, FS_Subset, FS_CardinalityType
    <2> HIDE DEF i
    <2>8. Cardinality(Present(i.entries)) <= Capacity + 1
      BY <2>6, <2>7, NumbersAssumption
    <2>9. Cardinality(Present(EvictOver(i).entries)) <= Capacity
      BY <2>4, <2>8, EvictFits
    <2>10. entries' = EvictOver(i).entries
      BY <1>4 DEF StartLookup, SetState, NewEntry, i
    <2> QED BY <2>9, <2>10 DEF WithinCapacity, Present
  <1>5. ASSUME NEW id \in DOMAIN lookups, PanicLookup(id) PROVE WithinCapacity'
    <2>1. Present(entries') \subseteq Present(entries)
      BY <1>5 DEF PanicLookup, SetState, RemoveLookup, RemoveKey, State, Present, NoEntry, TypeOK
    <2> QED BY <1>2, <2>1
  <1>6. ASSUME NEW id \in DOMAIN lookups, NEW o \in Outcomes, CompleteLookup(id, o) PROVE WithinCapacity'
    <2>1. lookups[id].key \in Keys /\ id \in Nat BY DEF TypeOK, Lookup
    <2>2. entries' = Completed(lookups[id].key, id, o).entries
      BY <1>6 DEF CompleteLookup, SetState
    <2>3. \A j \in Keys : entries'[j].id \in {0, entries[j].id}
      <3>1. \A j \in Keys : RemoveLookup(State, lookups[id].key, id).entries[j] \in {NoEntry, entries[j]}
        BY <1>1, <2>1, RemoveLookupEntries DEF State
      <3>2. \A j \in Keys :
              [State EXCEPT !.entries[lookups[id].key].expiresAt = ExpiresAt(o)].entries[j].id
                = entries[j].id
        BY <2>1 DEF State, TypeOK, Entry
      <3>3. State.entries = entries BY DEF State
      <3> QED BY <2>2, <3>1, <3>2, <3>3 DEF Completed, NoEntry
    <2>4. Present(entries') \subseteq Present(entries) BY <2>3 DEF Present
    <2> QED BY <1>2, <2>4
  <1>7. ASSUME UNCHANGED entries PROVE WithinCapacity'
    BY <1>7 DEF WithinCapacity, Present
  <1> QED BY <1>3, <1>4, <1>5, <1>6, <1>7 DEF Next, Receive, Leave, Tick, cacheVars, vars

\* The cache never holds more entries than its capacity, whatever it evicts.
THEOREM CapacityCorrect == Spec => []WithinCapacity
  <1>1. ASSUME Init PROVE WithinCapacity
    <2>1. Present(entries) = {} BY <1>1 DEF Init, Present, NoEntry
    <2> QED BY <2>1, FS_EmptySet, NumbersAssumption DEF WithinCapacity
  <1>2. IndInv /\ WithinCapacity /\ [Next]_vars => WithinCapacity'
    BY CapacityStep
  <1> QED BY <1>1, <1>2, Invariant, PTL DEF Spec

-----------------------------------------------------------------------------
(* Why an entry leaves *)

\* Indexed entries are as finite as the keys.
LEMMA RecencyFinite ==
  ASSUME NEW s \in States, Indexed(s)
  PROVE  IsFiniteSet(s.recency) /\ IsFiniteSet(Present(s.entries))
  <1> DEFINE ranks == {<<s.entries[k].used, k>> : k \in Present(s.entries)}
             f == [k \in Present(s.entries) |-> <<s.entries[k].used, k>>]
  <1>1. IsFiniteSet(Present(s.entries))
    <2>1. Present(s.entries) \subseteq Keys BY DEF Present
    <2> QED BY <2>1, KeysAssumption, FS_Subset
  <1>2. f \in Surjection(Present(s.entries), ranks)
    BY DEF Surjection
  <1>3. s.recency = ranks BY DEF Indexed
  <1> HIDE DEF f, ranks
  <1> QED BY <1>1, <1>2, <1>3, FS_Surjection

\* An entry that evict_over drops after one insertion is the least recently used
\* one, and the only one that is dropped.
LEMMA EvictsOldest ==
  ASSUME NEW s \in States, Indexed(s), Cardinality(Present(s.entries)) <= Capacity + 1,
         NEW j \in Present(s.entries), EvictOver(s).entries[j].id = 0
  PROVE  /\ Cardinality(Present(EvictOver(s).entries)) >= Capacity
         /\ \A i \in Present(EvictOver(s).entries) : EvictOver(s).entries[i].used > s.entries[j].used
  <1> DEFINE excess == Cardinality(Present(s.entries)) - Capacity
             Below(p) == {q \in s.recency : q[1] < p[1]}
             popped == {p \in s.recency : Cardinality(Below(p)) < excess}
             t == EvictOver(s)
  <1>1. IsFiniteSet(s.recency) /\ IsFiniteSet(Present(s.entries))
        /\ Cardinality(Present(s.entries)) \in Nat
    BY RecencyFinite, FS_CardinalityType
  <1>2. \A k \in Keys : t.entries[k] = IF \E p \in popped : p[2] = k THEN NoEntry ELSE s.entries[k]
    BY DEF EvictOver, Drop
  <1>3. \A p \in s.recency : \E k \in Present(s.entries) : p = <<s.entries[k].used, k>>
    BY DEF Indexed
  <1>4. \A p \in popped : excess = 1 /\ Below(p) = {}
    <2>1. TAKE p \in popped
    <2>2. IsFiniteSet(Below(p)) /\ Cardinality(Below(p)) \in Nat
      <3>1. Below(p) \subseteq s.recency OBVIOUS
      <3> QED BY <1>1, <3>1, FS_Subset, FS_CardinalityType
    <2>3. excess = 1 /\ Cardinality(Below(p)) = 0
      <3>1. Cardinality(Below(p)) < excess OBVIOUS
      <3> HIDE DEF Below
      <3> QED BY <1>1, <2>2, <3>1, NumbersAssumption
    <2> HIDE DEF Below
    <2> QED BY <2>2, <2>3, FS_EmptySet
  <1> HIDE DEF popped
  <1>5. \A k \in Present(s.entries) :
           t.entries[k].id = 0 => /\ <<s.entries[k].used, k>> \in popped
                                  /\ \A i \in Present(s.entries) : ~(s.entries[i].used < s.entries[k].used)
    <2>1. TAKE k \in Present(s.entries)
    <2>2. HAVE t.entries[k].id = 0
    <2>3. k \in Keys /\ s.entries[k].id # 0 BY DEF Present
    <2>4. PICK p \in popped : p[2] = k BY <1>2, <2>2, <2>3
    <2>5. p = <<s.entries[k].used, k>>
      <3>1. p \in s.recency BY DEF popped
      <3>2. PICK i \in Present(s.entries) : p = <<s.entries[i].used, i>> BY <1>3, <3>1
      <3> QED BY <2>4, <3>2
    <2>6. \A i \in Present(s.entries) : <<s.entries[i].used, i>> \in s.recency
      BY DEF Indexed
    <2>7. Below(p) = {} BY <1>4
    <2>8. ASSUME NEW i \in Present(s.entries) PROVE ~(s.entries[i].used < s.entries[k].used)
      <3> DEFINE q == <<s.entries[i].used, i>>
      <3>1. q \in s.recency /\ q \notin Below(p) BY <2>6, <2>7
      <3>2. ~(q[1] < p[1]) BY <3>1
      <3> QED BY <2>5, <3>2
    <2> QED BY <2>4, <2>5, <2>8
  <1>6. <<s.entries[j].used, j>> \in popped /\ excess = 1
    BY <1>4, <1>5
  <1>7. \A k \in Present(s.entries) : s.entries[k].used \in Nat /\ k \in Keys
    BY DEF Present, States, Entry
  <1>8. \A k \in Present(s.entries) : t.entries[k].id = 0 => k = j
    <2>1. TAKE k \in Present(s.entries)
    <2>2. HAVE t.entries[k].id = 0
    <2>3. ~(s.entries[j].used < s.entries[k].used)
      BY <1>5, <2>2
    <2>4. ~(s.entries[k].used < s.entries[j].used)
      BY <1>5
    <2>5. s.entries[k].used \in Nat /\ s.entries[j].used \in Nat
      BY <1>7
    <2>6. s.entries[k].used = s.entries[j].used
      BY <2>3, <2>4, <2>5
    <2> QED BY <2>6 DEF Indexed
  <1>9. Present(t.entries) = Present(s.entries) \ {j}
    <2>1. Present(t.entries) \subseteq Present(s.entries)
      BY <1>2 DEF Present, NoEntry
    <2>2. \A k \in Present(s.entries) \ {j} : k \in Present(t.entries)
      BY <1>7, <1>8 DEF Present
    <2>3. j \notin Present(t.entries) BY DEF Present
    <2> QED BY <2>1, <2>2, <2>3
  <1>10. Cardinality(Present(t.entries)) = Cardinality(Present(s.entries)) - 1
    BY <1>1, <1>9, FS_RemoveElement
  <1>11. \A i \in Present(t.entries) : t.entries[i].used > s.entries[j].used
    <2>1. TAKE i \in Present(t.entries)
    <2>2. i \in Present(s.entries) /\ i # j /\ t.entries[i] = s.entries[i]
      BY <1>2, <1>7, <1>9 DEF Present, NoEntry
    <2>3. ~(s.entries[i].used < s.entries[j].used) /\ s.entries[i].used # s.entries[j].used
      BY <1>5, <2>2 DEF Indexed
    <2> QED BY <1>7, <2>2, <2>3
  <1> QED BY <1>1, <1>6, <1>10, <1>11, NumbersAssumption

\* No step takes an entry away but by its expiry, the end of its own lookup, or
\* the eviction of the least recently used entry of a full cache.
LEMMA ReasonStep ==
  ASSUME IndInv, WithinCapacity, [Next]_vars,
         NEW k \in Present(entries), entries'[k].id # entries[k].id
  PROVE  Expired(entries[k]) \/ EndsNow(entries[k].id) \/ EvictedAsOldest(k)
  <1> USE DEF IndInv
  <1>1. /\ State \in States /\ Indexed(State)
        /\ IsFiniteSet(Present(entries)) /\ Cardinality(Present(entries)) \in Nat
    <2>1. Present(entries) \subseteq Keys BY DEF Present
    <2> QED BY <2>1, KeysAssumption, FS_Subset, FS_CardinalityType
            DEF TypeOK, State, States, RecencyMatchesEntries
  <1>2. k \in Keys /\ entries[k].id # 0 /\ entries[k].id \in Nat
    BY DEF Present, TypeOK, Entry
  <1>3. ASSUME NEW c \in Callers, NEW j \in Keys, GetCached(c, j) PROVE FALSE
    BY <1>2, <1>3 DEF GetCached, TypeOK, Entry
  <1>4. ASSUME NEW c \in Callers, NEW j \in Keys, StartLookup(c, j)
        PROVE  Expired(entries[k]) \/ EvictedAsOldest(k)
    <2>1. CASE k = j
      BY <1>2, <1>4, <2>1 DEF StartLookup, HasFreshEntry
    <2>2. CASE k # j
      <3> DEFINE r == RemoveKey(State, j)
                 i == Insert(r, j, NewEntry(Bump))
      <3>1. r \in States /\ Indexed(r) BY <1>1, RemoveKeyType, RemoveKeyIndexed
      <3>2. NewEntry(Bump) \in Entry /\ NewEntry(Bump).id # 0
        BY DEF TypeOK, NewEntry, Entry, Bump, Never
      <3>3. \A x \in Keys : r.entries[x].used < NewEntry(Bump).used
        BY DEF RemoveKey, State, NoEntry, TypeOK, Entry, NumbersHandedOut, NewEntry, Bump
      <3>4. i \in States /\ Indexed(i)
        <4> HIDE DEF r
        <4> QED BY <3>1, <3>2, <3>3, InsertType, InsertIndexed
      <3>5. Present(i.entries) \subseteq Present(entries) \cup {j}
        BY DEF Insert, RemoveKey, Present, State, NoEntry, TypeOK
      <3>6. /\ Cardinality(Present(entries) \cup {j}) \in
                 {Cardinality(Present(entries)), Cardinality(Present(entries)) + 1}
            /\ IsFiniteSet(Present(entries) \cup {j})
        BY <1>1, FS_AddElement
      <3>7. Cardinality(Present(i.entries)) <= Cardinality(Present(entries) \cup {j})
            /\ Cardinality(Present(i.entries)) \in Nat
        BY <3>5, <3>6, FS_Subset, FS_CardinalityType
      <3>8. i.entries[k] = entries[k]
        BY <1>2, <2>2 DEF Insert, RemoveKey, State, TypeOK
      <3>9. entries' = EvictOver(i).entries
        BY <1>4 DEF StartLookup, SetState, NewEntry, i
      <3> HIDE DEF i
      <3>10. Cardinality(Present(i.entries)) <= Capacity + 1
        BY <1>1, <3>6, <3>7, NumbersAssumption DEF WithinCapacity
      <3>11. entries'[k] \in {NoEntry, i.entries[k]}
        BY <1>2, <3>4, <3>9 DEF EvictOver, Drop
      <3>12. entries'[k].id = 0
        BY <3>8, <3>11 DEF NoEntry
      <3>13. k \in Present(i.entries) BY <1>2, <3>8 DEF Present
      <3>14. /\ Cardinality(Present(EvictOver(i).entries)) >= Capacity
             /\ \A x \in Present(EvictOver(i).entries) : EvictOver(i).entries[x].used > i.entries[k].used
        BY <3>4, <3>9, <3>10, <3>12, <3>13, EvictsOldest
      <3>15. /\ Cardinality(Present(entries')) >= Capacity
             /\ \A x \in Present(entries') : entries'[x].used > entries[k].used
        BY <3>8, <3>9, <3>14
      <3>16. k \notin Present(entries') BY <3>12 DEF Present
      <3> QED BY <3>15, <3>16 DEF EvictedAsOldest
    <2> QED BY <2>1, <2>2
  <1>5. ASSUME NEW id \in DOMAIN lookups, NEW end \in Outcomes \cup {Panicked}, TaskEnds(id, end),
               id = entries[k].id
        PROVE  EndsNow(entries[k].id)
    <2>1. lookups'[id].end = end /\ lookups[id].end = Running
      BY <1>5 DEF TaskEnds, TypeOK, Lookup
    <2> QED BY <1>5, <2>1, OutcomesAssumption DEF EndsNow, Running, Panicked
  <1>6. ASSUME NEW id \in DOMAIN lookups, PanicLookup(id) PROVE id = entries[k].id
    BY <1>2, <1>6 DEF PanicLookup, SetState, RemoveLookup, RemoveKey, State, TypeOK, NoEntry
  <1>7. ASSUME NEW id \in DOMAIN lookups, NEW o \in Outcomes, CompleteLookup(id, o) PROVE id = entries[k].id
    <2>1. [State EXCEPT !.entries[lookups[id].key].expiresAt = ExpiresAt(o)].entries[k].id = entries[k].id
      BY <1>2 DEF State, TypeOK, Entry
    <2>2. entries' = Completed(lookups[id].key, id, o).entries
      BY <1>7 DEF CompleteLookup, SetState
    <2>3. State.entries = entries BY DEF State
    <2>4. entries'[k].id # entries[k].id => entries' = RemoveLookup(State, lookups[id].key, id).entries
      BY <2>1, <2>2, <2>3 DEF Completed
    <2> QED BY <1>2, <2>4 DEF RemoveLookup, RemoveKey, State, TypeOK, NoEntry
  <1>8. CASE UNCHANGED entries
    BY <1>8
  <1> QED BY <1>3, <1>4, <1>5, <1>6, <1>7, <1>8
          DEF Next, CompleteLookup, PanicLookup, Receive, Leave, Tick, cacheVars, vars

\* Concurrent callers of a key share its lookup, because nothing else than its
\* expiry, its own end or an eviction in order takes its entry away.
THEOREM ReasonCorrect == Spec => EntriesLeaveForAReason
  <1>1. IndInv /\ WithinCapacity /\ [Next]_vars =>
          [\A k \in Present(entries) :
             entries'[k].id # entries[k].id
                => Expired(entries[k]) \/ EndsNow(entries[k].id) \/ EvictedAsOldest(k)]_vars
    BY ReasonStep
  <1> QED BY <1>1, Invariant, CapacityCorrect, PTL DEF Spec, EntriesLeaveForAReason

-----------------------------------------------------------------------------
(* The contract *)

\* Every step of the cache is a step of its contract, or leaves it unchanged.
LEMMA ContractStep ==
  ASSUME IndInv, IndInv', [Next]_vars PROVE [C!Next]_(C!vars)
  <1> USE DEF IndInv
  <1>1. \A c \in Callers : C!Waiting(c) <=> Waiting(c)
    BY DEF C!Waiting, Waiting
  <1>2. DOMAIN lookups \subseteq 1..MaxNext
    BY NumbersAssumption DEF TypeOK, NumbersHandedOut
  <1>3. ASSUME NEW c \in Callers, NEW k \in Keys, GetCached(c, k) PROVE C!Next
    <2> DEFINE id == entries[k].id
    <2>1. id \in DOMAIN lookups /\ lookups[id].key = k
      BY <1>3 DEF GetCached, HasFreshEntry, EntryFollowsItsLookup, Present
    <2>2. C!Fresh(lookups[id])
      <3>1. /\ \/ lookups[id].end = Running
               \/ /\ lookups[id].end \in Outcomes
                  /\ Ttl[lookups[id].end] > 0
                  /\ entries[k].expiresAt =
                       IF lookups[id].at + Ttl[lookups[id].end] > MaxInstant
                       THEN Never ELSE lookups[id].at + Ttl[lookups[id].end]
            /\ entries[k].expiresAt = Never \/ ~(now >= entries[k].expiresAt)
        BY <1>3 DEF GetCached, HasFreshEntry, EntryFollowsItsLookup, Present, Expired
      <3>2. now \in Nat /\ lookups[id].at \in Nat
        BY <2>1 DEF TypeOK, Lookup
      <3>3. lookups[id].end \in Outcomes => Ttl[lookups[id].end] \in Nat
        BY TtlAssumption
      <3> HIDE DEF id
      <3> QED BY <3>1, <3>2, <3>3, NumbersAssumption DEF C!Fresh, Running, Never
    <2>3. C!Join(c, k, id)
      BY <1>1, <1>3, <2>1, <2>2 DEF GetCached, C!Join
    <2> QED BY <1>2, <2>1, <2>3 DEF C!Next
  <1>4. ASSUME NEW c \in Callers, NEW k \in Keys, StartLookup(c, k) PROVE C!Next
    <2>1. Bump \notin DOMAIN lookups BY DEF TypeOK, Bump
    <2>2. Bump \in 1..MaxNext
      BY <1>4, NumbersAssumption DEF StartLookup, TypeOK, Bump
    <2>3. C!Begin(c, k, Bump)
      BY <1>1, <1>4, <2>1 DEF StartLookup, C!Begin, Running
    <2> QED BY <2>2, <2>3 DEF C!Next
  <1>5. ASSUME NEW id \in DOMAIN lookups, NEW end \in Outcomes \cup {Panicked}, TaskEnds(id, end)
        PROVE  C!Next
    <2>1. C!End(id, end)
      BY <1>5 DEF TaskEnds, C!End, Running
    <2> QED BY <1>2, <2>1 DEF C!Next, Panicked
  <1>6. ASSUME NEW id \in DOMAIN lookups, NEW o \in Outcomes, CompleteLookup(id, o) PROVE C!Next
    BY <1>5, <1>6 DEF CompleteLookup
  <1>7. ASSUME NEW id \in DOMAIN lookups, PanicLookup(id) PROVE C!Next
    BY <1>5, <1>7 DEF PanicLookup
  <1>8. ASSUME NEW c \in Callers, Receive(c) PROVE C!Next
    <2>1. C!Answer(c) BY <1>1, <1>8 DEF Receive, C!Answer, C!Idle, Idle, Running
    <2> QED BY <2>1 DEF C!Next
  <1>9. ASSUME NEW c \in Callers, Leave(c) PROVE C!Next
    <2>1. C!Abandon(c) BY <1>1, <1>9 DEF Leave, C!Abandon, C!Idle, Idle
    <2> QED BY <2>1 DEF C!Next
  <1>10. CASE Tick
    BY <1>10 DEF Tick, C!Next, C!TimePasses
  <1>11. CASE UNCHANGED vars
    BY <1>11 DEF vars, C!vars
  <1> QED BY <1>3, <1>4, <1>6, <1>7, <1>8, <1>9, <1>10, <1>11 DEF Next

\* get_with keeps the contract of CacheContract: own key, live lookup, its outcome.
THEOREM Refinement == Spec => ImplementsContract
  <1>1. Init => C!Init
    BY DEF Init, C!Init, C!Idle, Idle
  <1>2. IndInv /\ IndInv' /\ [Next]_vars => [C!Next]_(C!vars)
    BY ContractStep
  <1> QED BY <1>1, <1>2, Invariant, PTL DEF Spec, C!Spec, ImplementsContract

=============================================================================
