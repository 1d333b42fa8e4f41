------------------------- MODULE IgdbTokens_proofs -------------------------
(***************************************************************************)
(* The token of module IgdbTokens, for any lookups, times to live and       *)
(* bounds: refreshes are shared, outcomes are held for their time to live,  *)
(* and no attempt begins with a token that was given up.                    *)
(***************************************************************************)
EXTENDS IgdbTokens, TLAPS

\* Requests and lookups belong to a generation that has been reached.
GenerationInv ==
    /\ \A id \in 1..sent : requests[id].generation <= generation
    /\ \A f \in Finds : finds[f].at # "idle" =>
          /\ finds[f].request \in 1..sent
          /\ requests[finds[f].request].generation = finds[f].generation

\* What the current generation may still use is what the cache holds.
Usable(id) == requests[id].end = "running" \/ now < requests[id].at + Ttl(requests[id].end)
SlotInv ==
    \A id \in 1..sent : requests[id].generation = generation /\ Usable(id) => slot = id

\* A request whose credentials were refused is known as refused.
RefusedInv == \A id \in 1..sent : requests[id].end = "rejected" => id \in rejected

TokensInv == TypeOK /\ GenerationInv /\ SlotInv /\ RefusedInv /\ RefreshesAreShared /\ OutcomeIsHeld

-----------------------------------------------------------------------------

LEMMA TtlType == \A end : Ttl(end) \in Nat
PROOF BY TokensAssumption DEF Ttl

\* A request that was sent has its type.
LEMMA SentType ==
    ASSUME TypeOK, NEW id \in 1..sent
    PROVE  /\ id \in Ids /\ ~(id > sent)
           /\ requests[id].generation \in Nat /\ requests[id].at \in Nat /\ requests[id].from \in Nat
PROOF
<1>1. sent \in Nat /\ sent <= MaxRequests
  BY TokensAssumption DEF TypeOK
<1>2. id \in Ids /\ ~(id > sent)
  BY <1>1, TokensAssumption DEF Ids
<1>3. requests[id] \in Request
  BY <1>2 DEF TypeOK
<1> QED BY <1>2, <1>3 DEF Request

\* What an attempt that finds a usable entry changes.
LEMMA JoinStep ==
    ASSUME TypeOK, NEW f \in Finds, NEW number \in {1, 2}, NEW g \in Nat,
           Attempt(f, number, g), Cached(g)
    PROVE  /\ UNCHANGED <<slot, sent, requests>>
           /\ slot \in 1..sent /\ requests[slot].generation = g
           /\ finds' = [finds EXCEPT ![f] =
                 [at |-> "token", attempt |-> number, generation |-> g, request |-> slot]]
PROOF
<1>1. UNCHANGED <<slot, sent, requests>>
  BY DEF Attempt
<1>2. slot \in 1..sent /\ requests[slot].generation = g
  BY DEF Cached, TypeOK
<1> QED BY <1>1, <1>2 DEF Attempt

\* What an attempt that sends a token request changes.
LEMMA SendStep ==
    ASSUME TypeOK, NEW f \in Finds, NEW number \in {1, 2}, NEW g \in Nat,
           Attempt(f, number, g), ~Cached(g)
    PROVE  /\ sent' = sent + 1 /\ slot' = sent + 1
           /\ sent' \in Ids /\ sent \in 0..MaxRequests
           /\ requests' = [requests EXCEPT ![sent + 1] =
                 [generation |-> g, from |-> now, end |-> "running", at |-> 0]]
           /\ requests'[sent + 1] = [generation |-> g, from |-> now, end |-> "running", at |-> 0]
           /\ \A id \in 1..sent : requests'[id] = requests[id]
           /\ finds' = [finds EXCEPT ![f] =
                 [at |-> "token", attempt |-> number, generation |-> g, request |-> sent + 1]]
PROOF
<1>1. /\ sent < MaxRequests /\ sent' = sent + 1 /\ slot' = sent'
      /\ requests' = [requests EXCEPT ![sent'] =
            [generation |-> g, from |-> now, end |-> "running", at |-> 0]]
      /\ finds' = [finds EXCEPT ![f] =
            [at |-> "token", attempt |-> number, generation |-> g, request |-> slot']]
  BY DEF Attempt
<1>2. sent' \in Ids /\ sent \in 0..MaxRequests
  BY <1>1, TokensAssumption DEF TypeOK, Ids
<1>3. DOMAIN requests = Ids
  BY DEF TypeOK
<1> QED BY <1>1, <1>2, <1>3

(***************************************************************************)
(* Every attempt is made for the generation that is current when it begins. *)
(* The generation moves on at most one, and only past a refused request.    *)
(***************************************************************************)
LEMMA AttemptStep ==
    ASSUME TokensInv, NEW f \in Finds, NEW number \in {1, 2},
           Attempt(f, number, generation'),
           generation' = generation \/ generation' = generation + 1,
           now' = now, rejected' \in SUBSET (1..sent), rejected \subseteq rejected',
           generation' # generation => \E id \in rejected' : requests[id].generation = generation
    PROVE  TokensInv'
PROOF
<1> USE DEF TokensInv
<1> DEFINE g == generation'
<1>1. g \in Nat /\ generation \in Nat /\ generation <= g
  BY DEF TypeOK
<1> HIDE DEF g
<1>2. g = generation' /\ Attempt(f, number, g)
  BY DEF g
<1>3. CASE Cached(g)
  <2>1. /\ slot' = slot /\ sent' = sent /\ requests' = requests
        /\ slot \in 1..sent /\ requests[slot].generation = g
        /\ finds' = [finds EXCEPT ![f] =
              [at |-> "token", attempt |-> number, generation |-> g, request |-> slot]]
    BY <1>1, <1>2, <1>3, JoinStep
  <2>2. TypeOK'
    <3>1. [at |-> "token", attempt |-> number, generation |-> g, request |-> slot] \in Lookup
      <4>1. slot \in Ids
        BY <2>1, SentType
      <4> QED BY <4>1, <1>1 DEF Lookup
    <3> QED BY <1>1, <1>2, <2>1, <3>1 DEF TypeOK
  <2>3. g = generation
    BY <1>1, <2>1 DEF GenerationInv
  <2>4. GenerationInv'
    <3>1. \A id \in 1..sent' : requests'[id].generation <= generation'
      BY <1>2, <2>1, <2>3 DEF GenerationInv
    <3>2. ASSUME NEW x \in Finds, finds'[x].at # "idle"
          PROVE  /\ finds'[x].request \in 1..sent'
                 /\ requests'[finds'[x].request].generation = finds'[x].generation
      <4>1. CASE x = f
        <5>1. finds'[f] = [at |-> "token", attempt |-> number, generation |-> g, request |-> slot]
          BY <2>1 DEF TypeOK
        <5>2. finds'[f].request = slot /\ finds'[f].generation = g
          BY <5>1
        <5> QED BY <4>1, <5>2, <2>1
      <4>2. CASE x # f
        <5>1. finds'[x] = finds[x]
          BY <4>2, <2>1 DEF TypeOK
        <5>2. finds[x].request \in 1..sent /\ requests[finds[x].request].generation = finds[x].generation
          BY <3>2, <5>1 DEF GenerationInv
        <5> QED BY <5>1, <5>2, <2>1
      <4> QED BY <4>1, <4>2
    <3> QED BY <3>1, <3>2 DEF GenerationInv
  <2>5. SlotInv'
    BY <1>2, <2>1, <2>3 DEF SlotInv, Usable
  <2>6. RefreshesAreShared'
    BY <1>2, <2>1, <2>3 DEF RefreshesAreShared
  <2>7. OutcomeIsHeld' /\ RefusedInv'
    BY <2>1 DEF OutcomeIsHeld, RefusedInv
  <2> QED BY <2>2, <2>4, <2>5, <2>6, <2>7
<1>4. CASE ~Cached(g)
  <2>1. /\ sent' = sent + 1 /\ slot' = sent + 1
        /\ sent' \in Ids /\ sent \in 0..MaxRequests
        /\ requests' = [requests EXCEPT ![sent + 1] =
              [generation |-> g, from |-> now, end |-> "running", at |-> 0]]
        /\ requests'[sent + 1] = [generation |-> g, from |-> now, end |-> "running", at |-> 0]
        /\ \A id \in 1..sent : requests'[id] = requests[id]
        /\ finds' = [finds EXCEPT ![f] =
              [at |-> "token", attempt |-> number, generation |-> g, request |-> sent + 1]]
    BY <1>1, <1>2, <1>4, SendStep
  <2>2. sent \in Nat /\ sent + 1 \in Ids
    BY <2>1, TokensAssumption
  <2>3. TypeOK'
    <3>1. [generation |-> g, from |-> now, end |-> "running", at |-> 0] \in Request
      BY <1>1 DEF Request, TypeOK
    <3>2. [at |-> "token", attempt |-> number, generation |-> g, request |-> sent + 1] \in Lookup
      BY <1>1, <2>2 DEF Lookup
    <3>3. requests' \in [Ids -> Request] /\ finds' \in [Finds -> Lookup]
      BY <2>1, <3>1, <3>2 DEF TypeOK
    <3>4. \A id \in Ids : id > sent' <=> requests'[id].end = "unsent"
      BY <2>1, <2>2 DEF TypeOK, Ids
    <3>5. \A x \in Finds : finds'[x].request <= sent'
      BY <2>1, <2>2 DEF TypeOK, Lookup, Idle, Ids
    <3>6. slot' \in 0..sent' /\ sent' \in 0..MaxRequests /\ rejected' \in SUBSET (1..sent')
      BY <2>1, <2>2, TokensAssumption DEF Ids
    <3> QED BY <1>1, <1>2, <3>3, <3>4, <3>5, <3>6 DEF TypeOK
  <2>4. GenerationInv'
    <3>1. \A id \in 1..sent' : requests'[id].generation <= generation'
      <4>1. ASSUME NEW id \in 1..sent PROVE requests'[id].generation <= generation'
        <5>1. requests[id].generation \in Nat
          BY SentType
        <5> QED BY <5>1, <1>1, <1>2, <2>1 DEF GenerationInv
      <4>2. requests'[sent + 1].generation <= generation'
        BY <1>1, <1>2, <2>1
      <4> QED BY <4>1, <4>2, <2>1, <2>2
    <3>2. ASSUME NEW x \in Finds, finds'[x].at # "idle"
          PROVE  /\ finds'[x].request \in 1..sent'
                 /\ requests'[finds'[x].request].generation = finds'[x].generation
      <4>1. CASE x = f
        <5>1. finds'[f] = [at |-> "token", attempt |-> number, generation |-> g, request |-> sent + 1]
          BY <2>1 DEF TypeOK
        <5>2. finds'[f].request = sent + 1 /\ finds'[f].generation = g
          BY <5>1
        <5>3. requests'[sent + 1].generation = g
          BY <2>1
        <5> QED BY <4>1, <5>2, <5>3, <2>1, <2>2
      <4>2. CASE x # f
        <5>1. finds'[x] = finds[x]
          BY <4>2, <2>1 DEF TypeOK
        <5>2. finds[x].request \in 1..sent /\ requests[finds[x].request].generation = finds[x].generation
          BY <3>2, <5>1 DEF GenerationInv
        <5> QED BY <5>1, <5>2, <2>1, <2>2
      <4> QED BY <4>1, <4>2
    <3> QED BY <3>1, <3>2 DEF GenerationInv
  <2>5. ASSUME NEW id \in 1..sent, requests[id].generation = g PROVE ~Usable(id)
    <3>1. g = generation
      <4>1. requests[id].generation <= generation
        BY DEF GenerationInv
      <4> QED BY <4>1, <2>5, <1>1
    <3>2. Usable(id) => slot = id
      BY <2>5, <3>1 DEF SlotInv
    <3>3. slot = id => ~Usable(id)
      BY <1>4, <2>5, <2>2 DEF Cached, Usable
    <3> QED BY <3>2, <3>3
  <2>6. SlotInv'
    <3>1. ASSUME NEW id \in 1..sent, requests'[id].generation = generation', Usable(id)'
          PROVE  FALSE
      BY <3>1, <2>1, <2>5, <1>2 DEF Usable
    <3> QED BY <3>1, <2>1, <2>2 DEF SlotInv
  <2>7. RefreshesAreShared'
    <3>1. ASSUME NEW h \in 0..generation' - 1 PROVE \E id \in rejected' : requests[id].generation = h
      <4>1. CASE h \in 0..generation - 1
        BY <4>1 DEF RefreshesAreShared
      <4>2. CASE h = generation
        BY <4>2, <3>1, <1>1
      <4> QED BY <4>1, <4>2, <3>1, <1>1, <1>2
    <3>2. \A id \in rejected' : requests'[id] = requests[id]
      BY <2>1
    <3> QED BY <3>1, <3>2 DEF RefreshesAreShared
  <2>8. OutcomeIsHeld'
    <3> SUFFICES ASSUME NEW i \in 1..sent', NEW j \in 1..sent', i < j,
                        requests'[i].generation = requests'[j].generation
                 PROVE  /\ requests'[i].end # "running"
                        /\ requests'[i].end = "token" => requests'[j].from >= requests'[i].at + TokenTtl
                        /\ requests'[i].end \in {"rejected", "unavailable"} =>
                              requests'[j].from >= requests'[i].at + FailureTtl
      BY DEF OutcomeIsHeld
    <3>1. i \in 1..sent /\ requests'[i] = requests[i]
      BY <2>1, <2>2
    <3>2. CASE j \in 1..sent
      <4>1. requests'[j] = requests[j]
        BY <3>2, <2>1
      <4> QED BY <3>1, <3>2, <4>1 DEF OutcomeIsHeld
    <3>3. CASE j = sent + 1
      <4>1. requests'[j].generation = g /\ requests'[j].from = now
        BY <3>3, <2>1
      <4>2. ~Usable(i)
        BY <4>1, <3>1, <2>5
      <4>3. requests[i].end # "running" /\ ~(now < requests[i].at + Ttl(requests[i].end))
        BY <4>2 DEF Usable
      <4>4. now \in Nat /\ requests[i].at \in Nat
        BY <3>1, SentType DEF TypeOK
      <4>5. /\ requests[i].end = "token" => Ttl(requests[i].end) = TokenTtl
            /\ requests[i].end \in {"rejected", "unavailable"} => Ttl(requests[i].end) = FailureTtl
        BY DEF Ttl
      <4>6. Ttl(requests[i].end) \in Nat
        BY TtlType
      <4>7. now >= requests[i].at + Ttl(requests[i].end)
        BY <4>3, <4>4, <4>6
      <4>8. /\ requests[i].end # "running"
            /\ requests[i].end = "token" => now >= requests[i].at + TokenTtl
            /\ requests[i].end \in {"rejected", "unavailable"} => now >= requests[i].at + FailureTtl
        BY <4>3, <4>5, <4>7
      <4> QED BY <4>1, <4>8, <3>1
    <3> QED BY <3>2, <3>3, <2>1, <2>2
  <2>9. RefusedInv'
    <3>1. requests'[sent + 1].end = "running"
      BY <2>1
    <3> QED BY <3>1, <2>1, <2>2 DEF RefusedInv
  <2> QED BY <2>3, <2>4, <2>6, <2>7, <2>8, <2>9
<1> QED BY <1>3, <1>4

(***************************************************************************)
(* A step that leaves the generation and the token requests alone: a lookup *)
(* returns or turns to the games, and more refusals may be known.           *)
(***************************************************************************)
LEMMA QuietStep ==
    ASSUME TokensInv, NEW f \in Finds, UNCHANGED <<now, generation, slot, sent, requests>>,
           \/ finds' = [finds EXCEPT ![f] = Idle]
           \/ finds[f].at # "idle" /\ finds' = [finds EXCEPT ![f].at = "games"],
           rejected' \in SUBSET (1..sent), rejected \subseteq rejected'
    PROVE  TokensInv'
PROOF
<1> USE DEF TokensInv
<1>1. \A x \in Finds : \/ finds'[x] = Idle
                       \/ finds'[x] = finds[x]
                       \/ finds'[x] = [finds[x] EXCEPT !.at = "games"] /\ finds[x].at # "idle"
  <2> SUFFICES ASSUME NEW x \in Finds
               PROVE  \/ finds'[x] = Idle
                      \/ finds'[x] = finds[x]
                      \/ finds'[x] = [finds[x] EXCEPT !.at = "games"] /\ finds[x].at # "idle"
    OBVIOUS
  <2>1. DOMAIN finds = Finds
    BY DEF TypeOK
  <2>2. CASE finds' = [finds EXCEPT ![f] = Idle]
    BY <2>1, <2>2
  <2>3. CASE finds[f].at # "idle" /\ finds' = [finds EXCEPT ![f].at = "games"]
    BY <2>1, <2>3
  <2> QED BY <2>2, <2>3
<1>2. finds' \in [Finds -> Lookup]
  <2>1. Idle \in Lookup
    BY DEF Lookup
  <2>2. \A x \in Finds : finds[x] \in Lookup
    BY DEF TypeOK
  <2>3. \A l \in Lookup : l.at # "idle" => [l EXCEPT !.at = "games"] \in Lookup
    BY DEF Lookup, Idle
  <2>4. ASSUME NEW x \in Finds PROVE finds'[x] \in Lookup
    <3>1. CASE finds'[x] = Idle
      BY <2>1, <3>1
    <3>2. CASE finds'[x] = finds[x]
      BY <2>2, <3>2
    <3>3. CASE finds'[x] = [finds[x] EXCEPT !.at = "games"] /\ finds[x].at # "idle"
      BY <2>2, <2>3, <3>3
    <3> QED BY <1>1, <3>1, <3>2, <3>3
  <2>5. finds' = [x \in Finds |-> finds'[x]]
    BY DEF TypeOK
  <2> QED BY <2>4, <2>5
<1>3. \A x \in Finds : \/ finds'[x].at = "idle" /\ finds'[x].request = 0
                       \/ /\ finds[x].at # "idle"
                          /\ finds'[x].request = finds[x].request
                          /\ finds'[x].generation = finds[x].generation
  <2>1. \A x \in Finds : finds[x] \in Lookup
    BY DEF TypeOK
  <2>2. \A l \in Lookup : l.at # "idle" =>
           /\ [l EXCEPT !.at = "games"].request = l.request
           /\ [l EXCEPT !.at = "games"].generation = l.generation
    BY DEF Lookup, Idle
  <2>3. \A l \in Lookup : l.at = "idle" => l.request = 0
    BY DEF Lookup, Idle
  <2>4. Idle.at = "idle" /\ Idle.request = 0
    BY DEF Idle
  <2> QED BY <1>1, <2>1, <2>2, <2>3, <2>4
<1>4. TypeOK'
  <2>1. \A x \in Finds : finds'[x].request <= sent'
    BY <1>3 DEF TypeOK
  <2> QED BY <1>2, <2>1 DEF TypeOK
<1>5. GenerationInv'
  BY <1>3 DEF GenerationInv
<1>6. SlotInv' /\ OutcomeIsHeld'
  BY DEF SlotInv, Usable, OutcomeIsHeld
<1>7. RefreshesAreShared' /\ RefusedInv'
  BY DEF RefreshesAreShared, RefusedInv
<1> QED BY <1>4, <1>5, <1>6, <1>7

LEMMA InitHolds == Init => TokensInv
PROOF
<1> SUFFICES ASSUME Init PROVE TokensInv
  OBVIOUS
<1>1. TypeOK
  <2>1. Unsent \in Request
    BY DEF Unsent, Request
  <2>2. Idle \in Lookup /\ Idle.request = 0
    BY DEF Idle, Lookup
  <2>3. \A id \in Ids : id > 0 /\ Unsent.end = "unsent"
    BY TokensAssumption DEF Ids, Unsent
  <2> QED BY <2>1, <2>2, <2>3, TokensAssumption DEF Init, TypeOK
<1>2. GenerationInv /\ SlotInv
  BY DEF Init, Idle, GenerationInv, SlotInv
<1>3. RefreshesAreShared /\ OutcomeIsHeld /\ RefusedInv
  BY DEF Init, RefreshesAreShared, OutcomeIsHeld, RefusedInv
<1> QED BY <1>1, <1>2, <1>3 DEF TokensInv

\* A token request ends: only its own entry is stamped or removed.
LEMMA RequestEndsStep ==
    ASSUME TokensInv, NEW id \in Ids, NEW end \in Ends, TokenRequestEnds(id, end)
    PROVE  TokensInv'
PROOF
<1> USE DEF TokensInv
<1>1. /\ requests[id].end = "running"
      /\ requests' = [requests EXCEPT ![id].end = end, ![id].at = now]
      /\ slot' = IF slot = id /\ Ttl(end) = 0 THEN 0 ELSE slot
      /\ rejected' = IF end = "rejected" THEN rejected \cup {id} ELSE rejected
      /\ now' = now /\ generation' = generation /\ sent' = sent /\ finds' = finds
  BY DEF TokenRequestEnds
<1>2. id \in 1..sent
  <2>1. ~(id > sent)
    BY <1>1 DEF TypeOK
  <2> QED BY <2>1, TokensAssumption DEF Ids, TypeOK
<1>3. /\ requests'[id].generation = requests[id].generation
      /\ requests'[id].from = requests[id].from
      /\ requests'[id].end = end /\ requests'[id].at = now
      /\ \A i \in Ids : i # id => requests'[i] = requests[i]
      /\ requests' \in [Ids -> Request]
  <2>1. requests[id] \in Request /\ now \in Nat
    BY DEF TypeOK
  <2>2. DEFINE ended == [requests[id] EXCEPT !.end = end, !.at = now]
  <2>3. ended \in Request /\ ended.generation = requests[id].generation
        /\ ended.from = requests[id].from /\ ended.end = end /\ ended.at = now
    BY <2>1 DEF Request
  <2>4. requests' = [requests EXCEPT ![id] = ended]
    BY <1>1 DEF TypeOK
  <2>5. DOMAIN requests = Ids /\ requests \in [Ids -> Request]
    BY DEF TypeOK
  <2> HIDE DEF ended
  <2> QED BY <2>3, <2>4, <2>5
<1>4. \A i \in Ids : requests'[i].generation = requests[i].generation /\ requests'[i].from = requests[i].from
  BY <1>3
<1>5. \A i \in 1..sent : i \in Ids
  BY TokensAssumption DEF TypeOK, Ids
<1>6. TypeOK'
  <2>1. slot' \in 0..sent
    BY <1>1 DEF TypeOK
  <2>2. rejected' \in SUBSET (1..sent)
    BY <1>1, <1>2 DEF TypeOK
  <2>3. \A i \in Ids : i > sent' <=> requests'[i].end = "unsent"
    <3>1. ~(id > sent) /\ end # "unsent"
      BY <1>2, SentType DEF Ends
    <3>2. \A i \in Ids : i # id => (i > sent' <=> requests'[i].end = "unsent")
      BY <1>1, <1>3 DEF TypeOK
    <3> QED BY <3>1, <3>2, <1>1, <1>3
  <2> QED BY <1>1, <1>3, <2>1, <2>2, <2>3 DEF TypeOK
<1>7. GenerationInv'
  BY <1>1, <1>4, <1>5 DEF GenerationInv
<1>8. SlotInv'
  <2> SUFFICES ASSUME NEW i \in 1..sent, requests'[i].generation = generation, Usable(i)'
               PROVE  slot' = i
    BY <1>1 DEF SlotInv
  <2>1. i \in Ids /\ requests[i].generation = generation
    BY <1>4, <1>5
  <2>2. CASE i = id
    <3>1. slot = id
      BY <2>1, <2>2, <1>1 DEF SlotInv, Usable
    <3>2. end # "running" /\ now < now + Ttl(end)
      BY <2>2, <1>1, <1>3 DEF Usable, Ends
    <3>3. Ttl(end) # 0
      BY <3>2 DEF TypeOK
    <3> QED BY <3>1, <3>3, <2>2, <1>1
  <2>3. CASE i # id
    <3>1. Usable(i)
      BY <2>1, <2>3, <1>1, <1>3 DEF Usable
    <3>2. slot = i
      BY <2>1, <3>1 DEF SlotInv
    <3> QED BY <3>2, <2>3, <1>1
  <2> QED BY <2>2, <2>3
<1>9. RefreshesAreShared'
  <2>1. rejected \subseteq rejected'
    BY <1>1
  <2>2. ASSUME NEW i \in rejected PROVE i \in rejected' /\ requests'[i].generation = requests[i].generation
    BY <2>1, <1>4, <1>5 DEF TypeOK
  <2>3. \A g \in 0..generation - 1 : \E i \in rejected : requests[i].generation = g
    BY DEF RefreshesAreShared
  <2>4. \A g \in 0..generation - 1 : \E i \in rejected' : requests'[i].generation = g
    BY <2>2, <2>3
  <2> QED BY <2>4, <1>1 DEF RefreshesAreShared
<1>10. OutcomeIsHeld'
  <2> SUFFICES ASSUME NEW i \in 1..sent, NEW j \in 1..sent, i < j,
                      requests'[i].generation = requests'[j].generation
               PROVE  /\ requests'[i].end # "running"
                      /\ requests'[i].end = "token" => requests'[j].from >= requests'[i].at + TokenTtl
                      /\ requests'[i].end \in {"rejected", "unavailable"} =>
                            requests'[j].from >= requests'[i].at + FailureTtl
    BY <1>1 DEF OutcomeIsHeld
  <2>1. requests[i].generation = requests[j].generation
    BY <1>4, <1>5
  <2>2. requests[i].end # "running"
    BY <2>1 DEF OutcomeIsHeld
  <2>3. i # id
    BY <2>2, <1>1
  <2>4. requests'[i] = requests[i] /\ requests'[j].from = requests[j].from
    BY <2>3, <1>3, <1>4, <1>5
  <2> QED BY <2>1, <2>4 DEF OutcomeIsHeld
<1>11. RefusedInv'
  <2>1. ASSUME NEW i \in 1..sent, requests'[i].end = "rejected" PROVE i \in rejected'
    <3>1. CASE i = id
      BY <3>1, <2>1, <1>1, <1>3
    <3>2. CASE i # id
      BY <3>2, <2>1, <1>1, <1>3, <1>5 DEF RefusedInv
    <3> QED BY <3>1, <3>2
  <2> QED BY <2>1, <1>1 DEF RefusedInv
<1> QED BY <1>6, <1>7, <1>8, <1>9, <1>10, <1>11

\* A refused attempt returns or begins again with the current generation.
LEMMA RejectionStep ==
    ASSUME TokensInv, NEW f \in Finds, finds[f].at # "idle", Rejection(f),
           now' = now, rejected' \in SUBSET (1..sent), rejected \subseteq rejected',
           finds[f].request \in rejected'
    PROVE  TokensInv'
PROOF
<1>1. CASE finds[f].attempt = 1
  <2>1. generation' = MovedOn(finds[f].generation) /\ Attempt(f, 2, generation')
    BY <1>1 DEF Rejection
  <2>2. generation' = generation \/ generation' = generation + 1
    BY <2>1 DEF MovedOn
  <2>3. generation' # generation => finds[f].generation = generation
    BY <2>1 DEF MovedOn
  <2>4. requests[finds[f].request].generation = finds[f].generation
    BY DEF TokensInv, GenerationInv
  <2>5. generation' # generation => \E id \in rejected' : requests[id].generation = generation
    BY <2>3, <2>4
  <2> QED BY <2>1, <2>2, <2>5, AttemptStep
<1>2. CASE finds[f].attempt # 1
  <2>1. finds' = [finds EXCEPT ![f] = Idle] /\ UNCHANGED <<generation, slot, sent, requests>>
    BY <1>2 DEF Rejection, Return
  <2> QED BY <2>1, QuietStep
<1> QED BY <1>1, <1>2

LEMMA StepHolds == TokensInv /\ [Next]_vars => TokensInv'
PROOF
<1> SUFFICES ASSUME TokensInv, [Next]_vars PROVE TokensInv'
  OBVIOUS
<1>r. rejected \in SUBSET (1..sent)
  BY DEF TokensInv, TypeOK
<1>1. ASSUME NEW id \in Ids, NEW end \in Ends, TokenRequestEnds(id, end) PROVE TokensInv'
  BY <1>1, RequestEndsStep
<1>2. ASSUME NEW f \in Finds, Find(f) PROVE TokensInv'
  <2>1. generation' = generation /\ now' = now /\ rejected' = rejected /\ Attempt(f, 1, generation')
    BY <1>2 DEF Find
  <2> QED BY <2>1, <1>r, AttemptStep
<1>3. ASSUME NEW f \in Finds, TokenReceived(f) PROVE TokensInv'
  <2> DEFINE end == requests[finds[f].request].end
  <2>1. finds[f].at = "token" /\ end # "running" /\ now' = now /\ rejected' = rejected
    BY <1>3 DEF TokenReceived
  <2>2. CASE end \in {"token", "short token"}
    <3>1. finds' = [finds EXCEPT ![f].at = "games"] /\ UNCHANGED <<generation, slot, sent, requests>>
      BY <1>3, <2>2 DEF TokenReceived
    <3> QED BY <3>1, <2>1, <1>r, QuietStep
  <2>3. CASE end = "rejected"
    <3>1. Rejection(f)
      BY <1>3, <2>3 DEF TokenReceived
    <3>2. finds[f].request \in rejected
      BY <2>1, <2>3 DEF TokensInv, RefusedInv, GenerationInv
    <3> QED BY <3>1, <3>2, <2>1, <1>r, RejectionStep
  <2>4. CASE end \in {"unavailable", "panicked"}
    <3>1. finds' = [finds EXCEPT ![f] = Idle] /\ UNCHANGED <<generation, slot, sent, requests>>
      BY <1>3, <2>4 DEF TokenReceived, Return
    <3> QED BY <3>1, <2>1, <1>r, QuietStep
  <2> QED BY <1>3, <2>2, <2>3, <2>4 DEF TokenReceived
<1>4. ASSUME NEW f \in Finds, GamesAnswered(f) \/ BudgetOver(f) PROVE TokensInv'
  <2>1. /\ finds' = [finds EXCEPT ![f] = Idle]
        /\ UNCHANGED <<now, generation, slot, sent, requests, rejected>>
    BY <1>4 DEF GamesAnswered, BudgetOver, Return
  <2> QED BY <2>1, <1>r, QuietStep
<1>5. ASSUME NEW f \in Finds, GamesRejected(f) PROVE TokensInv'
  <2>1. /\ finds[f].at = "games" /\ now' = now /\ Rejection(f)
        /\ rejected' = rejected \cup {finds[f].request}
    BY <1>5 DEF GamesRejected
  <2>2. finds[f].request \in 1..sent
    BY <2>1 DEF TokensInv, GenerationInv
  <2> QED BY <2>1, <2>2, <1>r, RejectionStep
<1>6. CASE Tick
  <2>1. /\ now' = now + 1
        /\ UNCHANGED <<generation, slot, sent, requests, finds, rejected>>
    BY <1>6 DEF Tick
  <2>2. TypeOK' /\ GenerationInv' /\ RefusedInv' /\ RefreshesAreShared' /\ OutcomeIsHeld'
    BY <2>1 DEF TokensInv, TypeOK, GenerationInv, RefusedInv, RefreshesAreShared, OutcomeIsHeld
  <2>3. SlotInv'
    <3>1. ASSUME NEW id \in 1..sent, Usable(id)' PROVE Usable(id)
      <4>1. now \in Nat /\ requests[id].at \in Nat /\ Ttl(requests[id].end) \in Nat
        BY SentType, TtlType DEF TokensInv, TypeOK
      <4> QED BY <3>1, <4>1, <2>1 DEF Usable
    <3> QED BY <3>1, <2>1 DEF TokensInv, SlotInv
  <2> QED BY <2>2, <2>3 DEF TokensInv
<1>7. CASE UNCHANGED vars
  BY <1>7 DEF vars, TokensInv, TypeOK, GenerationInv, SlotInv, Usable, RefusedInv, RefreshesAreShared,
              OutcomeIsHeld
<1> QED BY <1>1, <1>2, <1>3, <1>4, <1>5, <1>6, <1>7 DEF Next

LEMMA Invariant == Spec => []TokensInv
PROOF BY InitHolds, StepHolds, PTL DEF Spec

\* An attempt is tied to a request of the generation it was made for.
LEMMA AttemptTies ==
    ASSUME TypeOK, NEW f \in Finds, NEW number \in {1, 2}, NEW g \in Nat, Attempt(f, number, g)
    PROVE  /\ requests'[finds'[f].request].generation = g
           /\ \A x \in Finds : x # f => finds'[x] = finds[x]
PROOF
<1>1. DOMAIN finds = Finds
  BY DEF TypeOK
<1>2. CASE Cached(g)
  <2>1. /\ requests' = requests /\ requests[slot].generation = g
        /\ finds' = [finds EXCEPT ![f] =
              [at |-> "token", attempt |-> number, generation |-> g, request |-> slot]]
    BY <1>2, JoinStep
  <2> QED BY <2>1, <1>1
<1>3. CASE ~Cached(g)
  <2>1. /\ requests'[sent + 1] = [generation |-> g, from |-> now, end |-> "running", at |-> 0]
        /\ finds' = [finds EXCEPT ![f] =
              [at |-> "token", attempt |-> number, generation |-> g, request |-> sent + 1]]
    BY <1>3, SendStep
  <2>2. requests'[sent + 1].generation = g
    BY <2>1
  <2> QED BY <2>1, <2>2, <1>1
<1> QED BY <1>2, <1>3

\* Every variable of the token client keeps its type.
THEOREM TypeCorrect == Spec => []TypeOK
PROOF BY Invariant, PTL DEF TokensInv

\* A generation is given up only because one of its requests was refused.
THEOREM RefreshCorrect == Spec => []RefreshesAreShared
PROOF BY Invariant, PTL DEF TokensInv

\* The outcome of a token request is used for its whole time to live.
THEOREM HoldCorrect == Spec => []OutcomeIsHeld
PROOF BY Invariant, PTL DEF TokensInv

\* No attempt begins with a refused token of a generation that was given up.
THEOREM DropCorrect == Spec => RefusedTokenIsDropped
PROOF
<1> DEFINE Dropped ==
       \A f \in Finds :
          LET id == finds'[f].request IN
          finds'[f] # finds[f] /\ finds'[f].at = "token" /\ id \in rejected'
              => requests'[id].generation = generation'
<1>1. TokensInv /\ TokensInv' /\ [Next]_vars => [Dropped]_vars
  <2> SUFFICES ASSUME TokensInv, TokensInv', Next,
                      NEW f \in Finds, finds'[f] # finds[f], finds'[f].at = "token"
               PROVE  requests'[finds'[f].request].generation = generation'
    OBVIOUS
  <2> DEFINE Tied == requests'[finds'[f].request].generation = generation'
  <2>t. TypeOK /\ generation' \in Nat /\ DOMAIN finds = Finds
    BY DEF TokensInv, TypeOK
  <2>1. ASSUME NEW x \in Finds, NEW number \in {1, 2}, Attempt(x, number, generation') PROVE Tied
    BY <2>1, <2>t, AttemptTies
  <2>2. ASSUME NEW x \in Finds, finds' = [finds EXCEPT ![x] = Idle] PROVE FALSE
    <3>1. finds'[f] = Idle
      BY <2>2, <2>t
    <3> QED BY <3>1 DEF Idle
  <2>3. ASSUME NEW x \in Finds, Rejection(x) PROVE Tied
    BY <2>1, <2>2, <2>3 DEF Rejection, Return
  <2>4. ASSUME finds' = finds PROVE FALSE
    BY <2>4
  <2>5. ASSUME NEW x \in Finds, finds' = [finds EXCEPT ![x].at = "games"] PROVE FALSE
    <3>1. x # f => finds'[f] = finds[f]
      BY <2>5, <2>t
    <3>2. x = f => finds'[f].at = "games"
      <4>1. finds[f] \in Lookup
        BY DEF TokensInv, TypeOK
      <4>2. \A l \in Lookup : [l EXCEPT !.at = "games"].at = "games"
        BY DEF Lookup, Idle
      <4>3. x = f => finds'[f] = [finds[f] EXCEPT !.at = "games"]
        BY <2>5, <2>t
      <4> QED BY <4>1, <4>2, <4>3
    <3> QED BY <3>1, <3>2
  <2>6. ASSUME NEW id \in Ids, NEW end \in Ends, TokenRequestEnds(id, end) PROVE Tied
    BY <2>4, <2>6 DEF TokenRequestEnds
  <2>7. ASSUME NEW x \in Finds, Find(x) PROVE Tied
    BY <2>1, <2>7 DEF Find
  <2>8. ASSUME NEW x \in Finds, TokenReceived(x) PROVE Tied
    BY <2>2, <2>3, <2>5, <2>8 DEF TokenReceived, Return
  <2>9. ASSUME NEW x \in Finds, GamesAnswered(x) \/ BudgetOver(x) PROVE Tied
    BY <2>2, <2>9 DEF GamesAnswered, BudgetOver, Return
  <2>10. ASSUME NEW x \in Finds, GamesRejected(x) PROVE Tied
    BY <2>3, <2>10 DEF GamesRejected
  <2>11. CASE Tick
    BY <2>4, <2>11 DEF Tick
  <2> QED BY <2>6, <2>7, <2>8, <2>9, <2>10, <2>11 DEF Next
<1> QED BY <1>1, Invariant, PTL DEF Spec, RefusedTokenIsDropped
=============================================================================
