----------------------------- MODULE IgdbTokens -----------------------------
(***************************************************************************)
(* The critic score lookups of the game pages and the one IGDB token they   *)
(* share: IgdbClient::find with its token cache and its generation          *)
(* (sources/igdb/mod.rs), under the time budget of CriticScoreService       *)
(* (application/critic_scores.rs).                                          *)
(*                                                                          *)
(* The token cache is a TtlCache of capacity one, keyed by the generation:  *)
(* of module TtlCache only what its callers rely on is kept.  The server    *)
(* runs on one thread, so everything between two awaits is one step: the    *)
(* poll that receives a rejection also moves the generation on and asks for *)
(* the next token.                                                          *)
(***************************************************************************)
EXTENDS Integers

CONSTANTS
    Finds,      \* critic score lookups that may run at the same time
    TokenTtl,   \* ticks a token stays cached: its lifetime minus the margin
    FailureTtl, \* TOKEN_FAILURE_TTL in ticks
    MaxRequests, \* bound: token requests ever sent
    MaxNow      \* bound: the last tick explored

ASSUME TokensAssumption ==
    TokenTtl \in Nat /\ FailureTtl \in Nat /\ MaxRequests \in Nat /\ MaxNow \in Nat

VARIABLES
    now,        \* the clock
    generation, \* IgdbClient.generation
    slot,       \* the token request whose outcome the cache holds, or zero
    sent,       \* how many token requests were sent
    requests,   \* every token request: its generation, its times, its end
    finds,      \* every lookup: where it is and what it holds
    rejected    \* history: token requests refused, or whose token was refused

vars == <<now, generation, slot, sent, requests, finds, rejected>>

\* The ends of a token request: a token, a token that expires within the
\* margin, a refusal of the credentials, an outage, a panic of its task.
Ends == {"token", "short token", "rejected", "unavailable", "panicked"}
Ids == 1..MaxRequests

\* token_ttl; a panic and a zero time to live leave no entry.
TtlWithoutHold(end) == IF end = "token" THEN TokenTtl ELSE 0
Ttl(end) ==
    CASE end = "token" -> TokenTtl
      [] end \in {"rejected", "unavailable"} -> FailureTtl
      [] OTHER -> 0

Unsent == [generation |-> 0, from |-> 0, end |-> "unsent", at |-> 0]
Idle == [at |-> "idle", attempt |-> 0, generation |-> 0, request |-> 0]

Init ==
    /\ now = 0 /\ generation = 0 /\ slot = 0 /\ sent = 0
    /\ requests = [id \in Ids |-> Unsent]
    /\ finds = [f \in Finds |-> Idle]
    /\ rejected = {}

-----------------------------------------------------------------------------
(* IgdbClient::token *)

\* The cache holds a usable entry of generation g.
Cached(g) ==
    /\ slot # 0
    /\ requests[slot].generation = g
    /\ requests[slot].end = "running" \/ now < requests[slot].at + Ttl(requests[slot].end)

\* attempt: tokens.get_with(g).  A new request evicts an older generation.
Attempt(f, number, g) ==
    /\ \/ Cached(g) /\ UNCHANGED <<slot, sent, requests>>
       \/ /\ ~Cached(g)
          /\ sent < MaxRequests
          /\ sent' = sent + 1 /\ slot' = sent'
          /\ requests' = [requests EXCEPT ![sent'] =
                [generation |-> g, from |-> now, end |-> "running", at |-> 0]]
    /\ finds' = [finds EXCEPT ![f] =
          [at |-> "token", attempt |-> number, generation |-> g, request |-> slot']]

\* request_token ends; an outcome without a time to live leaves no entry.
TokenRequestEnds(id, end) ==
    /\ requests[id].end = "running"
    /\ requests' = [requests EXCEPT ![id].end = end, ![id].at = now]
    /\ slot' = IF slot = id /\ Ttl(end) = 0 THEN 0 ELSE slot
    /\ rejected' = IF end = "rejected" THEN rejected \cup {id} ELSE rejected
    /\ UNCHANGED <<now, generation, sent, finds>>

-----------------------------------------------------------------------------
(* IgdbClient::find *)

Find(f) ==
    /\ finds[f].at = "idle"
    /\ Attempt(f, 1, generation)
    /\ UNCHANGED <<now, generation, rejected>>

Return(f) == finds' = [finds EXCEPT ![f] = Idle]

(***************************************************************************)
(* The attempt was Rejected: only the first attempt is repeated, after the  *)
(* compare_exchange, with whatever generation is current then.              *)
(***************************************************************************)
MovedOnAlways(seenGeneration) == generation + 1
MovedOn(seenGeneration) == IF generation = seenGeneration THEN generation + 1 ELSE generation

RetryWithSeen(f) ==
    IF finds[f].attempt = 1
    THEN generation' = MovedOn(finds[f].generation) /\ Attempt(f, 2, finds[f].generation)
    ELSE Return(f) /\ UNCHANGED <<generation, slot, sent, requests>>
RetryUnbounded(f) == generation' = MovedOn(finds[f].generation) /\ Attempt(f, finds[f].attempt + 1, generation')
Rejection(f) ==
    IF finds[f].attempt = 1
    THEN generation' = MovedOn(finds[f].generation) /\ Attempt(f, 2, generation')
    ELSE Return(f) /\ UNCHANGED <<generation, slot, sent, requests>>

\* The token arrives and the games request goes out, or the attempt fails.
TokenReceived(f) ==
    LET end == requests[finds[f].request].end IN
    /\ finds[f].at = "token"
    /\ end # "running"
    /\ \/ /\ end \in {"token", "short token"}
          /\ finds' = [finds EXCEPT ![f].at = "games"]
          /\ UNCHANGED <<generation, slot, sent, requests>>
       \/ end = "rejected" /\ Rejection(f)
       \/ /\ end \in {"unavailable", "panicked"}
          /\ Return(f)
          /\ UNCHANGED <<generation, slot, sent, requests>>
    /\ UNCHANGED <<now, rejected>>

\* The games answer is the candidates or an outage.
GamesAnswered(f) ==
    /\ finds[f].at = "games"
    /\ Return(f)
    /\ UNCHANGED <<now, generation, slot, sent, requests, rejected>>

\* The games request is refused with a 400, 401 or 403.
GamesRejected(f) ==
    /\ finds[f].at = "games"
    /\ rejected' = rejected \cup {finds[f].request}
    /\ Rejection(f)
    /\ UNCHANGED now

\* SCORE_BUDGET is over: the lookup is dropped, its token request runs on.
BudgetOver(f) ==
    /\ finds[f].at # "idle"
    /\ Return(f)
    /\ UNCHANGED <<now, generation, slot, sent, requests, rejected>>

Tick ==
    /\ now < MaxNow
    /\ now' = now + 1
    /\ UNCHANGED <<generation, slot, sent, requests, finds, rejected>>

Next ==
    \/ \E id \in Ids, end \in Ends : TokenRequestEnds(id, end)
    \/ \E f \in Finds :
          \/ Find(f)
          \/ TokenReceived(f)
          \/ GamesAnswered(f)
          \/ GamesRejected(f)
          \/ BudgetOver(f)
    \/ Tick

Spec == Init /\ [][Next]_vars

-----------------------------------------------------------------------------
(* Properties *)

Request == [generation : Nat, from : Nat, end : Ends \cup {"unsent", "running"}, at : Nat]
Lookup == [at : {"token", "games"}, attempt : {1, 2}, generation : Nat, request : Ids] \cup {Idle}

\* Every variable has its type; a lookup makes at most two attempts.
TypeOK ==
    /\ now \in Nat /\ generation \in Nat
    /\ slot \in 0..sent /\ sent \in 0..MaxRequests
    /\ requests \in [Ids -> Request]
    /\ \A id \in Ids : id > sent <=> requests[id].end = "unsent"
    /\ finds \in [Finds -> Lookup]
    /\ \A f \in Finds : finds[f].request <= sent
    /\ rejected \in SUBSET (1..sent)

\* The concurrent lookups that hold a refused token share one new one: a
\* generation is given up only because a request of that generation, or its
\* token, was refused, never twice for the same refusal.
RefreshesAreShared ==
    \A g \in 0..generation - 1 : \E id \in rejected : requests[id].generation = g

\* One generation has one token request at a time, and its outcome is used for
\* its whole time to live: an outage of Twitch is not asked about again on
\* every game page, and a good token is not requested twice.
OutcomeIsHeld ==
    \A i, j \in 1..sent :
        i < j /\ requests[i].generation = requests[j].generation =>
            /\ requests[i].end # "running"
            /\ requests[i].end = "token" => requests[j].from >= requests[i].at + TokenTtl
            /\ requests[i].end \in {"rejected", "unavailable"} =>
                  requests[j].from >= requests[i].at + FailureTtl

\* No attempt begins with a refused token of a generation that was given up:
\* the second attempt uses a new token, and so does every later lookup.
RefusedTokenIsDropped ==
    [][\A f \in Finds :
          LET id == finds'[f].request IN
          finds'[f] # finds[f] /\ finds'[f].at = "token" /\ id \in rejected'
              => requests'[id].generation = generation']_vars
=============================================================================
