------------------------------ MODULE SignedIn ------------------------------
(***************************************************************************)
(* The signed-in requests: POST and DELETE /api/session and the purchased   *)
(* and wishlist routes (http/session.rs, http/games.rs), the exchange that  *)
(* concurrent requests share (application/account.rs, in_flight.rs), the    *)
(* Sony account calls (sources/sony/account.rs), and the one cookie jar of  *)
(* a browser whose tabs send these requests at the same time.               *)
(*                                                                          *)
(* The server keeps no session: the NPSSO travels in the cookie, every      *)
(* request exchanges it for an access token, and the token lives only in    *)
(* the request that holds it.                                               *)
(***************************************************************************)
EXTENDS Integers, FiniteSets

CONSTANTS
    Npssos,     \* NPSSO values that pass is_valid_npsso
    Requests,   \* requests that tabs of one browser may have open
    FullPages,  \* full pages of each NPSSO's PS5 library at Sony
    MaxPages,   \* PURCHASED_MAX_PAGES
    MaxRuns     \* bound: exchanges ever started

None == "none"

\* A request that is not open, one that waits for an exchange, and one that the
\* server answers without a Sony call.
Free == [at |-> "free", kind |-> None, npsso |-> None, run |-> 0, page |-> 0, answer |-> None]
Asking(kind, npsso, run) ==
    [at |-> "exchange", kind |-> kind, npsso |-> npsso, run |-> run, page |-> 0, answer |-> None]
AnsweredAtOnce(kind, answer) ==
    [at |-> "answered", kind |-> kind, npsso |-> None, run |-> 0, page |-> 0, answer |-> answer]

ASSUME NpssosAssumption == None \notin Npssos
ASSUME PagesAssumption == FullPages \in [Npssos -> Nat] /\ MaxPages \in Nat \ {0} /\ MaxRuns \in Nat

VARIABLES
    cookie,     \* the browser's `npsso` cookie
    requests,   \* every request: where it is, what it carries, its answer
    byKey,      \* Runs.by_key: the number of the running exchange, or zero
    runs,       \* every exchange task: its NPSSO and how far it is
    accepted,   \* history: NPSSOs that Sony has exchanged for a token
    rejected    \* history: NPSSOs that Sony has definitively rejected

vars == <<cookie, requests, byKey, runs, accepted, rejected>>

Lists == {"purchased", "wishlist"}

-----------------------------------------------------------------------------
(* Sony's answers and what the adapter makes of them *)

\* The answer classes that the adapter tells apart.
AuthorizeAnswers == {"code", "no_code", "401", "failed"}
TokenAnswers == {"token", "401", "failed"}
PurchasedAnswers == {"page", "401", "failed"}
WishlistAnswers == {"page", "access_denied", "401", "400", "failed"}

\* SonyAccountClient::authorize, request_token, purchased, wishlist, call_failed:
\* a 401 of the authorize call is an outage, only its redirect proves a rejection.
VerdictAny401(call, answer) ==
    CASE answer \in {"code", "token", "page"} -> "ok"
      [] answer \in {"no_code", "access_denied", "401"} -> "rejected"
      [] OTHER -> "outage"
Verdict(call, answer) ==
    CASE answer \in {"code", "token", "page"} -> "ok"
      [] answer \in {"no_code", "access_denied"} -> "rejected"
      [] answer = "401" /\ call # "authorize" -> "rejected"
      [] OTHER -> "outage"

\* What STACK.md 2.5 and call_failed's comment call a definitive rejection.
Definitive(call, answer) ==
    \/ call = "authorize" /\ answer = "no_code"
    \/ call \in {"token"} \cup Lists /\ answer = "401"
    \/ call = "wishlist" /\ answer = "access_denied"

Record(call, answer, npsso) ==
    rejected' = IF Definitive(call, answer) THEN rejected \cup {npsso} ELSE rejected

-----------------------------------------------------------------------------
(* InFlight *)

RunningWithPanic(id) == runs[id].at \in {"authorize", "token", "panicked"}
Running(id) == runs[id].at \in {"authorize", "token"}

\* InFlight::run: join the running exchange of this NPSSO, or start one.
JoinAny(r, kind, npsso) ==
    LET shared == {n \in Npssos : byKey[n] # 0} IN
    IF shared # {}
    THEN /\ requests' = [requests EXCEPT ![r] = Asking(kind, npsso, byKey[CHOOSE n \in shared : TRUE])]
         /\ UNCHANGED <<byKey, runs>>
    ELSE LET id == Cardinality(DOMAIN runs) + 1 IN
         /\ id <= MaxRuns
         /\ runs' = [i \in 1..id |-> IF i = id THEN [npsso |-> npsso, at |-> "authorize"] ELSE runs[i]]
         /\ byKey' = [byKey EXCEPT ![npsso] = id]
         /\ requests' = [requests EXCEPT ![r] = Asking(kind, npsso, id)]
JoinOrStart(r, kind, npsso) ==
    LET next == Cardinality(DOMAIN runs) + 1
        id == IF byKey[npsso] # 0 THEN byKey[npsso] ELSE next
    IN  /\ id <= MaxRuns
        /\ runs' = IF id \in DOMAIN runs THEN runs
                   ELSE [i \in 1..id |-> IF i = id THEN [npsso |-> npsso, at |-> "authorize"] ELSE runs[i]]
        /\ byKey' = [byKey EXCEPT ![npsso] = id]
        /\ requests' = [requests EXCEPT ![r] = Asking(kind, npsso, id)]

\* The task ends with `end`; its EntryGuard removes the entry of this run.
EndRunKeepingEntry(id, end) ==
    /\ runs' = [runs EXCEPT ![id].at = end]
    /\ UNCHANGED byKey
EndRun(id, end) ==
    /\ runs' = [runs EXCEPT ![id].at = end]
    /\ byKey' = [n \in Npssos |-> IF n = runs[id].npsso /\ byKey[n] = id THEN 0 ELSE byKey[n]]

(***************************************************************************)
(* AccountService::exchange -> SonyAccountClient::exchange: the authorize   *)
(* call, then the token call, each tried once.  "failed" stands for every   *)
(* other answer, a timeout of the call and the deadline of the exchange.    *)
(***************************************************************************)
AuthorizeAnswered(id, answer) ==
    /\ runs[id].at = "authorize"
    /\ Record("authorize", answer, runs[id].npsso)
    /\ IF Verdict("authorize", answer) = "ok"
       THEN runs' = [runs EXCEPT ![id].at = "token"] /\ UNCHANGED byKey
       ELSE EndRun(id, Verdict("authorize", answer))
    /\ UNCHANGED <<cookie, requests, accepted>>

TokenAnswered(id, answer) ==
    /\ runs[id].at = "token"
    /\ Record("token", answer, runs[id].npsso)
    /\ EndRun(id, Verdict("token", answer))
    /\ accepted' = IF answer = "token" THEN accepted \cup {runs[id].npsso} ELSE accepted
    /\ UNCHANGED <<cookie, requests>>

\* The exchange task panics: LookupPanicked becomes an outage for every caller.
ExchangePanics(id) ==
    /\ Running(id)
    /\ EndRun(id, "panicked")
    /\ UNCHANGED <<cookie, requests, accepted, rejected>>

-----------------------------------------------------------------------------
(* The routes *)

Answered(r, answer) ==
    requests' = [requests EXCEPT ![r].at = "answered", ![r].answer = answer]

\* sign_in: a body without a valid NPSSO is refused before any Sony call.
SendSignIn(r, npsso) ==
    /\ requests[r].at = "free"
    /\ IF npsso = None
       THEN /\ requests' = [requests EXCEPT ![r] = AnsweredAtOnce("sign_in", "refused")]
            /\ UNCHANGED <<byKey, runs>>
       ELSE JoinOrStart(r, "sign_in", npsso)
    /\ UNCHANGED <<cookie, accepted, rejected>>

\* sign_out: answers at once, without a Sony call, and clears the cookie.
SendSignOut(r) ==
    /\ requests[r].at = "free"
    /\ requests' = [requests EXCEPT ![r] = AnsweredAtOnce("sign_out", "signed_out")]
    /\ UNCHANGED <<cookie, byKey, runs, accepted, rejected>>

\* signed_in: the browser attaches its cookie; without one the route answers
\* 401 before any Sony call and sends no clearing header.
SendList(r, list) ==
    /\ requests[r].at = "free"
    /\ IF cookie = None
       THEN /\ requests' = [requests EXCEPT ![r] = AnsweredAtOnce(list, "not_signed_in")]
            /\ UNCHANGED <<byKey, runs>>
       ELSE JoinOrStart(r, list, cookie)
    /\ UNCHANGED <<cookie, accepted, rejected>>

(***************************************************************************)
(* The shared exchange returns to one request.  sign_in drops the token and *)
(* sets the cookie only on success; a list route goes on with the token or  *)
(* passes the failure to expire_cookie_on_rejection.                        *)
(***************************************************************************)
SignInAnswerUnlessRejected(end) == IF end = "rejected" THEN "rejected" ELSE "signed_in"
SignInAnswer(end) ==
    CASE end = "ok" -> "signed_in" [] end = "rejected" -> "rejected" [] OTHER -> "outage"

\* expire_cookie_on_rejection: only the 401 carries the clearing header.
ListFailure(verdict) == IF verdict = "rejected" THEN "cookie_cleared" ELSE "outage"

ExchangeReturns(r) ==
    LET end == runs[requests[r].run].at IN
    /\ requests[r].at = "exchange"
    /\ ~Running(requests[r].run)
    /\ IF requests[r].kind = "sign_in" THEN Answered(r, SignInAnswer(end))
       ELSE IF end = "ok" THEN requests' = [requests EXCEPT ![r].at = "list"]
       ELSE Answered(r, ListFailure(end))
    /\ UNCHANGED <<cookie, byKey, runs, accepted, rejected>>

(***************************************************************************)
(* SonyAccountClient::wishlist is one call.  SonyAccountClient::purchased   *)
(* reads pages until one is not full; if the last allowed page is still     *)
(* full, the library is too large and the request fails.  The page belongs  *)
(* to the account of the token, that is, of the shared exchange's NPSSO.    *)
(***************************************************************************)
TokenOf(r) == runs[requests[r].run].npsso
PageIsFull(r) == requests[r].page < FullPages[TokenOf(r)]

\* What the crawl does after a page: read on, answer, or give up.
CrawlCutShort(r) ==
    IF PageIsFull(r) /\ requests[r].page + 1 < MaxPages THEN "read_on" ELSE "listed"
CrawlPastCap(r) ==
    CASE ~PageIsFull(r) -> "listed"
      [] PageIsFull(r) /\ requests[r].page + 1 <= MaxPages -> "read_on"
      [] OTHER -> "outage"
Crawl(r) ==
    CASE ~PageIsFull(r) -> "listed"
      [] PageIsFull(r) /\ requests[r].page + 1 < MaxPages -> "read_on"
      [] OTHER -> "outage"

PurchasedAnswered(r, answer) ==
    /\ requests[r].at = "list" /\ requests[r].kind = "purchased"
    /\ Record("purchased", answer, TokenOf(r))
    /\ IF Verdict("purchased", answer) # "ok" THEN Answered(r, ListFailure(Verdict("purchased", answer)))
       ELSE IF Crawl(r) = "read_on" THEN requests' = [requests EXCEPT ![r].page = @ + 1]
       ELSE Answered(r, Crawl(r))
    /\ UNCHANGED <<cookie, byKey, runs, accepted>>

WishlistAnswered(r, answer) ==
    /\ requests[r].at = "list" /\ requests[r].kind = "wishlist"
    /\ Record("wishlist", answer, TokenOf(r))
    /\ IF Verdict("wishlist", answer) = "ok" THEN Answered(r, "listed")
       ELSE Answered(r, ListFailure(Verdict("wishlist", answer)))
    /\ UNCHANGED <<cookie, byKey, runs, accepted>>

(***************************************************************************)
(* The browser receives an answer and applies its Set-Cookie header.        *)
(* Answers of different requests arrive in any order.                       *)
(***************************************************************************)
Deliver(r) ==
    /\ requests[r].at = "answered"
    /\ cookie' = CASE requests[r].answer = "signed_in" -> requests[r].npsso
                   [] requests[r].answer \in {"signed_out", "cookie_cleared"} -> None
                   [] OTHER -> cookie
    /\ requests' = [requests EXCEPT ![r] = Free]
    /\ UNCHANGED <<byKey, runs, accepted, rejected>>

\* The request or its answer is lost, or the tab aborts it: the server drops
\* the handler, and a shared exchange goes on without it.
Abort(r) ==
    /\ requests[r].at # "free"
    /\ requests' = [requests EXCEPT ![r] = Free]
    /\ UNCHANGED <<cookie, byKey, runs, accepted, rejected>>

-----------------------------------------------------------------------------

\* The server starts without state; the browser may hold the cookie of an
\* earlier page session, which it got after Sony had accepted the NPSSO.
Init ==
    /\ cookie \in Npssos \cup {None}
    /\ requests = [r \in Requests |-> Free]
    /\ byKey = [n \in Npssos |-> 0]
    /\ runs = [i \in {} |-> {}]
    /\ accepted = {cookie} \ {None}
    /\ rejected = {}

Handle(r) ==
    \/ ExchangeReturns(r)
    \/ \E answer \in PurchasedAnswers : PurchasedAnswered(r, answer)
    \/ \E answer \in WishlistAnswers : WishlistAnswered(r, answer)
Exchange(id) ==
    \/ \E answer \in AuthorizeAnswers : AuthorizeAnswered(id, answer)
    \/ \E answer \in TokenAnswers : TokenAnswered(id, answer)
    \/ ExchangePanics(id)

Next ==
    \/ \E r \in Requests :
          \/ \E n \in Npssos \cup {None} : SendSignIn(r, n)
          \/ SendSignOut(r)
          \/ \E list \in Lists : SendList(r, list)
          \/ Handle(r) \/ Deliver(r) \/ Abort(r)
    \/ \E id \in DOMAIN runs : Exchange(id)

(***************************************************************************)
(* Every Sony call has a timeout and every exchange and crawl a deadline,   *)
(* so each step of a handler and of an exchange is eventually taken.        *)
(* Requests, their loss and the delivery of an answer are not forced.       *)
(***************************************************************************)
Fairness ==
    /\ \A r \in Requests : WF_vars(Handle(r))
    /\ \A id \in 1..MaxRuns : WF_vars(id \in DOMAIN runs /\ Exchange(id))

Spec == Init /\ [][Next]_vars
FairSpec == Spec /\ Fairness

-----------------------------------------------------------------------------
(* Properties *)

Answers == {"refused", "signed_in", "signed_out", "not_signed_in", "rejected",
            "cookie_cleared", "outage", "listed"}
Request == [at : {"free", "exchange", "list", "answered"},
            kind : Lists \cup {"sign_in", "sign_out", None},
            npsso : Npssos \cup {None}, run : 0..MaxRuns, page : 0..(MaxPages - 1),
            answer : Answers \cup {None}]
Run == [npsso : Npssos, at : {"authorize", "token", "ok", "rejected", "outage", "panicked"}]

\* Every variable has its type; in particular no crawl asks for a page past the cap.
TypeOK ==
    /\ cookie \in Npssos \cup {None}
    /\ requests \in [Requests -> Request]
    /\ byKey \in [Npssos -> 0..MaxRuns]
    /\ DOMAIN runs \subseteq 1..MaxRuns
    /\ runs \in [DOMAIN runs -> Run]
    /\ accepted \subseteq Npssos /\ rejected \subseteq Npssos

\* "The backend sets the sign-in cookie only after Sony accepted the NPSSO"
\* (STACK.md 2.5): the browser never holds an NPSSO that Sony has not exchanged.
CookieWasAccepted == cookie # None => cookie \in accepted

(***************************************************************************)
(* An outage never signs the user out: the cookie disappears only with the  *)
(* answer to a sign-out, or to a list request whose own NPSSO Sony          *)
(* definitively rejected.                                                   *)
(***************************************************************************)
OutageKeepsCookie ==
    [][cookie # None /\ cookie' = None =>
         \E r \in Requests :
            /\ requests[r].at = "answered" /\ requests'[r].at = "free"
            /\ requests[r].kind = "sign_out" \/ requests[r].npsso \in rejected]_vars

(***************************************************************************)
(* Requests of two accounts run side by side and share exchanges: the token *)
(* a list request uses was exchanged from the NPSSO of its own cookie.      *)
(***************************************************************************)
OwnAccountOnly == \A r \in Requests : requests[r].at = "list" => TokenOf(r) = requests[r].npsso

\* A library is answered whole or not at all: a full page is never the last one.
WholeLibrary ==
    \A r \in Requests :
       requests[r].kind = "purchased" /\ requests[r].answer = "listed" => ~PageIsFull(r)

\* The exchanges and the waiting requests as the contract sees them.
Exchanges == [i \in DOMAIN runs |->
    [key |-> runs[i].npsso, at |-> 0, end |-> IF Running(i) THEN "running" ELSE runs[i].at]]
Waits == [r \in Requests |->
    IF requests[r].at = "exchange" THEN [key |-> requests[r].npsso, id |-> requests[r].run]
                                   ELSE [key |-> "no_key", id |-> 0]]

C == INSTANCE CacheContract WITH
        Keys <- Npssos, Callers <- Requests, LookupIds <- 1..MaxRuns,
        Outcomes <- {"ok", "rejected", "outage"}, Ttl <- [o \in {"ok", "rejected", "outage"} |-> 0],
        MaxInstant <- 0, now <- 0, lookups <- Exchanges, calls <- Waits

(***************************************************************************)
(* InFlight keeps the contract of a cache that keeps nothing: a request is  *)
(* tied to an exchange of its own NPSSO that is still running, so no token  *)
(* outlives its exchange and "a later call exchanges again".                *)
(***************************************************************************)
SharesOnlyRunningExchanges == C!Spec

\* Every request that is not aborted gets its answer, a panicked exchange included.
RequestsAreAnswered ==
    \A r \in Requests : requests[r].at \in {"exchange", "list"} ~> requests[r].at \in {"answered", "free"}

(***************************************************************************)
(* STACK.md 9 (owner decision of 2026-10-03): "the user signs in once until *)
(* Sony expires the NPSSO".  An NPSSO that Sony never rejected stays in the *)
(* jar until a sign-out.                                                    *)
(***************************************************************************)
SignedInUntilRejected ==
    [][cookie # None /\ cookie' = None =>
         \/ cookie \in rejected
         \/ \E r \in Requests : requests[r].kind = "sign_out" /\ requests'[r].at = "free"]_vars

=============================================================================
