------------------------------ MODULE Prefetch ------------------------------
(***************************************************************************)
(* The tab prefetch of the browser (prefetchRunner.ts, usePrefetchTabs.ts)  *)
(* among everything that moves the same query cache: the open view with its *)
(* own requests, route changes, answers in any order, sign-in and sign-out. *)
(* A step is a task of the browser's event loop or one of the microtasks    *)
(* that it leaves behind; the order of microtasks of two runs is open.      *)
(***************************************************************************)
EXTENDS Naturals, Sequences

CONSTANTS
    PREFETCH_ORDER, \* the tabs, in the order in which they are prefetched
    SignedInTabs,   \* those that need the sign-in cookie
    Accounts,       \* the PlayStation accounts of the people at this browser
    NoAccount,      \* no cookie, or no data of an account
    List,           \* the list of an anonymous tab, whoever is signed in
    MaxMoves        \* bound: route changes, sign-ins and sign-outs of a behaviour

Tabs == {PREFETCH_ORDER[i] : i \in DOMAIN PREFETCH_ORDER}

\* A game page has a query of its own and no list; "gone" is a closed shell.
Queries == Tabs \cup {"game"}
Routes == Queries \cup {"gone"}

ASSUME PrefetchAssumption ==
    /\ SignedInTabs \subseteq Tabs /\ Tabs \cap {"game", "gone", "none"} = {}
    /\ NoAccount \notin Accounts /\ List \notin Accounts \cup {NoAccount}
    /\ MaxMoves \in Nat

Calls == {1, 2} \* places of the calls of prefetchTab that have not returned
Idle == 0
ByView == 3     \* a request that a view has sent; a call's request has its number

VARIABLES
    pathname, \* session.pathname: the open route
    view,     \* the query whose view has subscribed
    query,    \* the query cache: what each query holds, and who fetches it
    run,      \* runPrefetch for the open route: restoring, waiting, calling or over
    calls,    \* the calls of prefetchTab, the last run's and an earlier one's
    checks,   \* the calls whose run was aborted and whose microtask is queued
    session,  \* halted, access, and the call that stopSignedIn aborts
    account,  \* whose cookie the browser holds
    posting,  \* the sign-out and the sign-in that have been sent
    left,     \* history: whose data a signed-in list was last reset from
    moves     \* how much of MaxMoves is used

vars == <<pathname, view, query, run, calls, checks, session, account, posting, left, moves>>

NoCall == [tab |-> "none"]
Fresh == [status |-> "pending", data |-> NoAccount, fetch |-> Idle, cookie |-> NoAccount]
Held == [Fresh EXCEPT !.status = "success", !.data = List]
Failures == {"failed", "denied", "aborted"}

Init ==
    /\ pathname \in Queries
    /\ view = "none"
    /\ query \in {q \in [Queries -> {Fresh, Held}] : \A k \in SignedInTabs : q[k] = Fresh}
    /\ run = "restoring"
    /\ calls = [n \in Calls |-> NoCall]
    /\ checks = {}
    /\ session = [halted |-> FALSE, access |-> "unknown", stopSignedIn |-> Idle]
    /\ account \in Accounts \cup {NoAccount}
    /\ posting = [out |-> FALSE, in |-> NoAccount, from |-> "none"]
    /\ left = [k \in SignedInTabs |-> {}] /\ moves = 0

-----------------------------------------------------------------------------
(* What the code asks the cache, and does to it *)

isJoinedByView(tab, v) == tab = v
isJoined(tab, v) == tab = v \/ tab = pathname

isCovered(tab) == query[tab].status = "success" \/ view = tab

isReady ==
    /\ \A k \in Queries : query[k].fetch = Idle
    /\ pathname \in Tabs => query[pathname].status # "pending"

isOpen(tab) == ~isCovered(tab) /\ ~(session.access = "denied" /\ tab \in SignedInTabs)

\* The tab to request next is the first of the order that is open.
nextTab(tab) ==
    \E i \in DOMAIN PREFETCH_ORDER :
        /\ PREFETCH_ORDER[i] = tab /\ isOpen(tab)
        /\ \A j \in 1..(i - 1) : ~isOpen(PREFETCH_ORDER[j])

\* resetQueries cancels a fetch and forgets the answer of its request.
Reset(q, keys) == [k \in Queries |-> IF k \in keys THEN Fresh ELSE q[k]]
discardIfUnwatched(q, tab) == Reset(q, {tab} \ {view})

Sends(q, k, by, cookie) ==
    [q EXCEPT ![k].fetch = by, ![k].cookie = cookie,
              ![k].status = IF q[k].data = NoAccount THEN "pending" ELSE @]

\* A fetch of query k notifies every call: one of another tab is aborted, and
\* its query discarded, unless a view needs it.
Bystanders(k, v) == {n \in Calls : calls[n] # NoCall /\ calls[n].tab # k /\ ~isJoined(calls[n].tab, v)}

ResetTabsOf(q, hit) == Reset(q, {calls[n].tab : n \in hit})
Aborts(hit) == [n \in Calls |-> IF n \in hit THEN [calls[n] EXCEPT !.aborted = TRUE] ELSE calls[n]]

Fetch(q, k, by, cookie, v) ==
    /\ query' = Sends(ResetTabsOf(q, Bystanders(k, v)), k, by, cookie)
    /\ calls' = Aborts(Bystanders(k, v))

\* The promise of a call has settled: its request was answered or cancelled.
Ended(n) == calls[n] # NoCall /\ query[calls[n].tab].fetch # n

\* Microtasks run before the next task of the event loop.
Quiet == checks = {} /\ \A n \in Calls : ~Ended(n)

-----------------------------------------------------------------------------
(* The prefetch *)

Restored ==
    /\ run = "restoring"
    /\ run' = "waiting"
    /\ UNCHANGED <<pathname, view, query, calls, checks, session, account, posting, left, moves>>

\* One turn of the loop of runPrefetch, up to the request that it sends.
Proceed ==
    /\ run = "waiting"
    /\ ~session.halted
    /\ isReady
    /\ \/ /\ \A tab \in Tabs : ~isOpen(tab)
          /\ run' = "over"
          /\ UNCHANGED <<query, calls, session>>
       \/ \E tab \in Tabs, n \in Calls :
          /\ nextTab(tab) /\ calls[n] = NoCall
          /\ query' = Sends(ResetTabsOf(query, Bystanders(tab, view)), tab, n, account)
          /\ calls' = [Aborts(Bystanders(tab, view)) EXCEPT ![n] =
                          [tab |-> tab, left |-> FALSE, aborted |-> FALSE, answer |-> "none"]]
          /\ run' = "calling"
          /\ session' = IF tab \in SignedInTabs THEN [session EXCEPT !.stopSignedIn = n] ELSE session
    /\ UNCHANGED <<pathname, view, checks, account, posting, left, moves>>

\* The microtask that onLoopAbort has queued: abort(false).
Check(n) ==
    /\ n \in checks
    /\ checks' = checks \ {n}
    /\ IF calls[n] = NoCall \/ isJoined(calls[n].tab, view)
       THEN UNCHANGED <<query, calls>>
       ELSE /\ calls' = [calls EXCEPT ![n].aborted = TRUE]
            /\ query' = discardIfUnwatched(query, calls[n].tab)
    /\ UNCHANGED <<pathname, view, run, session, account, posting, left, moves>>

\* A request that was aborted or cancelled is not a failure.
Outcome(n) ==
    CASE calls[n].answer = "success" -> "done"
      [] calls[n].answer # "success" /\ (calls[n].aborted \/ calls[n].answer = "none") -> "interrupted"
      [] OTHER -> calls[n].answer

\* A 401 ends the prefetch of the signed-in tabs, any other failure all of it.
JudgedKeepingStop(outcome) ==
    [session EXCEPT !.halted = @ \/ outcome = "failed",
                    !.access = IF outcome = "denied" THEN "denied" ELSE @]
Judged(outcome) ==
    [session EXCEPT !.halted = @ \/ outcome = "failed",
                    !.access = IF outcome = "denied" THEN "denied" ELSE @,
                    !.stopSignedIn = Idle]

\* The rest of prefetchTab after its await, and what its run does with it.
Settle(n) ==
    /\ Ended(n)
    /\ query' = IF Outcome(n) = "done" THEN query ELSE discardIfUnwatched(query, calls[n].tab)
    /\ session' = Judged(Outcome(n))
    /\ run' = IF calls[n].left THEN run ELSE "waiting"
    /\ calls' = [calls EXCEPT ![n] = NoCall]
    /\ UNCHANGED <<pathname, view, checks, account, posting, left, moves>>

-----------------------------------------------------------------------------
(* The views and the user *)

\* A route change: the old view leaves, the shell's effect aborts the run of the
\* old route and starts the next one, all before the new view subscribes.
Open(r) ==
    /\ Quiet /\ pathname # "gone" /\ r # pathname
    /\ moves < MaxMoves /\ moves' = moves + 1
    /\ pathname' = r /\ view' = "none"
    /\ checks' = {n \in Calls : calls[n] # NoCall /\ ~calls[n].left}
    /\ calls' = [n \in Calls |-> IF n \in checks' THEN [calls[n] EXCEPT !.left = TRUE] ELSE calls[n]]
    /\ run' = IF r = "gone" THEN "over" ELSE IF run = "restoring" THEN run ELSE "waiting"
    /\ UNCHANGED <<query, session, account, posting, left>>

\* The view of the open route subscribes.  It joins a fetch that runs, sends one
\* for a query without an answer, and may refresh an anonymous one; retryOnMount
\* is false for a signed-in list.
Subscribe ==
    /\ view = "none" /\ pathname # "gone" /\ run # "restoring"
    /\ view' = pathname
    /\ LET held == query[pathname] IN
       \/ /\ held.fetch = Idle
          /\ held.status = "pending" \/ pathname \notin SignedInTabs
          /\ Fetch(query, pathname, ByView, account, pathname)
       \/ /\ \/ held.fetch # Idle
             \/ held.status = "success"
             \/ held.status \in Failures /\ pathname \in SignedInTabs
          /\ UNCHANGED <<query, calls>>
    /\ UNCHANGED <<pathname, run, checks, session, account, posting, left, moves>>

\* A next page or a refresh of an anonymous list, or Retry in a signed-in one.
ViewFetches ==
    /\ Quiet /\ view # "none"
    /\ query[view].fetch = Idle
    /\ IF view \in SignedInTabs THEN query[view].status \in Failures \ {"denied"}
                                ELSE query[view].data # NoAccount
    /\ Fetch(query, view, ByView, account, view)
    /\ UNCHANGED <<pathname, view, run, checks, session, account, posting, left, moves>>

\* The server answers the request of query k.  It takes back a cookie that Sony
\* rejects; what it tells apart is in module SignedIn.
Answer(k, answer) ==
    /\ Quiet /\ query[k].fetch # Idle
    /\ k \notin SignedInTabs => answer # "denied"
    /\ k \in SignedInTabs /\ query[k].cookie = NoAccount => answer = "denied"
    /\ query' = [query EXCEPT ![k].status = answer, ![k].fetch = Idle, ![k].cookie = NoAccount,
                    ![k].data = IF answer # "success" THEN @
                                ELSE IF k \in SignedInTabs THEN query[k].cookie ELSE List]
    /\ calls' = [n \in Calls |->
                    IF query[k].fetch = n THEN [calls[n] EXCEPT !.answer = answer] ELSE calls[n]]
    /\ account' = IF answer = "denied" /\ query[k].cookie # NoAccount THEN NoAccount ELSE account
    /\ UNCHANGED <<pathname, view, run, checks, session, posting, left, moves>>

-----------------------------------------------------------------------------
(* Sign-out and sign-in *)

PurchasedKeyOnly == SignedInTabs \ {"wishlist"}
SIGNED_IN_QUERY_KEYS == SignedInTabs

\* The click: stopSignedInPrefetch, then the request.  The button shows while a
\* signed-in list has data.
SignOut ==
    /\ Quiet /\ pathname # "gone" /\ ~posting.out
    /\ \E k \in SignedInTabs : query[k].data # NoAccount
    /\ moves < MaxMoves /\ moves' = moves + 1
    /\ posting' = [posting EXCEPT !.out = TRUE]
    /\ session' = [session EXCEPT !.access = "denied"]
    /\ LET n == session.stopSignedIn IN
       IF n = Idle THEN UNCHANGED <<query, calls>>
       ELSE /\ calls' = [calls EXCEPT ![n].aborted = TRUE]
            /\ query' = [query EXCEPT ![calls[n].tab].status = "aborted", ![calls[n].tab].fetch = Idle,
                                      ![calls[n].tab].cookie = NoAccount]
    /\ UNCHANGED <<pathname, view, run, checks, account, left>>

\* A reset fetches the list that is on screen again.
ResetSignedIn(keys, refetch, cookie) ==
    IF view \in refetch /\ Reset(query, keys)[view].fetch = Idle
    THEN Fetch(Reset(query, keys), view, ByView, cookie, view)
    ELSE query' = Reset(query, keys) /\ UNCHANGED calls

SignOutAnswered(accepted) ==
    /\ Quiet /\ posting.out
    /\ posting' = [posting EXCEPT !.out = FALSE]
    /\ IF accepted
       THEN /\ account' = NoAccount /\ left' = [k \in SignedInTabs |-> Accounts]
            /\ ResetSignedIn(SIGNED_IN_QUERY_KEYS, SIGNED_IN_QUERY_KEYS, NoAccount)
       ELSE UNCHANGED <<account, left, query, calls>>
    /\ UNCHANGED <<pathname, view, run, checks, session, moves>>

\* The form shows in a signed-in list that was answered 401.
SignIn(a) ==
    /\ Quiet /\ view \in SignedInTabs /\ query[view].status = "denied" /\ posting.in = NoAccount
    /\ moves < MaxMoves /\ moves' = moves + 1
    /\ posting' = [posting EXCEPT !.in = a, !.from = view]
    /\ UNCHANGED <<pathname, view, query, run, calls, checks, session, account, left>>

\* The list of the form is invalidated, which fetches it again while it is on
\* screen; the others are reset.
SignInAnswered(accepted) ==
    /\ Quiet /\ posting.in # NoAccount
    /\ posting' = [posting EXCEPT !.in = NoAccount, !.from = "none"]
    /\ IF accepted
       THEN /\ account' = posting.in
            /\ left' = [k \in SignedInTabs |->
                          (IF k = posting.from THEN left[k] ELSE Accounts) \ {posting.in}]
            /\ ResetSignedIn(SIGNED_IN_QUERY_KEYS \ {posting.from}, SIGNED_IN_QUERY_KEYS, posting.in)
       ELSE UNCHANGED <<account, left, query, calls>>
    /\ UNCHANGED <<pathname, view, run, checks, session, moves>>

Next ==
    \/ Restored \/ Proceed \/ Subscribe \/ ViewFetches \/ SignOut
    \/ \E n \in Calls : Check(n) \/ Settle(n)
    \/ \E r \in Routes : Open(r)
    \/ \E k \in Queries, answer \in {"success", "failed", "denied"} : Answer(k, answer)
    \/ \E a \in Accounts : SignIn(a)
    \/ \E accepted \in BOOLEAN : SignOutAnswered(accepted) \/ SignInAnswered(accepted)

Spec == Init /\ [][Next]_vars

-----------------------------------------------------------------------------
(* Properties *)

\* Every variable has its type, a request of the prefetch belongs to a call of
\* that tab, and stopSignedIn never outlives the call that it aborts.
TypeOK ==
    /\ pathname \in Routes /\ view \in Queries \cup {"none"} /\ view \in {"none", pathname}
    /\ query \in [Queries -> [status : {"pending", "success"} \cup Failures,
                              data : Accounts \cup {NoAccount, List},
                              fetch : Calls \cup {Idle, ByView}, cookie : Accounts \cup {NoAccount}]]
    /\ run \in {"restoring", "waiting", "calling", "over"}
    /\ \A n \in Calls : calls[n] # NoCall =>
          /\ calls[n] \in [tab : Tabs, left : BOOLEAN, aborted : BOOLEAN,
                           answer : {"none", "success", "failed", "denied"}]
          /\ ~calls[n].left => run = "calling"
    /\ \A k \in Queries, n \in Calls : query[k].fetch = n => calls[n] # NoCall /\ calls[n].tab = k
    /\ session \in [halted : BOOLEAN, access : {"unknown", "denied"}, stopSignedIn : Calls \cup {Idle}]
    /\ session.stopSignedIn # Idle => calls[session.stopSignedIn] # NoCall
    /\ checks \subseteq Calls /\ account \in Accounts \cup {NoAccount}
    /\ left \in [SignedInTabs -> SUBSET Accounts] /\ moves \in 0..MaxMoves

\* The prefetch never aborts a request that the open route needs, whether its
\* view has subscribed yet or not; and once the view has, it neither cancels nor
\* repeats it.  Only a sign-in or a sign-out may cut it short.
OpenedTabKeepsItsRequest ==
    [][\A n \in Calls :
          calls[n] # NoCall /\ ~Ended(n) /\ calls[n].tab = pathname /\ pathname' = pathname
          => \/ posting' # posting
             \/ /\ calls'[n] # NoCall /\ ~calls'[n].aborted
                /\ view = pathname /\ query'[pathname].fetch # n => calls'[n].answer # "none"]_vars

\* A signed-in list is never that of an account which has signed out, or which a
\* sign-in from another list has replaced: not by an answer that was late, nor
\* in a tab that was not on screen.
NoListOfAnAccountThatLeft == \A k \in SignedInTabs : query[k].data \notin left[k]

\* signedInQuery.ts:7 of a sign-in: "the keys not on screen are reset, never
\* fetched".
SignInResetsWhatIsOffScreen ==
    [][account' # account /\ account' # NoAccount /\ pathname # "gone"
          => \A k \in SignedInTabs \ {view} : query'[k] = Fresh]_vars
=============================================================================
