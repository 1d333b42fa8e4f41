--------------------------- MODULE Prefetch_proofs ---------------------------
(***************************************************************************)
(* The tab prefetch of module Prefetch, for any tabs and any accounts: the  *)
(* calls and the query cache agree about who fetches, and no list of an     *)
(* account that signed out comes back.                                      *)
(***************************************************************************)
EXTENDS Prefetch, TLAPS

Cookies == Accounts \cup {NoAccount}
Query == [status : {"pending", "success"} \cup Failures, data : Accounts \cup {NoAccount, List},
          fetch : Calls \cup {Idle, ByView}, cookie : Cookies]
Posting == [out : BOOLEAN, in : Cookies, from : SignedInTabs \cup {"none"}]
Call == [tab : Tabs, left : BOOLEAN, aborted : BOOLEAN,
         answer : {"none", "success", "failed", "denied"}]

(***************************************************************************)
(* The arguments q, c and l are the values of query, calls and left.        *)
(***************************************************************************)

\* A request of the prefetch belongs to a call of that tab.
Owned(q, c) == \A k \in Queries, n \in Calls : q[k].fetch = n => c[n] # NoCall /\ c[n].tab = k

\* Neither the data of a signed-in list nor the cookie of its request is that of
\* an account that left.
Clean(q, l) == \A k \in SignedInTabs : q[k].data \notin l[k] /\ q[k].cookie \notin l[k]

\* Only the call of the present run is not left, and that run waits for it.
Current(c, r) ==
    \A n \in Calls : c[n] # NoCall /\ ~c[n].left =>
        r = "calling" /\ \A m \in Calls \ {n} : c[m] # NoCall => c[m].left

CacheInv ==
    /\ query \in [Queries -> Query] /\ calls \in [Calls -> Call \cup {NoCall}]
    /\ Owned(query, calls) /\ Current(calls, run)
SessionInv ==
    /\ session \in [halted : BOOLEAN, access : {"unknown", "denied"}, stopSignedIn : Calls \cup {Idle}]
    /\ session.stopSignedIn # Idle => calls[session.stopSignedIn] # NoCall
RouteInv ==
    /\ pathname \in Routes /\ view \in Queries \cup {"none"} /\ view \in {"none", pathname}
    /\ run \in {"restoring", "waiting", "calling", "over"}
    /\ checks \subseteq Calls /\ moves \in 0..MaxMoves
AccountInv ==
    /\ account \in Cookies /\ left \in [SignedInTabs -> SUBSET Accounts]
    /\ posting \in Posting
    /\ \A k \in SignedInTabs : account \notin left[k]
    /\ Clean(query, left)

\* The invariant that every step keeps.
PrefetchInv == CacheInv /\ SessionInv /\ RouteInv /\ AccountInv

-----------------------------------------------------------------------------
(* The cache and the calls under the operators that the actions are made of *)

LEMMA Distinct ==
    /\ \A c \in Call : c # NoCall
    /\ Idle \notin Calls /\ ByView \notin Calls /\ Idle # ByView
    /\ SignedInTabs \subseteq Tabs /\ Tabs \subseteq Queries /\ Queries \subseteq Routes
    /\ NoAccount \notin Accounts /\ List \notin Accounts /\ "none" \notin Queries
PROOF
<1>1. ASSUME NEW c \in Call PROVE c # NoCall
  <2>1. DOMAIN c = {"tab", "left", "aborted", "answer"}
    BY DEF Call
  <2>2. DOMAIN NoCall = {"tab"}
    BY DEF NoCall
  <2> QED BY <2>1, <2>2
<1> QED BY <1>1, PrefetchAssumption DEF Calls, Idle, ByView, Queries, Routes

LEMMA FreshIsQuery == Fresh \in Query /\ Fresh.fetch = Idle /\ Fresh.data = NoAccount /\ Fresh.cookie = NoAccount
PROOF BY DEF Fresh, Query, Cookies, Idle

\* What may become of the calls while none begins or returns.
SameCalls(c, d) ==
    /\ d \in [Calls -> Call \cup {NoCall}]
    /\ \A n \in Calls : IF c[n] = NoCall THEN d[n] = NoCall
                        ELSE d[n] # NoCall /\ d[n].tab = c[n].tab /\ d[n].left = c[n].left

LEMMA SameOwners ==
    ASSUME NEW q, NEW c, NEW d, NEW r, SameCalls(c, d), Owned(q, c), Current(c, r)
    PROVE  Owned(q, d) /\ Current(d, r)
PROOF BY DEF SameCalls, Owned, Current

LEMMA ResetKeeps ==
    ASSUME NEW q \in [Queries -> Query], NEW keys, NEW c, NEW l \in [SignedInTabs -> SUBSET Accounts],
           Owned(q, c), Clean(q, l)
    PROVE  /\ Reset(q, keys) \in [Queries -> Query]
           /\ Owned(Reset(q, keys), c) /\ Clean(Reset(q, keys), l)
PROOF
<1>1. Reset(q, keys) \in [Queries -> Query]
  BY FreshIsQuery DEF Reset
<1>2. \A k \in Queries : Reset(q, keys)[k] \in {Fresh, q[k]}
  BY DEF Reset
<1>3. Owned(Reset(q, keys), c)
  BY <1>2, FreshIsQuery, Distinct DEF Owned
<1>4. Clean(Reset(q, keys), l)
  BY <1>2, FreshIsQuery, Distinct DEF Clean
<1> QED BY <1>1, <1>3, <1>4

LEMMA SendsKeeps ==
    ASSUME NEW q \in [Queries -> Query], NEW k \in Queries, NEW cookie \in Cookies,
           NEW by \in Calls \cup {ByView}, NEW c, NEW l \in [SignedInTabs -> SUBSET Accounts],
           Owned(q, c), Clean(q, l), k \in SignedInTabs => cookie \notin l[k],
           by \in Calls => c[by] # NoCall /\ c[by].tab = k
    PROVE  /\ Sends(q, k, by, cookie) \in [Queries -> Query]
           /\ Owned(Sends(q, k, by, cookie), c) /\ Clean(Sends(q, k, by, cookie), l)
PROOF
<1> DEFINE s == Sends(q, k, by, cookie)
<1>1. /\ s \in [Queries -> Query]
      /\ s[k].fetch = by /\ s[k].cookie = cookie /\ s[k].data = q[k].data
      /\ \A x \in Queries \ {k} : s[x] = q[x]
  <2> DEFINE status == IF q[k].data = NoAccount THEN "pending" ELSE q[k].status
             sent == [q[k] EXCEPT !.fetch = by, !.cookie = cookie, !.status = status]
  <2>1. DOMAIN q = Queries /\ q[k] \in Query
    OBVIOUS
  <2>2. sent \in Query /\ sent.fetch = by /\ sent.cookie = cookie /\ sent.data = q[k].data
    BY <2>1 DEF Query
  <2>3. s = [q EXCEPT ![k] = sent]
    BY <2>1 DEF Sends
  <2> HIDE DEF s, sent
  <2> QED BY <2>1, <2>2, <2>3
<1> HIDE DEF s
<1>2. Owned(s, c)
  BY <1>1, Distinct DEF Owned
<1>3. Clean(s, l)
  BY <1>1, Distinct DEF Clean
<1> QED BY <1>1, <1>2, <1>3 DEF s

LEMMA AbortsKeeps ==
    ASSUME calls \in [Calls -> Call \cup {NoCall}], NEW hit, \A n \in hit : calls[n] # NoCall
    PROVE  SameCalls(calls, Aborts(hit))
PROOF
<1>1. \A n \in Calls : calls[n] # NoCall =>
        /\ [calls[n] EXCEPT !.aborted = TRUE] \in Call
        /\ [calls[n] EXCEPT !.aborted = TRUE].tab = calls[n].tab
        /\ [calls[n] EXCEPT !.aborted = TRUE].left = calls[n].left
  BY DEF Call
<1> QED BY <1>1, Distinct DEF Aborts, SameCalls

\* A fetch of a view aborts calls of the prefetch and takes none over.
LEMMA FetchKeeps ==
    ASSUME PrefetchInv, NEW q \in [Queries -> Query], NEW k \in Queries, NEW cookie \in Cookies, NEW v,
           NEW l \in [SignedInTabs -> SUBSET Accounts],
           Owned(q, calls), Clean(q, l), k \in SignedInTabs => cookie \notin l[k],
           Fetch(q, k, ByView, cookie, v)
    PROVE  /\ query' \in [Queries -> Query] /\ Owned(query', calls') /\ Clean(query', l)
           /\ SameCalls(calls, calls')
PROOF
<1> DEFINE hit == Bystanders(k, v)
           q1 == ResetTabsOf(q, hit)
<1>1. SameCalls(calls, calls')
  BY AbortsKeeps DEF Fetch, Bystanders, PrefetchInv, CacheInv
<1>2. q1 \in [Queries -> Query] /\ Owned(q1, calls) /\ Clean(q1, l)
  BY ResetKeeps DEF ResetTabsOf
<1>3. query' = Sends(q1, k, ByView, cookie)
  BY DEF Fetch
<1> HIDE DEF q1
<1>4. query' \in [Queries -> Query] /\ Owned(query', calls) /\ Clean(query', l)
  BY <1>2, <1>3, SendsKeeps, Distinct
<1>5. Current(calls, run)
  BY DEF PrefetchInv, CacheInv
<1> QED BY <1>1, <1>4, <1>5, SameOwners

-----------------------------------------------------------------------------
(* The prefetch keeps the invariant *)

LEMMA RestoredKeeps == ASSUME PrefetchInv, Restored PROVE PrefetchInv'
PROOF
<1> USE DEF PrefetchInv, Restored
<1>1. CacheInv'
  BY DEF CacheInv, Owned, Current
<1>2. SessionInv' /\ RouteInv' /\ AccountInv'
  BY DEF SessionInv, RouteInv, AccountInv, Clean
<1> QED BY <1>1, <1>2

LEMMA ProceedKeeps == ASSUME PrefetchInv, Proceed PROVE PrefetchInv'
PROOF
<1>1. CASE UNCHANGED <<query, calls, session>> /\ run' = "over"
  <2>1. CacheInv'
    BY <1>1 DEF PrefetchInv, Proceed, CacheInv, Owned, Current
  <2>2. SessionInv' /\ RouteInv' /\ AccountInv'
    BY <1>1 DEF PrefetchInv, Proceed, SessionInv, RouteInv, AccountInv, Clean
  <2> QED BY <2>1, <2>2 DEF PrefetchInv
<1>2. ASSUME NEW tab \in Tabs, NEW n \in Calls, calls[n] = NoCall,
             query' = Sends(ResetTabsOf(query, Bystanders(tab, view)), tab, n, account),
             calls' = [Aborts(Bystanders(tab, view)) EXCEPT ![n] =
                         [tab |-> tab, left |-> FALSE, aborted |-> FALSE, answer |-> "none"]],
             run' = "calling",
             session' = IF tab \in SignedInTabs THEN [session EXCEPT !.stopSignedIn = n] ELSE session
      PROVE  PrefetchInv'
  <2> DEFINE hit == Bystanders(tab, view)
             d == Aborts(hit)
             q1 == ResetTabsOf(query, hit)
             new == [tab |-> tab, left |-> FALSE, aborted |-> FALSE, answer |-> "none"]
  <2>1. CacheInv /\ SessionInv /\ RouteInv /\ AccountInv /\ run = "waiting"
    BY DEF PrefetchInv, Proceed
  <2>2. SameCalls(calls, d)
    BY <2>1, AbortsKeeps DEF Bystanders, CacheInv
  <2>3. d \in [Calls -> Call \cup {NoCall}] /\ Owned(query, d) /\ Current(d, run)
    BY <2>1, <2>2, SameOwners DEF CacheInv, SameCalls
  <2>4. q1 \in [Queries -> Query] /\ Owned(q1, d) /\ Clean(q1, left)
    BY <2>1, <2>3, ResetKeeps DEF ResetTabsOf, CacheInv, AccountInv
  <2>5. d[n] = NoCall
    BY <1>2, <2>2 DEF SameCalls
  <2>6. calls' = [d EXCEPT ![n] = new] /\ query' = Sends(q1, tab, n, account)
    BY <1>2
  <2>7. new \in Call /\ new.tab = tab /\ new.left = FALSE /\ new # NoCall
    BY Distinct DEF Call
  <2> HIDE DEF q1, d, new
  <2>8. calls' \in [Calls -> Call \cup {NoCall}] /\ calls'[n] = new
        /\ \A m \in Calls \ {n} : calls'[m] = d[m]
    BY <2>3, <2>6, <2>7
  <2>9. Owned(q1, calls') /\ Current(calls', run')
    <3>1. Owned(q1, calls')
      BY <2>4, <2>5, <2>8 DEF Owned
    <3>2. \A m \in Calls : d[m] # NoCall => d[m].left
      BY <2>1, <2>3 DEF Current
    <3> QED BY <1>2, <2>7, <2>8, <3>1, <3>2 DEF Current
  <2>10. query' \in [Queries -> Query] /\ Owned(query', calls') /\ Clean(query', left)
    BY <2>1, <2>4, <2>6, <2>7, <2>8, <2>9, SendsKeeps, Distinct DEF AccountInv
  <2>11. CacheInv'
    BY <2>8, <2>9, <2>10 DEF CacheInv
  <2>12. SessionInv'
    <3>1. \A m \in Calls : calls[m] # NoCall => calls'[m] # NoCall
      BY <2>2, <2>7, <2>8 DEF SameCalls
    <3>2. CASE tab \in SignedInTabs
      BY <1>2, <2>1, <2>7, <2>8, <3>2 DEF SessionInv
    <3>3. CASE tab \notin SignedInTabs
      BY <1>2, <2>1, <3>1, <3>3 DEF SessionInv
    <3> QED BY <3>2, <3>3
  <2>13. RouteInv' /\ AccountInv'
    BY <1>2, <2>1, <2>10 DEF Proceed, RouteInv, AccountInv
  <2> QED BY <2>11, <2>12, <2>13 DEF PrefetchInv
<1> QED BY <1>1, <1>2 DEF Proceed

\* A call that is aborted stays, and its query may be discarded.
LEMMA OneAborted ==
    ASSUME PrefetchInv, NEW n \in Calls, calls[n] # NoCall
    PROVE  SameCalls(calls, [calls EXCEPT ![n].aborted = TRUE])
PROOF
<1>1. calls[n] \in Call
  BY DEF PrefetchInv, CacheInv
<1>2. /\ [calls[n] EXCEPT !.aborted = TRUE] \in Call
      /\ [calls[n] EXCEPT !.aborted = TRUE].tab = calls[n].tab
      /\ [calls[n] EXCEPT !.aborted = TRUE].left = calls[n].left
  BY <1>1 DEF Call
<1> QED BY <1>2, Distinct DEF SameCalls, PrefetchInv, CacheInv

LEMMA CheckKeeps == ASSUME PrefetchInv, NEW n \in Calls, Check(n) PROVE PrefetchInv'
PROOF
<1>1. query' \in [Queries -> Query] /\ Owned(query', calls) /\ Clean(query', left)
  BY ResetKeeps DEF Check, discardIfUnwatched, PrefetchInv, CacheInv, AccountInv
<1>2. calls' = calls \/ SameCalls(calls, calls')
  BY OneAborted DEF Check
<1>3. SameCalls(calls, calls')
  BY <1>2 DEF SameCalls, PrefetchInv, CacheInv
<1>4. CacheInv'
  BY <1>1, <1>3, SameOwners DEF Check, PrefetchInv, CacheInv, SameCalls
<1>5. SessionInv' /\ RouteInv' /\ AccountInv'
  BY <1>1, <1>3 DEF Check, PrefetchInv, SessionInv, RouteInv, AccountInv, SameCalls
<1> QED BY <1>4, <1>5 DEF PrefetchInv

LEMMA SettleKeeps == ASSUME PrefetchInv, NEW n \in Calls, Settle(n) PROVE PrefetchInv'
PROOF
<1>1. query' \in [Queries -> Query] /\ Owned(query', calls) /\ Clean(query', left)
  BY ResetKeeps DEF Settle, discardIfUnwatched, PrefetchInv, CacheInv, AccountInv
<1>2. \A k \in Queries : query'[k].fetch # n
  <2>1. \A k \in Queries : query'[k] \in {query[k], Fresh}
    BY DEF Settle, discardIfUnwatched, Reset, PrefetchInv, CacheInv
  <2>2. \A k \in Queries : query[k].fetch # n
    BY DEF Settle, Ended, PrefetchInv, CacheInv, Owned
  <2> QED BY <2>1, <2>2, FreshIsQuery, Distinct
<1>3. calls' \in [Calls -> Call \cup {NoCall}] /\ calls'[n] = NoCall
      /\ \A m \in Calls \ {n} : calls'[m] = calls[m]
  BY DEF Settle, PrefetchInv, CacheInv
<1>4. Owned(query', calls')
  BY <1>1, <1>2, <1>3 DEF Owned
<1>5. Current(calls', run')
  BY <1>3 DEF Settle, Ended, PrefetchInv, CacheInv, Current
<1>6. session' \in [halted : BOOLEAN, access : {"unknown", "denied"}, stopSignedIn : Calls \cup {Idle}]
      /\ session'.stopSignedIn = Idle
  BY DEF Settle, Judged, PrefetchInv, SessionInv
<1>7. RouteInv' /\ AccountInv'
  BY <1>1 DEF Settle, PrefetchInv, RouteInv, AccountInv
<1> QED BY <1>1, <1>3, <1>4, <1>5, <1>6, <1>7 DEF PrefetchInv, CacheInv, SessionInv

-----------------------------------------------------------------------------
(* So do the views and the server *)

LEMMA OpenKeeps == ASSUME PrefetchInv, NEW r \in Routes, Open(r) PROVE PrefetchInv'
PROOF
<1>1. \A n \in Calls : calls[n] # NoCall =>
        /\ [calls[n] EXCEPT !.left = TRUE] \in Call
        /\ [calls[n] EXCEPT !.left = TRUE].tab = calls[n].tab
        /\ [calls[n] EXCEPT !.left = TRUE].left
  BY DEF PrefetchInv, CacheInv, Call
<1>2. /\ calls' \in [Calls -> Call \cup {NoCall}]
      /\ \A n \in Calls : IF calls[n] = NoCall THEN calls'[n] = NoCall
                          ELSE calls'[n] # NoCall /\ calls'[n].tab = calls[n].tab /\ calls'[n].left
  BY <1>1, Distinct DEF Open, PrefetchInv, CacheInv, Call
<1>3. CacheInv'
  BY <1>2 DEF Open, PrefetchInv, CacheInv, Owned, Current
<1>4. SessionInv' /\ AccountInv'
  BY <1>2 DEF Open, PrefetchInv, SessionInv, AccountInv, Clean
<1>5. RouteInv'
  BY PrefetchAssumption DEF Open, PrefetchInv, RouteInv
<1> QED BY <1>3, <1>4, <1>5 DEF PrefetchInv

\* A fetch of the open view with the present cookie.
LEMMA ViewFetchKeeps ==
    ASSUME PrefetchInv, NEW k \in Queries, Fetch(query, k, ByView, account, k),
           UNCHANGED <<run, session, account, left>>
    PROVE  CacheInv' /\ SessionInv' /\ Clean(query', left)
PROOF
<1>1. /\ query' \in [Queries -> Query] /\ Owned(query', calls') /\ Clean(query', left)
      /\ SameCalls(calls, calls')
  BY FetchKeeps DEF PrefetchInv, CacheInv, AccountInv
<1>2. CacheInv'
  BY <1>1, SameOwners DEF PrefetchInv, CacheInv, SameCalls
<1>3. SessionInv'
  BY <1>1 DEF PrefetchInv, SessionInv, SameCalls
<1> QED BY <1>1, <1>2, <1>3

LEMMA SubscribeKeeps == ASSUME PrefetchInv, Subscribe PROVE PrefetchInv'
PROOF
<1>1. pathname \in Queries
  BY DEF Subscribe, PrefetchInv, RouteInv, Routes
<1>2. CacheInv' /\ SessionInv' /\ Clean(query', left)
  <2>1. CASE Fetch(query, pathname, ByView, account, pathname)
    BY <1>1, <2>1, ViewFetchKeeps DEF Subscribe
  <2>2. CASE UNCHANGED <<query, calls>>
    BY <2>2 DEF Subscribe, PrefetchInv, CacheInv, SessionInv, AccountInv, Owned, Current, Clean
  <2> QED BY <2>1, <2>2 DEF Subscribe
<1>3. RouteInv' /\ AccountInv'
  BY <1>1, <1>2 DEF Subscribe, PrefetchInv, RouteInv, AccountInv
<1> QED BY <1>2, <1>3 DEF PrefetchInv

LEMMA ViewFetchesKeeps == ASSUME PrefetchInv, ViewFetches PROVE PrefetchInv'
PROOF
<1>1. view \in Queries
  BY DEF ViewFetches, PrefetchInv, RouteInv
<1>2. CacheInv' /\ SessionInv' /\ Clean(query', left)
  BY <1>1, ViewFetchKeeps DEF ViewFetches
<1>3. RouteInv' /\ AccountInv'
  BY <1>2 DEF ViewFetches, PrefetchInv, RouteInv, AccountInv
<1> QED BY <1>2, <1>3 DEF PrefetchInv

LEMMA AnswerKeeps ==
    ASSUME PrefetchInv, NEW k \in Queries, NEW answer \in {"success", "failed", "denied"}, Answer(k, answer)
    PROVE  PrefetchInv'
PROOF
<1>0. CacheInv /\ SessionInv /\ RouteInv /\ AccountInv
  BY DEF PrefetchInv
<1>1. query[k] \in Query /\ answer \in {"pending", "success"} \cup Failures
  BY <1>0 DEF CacheInv, Failures
<1>2. /\ query' \in [Queries -> Query]
      /\ query'[k].fetch = Idle /\ query'[k].cookie = NoAccount
      /\ k \in SignedInTabs => query'[k].data \in {query[k].data, query[k].cookie}
      /\ \A x \in Queries \ {k} : query'[x] = query[x]
  BY <1>0, <1>1 DEF Answer, CacheInv, Query, Cookies
<1>3. Clean(query', left)
  BY <1>0, <1>2, Distinct DEF AccountInv, Clean
<1>4. Owned(query', calls)
  BY <1>0, <1>2, Distinct DEF CacheInv, Owned
<1>5. \A n \in Calls : query[k].fetch = n =>
        /\ calls[n] # NoCall /\ [calls[n] EXCEPT !.answer = answer] \in Call
        /\ [calls[n] EXCEPT !.answer = answer].tab = calls[n].tab
        /\ [calls[n] EXCEPT !.answer = answer].left = calls[n].left
  BY <1>0 DEF CacheInv, Owned, Call
<1>6. SameCalls(calls, calls')
  BY <1>0, <1>5, Distinct DEF Answer, CacheInv, SameCalls
<1>7. CacheInv'
  <2>1. Owned(query', calls') /\ Current(calls', run)
    BY <1>0, <1>4, <1>6, SameOwners DEF CacheInv
  <2> QED BY <1>2, <1>6, <2>1 DEF Answer, CacheInv, SameCalls
<1>8. SessionInv' /\ RouteInv'
  BY <1>0, <1>6 DEF Answer, SessionInv, RouteInv, SameCalls
<1>9. AccountInv'
  BY <1>0, <1>3, Distinct DEF Answer, AccountInv, Cookies
<1> QED BY <1>7, <1>8, <1>9 DEF PrefetchInv

-----------------------------------------------------------------------------
(* And sign-out and sign-in, which change whose lists may be kept *)

LEMMA SignOutKeeps == ASSUME PrefetchInv, SignOut PROVE PrefetchInv'
PROOF
<1>0. CacheInv /\ SessionInv /\ RouteInv /\ AccountInv
  BY DEF PrefetchInv
<1>1. query' \in [Queries -> Query] /\ Owned(query', calls) /\ Clean(query', left) /\ SameCalls(calls, calls')
  <2>1. CASE session.stopSignedIn = Idle
    BY <1>0, <2>1 DEF SignOut, CacheInv, AccountInv, SameCalls
  <2>2. CASE session.stopSignedIn # Idle
    <3> DEFINE n == session.stopSignedIn
    <3>1. n \in Calls /\ calls[n] # NoCall
      BY <1>0, <2>2 DEF SessionInv
    <3>2. calls[n].tab \in Queries
      BY <1>0, <3>1, Distinct DEF CacheInv, Call
    <3>3. query' = [query EXCEPT ![calls[n].tab].status = "aborted", ![calls[n].tab].fetch = Idle,
                                 ![calls[n].tab].cookie = NoAccount]
      BY <2>2 DEF SignOut
    <3> DEFINE t == calls[n].tab
    <3> HIDE DEF t
    <3>4. query' = [query EXCEPT ![t].status = "aborted", ![t].fetch = Idle, ![t].cookie = NoAccount]
          /\ t \in Queries /\ query \in [Queries -> Query]
      BY <1>0, <3>2, <3>3 DEF CacheInv, t
    <3>5. /\ query'[t].status = "aborted" /\ query'[t].fetch = Idle
          /\ query'[t].cookie = NoAccount /\ query'[t].data = query[t].data
          /\ \A k \in Queries \ {t} : query'[k] = query[k]
      BY <3>4 DEF Query
    <3>6. query' \in [Queries -> Query]
      <4>1. query[t] \in Query
        BY <3>4
      <4>2. [query[t] EXCEPT !.status = "aborted", !.fetch = Idle, !.cookie = NoAccount] \in Query
        BY <4>1 DEF Query, Cookies, Failures
      <4>3. query' = [query EXCEPT ![t] =
                        [query[t] EXCEPT !.status = "aborted", !.fetch = Idle, !.cookie = NoAccount]]
        BY <3>4, <4>1 DEF Query
      <4> QED BY <3>4, <4>2, <4>3
    <3>8. Owned(query', calls)
      BY <1>0, <3>5, Distinct DEF CacheInv, Owned
    <3>9. Clean(query', left)
      BY <1>0, <3>5, Distinct DEF AccountInv, Clean
    <3>7. SameCalls(calls, calls')
      BY <2>2, <3>1, OneAborted DEF SignOut
    <3> QED BY <3>6, <3>7, <3>8, <3>9
  <2> QED BY <2>1, <2>2
<1>2. CacheInv'
  <2>1. Owned(query', calls') /\ Current(calls', run)
    BY <1>0, <1>1, SameOwners DEF CacheInv
  <2> QED BY <1>1, <2>1 DEF SignOut, CacheInv, SameCalls
<1>3. SessionInv' /\ RouteInv'
  BY <1>0, <1>1, PrefetchAssumption DEF SignOut, SessionInv, RouteInv, SameCalls
<1>4. AccountInv'
  <2>1. posting' \in Posting
    BY <1>0 DEF SignOut, AccountInv, Posting
  <2> QED BY <1>0, <1>1, <2>1 DEF SignOut, AccountInv
<1> QED BY <1>2, <1>3, <1>4 DEF PrefetchInv

\* A reset leaves nothing in its lists, and its refetch uses the new cookie.
LEMMA ResetSignedInKeeps ==
    ASSUME PrefetchInv, NEW keys, NEW refetch \in SUBSET SignedInTabs, NEW cookie \in Cookies,
           NEW l \in [SignedInTabs -> SUBSET Accounts],
           \A k \in SignedInTabs : cookie \notin l[k] /\ (k \notin keys => l[k] \subseteq left[k]),
           ResetSignedIn(keys, refetch, cookie)
    PROVE  /\ query' \in [Queries -> Query] /\ Owned(query', calls') /\ Clean(query', l)
           /\ SameCalls(calls, calls')
PROOF
<1> DEFINE q == Reset(query, keys)
<1>0. CacheInv /\ AccountInv
  BY DEF PrefetchInv
<1>1. /\ q \in [Queries -> Query] /\ Owned(q, calls)
      /\ \A k \in keys \cap Queries : q[k] = Fresh
      /\ \A k \in Queries \ keys : q[k] = query[k]
  <2>1. q \in [Queries -> Query] /\ Owned(q, calls)
    BY <1>0, ResetKeeps DEF CacheInv, AccountInv
  <2>2. \A k \in Queries : q[k] = IF k \in keys THEN Fresh ELSE query[k]
    BY DEF Reset
  <2> QED BY <2>1, <2>2
<1>2. Clean(q, l)
  <2>1. ASSUME NEW k \in SignedInTabs PROVE q[k].data \notin l[k] /\ q[k].cookie \notin l[k]
    <3>1. CASE k \in keys
      BY <1>1, <3>1, FreshIsQuery, Distinct
    <3>2. CASE k \notin keys
      <4>1. q[k] = query[k] /\ l[k] \subseteq left[k]
        <5>1. k \in Queries \ keys
          BY <3>2, Distinct
        <5> QED BY <1>1, <3>2, <5>1
      <4>2. query[k].data \notin left[k] /\ query[k].cookie \notin left[k]
        BY <1>0 DEF AccountInv, Clean
      <4> QED BY <4>1, <4>2
    <3> QED BY <3>1, <3>2
  <2> QED BY <2>1 DEF Clean
<1>3. CASE view \in refetch /\ q[view].fetch = Idle
  <2>1. Fetch(q, view, ByView, cookie, view) /\ view \in Queries
    BY <1>3, Distinct DEF ResetSignedIn
  <2> QED BY <1>1, <1>2, <2>1, FetchKeeps
<1>4. CASE ~(view \in refetch /\ q[view].fetch = Idle)
  <2>1. query' = q /\ calls' = calls
    BY <1>4 DEF ResetSignedIn
  <2> QED BY <1>0, <1>1, <1>2, <2>1 DEF CacheInv, SameCalls
<1> QED BY <1>3, <1>4

LEMMA SignOutAnsweredKeeps ==
    ASSUME PrefetchInv, NEW accepted \in BOOLEAN, SignOutAnswered(accepted) PROVE PrefetchInv'
PROOF
<1>0. CacheInv /\ SessionInv /\ RouteInv /\ AccountInv
  BY DEF PrefetchInv
<1>1. posting' \in Posting
  BY <1>0 DEF SignOutAnswered, AccountInv, Posting
<1>2. CASE accepted
  <2>1. /\ query' \in [Queries -> Query] /\ Owned(query', calls') /\ Clean(query', left')
        /\ SameCalls(calls, calls') /\ left' \in [SignedInTabs -> SUBSET Accounts]
        /\ account' = NoAccount
    <3>1. /\ left' = [k \in SignedInTabs |-> Accounts] /\ account' = NoAccount
          /\ ResetSignedIn(SignedInTabs, SignedInTabs, NoAccount)
      BY <1>2 DEF SignOutAnswered, SIGNED_IN_QUERY_KEYS
    <3> QED BY <3>1, ResetSignedInKeeps, Distinct DEF Cookies
  <2>2. CacheInv'
    <3>1. Current(calls', run)
      BY <1>0, <2>1, SameOwners DEF CacheInv
    <3> QED BY <2>1, <3>1 DEF SignOutAnswered, CacheInv, SameCalls
  <2>3. SessionInv' /\ RouteInv'
    BY <1>0, <2>1 DEF SignOutAnswered, SessionInv, RouteInv, SameCalls
  <2>4. AccountInv'
    BY <1>0, <1>1, <2>1, Distinct DEF AccountInv, Cookies
  <2> QED BY <2>2, <2>3, <2>4 DEF PrefetchInv
<1>3. CASE ~accepted
  <2>1. UNCHANGED <<account, left, query, calls, pathname, view, run, checks, session, moves>>
    BY <1>3 DEF SignOutAnswered
  <2> QED BY <1>0, <1>1, <2>1 DEF PrefetchInv, CacheInv, SessionInv, RouteInv, AccountInv, Owned, Current, Clean
<1> QED BY <1>2, <1>3

LEMMA SignInKeeps == ASSUME PrefetchInv, NEW a \in Accounts, SignIn(a) PROVE PrefetchInv'
PROOF
<1>0. CacheInv /\ SessionInv /\ RouteInv /\ AccountInv
  BY DEF PrefetchInv
<1>1. UNCHANGED <<pathname, view, query, run, calls, checks, session, account, left>>
      /\ moves < MaxMoves /\ moves' = moves + 1
  BY DEF SignIn
<1>2. posting' \in Posting
  BY <1>0 DEF SignIn, AccountInv, Cookies, Posting
<1> QED BY <1>0, <1>1, <1>2, PrefetchAssumption
        DEF PrefetchInv, CacheInv, SessionInv, RouteInv, AccountInv, Owned, Current, Clean

LEMMA SignInAnsweredKeeps ==
    ASSUME PrefetchInv, NEW accepted \in BOOLEAN, SignInAnswered(accepted) PROVE PrefetchInv'
PROOF
<1>0. CacheInv /\ SessionInv /\ RouteInv /\ AccountInv
  BY DEF PrefetchInv
<1>1. posting' \in Posting
  BY <1>0 DEF SignInAnswered, AccountInv, Cookies, Posting
<1>2. CASE accepted
  <2> DEFINE l == [k \in SignedInTabs |-> (IF k = posting.from THEN left[k] ELSE Accounts) \ {posting.in}]
  <2>1. left' = l /\ account' = posting.in
        /\ ResetSignedIn(SignedInTabs \ {posting.from}, SignedInTabs, posting.in)
    BY <1>2 DEF SignInAnswered, SIGNED_IN_QUERY_KEYS
  <2>2. l \in [SignedInTabs -> SUBSET Accounts] /\ posting.in \in Cookies
        /\ \A k \in SignedInTabs :
             posting.in \notin l[k] /\ (k \notin SignedInTabs \ {posting.from} => l[k] \subseteq left[k])
    BY <1>0 DEF AccountInv, Posting
  <2> HIDE DEF l
  <2>3. /\ query' \in [Queries -> Query] /\ Owned(query', calls') /\ Clean(query', l)
        /\ SameCalls(calls, calls')
    BY <2>1, <2>2, ResetSignedInKeeps
  <2>4. CacheInv'
    <3>1. Current(calls', run)
      BY <1>0, <2>3, SameOwners DEF CacheInv
    <3> QED BY <2>3, <3>1 DEF SignInAnswered, CacheInv, SameCalls
  <2>5. SessionInv' /\ RouteInv'
    BY <1>0, <2>3 DEF SignInAnswered, SessionInv, RouteInv, SameCalls
  <2>6. AccountInv'
    BY <1>1, <2>1, <2>2, <2>3 DEF AccountInv
  <2> QED BY <2>4, <2>5, <2>6 DEF PrefetchInv
<1>3. CASE ~accepted
  <2>1. UNCHANGED <<account, left, query, calls, pathname, view, run, checks, session, moves>>
    BY <1>3 DEF SignInAnswered
  <2> QED BY <1>0, <1>1, <2>1 DEF PrefetchInv, CacheInv, SessionInv, RouteInv, AccountInv, Owned, Current, Clean
<1> QED BY <1>2, <1>3

-----------------------------------------------------------------------------
(* The theorems *)

\* The invariant holds of every behaviour.
THEOREM Invariant == Spec => []PrefetchInv
PROOF
<1>1. Init => PrefetchInv
  <2> SUFFICES ASSUME Init PROVE PrefetchInv
    OBVIOUS
  <2>1. Held \in Query /\ Held.fetch = Idle
    BY DEF Held, Fresh, Query, Cookies, Idle
  <2>2. query \in [Queries -> Query] /\ \A k \in Queries : query[k].fetch = Idle
    BY <2>1, FreshIsQuery DEF Init
  <2>3. CacheInv
    BY <2>2, Distinct DEF Init, CacheInv, Owned, Current
  <2>4. SessionInv /\ RouteInv
    BY Distinct, PrefetchAssumption DEF Init, SessionInv, RouteInv
  <2>5. AccountInv
    BY FreshIsQuery, Distinct DEF Init, AccountInv, Clean, Cookies, Posting
  <2> QED BY <2>3, <2>4, <2>5 DEF PrefetchInv
<1>2. PrefetchInv /\ [Next]_vars => PrefetchInv'
  <2>1. ASSUME PrefetchInv, Next PROVE PrefetchInv'
    BY <2>1, RestoredKeeps, ProceedKeeps, CheckKeeps, SettleKeeps, OpenKeeps, SubscribeKeeps,
       ViewFetchesKeeps, AnswerKeeps, SignOutKeeps, SignOutAnsweredKeeps, SignInKeeps,
       SignInAnsweredKeeps DEF Next
  <2>2. ASSUME PrefetchInv, UNCHANGED vars PROVE PrefetchInv'
    BY <2>2 DEF vars, PrefetchInv, CacheInv, SessionInv, RouteInv, AccountInv, Owned, Current, Clean
  <2> QED BY <2>1, <2>2
<1> QED BY <1>1, <1>2, PTL DEF Spec

\* Every variable has its type, a request of the prefetch belongs to a call of
\* that tab, and stopSignedIn never outlives the call that it aborts: the
\* `finally` of one run never leaves the other's abort to a call that returned.
THEOREM TypeCorrect == Spec => []TypeOK
PROOF
<1>1. PrefetchInv => TypeOK
  <2> SUFFICES ASSUME PrefetchInv PROVE TypeOK
    OBVIOUS
  <2>1. \A n \in Calls : calls[n] # NoCall => calls[n] \in Call /\ (~calls[n].left => run = "calling")
    BY DEF PrefetchInv, CacheInv, Current
  <2> QED BY <2>1 DEF PrefetchInv, CacheInv, SessionInv, RouteInv, AccountInv, Owned, TypeOK, Query, Cookies, Call
<1> QED BY <1>1, Invariant, PTL

\* However late an answer is and whatever tab is on screen, a signed-in list is
\* never that of an account that signed out, or that a sign-in from another list
\* has replaced.
THEOREM LeftCorrect == Spec => []NoListOfAnAccountThatLeft
PROOF
<1>1. PrefetchInv => NoListOfAnAccountThatLeft
  BY DEF PrefetchInv, AccountInv, Clean, NoListOfAnAccountThatLeft
<1> QED BY <1>1, Invariant, PTL
-----------------------------------------------------------------------------
(* What an opened tab keeps *)

\* An aborted call never fetches: the abort has reset its query, or ended its
\* request, in the same step.
AbortedHasEnded(q, c) ==
    \A n \in Calls : c[n] # NoCall /\ c[n].aborted => q[c[n].tab].fetch # n

\* Fetches end, or are sent by a view.
NoneStarts(q, p) ==
    \A k \in Queries : p[k].fetch \in {q[k].fetch, Idle, ByView}

LEMMA FetchStartsNone ==
    ASSUME PrefetchInv, NEW q \in [Queries -> Query], NEW k \in Queries, NEW cookie \in Cookies, NEW v,
           NoneStarts(query, q), Fetch(q, k, ByView, cookie, v)
    PROVE  /\ NoneStarts(query, query')
           /\ calls' = Aborts(Bystanders(k, v))
           /\ \A n \in Bystanders(k, v) : query'[calls[n].tab].fetch = Idle
PROOF
<1> DEFINE hit == Bystanders(k, v)
           q1 == ResetTabsOf(q, hit)
<1>1. q1 \in [Queries -> Query]
  BY FreshIsQuery DEF ResetTabsOf, Reset
<1>2. \A x \in Queries : q1[x] = IF x \in {calls[n].tab : n \in hit} THEN Fresh ELSE q[x]
  BY DEF ResetTabsOf, Reset
<1>3. query' = Sends(q1, k, ByView, cookie) /\ calls' = Aborts(hit)
  BY DEF Fetch
<1> HIDE DEF q1
<1>4. query'[k].fetch = ByView /\ \A x \in Queries \ {k} : query'[x] = q1[x]
  BY <1>1, <1>3 DEF Sends, Query
<1>5. \A n \in hit : calls[n].tab \in Queries \ {k} /\ n \in Calls
  BY Distinct DEF Bystanders, PrefetchInv, CacheInv, Call
<1> QED BY <1>2, <1>3, <1>4, <1>5, FreshIsQuery DEF NoneStarts

\* The step of a call that is aborted, or of none.
LEMMA EndsKeep ==
    ASSUME PrefetchInv, AbortedHasEnded(query, calls), NoneStarts(query, query'),
           NEW hit \in SUBSET Calls, \A n \in hit : query'[calls[n].tab].fetch = Idle,
           \A n \in Calls : calls[n] # NoCall => calls[n].tab \in Queries,
           \A n \in Calls : calls'[n] # NoCall =>
               /\ calls[n] # NoCall /\ calls'[n].tab = calls[n].tab
               /\ calls'[n].aborted => calls[n].aborted \/ n \in hit
    PROVE  AbortedHasEnded(query', calls')
PROOF BY Distinct DEF AbortedHasEnded, NoneStarts

LEMMA NoneAborted ==
    ASSUME PrefetchInv, AbortedHasEnded(query, calls), NoneStarts(query, query'),
           \A n \in Calls : calls[n] # NoCall => calls[n].tab \in Queries,
           \A n \in Calls : calls'[n] # NoCall =>
               /\ calls[n] # NoCall /\ calls'[n].tab = calls[n].tab
               /\ calls'[n].aborted => calls[n].aborted
    PROVE  AbortedHasEnded(query', calls')
PROOF BY Distinct DEF AbortedHasEnded, NoneStarts

LEMMA CallFacts ==
    ASSUME PrefetchInv, NEW n \in Calls, calls[n] # NoCall
    PROVE  /\ calls[n] \in Call /\ calls[n].tab \in Tabs /\ calls[n].tab \in Queries
           /\ [calls[n] EXCEPT !.aborted = TRUE].tab = calls[n].tab
           /\ [calls[n] EXCEPT !.aborted = TRUE].aborted
           /\ [calls[n] EXCEPT !.left = TRUE].tab = calls[n].tab
           /\ [calls[n] EXCEPT !.left = TRUE].aborted = calls[n].aborted
           /\ \A answer : /\ [calls[n] EXCEPT !.answer = answer].tab = calls[n].tab
                          /\ [calls[n] EXCEPT !.answer = answer].aborted = calls[n].aborted
                          /\ [calls[n] EXCEPT !.answer = answer].answer = answer
PROOF
<1>1. calls[n] \in Call
  BY DEF PrefetchInv, CacheInv
<1> QED BY <1>1, Distinct DEF Call

LEMMA AbortsFacts ==
    ASSUME PrefetchInv, NEW k, NEW v, NEW n \in Calls
    PROVE  LET c == Aborts(Bystanders(k, v))
           IN  /\ n \notin Bystanders(k, v) => c[n] = calls[n]
               /\ c[n] # NoCall => /\ calls[n] # NoCall /\ c[n].tab = calls[n].tab
                                   /\ c[n].aborted => calls[n].aborted \/ n \in Bystanders(k, v)
PROOF
<1>1. CASE n \in Bystanders(k, v)
  BY <1>1, CallFacts DEF Aborts, Bystanders
<1>2. CASE n \notin Bystanders(k, v)
  BY <1>2 DEF Aborts
<1> QED BY <1>1, <1>2

LEMMA AbortedByView ==
    ASSUME PrefetchInv, AbortedHasEnded(query, calls),
           NEW q \in [Queries -> Query], NEW k \in Queries, NEW cookie \in Cookies, NEW v,
           NoneStarts(query, q), Fetch(q, k, ByView, cookie, v)
    PROVE  AbortedHasEnded(query', calls')
PROOF
<1>1. /\ NoneStarts(query, query') /\ calls' = Aborts(Bystanders(k, v))
      /\ \A n \in Bystanders(k, v) : query'[calls[n].tab].fetch = Idle
  BY FetchStartsNone
<1>2. Bystanders(k, v) \in SUBSET Calls
  BY DEF Bystanders
<1>3. \A n \in Calls : calls'[n] # NoCall =>
        /\ calls[n] # NoCall /\ calls'[n].tab = calls[n].tab
        /\ calls'[n].aborted => calls[n].aborted \/ n \in Bystanders(k, v)
  BY <1>1, AbortsFacts
<1>4. \A n \in Calls : calls[n] # NoCall => calls[n].tab \in Queries
  BY CallFacts
<1> QED BY <1>1, <1>2, <1>3, <1>4, EndsKeep

LEMMA ResetStartsNone ==
    ASSUME PrefetchInv, NEW keys
    PROVE  /\ Reset(query, keys) \in [Queries -> Query] /\ NoneStarts(query, Reset(query, keys))
           /\ \A k \in keys \cap Queries : Reset(query, keys)[k].fetch = Idle
           /\ \A k \in Queries \ keys : Reset(query, keys)[k] = query[k]
PROOF BY FreshIsQuery DEF Reset, NoneStarts, PrefetchInv, CacheInv

LEMMA AbortedByReset ==
    ASSUME PrefetchInv, AbortedHasEnded(query, calls), NEW keys, NEW refetch \in SUBSET SignedInTabs,
           NEW cookie \in Cookies, ResetSignedIn(keys, refetch, cookie)
    PROVE  AbortedHasEnded(query', calls')
PROOF
<1>1. Reset(query, keys) \in [Queries -> Query] /\ NoneStarts(query, Reset(query, keys))
  BY ResetStartsNone
<1>2. CASE view \in refetch /\ Reset(query, keys)[view].fetch = Idle
  BY <1>1, <1>2, AbortedByView, Distinct DEF ResetSignedIn
<1>3. CASE ~(view \in refetch /\ Reset(query, keys)[view].fetch = Idle)
  <2>1. query' = Reset(query, keys) /\ calls' = calls
    BY <1>3 DEF ResetSignedIn
  <2> QED BY <1>1, <2>1, CallFacts, NoneAborted
<1> QED BY <1>2, <1>3

LEMMA AbortedByProceed ==
    ASSUME PrefetchInv, AbortedHasEnded(query, calls), Proceed PROVE AbortedHasEnded(query', calls')
PROOF
<1>1. CASE UNCHANGED <<query, calls, session>>
  BY <1>1 DEF AbortedHasEnded
<1>2. ASSUME NEW tab \in Tabs, NEW n \in Calls, calls[n] = NoCall,
             query' = Sends(ResetTabsOf(query, Bystanders(tab, view)), tab, n, account),
             calls' = [Aborts(Bystanders(tab, view)) EXCEPT ![n] =
                         [tab |-> tab, left |-> FALSE, aborted |-> FALSE, answer |-> "none"]]
      PROVE  AbortedHasEnded(query', calls')
  <2> DEFINE hit == Bystanders(tab, view)
             q1 == ResetTabsOf(query, hit)
  <2>1. /\ q1 \in [Queries -> Query] /\ NoneStarts(query, q1)
        /\ \A m \in hit : calls[m].tab \in Queries \ {tab} /\ q1[calls[m].tab].fetch = Idle
    <3>1. \A m \in hit : calls[m].tab \in Queries \ {tab}
      BY CallFacts DEF Bystanders
    <3> QED BY <3>1, ResetStartsNone DEF ResetTabsOf
  <2>2. query' = Sends(q1, tab, n, account) /\ tab \in Queries
    BY <1>2, Distinct
  <2> HIDE DEF q1
  <2>3. query'[tab].fetch = n /\ \A k \in Queries \ {tab} : query'[k] = q1[k]
    BY <2>1, <2>2 DEF Sends, Query
  <2>4. calls'[n].aborted = FALSE /\ \A m \in Calls \ {n} : calls'[m] = Aborts(hit)[m]
    BY <1>2 DEF Aborts
  <2>5. ASSUME NEW m \in Calls \ {n}, calls'[m] # NoCall, calls'[m].aborted
        PROVE  query'[calls'[m].tab].fetch # m
    <3>1. /\ calls[m] # NoCall /\ calls'[m].tab = calls[m].tab /\ calls[m].tab \in Queries
          /\ calls[m].aborted \/ m \in hit
      BY <2>4, <2>5, AbortsFacts, CallFacts
    <3>2. query[calls[m].tab].fetch # m \/ m \in hit
      BY <3>1 DEF AbortedHasEnded
    <3>3. q1[calls[m].tab].fetch # m
      BY <2>1, <3>1, <3>2, Distinct DEF NoneStarts
    <3> QED BY <2>3, <3>1, <3>3
  <2> QED BY <2>4, <2>5 DEF AbortedHasEnded
<1> QED BY <1>1, <1>2 DEF Proceed

LEMMA AbortedByCheck ==
    ASSUME PrefetchInv, AbortedHasEnded(query, calls), NEW n \in Calls, Check(n)
    PROVE  AbortedHasEnded(query', calls')
PROOF
<1>1. CASE UNCHANGED <<query, calls>>
  BY <1>1 DEF AbortedHasEnded
<1>2. CASE ~UNCHANGED <<query, calls>>
  <2>1. /\ calls[n] # NoCall /\ calls[n].tab # view
        /\ calls' = [calls EXCEPT ![n].aborted = TRUE] /\ query' = Reset(query, {calls[n].tab} \ {view})
    BY <1>2 DEF Check, isJoined, discardIfUnwatched
  <2>2. calls[n].tab \in {calls[n].tab} \ {view} /\ calls[n].tab \in Queries
    BY <2>1, CallFacts
  <2>3. NoneStarts(query, query') /\ query'[calls[n].tab].fetch = Idle
    BY <2>1, <2>2, ResetStartsNone
  <2>4. \A m \in Calls : calls'[m] # NoCall =>
          /\ calls[m] # NoCall /\ calls'[m].tab = calls[m].tab
          /\ calls'[m].aborted => calls[m].aborted \/ m \in {n}
    BY <2>1, CallFacts DEF PrefetchInv, CacheInv
  <2> QED BY <2>3, <2>4, CallFacts, EndsKeep
<1> QED BY <1>1, <1>2

LEMMA AbortedBySignOut ==
    ASSUME PrefetchInv, AbortedHasEnded(query, calls), SignOut PROVE AbortedHasEnded(query', calls')
PROOF
<1>1. CASE session.stopSignedIn = Idle
  BY <1>1 DEF SignOut, AbortedHasEnded
<1>2. CASE session.stopSignedIn # Idle
  <2> DEFINE n == session.stopSignedIn
             t == calls[n].tab
  <2>1. n \in Calls /\ calls[n] # NoCall /\ t \in Queries
    BY <1>2, CallFacts DEF PrefetchInv, SessionInv
  <2>2. /\ query' = [query EXCEPT ![t].status = "aborted", ![t].fetch = Idle, ![t].cookie = NoAccount]
        /\ calls' = [calls EXCEPT ![n].aborted = TRUE]
    BY <1>2 DEF SignOut
  <2>3. \A m \in Calls : calls'[m] # NoCall =>
          /\ calls[m] # NoCall /\ calls'[m].tab = calls[m].tab
          /\ calls'[m].aborted => calls[m].aborted \/ m \in {n}
    BY <2>1, <2>2, CallFacts DEF PrefetchInv, CacheInv
  <2> HIDE DEF t
  <2>4. query'[t].fetch = Idle /\ \A k \in Queries \ {t} : query'[k] = query[k]
    BY <2>1, <2>2 DEF PrefetchInv, CacheInv, Query
  <2>5. NoneStarts(query, query')
    BY <2>4 DEF NoneStarts
  <2> QED BY <2>1, <2>3, <2>4, <2>5, CallFacts, EndsKeep DEF t
<1> QED BY <1>1, <1>2

LEMMA AbortedByAnswer ==
    ASSUME PrefetchInv, AbortedHasEnded(query, calls), NEW k \in Queries, NEW answer, Answer(k, answer)
    PROVE  AbortedHasEnded(query', calls')
PROOF
<1>1. query'[k].fetch = Idle /\ \A x \in Queries \ {k} : query'[x] = query[x]
  BY DEF Answer, PrefetchInv, CacheInv, Query
<1>2. NoneStarts(query, query')
  BY <1>1 DEF NoneStarts
<1>3. \A n \in Calls : query[k].fetch = n => calls[n] # NoCall
  BY DEF PrefetchInv, CacheInv, Owned
<1>4. \A n \in Calls : calls'[n] # NoCall =>
        /\ calls[n] # NoCall /\ calls'[n].tab = calls[n].tab
        /\ calls'[n].aborted => calls[n].aborted
  BY <1>3, CallFacts DEF Answer
<1> QED BY <1>2, <1>4, CallFacts, NoneAborted

\* The invariant that an aborted call has ended.
LEMMA AbortedInv == Spec => [](PrefetchInv /\ AbortedHasEnded(query, calls))
PROOF
<1>1. Init => AbortedHasEnded(query, calls)
  BY DEF Init, AbortedHasEnded
<1>2. PrefetchInv /\ AbortedHasEnded(query, calls) /\ [Next]_vars => AbortedHasEnded(query', calls')
  <2> SUFFICES ASSUME PrefetchInv, AbortedHasEnded(query, calls), [Next]_vars
               PROVE  AbortedHasEnded(query', calls')
    OBVIOUS
  <2>1. CASE UNCHANGED <<query, calls>>
    BY <2>1 DEF AbortedHasEnded
  <2>2. CASE Proceed
    BY <2>2, AbortedByProceed
  <2>3. ASSUME NEW n \in Calls, Check(n) PROVE AbortedHasEnded(query', calls')
    BY <2>3, AbortedByCheck
  <2>4. ASSUME NEW n \in Calls, Settle(n) PROVE AbortedHasEnded(query', calls')
    <3>1. NoneStarts(query, query')
      <4>1. NoneStarts(query, query)
        BY DEF NoneStarts
      <4> QED BY <2>4, <4>1, ResetStartsNone DEF Settle, discardIfUnwatched
    <3>2. \A m \in Calls : calls'[m] # NoCall => calls'[m] = calls[m]
      BY <2>4 DEF Settle, PrefetchInv, CacheInv
    <3> QED BY <3>1, <3>2, CallFacts, NoneAborted
  <2>5. ASSUME NEW r \in Routes, Open(r) PROVE AbortedHasEnded(query', calls')
    <3>1. \A m \in Calls : calls'[m] # NoCall =>
            calls[m] # NoCall /\ calls'[m].tab = calls[m].tab /\ calls'[m].aborted = calls[m].aborted
      BY <2>5, CallFacts DEF Open
    <3> QED BY <2>5, <3>1 DEF Open, AbortedHasEnded
  <2>6. CASE Subscribe \/ ViewFetches
    <3>1. NoneStarts(query, query) /\ query \in [Queries -> Query] /\ account \in Cookies
      BY DEF NoneStarts, PrefetchInv, CacheInv, AccountInv
    <3>2. CASE UNCHANGED <<query, calls>>
      BY <3>2 DEF AbortedHasEnded
    <3>3. ASSUME NEW k \in Queries, Fetch(query, k, ByView, account, k)
          PROVE  AbortedHasEnded(query', calls')
      BY <3>1, <3>3, AbortedByView
    <3>4. CASE Subscribe
      <4>1. pathname \in Queries
        BY <3>4 DEF Subscribe, PrefetchInv, RouteInv, Routes
      <4> QED BY <3>2, <3>3, <3>4, <4>1 DEF Subscribe
    <3>5. CASE ViewFetches
      <4>1. view \in Queries
        BY <3>5 DEF ViewFetches, PrefetchInv, RouteInv
      <4> QED BY <3>3, <3>5, <4>1 DEF ViewFetches
    <3> QED BY <2>6, <3>4, <3>5
  <2>7. ASSUME NEW k \in Queries, NEW answer, Answer(k, answer) PROVE AbortedHasEnded(query', calls')
    BY <2>7, AbortedByAnswer
  <2>8. CASE SignOut
    BY <2>8, AbortedBySignOut
  <2>9. ASSUME NEW accepted \in BOOLEAN, SignOutAnswered(accepted) \/ SignInAnswered(accepted)
        PROVE  AbortedHasEnded(query', calls')
    <3>1. CASE UNCHANGED <<query, calls>>
      BY <3>1 DEF AbortedHasEnded
    <3>2. ASSUME NEW keys, NEW cookie \in Cookies, ResetSignedIn(keys, SignedInTabs, cookie)
          PROVE  AbortedHasEnded(query', calls')
      BY <3>2, AbortedByReset
    <3>3. NoAccount \in Cookies /\ posting.in \in Cookies
      BY DEF Cookies, PrefetchInv, AccountInv, Posting
    <3> QED BY <2>9, <3>1, <3>2, <3>3 DEF SignOutAnswered, SignInAnswered, SIGNED_IN_QUERY_KEYS
  <2>10. Restored \/ (\E a \in Accounts : SignIn(a)) \/ UNCHANGED vars => UNCHANGED <<query, calls>>
    BY DEF Restored, SignIn, vars
  <2> QED BY <2>1, <2>2, <2>3, <2>4, <2>5, <2>6, <2>7, <2>8, <2>9, <2>10 DEF Next
<1>3. (PrefetchInv /\ AbortedHasEnded(query, calls)) /\ [Next]_vars => AbortedHasEnded(query, calls)'
  BY <1>2
<1> QED BY <1>1, <1>3, Invariant, PTL DEF Spec

\* A step that leaves the open route's call alone.
Untouched(n) ==
    /\ calls'[n] # NoCall /\ ~calls'[n].aborted
    /\ view = pathname => query'[pathname].fetch = n \/ calls'[n].answer # "none"

LEMMA KeptIsUntouched ==
    ASSUME NEW n \in Calls, calls[n] # NoCall, ~calls[n].aborted, calls'[n] = calls[n],
           view = pathname => query'[pathname] = query[pathname], query[pathname].fetch = n
    PROVE  Untouched(n)
PROOF BY DEF Untouched

\* The prefetch never aborts the request of the tab that the user has opened, at
\* whatever moment the route, the view and the abort come; once the view has
\* subscribed, the prefetch does not cancel or repeat it either.
THEOREM OpenedCorrect == Spec => OpenedTabKeepsItsRequest
PROOF
<1>1. ASSUME PrefetchInv, AbortedHasEnded(query, calls), [Next]_vars,
             NEW n \in Calls, calls[n] # NoCall, ~Ended(n), calls[n].tab = pathname,
             pathname' = pathname, posting' = posting
      PROVE  Untouched(n)
  <2>1. /\ ~calls[n].aborted /\ query[pathname].fetch = n /\ pathname \in Queries
        /\ query[pathname].fetch # Idle
    BY <1>1, CallFacts, Distinct DEF Ended, AbortedHasEnded
  <2>2. \A k, v : n \notin Bystanders(k, v)
    BY <1>1 DEF Bystanders, isJoined
  <2>3. CASE UNCHANGED <<query, calls>>
    BY <1>1, <2>1, <2>3, KeptIsUntouched
  <2>4. CASE Proceed
    <3>1. ASSUME NEW tab \in Tabs, NEW m \in Calls, calls[m] = NoCall, nextTab(tab),
                 query' = Sends(ResetTabsOf(query, Bystanders(tab, view)), tab, m, account),
                 calls' = [Aborts(Bystanders(tab, view)) EXCEPT ![m] =
                             [tab |-> tab, left |-> FALSE, aborted |-> FALSE, answer |-> "none"]]
          PROVE  Untouched(n)
      <4>1. calls'[n] = calls[n]
        BY <1>1, <2>2, <3>1 DEF Aborts
      <4>2. ASSUME view = pathname PROVE query'[pathname] = query[pathname]
        <5>1. tab # pathname
          BY <3>1, <4>2 DEF nextTab, isOpen, isCovered
        <5>2. pathname \notin {calls[x].tab : x \in Bystanders(tab, view)}
          BY DEF Bystanders, isJoined
        <5>3. ResetTabsOf(query, Bystanders(tab, view))[pathname] = query[pathname]
          BY <1>1, <2>1, <5>2, ResetStartsNone DEF ResetTabsOf
        <5>4. ResetTabsOf(query, Bystanders(tab, view)) \in [Queries -> Query]
          BY <1>1, ResetStartsNone DEF ResetTabsOf
        <5> QED BY <2>1, <3>1, <5>1, <5>3, <5>4 DEF Sends
      <4> QED BY <1>1, <2>1, <4>1, <4>2, KeptIsUntouched
    <3> QED BY <2>3, <2>4, <3>1 DEF Proceed
  <2>5. ASSUME NEW m \in Calls, Check(m) PROVE Untouched(n)
    <3>1. CASE ~UNCHANGED <<query, calls>>
      <4>1. /\ calls[m] # NoCall /\ calls[m].tab # pathname
            /\ calls' = [calls EXCEPT ![m].aborted = TRUE] /\ query' = Reset(query, {calls[m].tab} \ {view})
        BY <2>5, <3>1 DEF Check, isJoined, discardIfUnwatched
      <4>2. m # n /\ calls'[n] = calls[n]
        BY <1>1, <4>1
      <4>3. query'[pathname] = query[pathname]
        BY <1>1, <2>1, <4>1, ResetStartsNone
      <4> QED BY <1>1, <2>1, <4>2, <4>3, KeptIsUntouched
    <3> QED BY <2>3, <3>1
  <2>6. ASSUME NEW m \in Calls, Settle(m) PROVE Untouched(n)
    <3>1. m # n /\ calls'[n] = calls[n]
      BY <1>1, <2>6 DEF Settle
    <3>2. ASSUME view = pathname PROVE query'[pathname] = query[pathname]
      BY <1>1, <2>1, <2>6, <3>2, ResetStartsNone DEF Settle, discardIfUnwatched
    <3> QED BY <1>1, <2>1, <3>1, <3>2, KeptIsUntouched
  <2>7. CASE Subscribe
    <3>1. view # pathname
      BY <2>1, <2>7, Distinct DEF Subscribe
    <3>2. CASE Fetch(query, pathname, ByView, account, pathname)
      BY <1>1, <2>1, <2>2, <3>1, <3>2, KeptIsUntouched DEF Fetch, Aborts
    <3> QED BY <2>3, <2>7, <3>2 DEF Subscribe
  <2>8. CASE ViewFetches
    BY <1>1, <2>1, <2>8 DEF ViewFetches, PrefetchInv, RouteInv
  <2>9. ASSUME NEW k \in Queries, NEW answer \in {"success", "failed", "denied"}, Answer(k, answer)
        PROVE  Untouched(n)
    <3>1. CASE k = pathname
      <4>1. calls'[n] = [calls[n] EXCEPT !.answer = answer]
        BY <2>1, <2>9, <3>1 DEF Answer
      <4>2. calls[n] \in Call
        BY <1>1, CallFacts
      <4>3. calls'[n] \in Call /\ calls'[n].aborted = calls[n].aborted /\ calls'[n].answer = answer
        BY <4>1, <4>2 DEF Call
      <4> QED BY <2>1, <4>3, Distinct DEF Untouched
    <3>2. CASE k # pathname
      <4>1. query[k].fetch # n
        BY <1>1, <3>2 DEF PrefetchInv, CacheInv, Owned
      <4>2. calls'[n] = calls[n] /\ query'[pathname] = query[pathname]
        BY <1>1, <2>1, <2>9, <3>2, <4>1 DEF Answer, PrefetchInv, CacheInv
      <4> QED BY <1>1, <2>1, <4>2, KeptIsUntouched
    <3> QED BY <3>1, <3>2
  <2>10. ASSUME NEW r \in Routes, Open(r) PROVE FALSE
    BY <1>1, <2>10 DEF Open
  <2>11. SignOut => FALSE
    <3>1. ASSUME SignOut PROVE posting'.out # posting.out
      BY <1>1, <3>1 DEF SignOut, PrefetchInv, AccountInv, Posting
    <3> QED BY <1>1, <3>1
  <2>12. ASSUME NEW accepted \in BOOLEAN, SignOutAnswered(accepted) \/ SignInAnswered(accepted) PROVE FALSE
    BY <1>1, <2>12, Distinct DEF SignOutAnswered, SignInAnswered, PrefetchInv, AccountInv, Posting
  <2>13. Restored \/ (\E a \in Accounts : SignIn(a)) \/ UNCHANGED vars => UNCHANGED <<query, calls>>
    BY DEF Restored, SignIn, vars
  <2> QED BY <1>1, <2>3, <2>4, <2>5, <2>6, <2>7, <2>8, <2>9, <2>10, <2>11, <2>12, <2>13 DEF Next
<1>2. PrefetchInv /\ AbortedHasEnded(query, calls) /\ [Next]_vars
      => [\A n \in Calls :
            calls[n] # NoCall /\ ~Ended(n) /\ calls[n].tab = pathname /\ pathname' = pathname
            => \/ posting' # posting
               \/ /\ calls'[n] # NoCall /\ ~calls'[n].aborted
                  /\ view = pathname /\ query'[pathname].fetch # n => calls'[n].answer # "none"]_vars
  BY <1>1 DEF Untouched
<1> QED BY <1>2, AbortedInv, PTL DEF Spec, OpenedTabKeepsItsRequest
=============================================================================
