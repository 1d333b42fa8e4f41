-------------------------- MODULE SignedIn_proofs --------------------------
(***************************************************************************)
(* The signed-in requests of module SignedIn, for any accounts, requests,   *)
(* library sizes and page cap: whose cookie the browser holds, whose list a *)
(* request reads, and which answers take the cookie away.                   *)
(***************************************************************************)
EXTENDS SignedIn, FiniteSetTheorems, TLAPS

(***************************************************************************)
(* What is known of one request.  An exchange or a list belongs to a run of *)
(* the request's own NPSSO; an answer that sets or clears the cookie has    *)
(* its reason on record; a library was listed behind a page that was not    *)
(* full.                                                                    *)
(***************************************************************************)
Sound(q, rs, acc, rej) ==
    /\ q.at \in {"exchange", "list"} => /\ q.run \in DOMAIN rs /\ rs[q.run].npsso = q.npsso
                                        /\ q.kind \in Lists \cup {"sign_in"}
    /\ q.at = "list" => q.kind \in Lists /\ rs[q.run].at = "ok"
    /\ q.at # "answered" => q.answer = None
    /\ q.answer = "signed_in" => q.npsso \in acc
    /\ q.answer = "cookie_cleared" => q.npsso \in rej
    /\ q.answer = "signed_out" => q.kind = "sign_out"
    /\ q.answer = "listed" => q.run \in DOMAIN rs
    /\ q.answer = "listed" /\ q.kind = "purchased" => ~(q.page < FullPages[rs[q.run].npsso])
RequestsInv == \A r \in Requests : Sound(requests[r], runs, accepted, rejected)

\* Runs are numbered from one, an entry of InFlight is a running run of its key,
\* and the end of a run is on record.
RunsInv ==
    /\ \E n \in 0..MaxRuns : DOMAIN runs = 1..n
    /\ \A n \in Npssos : byKey[n] # 0 =>
          /\ byKey[n] \in DOMAIN runs
          /\ runs[byKey[n]].npsso = n /\ Running(byKey[n])
    /\ \A id \in DOMAIN runs :
          /\ runs[id].at = "ok" => runs[id].npsso \in accepted
          /\ runs[id].at = "rejected" => runs[id].npsso \in rejected

SignedInInv == TypeOK /\ RunsInv /\ RequestsInv /\ CookieWasAccepted

-----------------------------------------------------------------------------
(* The answers of Sony *)

\* Only what proves a rejection is taken for one.
LEMMA RejectedIsDefinitive ==
    /\ \A answer \in AuthorizeAnswers : Verdict("authorize", answer) = "rejected" => Definitive("authorize", answer)
    /\ \A answer \in TokenAnswers : Verdict("token", answer) = "rejected" => Definitive("token", answer)
    /\ \A answer \in PurchasedAnswers : Verdict("purchased", answer) = "rejected" => Definitive("purchased", answer)
    /\ \A answer \in WishlistAnswers : Verdict("wishlist", answer) = "rejected" => Definitive("wishlist", answer)
PROOF BY DEF Verdict, Definitive, Lists, AuthorizeAnswers, TokenAnswers, PurchasedAnswers, WishlistAnswers

LEMMA VerdictType == \A call, answer : Verdict(call, answer) \in {"ok", "rejected", "outage"}
PROOF BY DEF Verdict

\* Only the token answer of the token call ends an exchange well.
LEMMA TokenVerdict == \A answer \in TokenAnswers : Verdict("token", answer) = "ok" => answer = "token"
PROOF BY DEF Verdict, TokenAnswers

-----------------------------------------------------------------------------
(* Types *)

LEMMA Bounds ==
    /\ MaxRuns \in Nat /\ MaxPages \in Nat /\ 0 \in 0..(MaxPages - 1)
    /\ 0 \in 0..MaxRuns /\ 1..MaxRuns \subseteq 0..MaxRuns
    /\ FullPages \in [Npssos -> Nat] /\ None \notin Npssos
PROOF
<1>1. MaxRuns \in Nat /\ MaxPages \in Nat /\ MaxPages # 0 /\ FullPages \in [Npssos -> Nat]
  BY PagesAssumption
<1> QED BY <1>1, NpssosAssumption

LEMMA RunType ==
    ASSUME TypeOK, NEW id \in DOMAIN runs
    PROVE  runs[id].npsso \in Npssos /\ runs[id] \in Run
PROOF BY DEF TypeOK, Run

LEMMA RequestType ==
    ASSUME TypeOK, NEW r \in Requests
    PROVE  requests[r] \in Request
PROOF BY DEF TypeOK

LEMMA FreeIsSound ==
    /\ Free \in Request
    /\ \A rs, acc, rej : Sound(Free, rs, acc, rej)
PROOF
<1>1. Free \in Request
  BY Bounds DEF Free, Request, None
<1>2. \A rs, acc, rej : Sound(Free, rs, acc, rej)
  BY DEF Sound, Free, None
<1> QED BY <1>1, <1>2

-----------------------------------------------------------------------------
(* The steps by what they change *)

\* A request joins the running exchange of its NPSSO, or starts the next run.
Joined(r, kind, npsso, id) ==
    /\ requests' = [requests EXCEPT ![r] = Asking(kind, npsso, id)]
    /\ byKey' = [byKey EXCEPT ![npsso] = id]
    /\ id \in DOMAIN runs => runs' = runs
    /\ id \notin DOMAIN runs => runs' = [i \in DOMAIN runs \cup {id} |->
            IF i = id THEN [npsso |-> npsso, at |-> "authorize"] ELSE runs[i]]
    /\ DOMAIN runs' = DOMAIN runs \cup {id}
    /\ \A i \in DOMAIN runs : runs'[i] = runs[i]
    /\ runs' \in [DOMAIN runs' -> Run]
    /\ runs'[id].npsso = npsso /\ runs'[id].at \in {"authorize", "token"}
    /\ \E n \in 0..MaxRuns : DOMAIN runs' = 1..n

LEMMA JoinStep ==
    ASSUME TypeOK, RunsInv, NEW r \in Requests, NEW kind \in Lists \cup {"sign_in"}, NEW npsso \in Npssos,
           JoinOrStart(r, kind, npsso)
    PROVE  \E id \in 1..MaxRuns : Joined(r, kind, npsso, id)
PROOF
<1> DEFINE next == Cardinality(DOMAIN runs) + 1
           id == IF byKey[npsso] # 0 THEN byKey[npsso] ELSE next
<1>1. PICK n \in 0..MaxRuns : DOMAIN runs = 1..n
  BY DEF RunsInv
<1>2. next = n + 1
  <2>1. n \in Nat /\ n \in Int /\ 1 \in Int
    BY Bounds
  <2>2. Cardinality(1..n) = n
    BY <2>1, FS_Interval
  <2> QED BY <1>1, <2>2
<1>3. /\ id <= MaxRuns
      /\ runs' = IF id \in DOMAIN runs THEN runs
                 ELSE [i \in 1..id |-> IF i = id THEN [npsso |-> npsso, at |-> "authorize"] ELSE runs[i]]
      /\ byKey' = [byKey EXCEPT ![npsso] = id]
      /\ requests' = [requests EXCEPT ![r] = Asking(kind, npsso, id)]
  BY DEF JoinOrStart
<1>4. CASE byKey[npsso] # 0
  <2>1. id = byKey[npsso]
    BY <1>4
  <2>2. id \in DOMAIN runs /\ runs[id].npsso = npsso /\ runs[id].at \in {"authorize", "token"}
    BY <1>4, <2>1 DEF RunsInv, Running
  <2> HIDE DEF id
  <2>3. runs' = runs
    BY <1>3, <2>2
  <2>4. id \in 1..MaxRuns
    BY <1>1, <2>2, Bounds
  <2>5. runs \in [DOMAIN runs -> Run]
    BY DEF TypeOK
  <2> QED BY <1>1, <1>3, <2>2, <2>3, <2>4, <2>5 DEF Joined
<1>5. CASE byKey[npsso] = 0
  <2>1. id = n + 1
    BY <1>2, <1>5
  <2> HIDE DEF id
  <2>2. id \notin DOMAIN runs /\ id \in 1..MaxRuns /\ 1..id = DOMAIN runs \cup {id} /\ id \in 0..MaxRuns
    BY <1>1, <1>3, <2>1, Bounds
  <2>3. runs' = [i \in DOMAIN runs \cup {id} |->
                    IF i = id THEN [npsso |-> npsso, at |-> "authorize"] ELSE runs[i]]
    BY <1>3, <2>2
  <2>4. [npsso |-> npsso, at |-> "authorize"] \in Run
    BY DEF Run
  <2>5. runs' \in [DOMAIN runs \cup {id} -> Run]
    BY <2>2, <2>3, <2>4 DEF TypeOK
  <2>6. /\ DOMAIN runs' = DOMAIN runs \cup {id}
        /\ \A i \in DOMAIN runs : runs'[i] = runs[i]
        /\ runs'[id] = [npsso |-> npsso, at |-> "authorize"]
    BY <2>2, <2>3
  <2>7. runs'[id].npsso = npsso /\ runs'[id].at \in {"authorize", "token"}
    BY <2>6
  <2> QED BY <1>3, <2>2, <2>3, <2>5, <2>6, <2>7 DEF Joined
<1> QED BY <1>4, <1>5

\* A request keeps what is known of it while runs end, join and are recorded.
LEMMA SoundStays ==
    ASSUME NEW q, NEW rs, NEW rs2, NEW acc, NEW acc2, NEW rej, NEW rej2, Sound(q, rs, acc, rej),
           acc \subseteq acc2, rej \subseteq rej2, DOMAIN rs \subseteq DOMAIN rs2,
           \A id \in DOMAIN rs : rs2[id].npsso = rs[id].npsso /\ (rs[id].at = "ok" => rs2[id].at = "ok")
    PROVE  Sound(q, rs2, acc2, rej2)
PROOF BY DEF Sound

LEMMA JoinKeeps ==
    ASSUME SignedInInv, NEW r \in Requests, NEW kind \in Lists \cup {"sign_in"}, NEW npsso \in Npssos,
           JoinOrStart(r, kind, npsso), UNCHANGED <<cookie, accepted, rejected>>
    PROVE  SignedInInv'
PROOF
<1> USE DEF SignedInInv
<1>1. PICK id \in 1..MaxRuns : Joined(r, kind, npsso, id)
  BY JoinStep
<1>a. /\ requests' = [requests EXCEPT ![r] = Asking(kind, npsso, id)]
      /\ byKey' = [byKey EXCEPT ![npsso] = id]
      /\ DOMAIN runs' = DOMAIN runs \cup {id}
      /\ \A i \in DOMAIN runs : runs'[i] = runs[i]
      /\ runs' \in [DOMAIN runs' -> Run]
      /\ runs'[id].npsso = npsso /\ runs'[id].at \in {"authorize", "token"}
  BY <1>1 DEF Joined
<1>b. \E n \in 0..MaxRuns : DOMAIN runs' = 1..n
  BY <1>1 DEF Joined
<1>2. Asking(kind, npsso, id) \in Request /\ Sound(Asking(kind, npsso, id), runs', accepted', rejected')
  <2>1. Asking(kind, npsso, id) \in Request
    BY Bounds DEF Asking, Request
  <2>2. Sound(Asking(kind, npsso, id), runs', accepted', rejected')
    BY <1>a DEF Asking, Sound, None
  <2> QED BY <2>1, <2>2
<1>3. TypeOK'
  <2>1. requests' \in [Requests -> Request]
    BY <1>a, <1>2 DEF TypeOK
  <2>2. byKey' \in [Npssos -> 0..MaxRuns]
    BY <1>a, Bounds DEF TypeOK
  <2>3. DOMAIN runs' \subseteq 1..MaxRuns
    BY <1>a DEF TypeOK
  <2> QED BY <1>a, <2>1, <2>2, <2>3 DEF TypeOK
<1>4. RunsInv'
  <2>1. ASSUME NEW n \in Npssos, byKey'[n] # 0
        PROVE  byKey'[n] \in DOMAIN runs' /\ runs'[byKey'[n]].npsso = n /\ runs'[byKey'[n]].at \in {"authorize", "token"}
    <3>1. CASE n = npsso
      <4>1. byKey'[n] = id
        BY <1>a, <3>1 DEF TypeOK
      <4> QED BY <1>a, <3>1, <4>1
    <3>2. CASE n # npsso
      <4>1. byKey'[n] = byKey[n] /\ byKey[n] # 0
        BY <1>a, <2>1, <3>2 DEF TypeOK
      <4>2. byKey[n] \in DOMAIN runs /\ runs[byKey[n]].npsso = n /\ Running(byKey[n])
        BY <4>1 DEF RunsInv
      <4>3. runs'[byKey[n]] = runs[byKey[n]] /\ byKey[n] \in DOMAIN runs'
        BY <1>a, <4>2
      <4> QED BY <4>1, <4>2, <4>3 DEF Running
    <3> QED BY <3>1, <3>2
  <2>2. ASSUME NEW i \in DOMAIN runs'
        PROVE  /\ runs'[i].at = "ok" => runs'[i].npsso \in accepted'
               /\ runs'[i].at = "rejected" => runs'[i].npsso \in rejected'
    <3>1. CASE i = id
      BY <1>a, <3>1
    <3>2. CASE i # id
      BY <1>a, <3>2 DEF RunsInv
    <3> QED BY <3>1, <3>2
  <2> QED BY <1>b, <2>1, <2>2 DEF RunsInv, Running
<1>5. RequestsInv'
  <2>1. ASSUME NEW x \in Requests
        PROVE  Sound(requests'[x], runs', accepted', rejected')
    <3>1. CASE x = r
      BY <1>a, <1>2, <3>1 DEF TypeOK
    <3>2. CASE x # r
      <4>1. requests'[x] = requests[x]
        BY <1>a, <3>2 DEF TypeOK
      <4>2. Sound(requests[x], runs', accepted', rejected')
        BY <1>a, SoundStays DEF RequestsInv
      <4> QED BY <4>1, <4>2
    <3> QED BY <3>1, <3>2
  <2> QED BY <2>1 DEF RequestsInv
<1>6. CookieWasAccepted'
  BY DEF CookieWasAccepted
<1> QED BY <1>3, <1>4, <1>5, <1>6

\* One request changes, and nothing of the exchanges.
LEMMA RequestStep ==
    ASSUME SignedInInv, NEW r \in Requests, UNCHANGED <<byKey, runs, accepted>>,
           requests' \in [Requests -> Request], \A x \in Requests \ {r} : requests'[x] = requests[x],
           Sound(requests'[r], runs, accepted, rejected'),
           rejected \subseteq rejected', rejected' \subseteq Npssos,
           cookie' \in Npssos \cup {None}, cookie' # None => cookie' \in accepted
    PROVE  SignedInInv'
PROOF
<1> USE DEF SignedInInv
<1>1. TypeOK'
  BY DEF TypeOK
<1>2. RunsInv'
  BY DEF RunsInv, Running
<1>3. RequestsInv'
  <2>1. ASSUME NEW x \in Requests, x # r
        PROVE  Sound(requests'[x], runs', accepted', rejected')
    BY <2>1, SoundStays DEF RequestsInv
  <2> QED BY <2>1 DEF RequestsInv
<1>4. CookieWasAccepted'
  BY DEF CookieWasAccepted
<1> QED BY <1>1, <1>2, <1>3, <1>4

\* A request that is replaced by a sound one.
LEMMA ReplaceStep ==
    ASSUME SignedInInv, NEW r \in Requests, NEW q \in Request,
           requests' = [requests EXCEPT ![r] = q], Sound(q, runs, accepted, rejected),
           UNCHANGED <<byKey, runs, accepted, rejected>>,
           cookie' \in Npssos \cup {None}, cookie' # None => cookie' \in accepted
    PROVE  SignedInInv'
PROOF
<1>1. requests' \in [Requests -> Request] /\ requests'[r] = q /\ \A x \in Requests \ {r} : requests'[x] = requests[x]
  BY DEF SignedInInv, TypeOK
<1>2. rejected' \subseteq Npssos /\ rejected' = rejected
  BY DEF SignedInInv, TypeOK
<1> QED BY <1>1, <1>2, RequestStep

\* The answer to an open request, with its reason on record.
LEMMA AnswerStep ==
    ASSUME SignedInInv, NEW r \in Requests, NEW answer \in Answers, Answered(r, answer),
           UNCHANGED <<cookie, byKey, runs, accepted>>,
           rejected \subseteq rejected', rejected' \subseteq Npssos,
           answer = "signed_in" => requests[r].npsso \in accepted,
           answer = "cookie_cleared" => requests[r].npsso \in rejected',
           answer = "signed_out" => requests[r].kind = "sign_out",
           answer = "listed" => requests[r].run \in DOMAIN runs,
           answer = "listed" /\ requests[r].kind = "purchased" => ~PageIsFull(r)
    PROVE  SignedInInv'
PROOF
<1>1. requests[r] \in Request
  BY RequestType DEF SignedInInv
<1>2. /\ requests'[r] = [at |-> "answered", kind |-> requests[r].kind, npsso |-> requests[r].npsso,
                         run |-> requests[r].run, page |-> requests[r].page, answer |-> answer]
      /\ requests' \in [Requests -> Request]
      /\ \A x \in Requests \ {r} : requests'[x] = requests[x]
  <2>1. requests' = [requests EXCEPT ![r].at = "answered", ![r].answer = answer]
    BY DEF Answered
  <2>2. requests \in [Requests -> Request]
    BY DEF SignedInInv, TypeOK
  <2>3. requests'[r] = [at |-> "answered", kind |-> requests[r].kind, npsso |-> requests[r].npsso,
                        run |-> requests[r].run, page |-> requests[r].page, answer |-> answer]
    BY <1>1, <2>1, <2>2 DEF Request
  <2>4. requests'[r] \in Request
    BY <1>1, <2>3 DEF Request
  <2>5. requests' \in [Requests -> Request] /\ \A x \in Requests \ {r} : requests'[x] = requests[x]
    BY <2>1, <2>2, <2>4
  <2> QED BY <2>3, <2>5
<1>3. Sound(requests'[r], runs, accepted, rejected')
  BY <1>2 DEF Sound, PageIsFull, TokenOf
<1>4. cookie' \in Npssos \cup {None} /\ (cookie' # None => cookie' \in accepted)
  BY DEF SignedInInv, TypeOK, CookieWasAccepted
<1> QED BY <1>2, <1>3, <1>4, RequestStep

\* A rejection goes on record, and nothing leaves it.
LEMMA RecordStep ==
    ASSUME TypeOK, NEW call, NEW answer, NEW npsso \in Npssos, Record(call, answer, npsso)
    PROVE  /\ rejected \subseteq rejected' /\ rejected' \subseteq Npssos
           /\ Definitive(call, answer) => npsso \in rejected'
PROOF
<1>1. CASE Definitive(call, answer)
  BY <1>1 DEF Record, TypeOK
<1>2. CASE ~Definitive(call, answer)
  BY <1>2 DEF Record, TypeOK
<1> QED BY <1>1, <1>2

(***************************************************************************)
(* A run goes on to the token call, or ends and leaves InFlight.  No        *)
(* request changes.                                                         *)
(***************************************************************************)
LEMMA ExchangeStep ==
    ASSUME SignedInInv, NEW id \in DOMAIN runs, Running(id),
           NEW end \in {"token", "ok", "rejected", "outage", "panicked"},
           runs' = [runs EXCEPT ![id].at = end],
           \/ end = "token" /\ byKey' = byKey
           \/ byKey' = [n \in Npssos |-> IF n = runs[id].npsso /\ byKey[n] = id THEN 0 ELSE byKey[n]],
           accepted \subseteq accepted', accepted' \subseteq Npssos,
           rejected \subseteq rejected', rejected' \subseteq Npssos,
           end = "ok" => runs[id].npsso \in accepted',
           end = "rejected" => runs[id].npsso \in rejected',
           UNCHANGED <<cookie, requests>>
    PROVE  SignedInInv'
PROOF
<1>0. TypeOK /\ RunsInv /\ RequestsInv /\ CookieWasAccepted
  BY DEF SignedInInv
<1>1. runs \in [DOMAIN runs -> Run] /\ runs[id] \in Run /\ byKey \in [Npssos -> 0..MaxRuns]
  BY <1>0 DEF TypeOK
<1>2. /\ DOMAIN runs' = DOMAIN runs
      /\ runs'[id] = [npsso |-> runs[id].npsso, at |-> end]
      /\ \A i \in DOMAIN runs \ {id} : runs'[i] = runs[i]
  BY <1>1 DEF Run
<1>3. runs'[id] \in Run
  BY <1>1, <1>2 DEF Run
<1>4. TypeOK'
  <2>1. runs' \in [DOMAIN runs' -> Run]
    BY <1>1, <1>2, <1>3
  <2>2. byKey' \in [Npssos -> 0..MaxRuns]
    BY <1>1, Bounds
  <2>3. requests' \in [Requests -> Request] /\ cookie' \in Npssos \cup {None} /\ DOMAIN runs' \subseteq 1..MaxRuns
    BY <1>0, <1>2 DEF TypeOK
  <2> QED BY <2>1, <2>2, <2>3 DEF TypeOK
<1>5. RunsInv'
  <2>1. \E n \in 0..MaxRuns : DOMAIN runs' = 1..n
    BY <1>0, <1>2 DEF RunsInv
  <2>2. ASSUME NEW n \in Npssos, byKey'[n] # 0
        PROVE  /\ byKey'[n] \in DOMAIN runs' /\ runs'[byKey'[n]].npsso = n
               /\ runs'[byKey'[n]].at \in {"authorize", "token"}
    <3>1. byKey'[n] = byKey[n] /\ byKey[n] # 0
      BY <1>1, <2>2
    <3>2. byKey[n] \in DOMAIN runs /\ runs[byKey[n]].npsso = n /\ runs[byKey[n]].at \in {"authorize", "token"}
      BY <1>0, <3>1 DEF RunsInv, Running
    <3>3. CASE byKey[n] = id
      <4>1. end = "token"
        BY <1>1, <2>2, <3>1, <3>2, <3>3
      <4> QED BY <1>2, <3>1, <3>2, <3>3, <4>1
    <3>4. CASE byKey[n] # id
      BY <1>2, <3>1, <3>2, <3>4
    <3> QED BY <3>3, <3>4
  <2>3. ASSUME NEW i \in DOMAIN runs'
        PROVE  /\ runs'[i].at = "ok" => runs'[i].npsso \in accepted'
               /\ runs'[i].at = "rejected" => runs'[i].npsso \in rejected'
    <3>1. CASE i = id
      BY <1>2, <3>1
    <3>2. CASE i # id
      BY <1>0, <1>2, <3>2 DEF RunsInv
    <3> QED BY <3>1, <3>2
  <2> QED BY <2>1, <2>2, <2>3 DEF RunsInv, Running
<1>6. RequestsInv'
  <2>1. \A i \in DOMAIN runs : runs'[i].npsso = runs[i].npsso /\ (runs[i].at = "ok" => runs'[i].at = "ok")
    BY <1>2 DEF Running
  <2>2. ASSUME NEW x \in Requests
        PROVE  Sound(requests[x], runs', accepted', rejected')
    BY <1>0, <1>2, <2>1, SoundStays DEF RequestsInv
  <2> QED BY <2>2 DEF RequestsInv
<1>7. CookieWasAccepted'
  BY <1>0 DEF CookieWasAccepted
<1> QED BY <1>4, <1>5, <1>6, <1>7 DEF SignedInInv

-----------------------------------------------------------------------------
(* The actions *)

LEMMA AuthorizeKeeps ==
    ASSUME SignedInInv, NEW id \in DOMAIN runs, NEW answer \in AuthorizeAnswers, AuthorizeAnswered(id, answer)
    PROVE  SignedInInv'
PROOF
<1>1. TypeOK /\ Running(id) /\ runs[id].npsso \in Npssos
  BY RunType DEF SignedInInv, AuthorizeAnswered, Running
<1>2. /\ rejected \subseteq rejected' /\ rejected' \subseteq Npssos
      /\ Definitive("authorize", answer) => runs[id].npsso \in rejected'
  BY <1>1, RecordStep DEF AuthorizeAnswered
<1>3. accepted' = accepted /\ accepted \subseteq Npssos /\ UNCHANGED <<cookie, requests>>
  BY <1>1 DEF AuthorizeAnswered, TypeOK
<1>4. CASE Verdict("authorize", answer) = "ok"
  <2>1. runs' = [runs EXCEPT ![id].at = "token"] /\ byKey' = byKey
    BY <1>4 DEF AuthorizeAnswered
  <2> QED BY <1>1, <1>2, <1>3, <2>1, ExchangeStep
<1>5. CASE Verdict("authorize", answer) # "ok"
  <2> DEFINE end == Verdict("authorize", answer)
  <2>1. /\ runs' = [runs EXCEPT ![id].at = end]
        /\ byKey' = [n \in Npssos |-> IF n = runs[id].npsso /\ byKey[n] = id THEN 0 ELSE byKey[n]]
    BY <1>5 DEF AuthorizeAnswered, EndRun
  <2>2. end \in {"token", "ok", "rejected", "outage", "panicked"} /\ end # "ok"
    BY <1>5, VerdictType
  <2>3. end = "rejected" => runs[id].npsso \in rejected'
    BY <1>2, RejectedIsDefinitive
  <2> HIDE DEF end
  <2> QED BY <1>1, <1>2, <1>3, <2>1, <2>2, <2>3, ExchangeStep
<1> QED BY <1>4, <1>5

LEMMA TokenKeeps ==
    ASSUME SignedInInv, NEW id \in DOMAIN runs, NEW answer \in TokenAnswers, TokenAnswered(id, answer)
    PROVE  SignedInInv'
PROOF
<1>1. TypeOK /\ Running(id) /\ runs[id].npsso \in Npssos
  BY RunType DEF SignedInInv, TokenAnswered, Running
<1>2. /\ rejected \subseteq rejected' /\ rejected' \subseteq Npssos
      /\ Definitive("token", answer) => runs[id].npsso \in rejected'
  BY <1>1, RecordStep DEF TokenAnswered
<1>3. /\ accepted \subseteq accepted' /\ accepted' \subseteq Npssos
      /\ answer = "token" => runs[id].npsso \in accepted'
      /\ UNCHANGED <<cookie, requests>>
  BY <1>1 DEF TokenAnswered, TypeOK
<1> DEFINE end == Verdict("token", answer)
<1>4. /\ runs' = [runs EXCEPT ![id].at = end]
      /\ byKey' = [n \in Npssos |-> IF n = runs[id].npsso /\ byKey[n] = id THEN 0 ELSE byKey[n]]
  BY DEF TokenAnswered, EndRun
<1>5. end \in {"token", "ok", "rejected", "outage", "panicked"}
  BY VerdictType
<1>6. /\ end = "rejected" => runs[id].npsso \in rejected'
      /\ end = "ok" => runs[id].npsso \in accepted'
  BY <1>2, <1>3, RejectedIsDefinitive, TokenVerdict
<1> HIDE DEF end
<1> QED BY <1>1, <1>2, <1>3, <1>4, <1>5, <1>6, ExchangeStep

LEMMA PanicKeeps ==
    ASSUME SignedInInv, NEW id \in DOMAIN runs, ExchangePanics(id)
    PROVE  SignedInInv'
PROOF
<1>1. /\ Running(id) /\ runs' = [runs EXCEPT ![id].at = "panicked"]
      /\ byKey' = [n \in Npssos |-> IF n = runs[id].npsso /\ byKey[n] = id THEN 0 ELSE byKey[n]]
      /\ UNCHANGED <<cookie, requests, accepted, rejected>>
  BY DEF ExchangePanics, EndRun
<1>2. accepted \subseteq Npssos /\ rejected \subseteq Npssos
  BY DEF SignedInInv, TypeOK
<1> QED BY <1>1, <1>2, ExchangeStep

LEMMA AnsweredAtOnceIsSound ==
    ASSUME NEW kind \in Lists \cup {"sign_in", "sign_out"}, NEW answer \in {"refused", "signed_out", "not_signed_in"},
           answer = "signed_out" => kind = "sign_out"
    PROVE  /\ AnsweredAtOnce(kind, answer) \in Request
           /\ \A rs, acc, rej : Sound(AnsweredAtOnce(kind, answer), rs, acc, rej)
PROOF
<1>1. AnsweredAtOnce(kind, answer) \in Request
  BY Bounds DEF AnsweredAtOnce, Request, Answers
<1>2. \A rs, acc, rej : Sound(AnsweredAtOnce(kind, answer), rs, acc, rej)
  BY DEF AnsweredAtOnce, Sound
<1> QED BY <1>1, <1>2

LEMMA CookieStays ==
    ASSUME SignedInInv
    PROVE  cookie \in Npssos \cup {None} /\ (cookie # None => cookie \in accepted)
PROOF BY DEF SignedInInv, TypeOK, CookieWasAccepted

LEMMA SendsKeep ==
    ASSUME SignedInInv, NEW r \in Requests,
           \/ \E n \in Npssos \cup {None} : SendSignIn(r, n)
           \/ SendSignOut(r)
           \/ \E list \in Lists : SendList(r, list)
    PROVE  SignedInInv'
PROOF
<1>1. ASSUME NEW n \in Npssos \cup {None}, SendSignIn(r, n)
      PROVE  SignedInInv'
  <2>1. UNCHANGED <<cookie, accepted, rejected>>
    BY <1>1 DEF SendSignIn
  <2>2. CASE n = None
    <3>1. requests' = [requests EXCEPT ![r] = AnsweredAtOnce("sign_in", "refused")] /\ UNCHANGED <<byKey, runs>>
      BY <1>1, <2>2 DEF SendSignIn
    <3>2. /\ AnsweredAtOnce("sign_in", "refused") \in Request
          /\ Sound(AnsweredAtOnce("sign_in", "refused"), runs, accepted, rejected)
      BY AnsweredAtOnceIsSound
    <3> QED BY <2>1, <3>1, <3>2, CookieStays, ReplaceStep
  <2>3. CASE n # None
    <3>1. JoinOrStart(r, "sign_in", n) /\ n \in Npssos
      BY <1>1, <2>3 DEF SendSignIn
    <3> QED BY <2>1, <3>1, JoinKeeps
  <2> QED BY <2>2, <2>3
<1>2. CASE SendSignOut(r)
  <2>1. /\ requests' = [requests EXCEPT ![r] = AnsweredAtOnce("sign_out", "signed_out")]
        /\ UNCHANGED <<cookie, byKey, runs, accepted, rejected>>
    BY <1>2 DEF SendSignOut
  <2>2. /\ AnsweredAtOnce("sign_out", "signed_out") \in Request
        /\ Sound(AnsweredAtOnce("sign_out", "signed_out"), runs, accepted, rejected)
    BY AnsweredAtOnceIsSound
  <2> QED BY <2>1, <2>2, CookieStays, ReplaceStep
<1>3. ASSUME NEW list \in Lists, SendList(r, list)
      PROVE  SignedInInv'
  <2>1. UNCHANGED <<cookie, accepted, rejected>>
    BY <1>3 DEF SendList
  <2>2. CASE cookie = None
    <3>1. requests' = [requests EXCEPT ![r] = AnsweredAtOnce(list, "not_signed_in")] /\ UNCHANGED <<byKey, runs>>
      BY <1>3, <2>2 DEF SendList
    <3>2. /\ AnsweredAtOnce(list, "not_signed_in") \in Request
          /\ Sound(AnsweredAtOnce(list, "not_signed_in"), runs, accepted, rejected)
      BY AnsweredAtOnceIsSound
    <3> QED BY <2>1, <3>1, <3>2, CookieStays, ReplaceStep
  <2>3. CASE cookie # None
    <3>1. JoinOrStart(r, list, cookie) /\ cookie \in Npssos
      BY <1>3, <2>3, CookieStays DEF SendList
    <3> QED BY <2>1, <3>1, JoinKeeps
  <2> QED BY <2>2, <2>3
<1> QED BY <1>1, <1>2, <1>3

\* What is known of a request whose exchange or list is under way.
LEMMA OpenRequest ==
    ASSUME SignedInInv, NEW r \in Requests, requests[r].at \in {"exchange", "list"}
    PROVE  /\ requests[r] \in Request
           /\ requests[r].run \in DOMAIN runs
           /\ TokenOf(r) = requests[r].npsso /\ TokenOf(r) \in Npssos
           /\ requests[r].kind \in Lists \cup {"sign_in"}
           /\ requests[r].at = "list" => requests[r].kind \in Lists
PROOF
<1>1. Sound(requests[r], runs, accepted, rejected) /\ TypeOK
  BY DEF SignedInInv, RequestsInv
<1>2. requests[r] \in Request
  BY <1>1, RequestType
<1>3. requests[r].run \in DOMAIN runs /\ runs[requests[r].run].npsso = requests[r].npsso
  BY <1>1 DEF Sound
<1>4. runs[requests[r].run].npsso \in Npssos
  BY <1>1, <1>3, RunType
<1> QED BY <1>1, <1>2, <1>3, <1>4 DEF Sound, TokenOf

LEMMA ListFailureStep ==
    ASSUME SignedInInv, NEW r \in Requests, requests[r].at = "list", NEW verdict \in {"rejected", "outage"},
           Answered(r, ListFailure(verdict)), UNCHANGED <<cookie, byKey, runs, accepted>>,
           rejected \subseteq rejected', rejected' \subseteq Npssos,
           verdict = "rejected" => TokenOf(r) \in rejected'
    PROVE  SignedInInv'
PROOF
<1> DEFINE answer == ListFailure(verdict)
<1>1. answer \in {"cookie_cleared", "outage"} /\ (answer = "cookie_cleared" => verdict = "rejected")
  BY DEF ListFailure
<1>2. TokenOf(r) = requests[r].npsso
  BY OpenRequest
<1>3. Answered(r, answer)
  OBVIOUS
<1>4. answer \in Answers
  BY <1>1 DEF Answers
<1> HIDE DEF answer
<1> QED BY <1>1, <1>2, <1>3, <1>4, AnswerStep

LEMMA ReturnsKeep ==
    ASSUME SignedInInv, NEW r \in Requests, ExchangeReturns(r)
    PROVE  SignedInInv'
PROOF
<1> DEFINE end == runs[requests[r].run].at
<1>1. /\ requests[r].at = "exchange" /\ ~Running(requests[r].run)
      /\ UNCHANGED <<cookie, byKey, runs, accepted, rejected>>
  BY DEF ExchangeReturns
<1>2. /\ requests[r] \in Request /\ requests[r].run \in DOMAIN runs
      /\ runs[requests[r].run].npsso = requests[r].npsso
      /\ requests[r].kind \in Lists \cup {"sign_in"}
  BY <1>1, OpenRequest DEF TokenOf
<1>3. /\ end = "ok" => requests[r].npsso \in accepted
      /\ end = "rejected" => requests[r].npsso \in rejected
  BY <1>2 DEF SignedInInv, RunsInv
<1>4. rejected \subseteq rejected' /\ rejected' \subseteq Npssos
  BY <1>1 DEF SignedInInv, TypeOK
<1>5. CASE requests[r].kind = "sign_in"
  <2> DEFINE answer == SignInAnswer(end)
  <2>1. answer \in {"signed_in", "rejected", "outage"} /\ (answer = "signed_in" => end = "ok")
    BY DEF SignInAnswer
  <2>2. Answered(r, answer)
    BY <1>5 DEF ExchangeReturns
  <2>3. answer \in Answers
    BY <2>1 DEF Answers
  <2> HIDE DEF answer
  <2> QED BY <1>1, <1>3, <1>4, <2>1, <2>2, <2>3, AnswerStep
<1>6. CASE requests[r].kind # "sign_in" /\ end = "ok"
  <2>1. requests' = [requests EXCEPT ![r].at = "list"]
    BY <1>6 DEF ExchangeReturns
  <2>2. requests \in [Requests -> Request]
    BY DEF SignedInInv, TypeOK
  <2>3. requests'[r] = [at |-> "list", kind |-> requests[r].kind, npsso |-> requests[r].npsso,
                        run |-> requests[r].run, page |-> requests[r].page, answer |-> requests[r].answer]
    BY <1>2, <2>1, <2>2 DEF Request
  <2>4. requests'[r] \in Request
    BY <1>2, <2>3 DEF Request
  <2>5. requests' \in [Requests -> Request] /\ \A x \in Requests \ {r} : requests'[x] = requests[x]
    BY <2>1, <2>2, <2>4
  <2>6. Sound(requests[r], runs, accepted, rejected)
    BY DEF SignedInInv, RequestsInv
  <2>7. Sound(requests'[r], runs, accepted, rejected')
    BY <1>1, <1>2, <1>6, <2>3, <2>6 DEF Sound
  <2> QED BY <1>1, <1>4, <2>5, <2>7, CookieStays, RequestStep
<1>7. CASE requests[r].kind # "sign_in" /\ end # "ok"
  <2> DEFINE answer == ListFailure(end)
  <2>1. answer \in {"cookie_cleared", "outage"} /\ (answer = "cookie_cleared" => end = "rejected")
    BY DEF ListFailure
  <2>2. Answered(r, answer)
    BY <1>7 DEF ExchangeReturns
  <2>3. answer \in Answers
    BY <2>1 DEF Answers
  <2> HIDE DEF answer
  <2> QED BY <1>1, <1>3, <1>4, <2>1, <2>2, <2>3, AnswerStep
<1> QED BY <1>5, <1>6, <1>7

LEMMA PurchasedKeeps ==
    ASSUME SignedInInv, NEW r \in Requests, NEW answer \in PurchasedAnswers, PurchasedAnswered(r, answer)
    PROVE  SignedInInv'
PROOF
<1>1. /\ requests[r].at = "list" /\ requests[r].kind = "purchased"
      /\ UNCHANGED <<cookie, byKey, runs, accepted>>
  BY DEF PurchasedAnswered
<1>2. /\ requests[r] \in Request /\ requests[r].run \in DOMAIN runs
      /\ TokenOf(r) = requests[r].npsso /\ TokenOf(r) \in Npssos
  BY <1>1, OpenRequest
<1>3. /\ rejected \subseteq rejected' /\ rejected' \subseteq Npssos
      /\ Definitive("purchased", answer) => TokenOf(r) \in rejected'
  BY <1>2, RecordStep DEF PurchasedAnswered, SignedInInv
<1>4. CASE Verdict("purchased", answer) # "ok"
  <2> DEFINE verdict == Verdict("purchased", answer)
  <2>1. verdict \in {"rejected", "outage"}
    BY <1>4, VerdictType
  <2>2. Answered(r, ListFailure(verdict))
    BY <1>4 DEF PurchasedAnswered
  <2>3. verdict = "rejected" => TokenOf(r) \in rejected'
    BY <1>3, RejectedIsDefinitive
  <2> HIDE DEF verdict
  <2> QED BY <1>1, <1>3, <2>1, <2>2, <2>3, ListFailureStep
<1>5. CASE Verdict("purchased", answer) = "ok" /\ Crawl(r) = "read_on"
  <2>1. requests' = [requests EXCEPT ![r].page = @ + 1]
    BY <1>5 DEF PurchasedAnswered
  <2>2. requests[r].page + 1 < MaxPages
    BY <1>5 DEF Crawl
  <2>3. requests \in [Requests -> Request]
    BY DEF SignedInInv, TypeOK
  <2>4. requests'[r] = [at |-> "list", kind |-> requests[r].kind, npsso |-> requests[r].npsso,
                        run |-> requests[r].run, page |-> requests[r].page + 1, answer |-> requests[r].answer]
    BY <1>1, <1>2, <2>1, <2>3 DEF Request
  <2>5. requests[r].page + 1 \in 0..(MaxPages - 1)
    <3>1. requests[r].page \in 0..(MaxPages - 1)
      BY <1>2 DEF Request
    <3> QED BY <2>2, <3>1, Bounds
  <2>6. requests'[r] \in Request
    BY <1>2, <2>4, <2>5 DEF Request
  <2>7. requests' \in [Requests -> Request] /\ \A x \in Requests \ {r} : requests'[x] = requests[x]
    BY <2>1, <2>3, <2>6
  <2>8. Sound(requests[r], runs, accepted, rejected)
    BY DEF SignedInInv, RequestsInv
  <2>9. Sound(requests'[r], runs, accepted, rejected')
    BY <1>1, <2>4, <2>8 DEF Sound, None
  <2> QED BY <1>1, <1>3, <2>7, <2>9, CookieStays, RequestStep
<1>6. CASE Verdict("purchased", answer) = "ok" /\ Crawl(r) # "read_on"
  <2> DEFINE end == Crawl(r)
  <2>1. end \in {"listed", "outage"} /\ (end = "listed" => ~PageIsFull(r))
    BY <1>6 DEF Crawl
  <2>2. Answered(r, end)
    BY <1>6 DEF PurchasedAnswered
  <2>3. end \in Answers
    BY <2>1 DEF Answers
  <2> HIDE DEF end
  <2> QED BY <1>1, <1>2, <1>3, <2>1, <2>2, <2>3, AnswerStep
<1> QED BY <1>4, <1>5, <1>6

LEMMA WishlistKeeps ==
    ASSUME SignedInInv, NEW r \in Requests, NEW answer \in WishlistAnswers, WishlistAnswered(r, answer)
    PROVE  SignedInInv'
PROOF
<1>1. /\ requests[r].at = "list" /\ requests[r].kind = "wishlist"
      /\ UNCHANGED <<cookie, byKey, runs, accepted>>
  BY DEF WishlistAnswered
<1>2. requests[r].run \in DOMAIN runs /\ TokenOf(r) = requests[r].npsso /\ TokenOf(r) \in Npssos
  BY <1>1, OpenRequest
<1>3. /\ rejected \subseteq rejected' /\ rejected' \subseteq Npssos
      /\ Definitive("wishlist", answer) => TokenOf(r) \in rejected'
  BY <1>2, RecordStep DEF WishlistAnswered, SignedInInv
<1>4. CASE Verdict("wishlist", answer) = "ok"
  <2>1. Answered(r, "listed")
    BY <1>4 DEF WishlistAnswered
  <2>2. "listed" \in Answers
    BY DEF Answers
  <2> QED BY <1>1, <1>2, <1>3, <2>1, <2>2, AnswerStep
<1>5. CASE Verdict("wishlist", answer) # "ok"
  <2> DEFINE verdict == Verdict("wishlist", answer)
  <2>1. verdict \in {"rejected", "outage"}
    BY <1>5, VerdictType
  <2>2. Answered(r, ListFailure(verdict))
    BY <1>5 DEF WishlistAnswered
  <2>3. verdict = "rejected" => TokenOf(r) \in rejected'
    BY <1>3, RejectedIsDefinitive
  <2> HIDE DEF verdict
  <2> QED BY <1>1, <1>3, <2>1, <2>2, <2>3, ListFailureStep
<1> QED BY <1>4, <1>5

\* The browser applies an answer: an NPSSO that it puts into the jar was accepted.
LEMMA DeliverKeeps ==
    ASSUME SignedInInv, NEW r \in Requests, Deliver(r)
    PROVE  SignedInInv'
PROOF
<1>1. requests' = [requests EXCEPT ![r] = Free] /\ UNCHANGED <<byKey, runs, accepted, rejected>>
  BY DEF Deliver
<1>2. Free \in Request /\ Sound(Free, runs, accepted, rejected)
  BY FreeIsSound
<1>3. accepted \subseteq Npssos
  BY DEF SignedInInv, TypeOK
<1>4. CASE requests[r].answer = "signed_in"
  <2>1. cookie' = requests[r].npsso
    BY <1>4 DEF Deliver
  <2>2. requests[r].npsso \in accepted
    BY <1>4 DEF SignedInInv, RequestsInv, Sound
  <2> QED BY <1>1, <1>2, <1>3, <2>1, <2>2, ReplaceStep
<1>5. CASE requests[r].answer # "signed_in"
  <2>1. cookie' \in {None, cookie}
    BY <1>5 DEF Deliver
  <2>2. cookie' \in Npssos \cup {None} /\ (cookie' # None => cookie' \in accepted)
    BY <2>1, CookieStays
  <2> QED BY <1>1, <1>2, <2>2, ReplaceStep
<1> QED BY <1>4, <1>5

LEMMA AbortKeeps ==
    ASSUME SignedInInv, NEW r \in Requests, Abort(r)
    PROVE  SignedInInv'
PROOF
<1>1. requests' = [requests EXCEPT ![r] = Free] /\ UNCHANGED <<cookie, byKey, runs, accepted, rejected>>
  BY DEF Abort
<1> QED BY <1>1, FreeIsSound, CookieStays, ReplaceStep

-----------------------------------------------------------------------------
(* The theorems *)

LEMMA InitEstablishes == Init => SignedInInv
PROOF
<1> SUFFICES ASSUME Init PROVE SignedInInv
  OBVIOUS
<1>1. DOMAIN runs = {} /\ DOMAIN runs = 1..0
  BY DEF Init
<1>2. TypeOK
  <2>1. requests \in [Requests -> Request]
    BY FreeIsSound DEF Init
  <2>2. byKey \in [Npssos -> 0..MaxRuns]
    BY Bounds DEF Init
  <2>3. runs \in [DOMAIN runs -> Run]
    BY <1>1 DEF Init
  <2>4. cookie \in Npssos \cup {None} /\ accepted \subseteq Npssos /\ rejected \subseteq Npssos
    BY DEF Init
  <2> QED BY <1>1, <2>1, <2>2, <2>3, <2>4 DEF TypeOK
<1>3. RunsInv
  <2>1. \E n \in 0..MaxRuns : DOMAIN runs = 1..n
    BY <1>1, Bounds
  <2>2. \A n \in Npssos : byKey[n] = 0
    BY DEF Init
  <2> QED BY <1>1, <2>1, <2>2 DEF RunsInv
<1>4. RequestsInv
  BY FreeIsSound DEF Init, RequestsInv
<1>5. CookieWasAccepted
  BY DEF Init, CookieWasAccepted
<1> QED BY <1>2, <1>3, <1>4, <1>5 DEF SignedInInv

LEMMA NextKeeps == SignedInInv /\ [Next]_vars => SignedInInv'
PROOF
<1> SUFFICES ASSUME SignedInInv, [Next]_vars PROVE SignedInInv'
  OBVIOUS
<1>1. ASSUME NEW r \in Requests,
             \/ \E n \in Npssos \cup {None} : SendSignIn(r, n)
             \/ SendSignOut(r)
             \/ \E list \in Lists : SendList(r, list)
      PROVE  SignedInInv'
  BY <1>1, SendsKeep
<1>2. ASSUME NEW r \in Requests, Handle(r)
      PROVE  SignedInInv'
  BY <1>2, ReturnsKeep, PurchasedKeeps, WishlistKeeps DEF Handle
<1>3. ASSUME NEW r \in Requests, Deliver(r) \/ Abort(r)
      PROVE  SignedInInv'
  BY <1>3, DeliverKeeps, AbortKeeps
<1>4. ASSUME NEW id \in DOMAIN runs, Exchange(id)
      PROVE  SignedInInv'
  BY <1>4, AuthorizeKeeps, TokenKeeps, PanicKeeps DEF Exchange
<1>5. CASE UNCHANGED vars
  <2>1. UNCHANGED <<cookie, requests, byKey, runs, accepted, rejected>>
    BY <1>5 DEF vars
  <2>2. TypeOK' /\ RunsInv' /\ RequestsInv' /\ CookieWasAccepted'
    BY <2>1 DEF SignedInInv, TypeOK, RunsInv, Running, RequestsInv, CookieWasAccepted
  <2> QED BY <2>2 DEF SignedInInv
<1> QED BY <1>1, <1>2, <1>3, <1>4, <1>5 DEF Next

\* The inductive invariant of the signed-in requests.
THEOREM Invariant == Spec => []SignedInInv
PROOF BY InitEstablishes, NextKeeps, PTL DEF Spec

\* Every variable keeps its type, and no crawl asks for a page past its cap.
THEOREM TypeCorrect == Spec => []TypeOK
<1>1. SignedInInv => TypeOK
  BY DEF SignedInInv
<1> QED BY <1>1, Invariant, PTL

\* The browser only ever holds an NPSSO that Sony has exchanged.
THEOREM CookieCorrect == Spec => []CookieWasAccepted
<1>1. SignedInInv => CookieWasAccepted
  BY DEF SignedInInv
<1> QED BY <1>1, Invariant, PTL

\* A list request reads the list of the account of its own cookie.
THEOREM OwnAccountCorrect == Spec => []OwnAccountOnly
<1>1. SignedInInv => OwnAccountOnly
  BY OpenRequest DEF OwnAccountOnly
<1> QED BY <1>1, Invariant, PTL

\* A library is listed whole or not at all.
THEOREM WholeLibraryCorrect == Spec => []WholeLibrary
<1>1. SignedInInv => WholeLibrary
  BY DEF SignedInInv, RequestsInv, Sound, WholeLibrary, PageIsFull, TokenOf
<1> QED BY <1>1, Invariant, PTL

\* Only a sign-out, or a request whose own NPSSO was rejected, empties the jar.
THEOREM OutageCorrect == Spec => OutageKeepsCookie
<1> DEFINE Kept == cookie # None /\ cookie' = None =>
             \E r \in Requests :
                /\ requests[r].at = "answered" /\ requests'[r].at = "free"
                /\ requests[r].kind = "sign_out" \/ requests[r].npsso \in rejected
<1>1. SignedInInv /\ [Next]_vars => [Kept]_vars
  <2> SUFFICES ASSUME SignedInInv, Next, cookie # None, cookie' = None
               PROVE  \E r \in Requests :
                        /\ requests[r].at = "answered" /\ requests'[r].at = "free"
                        /\ requests[r].kind = "sign_out" \/ requests[r].npsso \in rejected
    BY DEF Kept
  <2>1. PICK r \in Requests : Deliver(r)
    BY DEF Next, SendSignIn, SendSignOut, SendList, Handle, ExchangeReturns, PurchasedAnswered,
           WishlistAnswered, Abort, Exchange, AuthorizeAnswered, TokenAnswered, ExchangePanics
  <2>2. /\ requests[r].at = "answered"
        /\ requests' = [requests EXCEPT ![r] = Free]
        /\ requests[r].answer \in {"signed_in", "signed_out", "cookie_cleared"}
    BY <2>1 DEF Deliver
  <2>3. requests'[r].at = "free"
    BY <2>2 DEF Free, SignedInInv, TypeOK
  <2>4. Sound(requests[r], runs, accepted, rejected)
    BY DEF SignedInInv, RequestsInv
  <2>5. requests[r].answer # "signed_in"
    <3>1. ASSUME requests[r].answer = "signed_in"
          PROVE  FALSE
      <4>1. cookie' = requests[r].npsso /\ requests[r].npsso \in accepted
        BY <2>1, <2>4, <3>1 DEF Deliver, Sound
      <4> QED BY <4>1, NpssosAssumption DEF SignedInInv, TypeOK
    <3> QED BY <3>1
  <2> QED BY <2>2, <2>3, <2>4, <2>5 DEF Sound
<1> QED BY <1>1, Invariant, PTL DEF Spec, OutageKeepsCookie

-----------------------------------------------------------------------------
(* The contract *)

LEMMA ExchangesAre ==
    /\ DOMAIN Exchanges = DOMAIN runs
    /\ \A i \in DOMAIN runs :
          Exchanges[i] = [key |-> runs[i].npsso, at |-> 0,
                          end |-> IF Running(i) THEN "running" ELSE runs[i].at]
PROOF BY DEF Exchanges

\* A request that does not begin to wait stops waiting, or changes nothing.
LEMMA ContractRequestStep ==
    ASSUME SignedInInv, NEW r \in Requests, runs' = runs, requests'[r].at # "exchange",
           \A x \in Requests \ {r} : requests'[x] = requests[x]
    PROVE  C!Next \/ UNCHANGED C!vars
PROOF
<1>1. Exchanges' = Exchanges
  BY DEF Exchanges, Running
<1>2. CASE requests[r].at = "exchange"
  <2>1. Waits' = [Waits EXCEPT ![r] = C!Idle]
    BY <1>2 DEF Waits, C!Idle
  <2>2. C!Waiting(r)
    <3>1. Waits[r].id = requests[r].run
      BY <1>2 DEF Waits
    <3>2. requests[r].run \in 1..MaxRuns
      BY <1>2, OpenRequest DEF SignedInInv, TypeOK
    <3> QED BY <3>1, <3>2, Bounds DEF C!Waiting
  <2>3. C!Abandon(r)
    BY <1>1, <2>1, <2>2 DEF C!Abandon
  <2> QED BY <2>3 DEF C!Next
<1>3. CASE requests[r].at # "exchange"
  <2>1. Waits' = Waits
    BY <1>3 DEF Waits
  <2> QED BY <1>1, <2>1 DEF C!vars
<1> QED BY <1>2, <1>3

LEMMA ContractJoinStep ==
    ASSUME SignedInInv, NEW r \in Requests, requests[r].at = "free",
           NEW kind \in Lists \cup {"sign_in"}, NEW npsso \in Npssos, JoinOrStart(r, kind, npsso)
    PROVE  C!Next
PROOF
<1>1. PICK id \in 1..MaxRuns : Joined(r, kind, npsso, id)
  BY JoinStep DEF SignedInInv
<1>2. requests' = [requests EXCEPT ![r] = Asking(kind, npsso, id)] /\ requests \in [Requests -> Request]
  BY <1>1 DEF Joined, SignedInInv, TypeOK
<1>3. Waits' = [Waits EXCEPT ![r] = [key |-> npsso, id |-> id]]
  <2>1. requests'[r].at = "exchange" /\ requests'[r].npsso = npsso /\ requests'[r].run = id
    BY <1>2 DEF Asking
  <2>2. \A x \in Requests \ {r} : requests'[x] = requests[x]
    BY <1>2
  <2> QED BY <2>1, <2>2 DEF Waits
<1>4. ~C!Waiting(r)
  BY DEF C!Waiting, Waits
<1>5. CASE id \in DOMAIN runs
  <2>1. runs' = runs /\ runs[id].npsso = npsso /\ Running(id)
    BY <1>1, <1>5 DEF Joined, Running
  <2>2. Exchanges' = Exchanges
    BY <2>1 DEF Exchanges, Running
  <2>3. id \in DOMAIN Exchanges /\ Exchanges[id].key = npsso /\ Exchanges[id].end = "running"
    BY <1>5, <2>1, ExchangesAre
  <2>4. C!Join(r, npsso, id)
    BY <1>3, <1>4, <2>2, <2>3 DEF C!Join, C!Fresh
  <2> QED BY <2>4 DEF C!Next
<1>6. CASE id \notin DOMAIN runs
  <2>1. runs' = [i \in DOMAIN runs \cup {id} |->
                    IF i = id THEN [npsso |-> npsso, at |-> "authorize"] ELSE runs[i]]
    BY <1>1, <1>6 DEF Joined
  <2>2. id \notin DOMAIN Exchanges /\ DOMAIN Exchanges = DOMAIN runs
    BY <1>6, ExchangesAre
  <2>3. Exchanges' = [i \in DOMAIN Exchanges \cup {id} |->
                         IF i = id THEN [key |-> npsso, end |-> "running", at |-> 0] ELSE Exchanges[i]]
    <3>1. \A i \in DOMAIN runs : i # id /\ runs'[i] = runs[i]
      BY <1>6, <2>1
    <3>2. runs'[id].npsso = npsso /\ runs'[id].at = "authorize"
      BY <2>1
    <3>3. DOMAIN runs' = DOMAIN runs \cup {id}
      BY <2>1
    <3> QED BY <2>2, <3>1, <3>2, <3>3 DEF Exchanges, Running
  <2>4. C!Begin(r, npsso, id)
    BY <1>3, <1>4, <2>2, <2>3 DEF C!Begin
  <2> QED BY <2>4 DEF C!Next
<1> QED BY <1>5, <1>6

LEMMA ContractExchangeStep ==
    ASSUME SignedInInv, NEW id \in DOMAIN runs, Exchange(id)
    PROVE  C!Next \/ UNCHANGED C!vars
PROOF
<1>1. PICK end \in {"token", "ok", "rejected", "outage", "panicked"} :
         runs' = [runs EXCEPT ![id].at = end]
  <2>1. ASSUME NEW answer \in AuthorizeAnswers, AuthorizeAnswered(id, answer)
        PROVE  \E end \in {"token", "ok", "rejected", "outage", "panicked"} : runs' = [runs EXCEPT ![id].at = end]
    BY <2>1, VerdictType DEF AuthorizeAnswered, EndRun
  <2>2. ASSUME NEW answer \in TokenAnswers, TokenAnswered(id, answer)
        PROVE  \E end \in {"token", "ok", "rejected", "outage", "panicked"} : runs' = [runs EXCEPT ![id].at = end]
    BY <2>2, VerdictType DEF TokenAnswered, EndRun
  <2>3. CASE ExchangePanics(id)
    BY <2>3 DEF ExchangePanics, EndRun
  <2> QED BY <2>1, <2>2, <2>3 DEF Exchange
<1>2. Running(id) /\ requests' = requests
  BY DEF Exchange, AuthorizeAnswered, TokenAnswered, ExchangePanics, Running
<1>3. Waits' = Waits
  BY <1>2 DEF Waits
<1>4. /\ DOMAIN runs' = DOMAIN runs
      /\ runs'[id].npsso = runs[id].npsso /\ runs'[id].at = end
      /\ \A i \in DOMAIN runs \ {id} : runs'[i] = runs[i]
  <2>1. runs[id] \in Run
    BY RunType DEF SignedInInv
  <2> QED BY <1>1, <2>1 DEF Run
<1>5. CASE end = "token"
  <2>1. Exchanges' = Exchanges
    BY <1>2, <1>4, <1>5 DEF Exchanges, Running
  <2> QED BY <1>3, <2>1 DEF C!vars
<1>6. CASE end # "token"
  <2>1. /\ id \in DOMAIN Exchanges /\ Exchanges[id].end = "running"
        /\ Exchanges[id] = [key |-> runs[id].npsso, at |-> 0, end |-> "running"]
    BY <1>2, ExchangesAre
  <2>2. DOMAIN Exchanges' = DOMAIN Exchanges /\ Exchanges'[id] = [key |-> runs[id].npsso, at |-> 0, end |-> end]
    BY <1>4, <1>6 DEF Exchanges, Running
  <2>3. \A i \in DOMAIN runs \ {id} : Exchanges'[i] = Exchanges[i]
    BY <1>4 DEF Exchanges, Running
  <2>4. Exchanges' = [Exchanges EXCEPT ![id].end = end, ![id].at = 0]
    <3>1. Exchanges' = [i \in DOMAIN runs |-> Exchanges'[i]]
      BY <1>4 DEF Exchanges
    <3> QED BY <2>1, <2>2, <2>3, <3>1, ExchangesAre
  <2>5. C!End(id, end)
    BY <1>3, <2>1, <2>4 DEF C!End
  <2>6. id \in 1..MaxRuns /\ end \in {"ok", "rejected", "outage"} \cup {"panicked"}
    BY <1>6 DEF SignedInInv, TypeOK
  <2> QED BY <2>5, <2>6 DEF C!Next
<1> QED BY <1>5, <1>6

\* Every step of the requests is a step of the contract, or leaves it unchanged.
LEMMA ContractStep == SignedInInv /\ [Next]_vars => [C!Next]_(C!vars)
PROOF
<1> SUFFICES ASSUME SignedInInv, [Next]_vars PROVE C!Next \/ UNCHANGED C!vars
  OBVIOUS
<1>0. requests \in [Requests -> Request]
  BY DEF SignedInInv, TypeOK
<1>1. ASSUME NEW r \in Requests, NEW kind \in Lists \cup {"sign_in"}, NEW npsso \in Npssos,
             requests[r].at = "free", JoinOrStart(r, kind, npsso)
      PROVE  C!Next
  BY <1>1, ContractJoinStep
<1>2. ASSUME NEW r \in Requests, runs' = runs, NEW q, q.at # "exchange", requests' = [requests EXCEPT ![r] = q]
      PROVE  C!Next \/ UNCHANGED C!vars
  <2>1. requests'[r] = q /\ \A x \in Requests \ {r} : requests'[x] = requests[x]
    BY <1>0, <1>2
  <2> QED BY <1>2, <2>1, ContractRequestStep
<1>3. \A kind, answer : AnsweredAtOnce(kind, answer).at = "answered"
  BY DEF AnsweredAtOnce
<1>4. ASSUME NEW r \in Requests, runs' = runs, NEW answer, Answered(r, answer)
      PROVE  C!Next \/ UNCHANGED C!vars
  <2>1. requests' = [requests EXCEPT ![r].at = "answered", ![r].answer = answer]
    BY <1>4 DEF Answered
  <2>2. requests'[r].at = "answered" /\ \A x \in Requests \ {r} : requests'[x] = requests[x]
    BY <1>0, <2>1 DEF Request
  <2> QED BY <1>4, <2>2, ContractRequestStep
<1>5. ASSUME NEW r \in Requests, NEW n \in Npssos \cup {None}, SendSignIn(r, n)
      PROVE  C!Next \/ UNCHANGED C!vars
  <2>1. CASE n = None
    BY <1>2, <1>3, <1>5, <2>1 DEF SendSignIn
  <2>2. CASE n # None
    BY <1>1, <1>5, <2>2 DEF SendSignIn
  <2> QED BY <2>1, <2>2
<1>6. ASSUME NEW r \in Requests, SendSignOut(r)
      PROVE  C!Next \/ UNCHANGED C!vars
  BY <1>2, <1>3, <1>6 DEF SendSignOut
<1>7. ASSUME NEW r \in Requests, NEW list \in Lists, SendList(r, list)
      PROVE  C!Next \/ UNCHANGED C!vars
  <2>1. CASE cookie = None
    BY <1>2, <1>3, <1>7, <2>1 DEF SendList
  <2>2. CASE cookie # None
    BY <1>1, <1>7, <2>2, CookieStays DEF SendList
  <2> QED BY <2>1, <2>2
<1>8. ASSUME NEW r \in Requests, Handle(r)
      PROVE  C!Next \/ UNCHANGED C!vars
  <2>1. runs' = runs
    BY <1>8 DEF Handle, ExchangeReturns, PurchasedAnswered, WishlistAnswered
  <2>2. \/ \E answer : Answered(r, answer)
        \/ requests' = [requests EXCEPT ![r].at = "list"]
        \/ requests[r].at = "list" /\ requests' = [requests EXCEPT ![r].page = @ + 1]
    <3>1. CASE ExchangeReturns(r)
      BY <3>1 DEF ExchangeReturns
    <3>2. ASSUME NEW answer \in PurchasedAnswers, PurchasedAnswered(r, answer)
          PROVE  \/ \E reply : Answered(r, reply)
                 \/ requests[r].at = "list" /\ requests' = [requests EXCEPT ![r].page = @ + 1]
      BY <3>2 DEF PurchasedAnswered
    <3>3. ASSUME NEW answer \in WishlistAnswers, WishlistAnswered(r, answer)
          PROVE  \E reply : Answered(r, reply)
      BY <3>3 DEF WishlistAnswered
    <3> QED BY <1>8, <3>1, <3>2, <3>3 DEF Handle
  <2>3. CASE \E answer : Answered(r, answer)
    BY <1>4, <2>1, <2>3
  <2>4. CASE requests' = [requests EXCEPT ![r].at = "list"]
    <3>1. requests'[r].at = "list" /\ \A x \in Requests \ {r} : requests'[x] = requests[x]
      BY <1>0, <2>4 DEF Request
    <3> QED BY <2>1, <3>1, ContractRequestStep
  <2>5. CASE requests[r].at = "list" /\ requests' = [requests EXCEPT ![r].page = @ + 1]
    <3>1. requests'[r].at = "list" /\ \A x \in Requests \ {r} : requests'[x] = requests[x]
      BY <1>0, <2>5 DEF Request
    <3> QED BY <2>1, <3>1, ContractRequestStep
  <2> QED BY <2>2, <2>3, <2>4, <2>5
<1>9. ASSUME NEW r \in Requests, Deliver(r) \/ Abort(r)
      PROVE  C!Next \/ UNCHANGED C!vars
  <2>1. runs' = runs /\ requests' = [requests EXCEPT ![r] = Free] /\ Free.at # "exchange"
    BY <1>9 DEF Deliver, Abort, Free
  <2> QED BY <1>2, <2>1
<1>10. ASSUME NEW id \in DOMAIN runs, Exchange(id)
       PROVE  C!Next \/ UNCHANGED C!vars
  BY <1>10, ContractExchangeStep
<1>11. CASE UNCHANGED vars
  <2>1. requests' = requests /\ runs' = runs
    BY <1>11 DEF vars
  <2>2. Exchanges' = Exchanges /\ Waits' = Waits
    BY <2>1 DEF Exchanges, Waits, Running
  <2> QED BY <2>2 DEF C!vars
<1> QED BY <1>5, <1>6, <1>7, <1>8, <1>9, <1>10, <1>11 DEF Next

\* InFlight keeps the contract of CacheContract with a time to live of zero.
THEOREM Refinement == Spec => SharesOnlyRunningExchanges
<1>1. Init => C!Init
  <2> SUFFICES ASSUME Init PROVE C!Init
    OBVIOUS
  <2>1. Exchanges = [i \in {} |-> {}]
    BY DEF Init, Exchanges
  <2>2. Waits = [r \in Requests |-> C!Idle]
    BY DEF Init, Waits, Free, C!Idle
  <2> QED BY <2>1, <2>2 DEF C!Init
<1>2. SignedInInv /\ [Next]_vars => [C!Next]_(C!vars)
  BY ContractStep
<1> QED BY <1>1, <1>2, Invariant, PTL DEF Spec, C!Spec, SharesOnlyRunningExchanges

=============================================================================
