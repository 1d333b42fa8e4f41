------------------------- MODULE HttpServer_proofs -------------------------
(* The invariants of module HttpServer, for every set of connections, every  *)
(* load of requests, every environment, every deadline and every grace       *)
(* period: the lines of the log, the calls and their deadlines, and the      *)
(* answers.                                                                  *)
EXTENDS HttpServer, TLAPS

-----------------------------------------------------------------------------
(* The folds of LineOf: a scope has no span, or the span of one request. *)

LEMMA FoldOfNone ==
    FoldLeft(Merge, NoFields, << >>) = NoFields
<1> DEFINE iter == CHOOSE f : f = [s \in SUBSET {} |->
                       IF s = {} THEN NoFields ELSE Merge(f[s \ {Max(s)}], << >>[Max(s)])]
<1>1. FoldLeft(Merge, NoFields, << >>) = iter[{}]
    BY DEF FoldLeft, MapThenFoldSet
<1>2. \E f : f = [s \in SUBSET {} |-> IF s = {} THEN NoFields ELSE Merge(f[s \ {Max(s)}], << >>[Max(s)])]
    <2>1. [s \in SUBSET {} |-> NoFields] = [s \in SUBSET {} |->
              IF s = {} THEN NoFields ELSE Merge([t \in SUBSET {} |-> NoFields][s \ {Max(s)}], << >>[Max(s)])]
        OBVIOUS
    <2> QED  BY <2>1
<1>3. iter[{}] = NoFields
    BY <1>2
<1> QED  BY <1>1, <1>3

LEMMA MaxOfOne == Max({1}) = 1
<1>1. \E x \in {1} : \A y \in {1} : x >= y
    OBVIOUS
<1> QED  BY <1>1 DEF Max

LEMMA FoldOfOne ==
    ASSUME NEW span
    PROVE  FoldLeft(Merge, NoFields, <<span>>) = Merge(NoFields, span)
<1> DEFINE Step(f, s) == IF s = {} THEN NoFields ELSE Merge(f[s \ {Max(s)}], <<span>>[Max(s)])
           iter == CHOOSE f : f = [s \in SUBSET {1} |-> Step(f, s)]
           fold == [s \in SUBSET {1} |-> IF s = {} THEN NoFields ELSE Merge(NoFields, span)]
<1>1. FoldLeft(Merge, NoFields, <<span>>) = iter[{1}]
    <2>1. DOMAIN <<span>> = {1}
        OBVIOUS
    <2> QED  BY <2>1 DEF FoldLeft, MapThenFoldSet
<1>2. fold = [s \in SUBSET {1} |-> Step(fold, s)]
    <2>1. ASSUME NEW s \in SUBSET {1}  PROVE fold[s] = Step(fold, s)
        <3>1. CASE s = {}
            BY <3>1
        <3>2. CASE s = {1}
            <4>1. Max(s) = 1 /\ s \ {Max(s)} = {} /\ <<span>>[1] = span
                BY <3>2, MaxOfOne
            <4>2. fold[{}] = NoFields /\ fold[s] = Merge(NoFields, span)
                BY <3>2
            <4> QED  BY <3>2, <4>1, <4>2
        <3> QED  BY <3>1, <3>2
    <2> HIDE DEF Step
    <2> QED  BY <2>1
<1>3. iter = [s \in SUBSET {1} |-> Step(iter, s)]
    <2> HIDE DEF Step, fold
    <2> QED  BY <1>2
<1>4. iter[{}] = NoFields
    <2> HIDE DEF iter
    <2> QED  BY <1>3
<1>5. iter[{1}] = Merge(NoFields, span)
    <2> HIDE DEF iter
    <2>1. Max({1}) = 1 /\ {1} \ {1} = {} /\ <<span>>[1] = span
        BY MaxOfOne
    <2>2. iter[{1}] = Step(iter, {1})
        BY <1>3
    <2> QED  BY <1>4, <2>1, <2>2
<1> QED  BY <1>1, <1>5

-----------------------------------------------------------------------------
(* The lines of the log *)

\* A span names its route, and holds nothing beyond the allowlist.
IsSpan(span) == DOMAIN span.kept \subseteq AllowedFields /\ "route" \in DOMAIN span.kept

\* An event that names no request by itself, and no URL if it is the crate's own.
IsReport(e) ==
    /\ "message" \in DOMAIN e.values /\ "route" \notin DOMAIN e.values /\ "request_id" \notin DOMAIN e.values
    /\ IsOwn(e) => e.values.message # "url"

LEMMA AllowedNames ==
    /\ {"message", "status", "route", "request_id", "method"} \subseteq AllowedFields
BY DEF AllowedFields

LEMMA RecordKept ==
    ASSUME NEW fields, NEW values
    PROVE  LET kept == Record(fields, values).kept
               own == DOMAIN values \cap AllowedFields
           IN  /\ DOMAIN kept = own \cup DOMAIN fields.kept
               /\ \A x \in own : kept[x] = values[x]
               /\ \A x \in DOMAIN fields.kept \ own : kept[x] = fields.kept[x]
BY DEF Record, Restrict, Over

LEMMA MergeKept ==
    ASSUME NEW span
    PROVE  LET kept == Merge(NoFields, span).kept
           IN  DOMAIN kept = DOMAIN span.kept /\ \A x \in DOMAIN kept : kept[x] = span.kept[x]
BY DEF Merge, NoFields, Over

\* Outside the spans no line names a route, and the history keeps none.
LEMMA NoLineOutside ==
    ASSUME NEW events, \A e \in events : IsReport(e), NEW about
    PROVE  Lines(events, << >>, about) = {}
<1>1. ASSUME NEW e \in events  PROVE "route" \notin DOMAIN LineOf(<< >>, e).kept
    <2>1. LineOf(<< >>, e) = Record(NoFields, e.values)
        BY FoldOfNone DEF LineOf
    <2>2. "route" \notin DOMAIN e.values /\ DOMAIN NoFields.kept = {}
        BY DEF IsReport, NoFields
    <2> QED  BY <2>1, <2>2, RecordKept
<1> QED  BY <1>1 DEF Lines, Written

\* What a line inside a span says.
SaysAs(line, e, span) ==
    LET kept == line.fields.kept
    IN  /\ DOMAIN kept \subseteq AllowedFields
        /\ IsWritten(e)
        /\ \A x \in DOMAIN e.values \cap AllowedFields : x \in DOMAIN kept /\ kept[x] = e.values[x]
        /\ "route" \in DOMAIN kept /\ kept.route = span.kept.route
        /\ "request_id" \in DOMAIN kept =>
               "request_id" \in DOMAIN span.kept /\ kept.request_id = span.kept.request_id

LEMMA LineInside ==
    ASSUME NEW span, IsSpan(span), NEW e, IsReport(e), IsWritten(e), NEW about
    PROVE  /\ SaysAs([fields |-> LineOf(<<span>>, e), about |-> about], e, span)
           /\ [fields |-> LineOf(<<span>>, e), about |-> about] \in Lines({e}, <<span>>, about)
<1>1. LineOf(<<span>>, e) = Record(Merge(NoFields, span), e.values)
    BY FoldOfOne DEF LineOf
<1> DEFINE fields == LineOf(<<span>>, e)
<1>2. /\ DOMAIN fields.kept = (DOMAIN e.values \cap AllowedFields) \cup DOMAIN span.kept
      /\ \A x \in DOMAIN e.values \cap AllowedFields : fields.kept[x] = e.values[x]
      /\ \A x \in DOMAIN span.kept \ (DOMAIN e.values \cap AllowedFields) : fields.kept[x] = span.kept[x]
    BY <1>1, RecordKept, MergeKept
<1> HIDE DEF fields
<1>3. "route" \in DOMAIN fields.kept
    BY <1>2 DEF IsSpan
<1>4. SaysAs([fields |-> fields, about |-> about], e, span)
    BY <1>2 DEF SaysAs, IsSpan, IsReport
<1>5. [fields |-> fields, about |-> about] \in Lines({e}, <<span>>, about)
    BY <1>3 DEF Lines, Written, fields
<1> QED  BY <1>4, <1>5 DEF fields

LEMMA LinesInside ==
    ASSUME NEW span, IsSpan(span), NEW events, \A e \in events : IsReport(e), NEW about,
           NEW line \in Lines(events, <<span>>, about)
    PROVE  \E e \in events : line.about = about /\ SaysAs(line, e, span)
<1>1. PICK e \in events : IsWritten(e) /\ line = [fields |-> LineOf(<<span>>, e), about |-> about]
    BY DEF Lines, Written
<1>2. SaysAs(line, e, span)
    BY <1>1, LineInside
<1> QED  BY <1>1, <1>2

\* The statuses that the completed lines of a request tell.
Statuses(lines, s) ==
    {line.fields.kept.status : line \in {x \in lines : x.about = {s} /\ x.fields.kept.message = "completed"}}

LEMMA StatusesOfUnion ==
    ASSUME NEW a, NEW b, NEW s
    PROVE  Statuses(a \cup b, s) = Statuses(a, s) \cup Statuses(b, s)
BY DEF Statuses

LEMMA StatusesOfCompleted ==
    ASSUME NEW span, IsSpan(span), NEW s, NEW response
    PROVE  Statuses(Lines({CompletedWith(response)}, <<span>>, {s}), s) = {response.status}
<1> DEFINE e == CompletedWith(response)
           line == [fields |-> LineOf(<<span>>, e), about |-> {s}]
<1>1. /\ IsReport(e) /\ IsWritten(e)
      /\ e.values.message = "completed" /\ e.values.status = response.status
      /\ {"message", "status"} \subseteq DOMAIN e.values
    BY DEF CompletedWith, Event, IsReport, IsOwn, IsWritten
<1> HIDE DEF e
<1>2. SaysAs(line, e, span) /\ line \in Lines({e}, <<span>>, {s})
    BY <1>1, LineInside
<1>3. ASSUME NEW x \in Lines({e}, <<span>>, {s})
      PROVE  x.about = {s} /\ x.fields.kept.message = "completed" /\ x.fields.kept.status = response.status
    <2>1. x.about = {s} /\ SaysAs(x, e, span)
        BY <1>1, LinesInside
    <2> QED  BY <1>1, <2>1, AllowedNames DEF SaysAs
<1> HIDE DEF line
<1>4. Statuses(Lines({e}, <<span>>, {s}), s) = {response.status}
    BY <1>2, <1>3 DEF Statuses
<1> QED  BY <1>4 DEF e

LEMMA StatusesOfOthers ==
    ASSUME NEW span, IsSpan(span), NEW events, NEW about, NEW s,
           \A e \in events : IsReport(e) /\ (IsWritten(e) /\ about = {s} => e.values.message # "completed")
    PROVE  Statuses(Lines(events, <<span>>, about), s) = {}
<1>1. ASSUME NEW x \in Lines(events, <<span>>, about), x.about = {s}
      PROVE  x.fields.kept.message # "completed"
    <2>1. PICK e \in events : x.about = about /\ SaysAs(x, e, span)
        BY LinesInside
    <2> QED  BY <1>1, <2>1, AllowedNames DEF SaysAs, IsReport
<1> QED  BY <1>1 DEF Statuses

-----------------------------------------------------------------------------
(* The parameters of a page *)

LEMMA IntegerInRange ==
    ASSUME NEW text, NEW min \in Int, NEW max \in Int, IntegerIn(text, min, max).valid
    PROVE  IntegerIn(text, min, max).value \in min..max
<1> DEFINE values == {n \in JsNumber(text) : n \in min..max /\ n <= MaxSafeInteger}
<1>1. values # {} /\ IntegerIn(text, min, max).value = CHOOSE n \in values : TRUE
    BY DEF IntegerIn, Invalid, Valid
<1>2. (CHOOSE n \in values : TRUE) \in values
    BY <1>1
<1> QED  BY <1>1, <1>2

Numbers == {MaxSafeInteger, DefaultPageSize, MaxPageSize, SearchMaxPageSize}

LEMMA NumbersAreNat == \A n \in Numbers : n \in Nat \ {0}
BY QueryParamsAssumption DEF Numbers

LEMMA EmptySuffix ==
    ASSUME NEW S, NEW w \in Seq(S)
    PROVE  w \o << >> = w
OBVIOUS

LEMMA DigitsBelowTen ==
    ASSUME NEW w \in Seq(0..9)
    PROVE  AllBelow(w, 10)
BY DEF AllBelow

LEMMA NothingSubtracted ==
    ASSUME NEW e, NEW n, e = 0, n = 0
    PROVE  e - n = 0
OBVIOUS

LEMMA LengthOfNone == Len(<< >>) = 0
OBVIOUS

LEMMA BelowMax ==
    ASSUME NEW n, NEW min \in Nat, NEW max \in Nat, n \in min..max, max <= MaxSafeInteger
    PROVE  n <= MaxSafeInteger
BY NumbersAreNat DEF Numbers

LEMMA NotShifted ==
    ASSUME NEW n
    PROVE  Shifted(n, 0) = {n}
BY DEF Shifted

\* A number in its documented form is read as it is.
LEMMA DocumentedIsRead ==
    ASSUME NEW text, text.word = "digits", text.radix = 10, text.sign = "", text.whole \in Seq(0..9) \ {<< >>},
           text.fraction = << >>, text.exponent = 0,
           NEW min \in Nat, NEW max \in Nat, max <= MaxSafeInteger, Horner(text.whole, 10) \in min..max
    PROVE  IntegerIn(text, min, max).valid
<1> DEFINE n == Horner(text.whole, 10)
<1>1. text.whole \o << >> = text.whole /\ text.whole # << >>
    BY EmptySuffix
<1>2. AllBelow(text.whole, 10)
    BY DigitsBelowTen
<1>3. text.exponent - Len(text.fraction) = 0
    <2>1. Len(text.fraction) = 0
        BY LengthOfNone
    <2> QED  BY <2>1, NothingSubtracted
<1>4. JsNumber(text) = DecimalNumber(text)
    BY DEF JsNumber
<1>5. DecimalNumber(text) = Shifted(n, 0)
    <2>1. {m \in {text.whole \o text.fraction} : m # << >> /\ AllBelow(m, 10)} = {text.whole}
        BY <1>1, <1>2
    <2>2. Signed(text.sign, n) = n
        BY DEF Signed
    <2> HIDE DEF n
    <2>3. DecimalNumber(text) = UNION {Shifted(Signed(text.sign, Horner(m, 10)), 0) : m \in {text.whole}}
        BY <1>3, <2>1 DEF DecimalNumber
    <2> QED  BY <2>2, <2>3 DEF n
<1>6. Shifted(n, 0) = {n}
    BY NotShifted
<1> HIDE DEF n
<1>7. n \in {k \in JsNumber(text) : k \in min..max /\ k <= MaxSafeInteger}
    <2>1. n \in min..max
        BY DEF n
    <2>2. JsNumber(text) = {n}
        BY <1>4, <1>5, <1>6
    <2>3. n <= MaxSafeInteger
        BY <2>1, BelowMax
    <2> QED  BY <2>1, <2>2, <2>3
<1> QED  BY <1>7 DEF IntegerIn, Valid

LEMMA SizeInRange ==
    ASSUME NEW query, NEW max \in Nat, NEW default \in 1..max, Size(query, default, max).valid
    PROVE  Size(query, default, max).value \in 1..max
<1>1. CASE Size(query, default, max) = Valid(default)
    BY <1>1 DEF Valid
<1>2. CASE Size(query, default, max) = Invalid
    BY <1>2 DEF Invalid
<1>3. CASE \E text : Size(query, default, max) = IntegerIn(text, 1, max)
    BY <1>3, IntegerInRange
<1> QED  BY <1>1, <1>2, <1>3 DEF Size, Single

LEMMA OffsetInRange ==
    ASSUME NEW query, Offset(query).valid
    PROVE  Offset(query).value \in 0..MaxSafeInteger
<1>0. MaxSafeInteger \in Nat
    BY NumbersAreNat DEF Numbers
<1>1. CASE Offset(query) = Valid(0)
    BY <1>0, <1>1 DEF Valid
<1>2. CASE Offset(query) = Invalid
    BY <1>2 DEF Invalid
<1>3. CASE \E text : Offset(query) = IntegerIn(text, 0, MaxSafeInteger)
    BY <1>0, <1>3, IntegerInRange
<1> QED  BY <1>1, <1>2, <1>3 DEF Offset, Single

LEMMA PageInRange ==
    ASSUME NEW query, NEW max \in Nat, NEW default \in 1..max, Page(query, default, max).valid
    PROVE  /\ Page(query, default, max).value.offset \in 0..MaxSafeInteger
           /\ Page(query, default, max).value.size \in 1..max
BY SizeInRange, OffsetInRange DEF Page, Valid, Invalid

LEMMA RefusedOffset ==
    ASSUME NEW query, ~Offset(query).valid
    PROVE  HasUndocumentedPage(query)
<1> DEFINE positions == PositionsOf(query, "offset")
<1>0. MaxSafeInteger \in Nat /\ MaxSafeInteger <= MaxSafeInteger
    BY NumbersAreNat DEF Numbers
<1>1. positions # {}
    BY DEF Offset, Single, Valid
<1>2. PICK k \in positions : TRUE
    BY <1>1
<1>3. k \in DOMAIN query /\ query[k][1] = "offset"
    BY <1>2 DEF PositionsOf
<1>4. ASSUME positions = {k}, IsDocumented(query[k])  PROVE FALSE
    <2>1. Offset(query) = IntegerIn(query[k][2], 0, MaxSafeInteger)
        BY <1>4 DEF Offset, Single
    <2>2. IntegerIn(query[k][2], 0, MaxSafeInteger).valid
        BY <1>0, <1>3, <1>4, DocumentedIsRead DEF IsDocumented
    <2> QED  BY <2>1, <2>2
<1> QED  BY <1>3, <1>4 DEF HasUndocumentedPage

LEMMA RefusedSize ==
    ASSUME NEW query, ~Size(query, DefaultPageSize, MaxPageSize).valid
    PROVE  HasUndocumentedPage(query)
<1> DEFINE positions == PositionsOf(query, "size")
<1>0. MaxPageSize \in Nat /\ MaxPageSize <= MaxSafeInteger
    BY QueryParamsAssumption
<1>1. positions # {}
    BY DEF Size, Single, Valid
<1>2. PICK k \in positions : TRUE
    BY <1>1
<1>3. k \in DOMAIN query /\ query[k][1] = "size"
    BY <1>2 DEF PositionsOf
<1>4. ASSUME positions = {k}, IsDocumented(query[k])  PROVE FALSE
    <2>1. Size(query, DefaultPageSize, MaxPageSize) = IntegerIn(query[k][2], 1, MaxPageSize)
        BY <1>4 DEF Size, Single
    <2>2. IntegerIn(query[k][2], 1, MaxPageSize).valid
        BY <1>0, <1>3, <1>4, DocumentedIsRead DEF IsDocumented
    <2> QED  BY <2>1, <2>2
<1> QED  BY <1>3, <1>4 DEF HasUndocumentedPage

LEMMA RefusedPage ==
    ASSUME NEW query, ~Pagination(query).valid
    PROVE  HasUndocumentedPage(query)
BY RefusedOffset, RefusedSize DEF Pagination, Page, Valid

\* The page that a handler passes on.
LEMMA ListPageInRange ==
    ASSUME NEW list \in PublicLists, NEW query, ListPage(list, query).valid
    PROVE  AsksForAPage([service |-> list, page |-> ListPage(list, query)])
<1>0. /\ DefaultPageSize \in 1..MaxPageSize /\ MaxPageSize \in Nat
      /\ SearchMaxPageSize \in 1..SearchMaxPageSize /\ SearchMaxPageSize \in Nat
    BY QueryParamsAssumption
<1>1. CASE list = "genres"
    BY <1>1 DEF AsksForAPage
<1>2. CASE list = "search"
    <2>1. ListPage(list, query) = Page(query, SearchMaxPageSize, SearchMaxPageSize)
        BY <1>2 DEF ListPage, Search, Invalid
    <2> QED  BY <1>0, <1>2, <2>1, PageInRange DEF AsksForAPage
<1>3. CASE list \notin {"genres", "search"}
    <2>1. ListPage(list, query) = Page(query, DefaultPageSize, MaxPageSize)
        BY <1>3 DEF ListPage, Browse, Pagination, Invalid
    <2> QED  BY <1>0, <1>3, <2>1, PageInRange DEF AsksForAPage
<1> QED  BY <1>1, <1>2, <1>3

-----------------------------------------------------------------------------
(* The answers of the handlers *)

\* An answer has every part of a response, and a kind of its own.
ResponseParts == {"status", "kind", "code", "cookie", "cache", "commit", "secure"}
IsAnswer(answer) == DOMAIN answer = ResponseParts /\ answer.kind # "none"

Codes == {"invalid_request", "not_found", "game_not_found", "session_rejected", "unsupported_media_type",
          "payload_too_large", "upstream_unavailable", "upstream_query_rotated", "upstream_rate_limited",
          "internal_error"}

IsGood(request, services, answer) == IsAnswer(answer) /\ FollowsTheContract(request, services, answer)

LEMMA ProblemParts ==
    ASSUME NEW code
    PROVE  /\ DOMAIN Problem(code) = ResponseParts
           /\ Problem(code).kind = "problem" /\ Problem(code).code = code
           /\ Problem(code).status = StatusOf(code) /\ Problem(code).cookie = "kept"
BY DEF Problem, Response, ResponseParts

\* A problem follows the contract of every request, if it is no refusal of a
\* documented page and its cookie may be cleared.
LEMMA ProblemIsGood ==
    ASSUME NEW request, NEW services, NEW code, NEW answer, DOMAIN answer = ResponseParts,
           answer.kind = "problem", answer.code = code, answer.status = StatusOf(code),
           code = "invalid_request" /\ RouteOf(request.path) \in PagedRoutes => HasUndocumentedPage(request.query),
           answer.cookie = "cleared" => MayClearCookie(request, services)
    PROVE  IsGood(request, services, answer)
BY DEF IsGood, IsAnswer, FollowsTheContract, IsApiAnswer

LEMMA KeptProblemIsGood ==
    ASSUME NEW request, NEW services, NEW code,
           code = "invalid_request" /\ RouteOf(request.path) \in PagedRoutes => HasUndocumentedPage(request.query)
    PROVE  IsGood(request, services, Problem(code))
BY ProblemParts, ProblemIsGood

LEMMA SuccessBelow400 == ~(200 >= 400) /\ ~(204 >= 400)
OBVIOUS

\* An answer without a body of a file, and below 400 where the path is one of the API.
LEMMA PlainIsGood ==
    ASSUME NEW request, NEW services, NEW answer, DOMAIN answer = ResponseParts,
           answer.kind \in {"json", "empty", "file"}, answer.code = "",
           BelowApi(request) => answer.status \in {200, 204} /\ answer.kind # "file",
           answer.cookie = "cleared" => MayClearCookie(request, services)
    PROVE  IsGood(request, services, answer)
    BY SuccessBelow400 DEF IsGood, IsAnswer, FollowsTheContract, IsApiAnswer

LEMMA FirstOfPrefix ==
    ASSUME NEW S, NEW path \in Seq(S), Len(path) = 3, NEW a, NEW b, SubSeq(path, 1, 2) = <<a, b>>
    PROVE  path # << >> /\ path[1] = a
<1>1. SubSeq(path, 1, 2) = [i \in 1..2 |-> path[i]]
    OBVIOUS
<1>2. SubSeq(path, 1, 2)[1] = path[1]
    BY <1>1
<1>3. <<a, b>>[1] = a
    OBVIOUS
<1>4. path # << >>
    BY LengthOfNone
<1> QED  BY <1>2, <1>3, <1>4

\* Every route but the probes, the session and the static one is below /api.
LEMMA RouteFacts ==
    ASSUME NEW path \in Seq(STRING)
    PROVE  /\ RouteOf(path) \in Operational => path # << >> /\ path[1] \notin {"api", "assets"}
           /\ RouteOf(path) \notin Operational \cup {"static"} => path # << >> /\ path[1] = "api"
           /\ RouteOf(path) \in Operational \cup {"static", "session", "game"} \cup PublicLists \cup SignedInLists
<1>1. CASE path \in {<<"healthz">>, <<"readyz">>, <<"version">>}
    <2>1. RouteOf(path) = Head(path)
        BY <1>1 DEF RouteOf
    <2>2. Head(path) = path[1] /\ path # << >> /\ path[1] \in Operational
        BY <1>1 DEF Operational
    <2> QED  BY <2>1, <2>2 DEF Operational
<1>2. CASE path = <<"api", "session">>
    <2>1. RouteOf(path) = "session"
        BY <1>2 DEF RouteOf
    <2>2. path # << >> /\ path[1] = "api"
        BY <1>2
    <2> QED  BY <2>1, <2>2 DEF Operational
<1>3. CASE Len(path) = 3 /\ SubSeq(path, 1, 2) = <<"api", "games">>
    <2>1. path # << >> /\ path[1] = "api"
        BY <1>3, FirstOfPrefix
    <2>2. RouteOf(path) \in PublicLists \cup SignedInLists \cup {"game"}
        BY <1>3 DEF RouteOf
    <2> QED  BY <2>1, <2>2 DEF Operational, PublicLists, SignedInLists
<1>4. CASE ~(path \in {<<"healthz">>, <<"readyz">>, <<"version">>} \/ path = <<"api", "session">>
             \/ (Len(path) = 3 /\ SubSeq(path, 1, 2) = <<"api", "games">>))
    <2>1. RouteOf(path) = "static"
        BY <1>4 DEF RouteOf
    <2> QED  BY <2>1 DEF Operational
<1> QED  BY <1>1, <1>2, <1>3, <1>4

LEMMA SiteIsGood ==
    ASSUME NEW request, IsRequest(request), ~BelowApi(request), NEW services, NEW build
    PROVE  IsGood(request, services, SiteAnswer(request, build))
<1> DEFINE path == request.path
<1>1. ASSUME NEW status, NEW kind, kind \in {"file", "empty"}
      PROVE  IsGood(request, services, Response(status, kind))
    <2>1. /\ DOMAIN Response(status, kind) = ResponseParts /\ Response(status, kind).kind = kind
          /\ Response(status, kind).code = "" /\ Response(status, kind).cookie = "kept"
        BY DEF Response, ResponseParts
    <2> QED  BY <1>1, <2>1, PlainIsGood
<1>2. IsGood(request, services, NoCache("file"))
    <2>1. /\ DOMAIN NoCache("file") = ResponseParts /\ NoCache("file").kind = "file"
          /\ NoCache("file").code = "" /\ NoCache("file").cookie = "kept"
        BY DEF NoCache, Response, ResponseParts
    <2> QED  BY <2>1, PlainIsGood
<1>3. ASSUME MayServeIndex(request, NoCache("index"))  PROVE IsGood(request, services, NoCache("index"))
    <2>1. /\ DOMAIN NoCache("index") = ResponseParts /\ NoCache("index").kind = "index"
          /\ NoCache("index").code = "" /\ NoCache("index").cookie = "kept"
        BY DEF NoCache, Response, ResponseParts
    <2> QED  BY <1>3, <2>1 DEF IsGood, IsAnswer, FollowsTheContract
<1>4. path \in Seq(STRING)
    BY DEF IsRequest
<1>5. CASE ~IsRead(request)
    BY <1>1, <1>5 DEF SiteAnswer, Empty404
<1>6. CASE IsRead(request) /\ Under("assets", path)
    BY <1>1, <1>6 DEF SiteAnswer, AssetAnswer, Empty404
<1>7. CASE IsRead(request) /\ ~Under("assets", path)
    <2> DEFINE file == IF path = << >> THEN Index ELSE path
    <2>1. path # << >> => path[1] # "assets"
        <3>1. path # << >> => Head(path) = path[1]
            BY <1>4
        <3> QED  BY <1>7, <3>1 DEF Under
    <2>2. NoCache("index").cache = "no-cache"
        BY DEF NoCache, Response
    <2>3. ASSUME path = Index \/ ~HasExtension(path)
          PROVE  IsGood(request, services, NoCache("index"))
        BY <1>3, <1>7, <2>1, <2>2, <2>3 DEF MayServeIndex
    <2>4. SiteAnswer(request, build) = FileAnswer(request, build)
        BY <1>7 DEF SiteAnswer
    <2>5. CASE file \in build /\ file = Index
        <3>1. FileAnswer(request, build) = NoCache("index")
            BY <2>5 DEF FileAnswer
        <3>2. path = Index \/ ~HasExtension(path)
            BY <2>5 DEF HasExtension
        <3> QED  BY <2>3, <2>4, <3>1, <3>2
    <2>6. CASE file \in build /\ file # Index
        <3>1. FileAnswer(request, build) = NoCache("file")
            BY <2>6 DEF FileAnswer
        <3> QED  BY <1>2, <2>4, <3>1
    <2>7. CASE file \notin build /\ ~HasExtension(file) /\ request.html /\ Index \in build
        <3>1. FileAnswer(request, build) = NoCache("index")
            BY <2>7 DEF FileAnswer
        <3>2. ~HasExtension(path)
            BY <2>7 DEF HasExtension
        <3> QED  BY <2>3, <2>4, <3>1, <3>2
    <2>8. CASE file \notin build /\ ~(~HasExtension(file) /\ request.html /\ Index \in build)
        <3>1. FileAnswer(request, build) = Empty404
            BY <2>8 DEF FileAnswer
        <3> QED  BY <1>1, <2>4, <3>1 DEF Empty404
    <2> QED  BY <2>5, <2>6, <2>7, <2>8
<1> QED  BY <1>5, <1>6, <1>7

LEMMA FallbackIsGood ==
    ASSUME NEW request, IsRequest(request), RouteOf(request.path) \notin PagedRoutes, NEW services, NEW build
    PROVE  IsGood(request, services, Fallback(request, build))
<1>1. CASE IsApiPath(request.path)
    BY <1>1, KeptProblemIsGood DEF Fallback
<1>2. CASE ~IsApiPath(request.path)
    <2>1. request.path # << >> => Head(request.path) = request.path[1]
        BY DEF IsRequest
    <2>2. ~BelowApi(request)
        BY <1>2, <2>1 DEF IsApiPath, Under, BelowApi
    <2> QED  BY <1>2, <2>2, SiteIsGood DEF Fallback
<1> QED  BY <1>1, <1>2

\* A call that a handler may make.
IsAsked(request, call) ==
    /\ DOMAIN call = {"service", "page"} /\ call.service \in AllServices
    /\ BelowApi(request) /\ AsksForAPage(call)
    /\ call.service \in SignedInLists => request.cookie = "npsso"

IsHandled(request, services, handled) ==
    \/ handled.call = NoCall /\ IsGood(request, services, handled.response)
    \/ IsAsked(request, handled.call)

LEMMA AnsweredIsHandled ==
    ASSUME NEW request, NEW services, NEW response, IsGood(request, services, response)
    PROVE  IsHandled(request, services, Answers(response))
BY DEF IsHandled, Answers

LEMMA RefusedIsHandled ==
    ASSUME NEW request, NEW services, NEW code, code # "invalid_request"
    PROVE  IsHandled(request, services, Answers(Problem(code)))
BY KeptProblemIsGood, AnsweredIsHandled

LEMMA AskedIsHandled ==
    ASSUME NEW request, BelowApi(request), NEW services, NEW service \in AllServices, NEW page,
           service \in SignedInLists => request.cookie = "npsso", AsksForAPage([service |-> service, page |-> page])
    PROVE  IsHandled(request, services, Calls(service, page))
<1>1. Calls(service, page).call = [service |-> service, page |-> page]
    BY DEF Calls
<1>2. IsAsked(request, [service |-> service, page |-> page])
    BY DEF IsAsked
<1> QED  BY <1>1, <1>2 DEF IsHandled

LEMMA ListIsHandled ==
    ASSUME NEW request, BelowApi(request), NEW services, NEW list \in PublicLists, RouteOf(request.path) = list
    PROVE  IsHandled(request, services, ListHandler(list, request))
<1> DEFINE page == ListPage(list, request.query)
<1>1. CASE page.valid
    <2>1. AsksForAPage([service |-> list, page |-> page])
        BY <1>1, ListPageInRange
    <2>2. list \in AllServices /\ list \notin SignedInLists
        BY DEF AllServices, SharedServices, OwnServices, SignedInLists, PublicLists
    <2>3. ListHandler(list, request) = Calls(list, page)
        BY <1>1 DEF ListHandler
    <2> HIDE DEF page
    <2> QED  BY <2>1, <2>2, <2>3, AskedIsHandled
<1>2. CASE ~page.valid
    <2>1. list \in PagedRoutes => HasUndocumentedPage(request.query)
        <3>1. ASSUME list \in PagedRoutes  PROVE page = Pagination(request.query)
            BY <3>1 DEF PagedRoutes, ListPage
        <3> HIDE DEF page
        <3> QED  BY <1>2, <3>1, RefusedPage
    <2>2. IsGood(request, services, Problem("invalid_request"))
        BY <2>1, KeptProblemIsGood
    <2>3. ListHandler(list, request) = Answers(Problem("invalid_request"))
        BY <1>2 DEF ListHandler
    <2> QED  BY <2>2, <2>3, AnsweredIsHandled
<1> QED  BY <1>1, <1>2

\* An answer that is not a problem: a success without a body, below /api too.
LEMMA SuccessIsGood ==
    ASSUME NEW request, NEW services, NEW cookie, NEW commit, cookie = "cleared" => MayClearCookie(request, services)
    PROVE  /\ IsGood(request, services, [Ok EXCEPT !.commit = commit])
           /\ IsGood(request, services, Ok)
           /\ IsGood(request, services, [NoContent EXCEPT !.cookie = cookie])
<1>1. ASSUME NEW answer, DOMAIN answer = ResponseParts, answer.code = "",
             \/ answer.status = 200 /\ answer.kind = "json" /\ answer.cookie = "kept"
             \/ answer.status = 204 /\ answer.kind = "empty" /\ answer.cookie = cookie
      PROVE  IsGood(request, services, answer)
    <2>1. answer.kind \in {"json", "empty", "file"}
        BY <1>1
    <2>2. BelowApi(request) => answer.status \in {200, 204} /\ answer.kind # "file"
        BY <1>1
    <2>3. answer.cookie = "cleared" => MayClearCookie(request, services)
        BY <1>1
    <2>4. DOMAIN answer = ResponseParts /\ answer.code = ""
        BY <1>1
    <2> QED  BY <2>1, <2>2, <2>3, <2>4, PlainIsGood, Zenon
<1>2. LET answer == [Ok EXCEPT !.commit = commit]
      IN  /\ DOMAIN answer = ResponseParts /\ answer.code = ""
          /\ answer.status = 200 /\ answer.kind = "json" /\ answer.cookie = "kept"
    BY DEF Ok, Response, ResponseParts
<1>3. /\ DOMAIN Ok = ResponseParts /\ Ok.code = ""
      /\ Ok.status = 200 /\ Ok.kind = "json" /\ Ok.cookie = "kept"
    BY DEF Ok, Response, ResponseParts
<1>4. LET answer == [NoContent EXCEPT !.cookie = cookie]
      IN  /\ DOMAIN answer = ResponseParts /\ answer.code = ""
          /\ answer.status = 204 /\ answer.kind = "empty" /\ answer.cookie = cookie
    BY DEF NoContent, Response, ResponseParts
<1> QED  BY <1>1, <1>2, <1>3, <1>4

LEMMA OkIsGood ==
    ASSUME NEW request, NEW services
    PROVE  IsGood(request, services, Ok)
<1>1. "kept" = "cleared" => MayClearCookie(request, services)
    OBVIOUS
<1> QED  BY <1>1, SuccessIsGood

LEMMA NoContentIsGood ==
    ASSUME NEW request, NEW services, NEW cookie, cookie = "cleared" => MayClearCookie(request, services)
    PROVE  IsGood(request, services, [NoContent EXCEPT !.cookie = cookie])
<1>1. \A commit : IsGood(request, services, [NoContent EXCEPT !.cookie = cookie])
    BY SuccessIsGood
<1> QED  BY <1>1

LEMMA SignInIsHandled ==
    ASSUME NEW request, IsRequest(request), RouteOf(request.path) = "session", BelowApi(request), NEW services
    PROVE  IsHandled(request, services, SignIn(request))
<1> DEFINE body == request.body
<1>1. IsHandled(request, services, Answers(Problem("invalid_request")))
    <2>1. RouteOf(request.path) \notin PagedRoutes
        BY DEF PagedRoutes
    <2> QED  BY <2>1, KeptProblemIsGood, AnsweredIsHandled
<1>2. IsHandled(request, services, Calls("sign_in", Invalid))
    <2>1. "sign_in" \in AllServices /\ "sign_in" \notin SignedInLists
        BY DEF AllServices, OwnServices, AccountServices, SignedInLists
    <2>2. AsksForAPage([service |-> "sign_in", page |-> Invalid])
        BY DEF AsksForAPage, PublicLists
    <2> QED  BY <2>1, <2>2, AskedIsHandled
<1>3. body.size \in {"fits", "tooLarge", "unreadable"}
    BY DEF IsRequest
<1>4. CASE body.size = "tooLarge"
    <2>1. SignIn(request) = Answers(Problem("payload_too_large"))
        BY <1>4 DEF SignIn
    <2> QED  BY <2>1, RefusedIsHandled
<1>5. CASE body.size = "unreadable"
    <2>1. SignIn(request) = Answers(Problem("invalid_request"))
        BY <1>5 DEF SignIn
    <2> QED  BY <1>1, <2>1
<1>6. CASE body.size = "fits" /\ body.media = "other"
    <2>1. SignIn(request) = Answers(Problem("unsupported_media_type"))
        BY <1>6 DEF SignIn
    <2> QED  BY <2>1, RefusedIsHandled
<1>7. CASE body.size = "fits" /\ body.media # "other"
    <2>1. SignIn(request) = IF body.valid THEN Calls("sign_in", Invalid) ELSE Answers(Problem("invalid_request"))
        BY <1>7 DEF SignIn
    <2> QED  BY <1>1, <1>2, <2>1
<1> QED  BY <1>3, <1>4, <1>5, <1>6, <1>7

LEMMA SignedInIsHandled ==
    ASSUME NEW request, BelowApi(request), NEW services, NEW list \in SignedInLists
    PROVE  IsHandled(request, services, SignedInHandler(list, request))
<1>1. CASE request.cookie = "npsso"
    <2>1. list \in AllServices /\ AsksForAPage([service |-> list, page |-> Invalid])
        BY DEF AllServices, OwnServices, AccountServices, SignedInLists, AsksForAPage, PublicLists
    <2>2. SignedInHandler(list, request) = Calls(list, Invalid)
        BY <1>1 DEF SignedInHandler
    <2> QED  BY <1>1, <2>1, <2>2, AskedIsHandled
<1>2. CASE request.cookie # "npsso"
    <2>1. SignedInHandler(list, request) = Answers(Problem("session_rejected"))
        BY <1>2 DEF SignedInHandler
    <2> QED  BY <2>1, RefusedIsHandled
<1> QED  BY <1>1, <1>2

LEMMA GameIsHandled ==
    ASSUME NEW request, BelowApi(request), RouteOf(request.path) = "game", NEW services
    PROVE  IsHandled(request, services, GameHandler(request))
<1>1. IsHandled(request, services, Calls("game", Invalid))
    <2>1. "game" \in AllServices /\ "game" \notin SignedInLists
        BY DEF AllServices, SharedServices, SignedInLists
    <2>2. AsksForAPage([service |-> "game", page |-> Invalid])
        BY DEF AsksForAPage, PublicLists
    <2> QED  BY <2>1, <2>2, AskedIsHandled
<1>2. IsHandled(request, services, Answers(Problem("invalid_request")))
    <2>1. RouteOf(request.path) \notin PagedRoutes
        BY DEF PagedRoutes
    <2> QED  BY <2>1, KeptProblemIsGood, AnsweredIsHandled
<1> QED  BY <1>1, <1>2 DEF GameHandler

\* The router gives every request an answer that follows the contract, or a
\* call that may be made.
LEMMA DispatchIsHandled ==
    ASSUME NEW request, IsRequest(request), request.slashes = 0, NEW services
    PROVE  IsHandled(request, services, Dispatch(request, services))
<1> DEFINE route == RouteOf(request.path)
           handled == Dispatch(request, services)
<1>1. /\ route \in Operational => ~BelowApi(request)
      /\ route \notin Operational \cup {"static"} => BelowApi(request)
      /\ route \in Operational \cup {"static", "session", "game"} \cup PublicLists \cup SignedInLists
    BY RouteFacts DEF IsRequest, BelowApi
<1>2. ~(request.slashes > 0 /\ request.path # << >>)
    <2>1. ~(0 > 0)
        OBVIOUS
    <2> QED  BY <2>1
<1>3. CASE route \in Operational
    <2>1. handled = Answers(IF IsRead(request) THEN OperationalAnswer(route, services) ELSE Empty404)
        <3>1. route \notin {"session", "static"}
            BY <1>3 DEF Operational
        <3> QED  BY <1>2, <1>3, <3>1 DEF Dispatch
    <2>2. IsGood(request, services, OperationalAnswer(route, services))
        BY SuccessIsGood DEF OperationalAnswer
    <2>3. IsGood(request, services, Empty404)
        <3>1. /\ DOMAIN Empty404 = ResponseParts /\ Empty404.kind = "empty"
              /\ Empty404.code = "" /\ Empty404.cookie = "kept"
            BY DEF Empty404, Response, ResponseParts
        <3> QED  BY <1>1, <1>3, <3>1, PlainIsGood
    <2> QED  BY <2>1, <2>2, <2>3, AnsweredIsHandled
<1>4. CASE route = "session"
    <2>1. BelowApi(request) /\ route \notin Operational
        BY <1>1, <1>4 DEF Operational
    <2>2. CASE request.method = "POST"
        <3>1. handled = SignIn(request)
            BY <1>2, <1>4, <2>1, <2>2 DEF Dispatch
        <3> QED  BY <1>4, <2>1, <3>1, SignInIsHandled
    <2>3. CASE request.method = "DELETE"
        <3>1. handled = Answers([NoContent EXCEPT !.cookie = "cleared"])
            BY <1>2, <1>4, <2>1, <2>3 DEF Dispatch, SignOut
        <3>2. IsGood(request, services, [NoContent EXCEPT !.cookie = "cleared"])
            BY <2>3, NoContentIsGood DEF MayClearCookie
        <3> QED  BY <3>1, <3>2, AnsweredIsHandled
    <2>4. CASE request.method \notin {"POST", "DELETE"}
        <3>1. handled = Answers(Problem("not_found"))
            BY <1>2, <1>4, <2>1, <2>4 DEF Dispatch
        <3> QED  BY <3>1, RefusedIsHandled
    <2> QED  BY <2>2, <2>3, <2>4
<1>5. CASE route = "static"
    <2>1. handled = Answers(Fallback(request, services.build))
        BY <1>2, <1>5 DEF Dispatch, Operational
    <2>2. IsGood(request, services, Fallback(request, services.build))
        BY <1>5, FallbackIsGood DEF PagedRoutes
    <2> QED  BY <2>1, <2>2, AnsweredIsHandled
<1>6. CASE route \in {"game"} \cup PublicLists \cup SignedInLists
    <2>1. /\ route \notin Operational \cup {"static", "session"} /\ BelowApi(request)
          /\ route \in PublicLists => route \notin SignedInLists /\ route # "game"
          /\ route \in SignedInLists => route # "game"
        BY <1>1, <1>6 DEF Operational, PublicLists, SignedInLists
    <2>2. CASE ~IsRead(request)
        <3>1. handled = Answers(Problem("not_found"))
            BY <1>2, <2>1, <2>2 DEF Dispatch
        <3> QED  BY <3>1, RefusedIsHandled
    <2>3. CASE IsRead(request) /\ route \in PublicLists
        <3>1. handled = ListHandler(route, request)
            BY <1>2, <2>1, <2>3 DEF Dispatch
        <3> QED  BY <2>1, <2>3, <3>1, ListIsHandled
    <2>4. CASE IsRead(request) /\ route \in SignedInLists
        <3>1. handled = SignedInHandler(route, request)
            BY <1>2, <2>1, <2>4 DEF Dispatch
        <3> QED  BY <2>1, <2>4, <3>1, SignedInIsHandled
    <2>5. CASE IsRead(request) /\ route = "game"
        <3>1. handled = GameHandler(request)
            BY <1>2, <2>1, <2>5 DEF Dispatch
        <3> QED  BY <2>1, <2>5, <3>1, GameIsHandled
    <2> QED  BY <1>6, <2>2, <2>3, <2>4, <2>5
<1> QED  BY <1>1, <1>3, <1>4, <1>5, <1>6

LEMMA TrimKeeps ==
    ASSUME NEW request, IsRequest(request), NEW services
    PROVE  LET trimmed == TrimTrailingSlash(request) IN
           /\ IsRequest(trimmed) /\ trimmed.slashes = 0 /\ trimmed.path = request.path
           /\ trimmed.query = request.query /\ trimmed.method = request.method /\ trimmed.cookie = request.cookie
BY DEF TrimTrailingSlash, IsRequest

\* What the handlers do with a request, trailing slashes included.
LEMMA HandleIsHandled ==
    ASSUME NEW request, IsRequest(request), NEW services
    PROVE  IsHandled(request, services, Handle(request, services))
<1> DEFINE trimmed == TrimTrailingSlash(request)
           handled == Dispatch(trimmed, services)
<1>1. /\ IsRequest(trimmed) /\ trimmed.slashes = 0 /\ trimmed.path = request.path
      /\ trimmed.query = request.query /\ trimmed.method = request.method /\ trimmed.cookie = request.cookie
    BY TrimKeeps
<1> HIDE DEF trimmed
<1>2. IsHandled(trimmed, services, handled)
    BY <1>1, DispatchIsHandled
<1> HIDE DEF handled
<1>3. BelowApi(trimmed) <=> BelowApi(request)
    BY <1>1 DEF BelowApi
<1>4. ASSUME NEW answer, IsGood(trimmed, services, answer)  PROVE IsGood(request, services, answer)
    <2>1. MayServeIndex(trimmed, answer) => MayServeIndex(request, answer)
        BY <1>1 DEF MayServeIndex, IsRead
    <2>2. HasUndocumentedPage(trimmed.query) => HasUndocumentedPage(request.query)
        BY <1>1
    <2>3. MayClearCookie(trimmed, services) => MayClearCookie(request, services)
        BY <1>1 DEF MayClearCookie
    <2> QED  BY <1>1, <1>3, <1>4, <2>1, <2>2, <2>3 DEF IsGood, FollowsTheContract
<1>5. ASSUME NEW call, IsAsked(trimmed, call)  PROVE IsAsked(request, call)
    BY <1>1, <1>3, <1>5 DEF IsAsked
<1>6. IsHandled(request, services, handled)
    BY <1>2, <1>4, <1>5 DEF IsHandled
<1> QED  BY <1>6 DEF Handle, handled, trimmed

\* How a call may end.
MayEnd(service, outcome, services) ==
    \/ service = "critics"
    \/ /\ outcome \in {"ok", "undated", "notFound", "rejected"} \cup Failures
       /\ outcome = "rejected" => service \in AccountServices /\ services.account = "sony"
       /\ outcome = "undated" => service = "game"

LEMMA ResponseIsGood ==
    ASSUME NEW request, NEW services, NEW call, IsAsked(request, call),
           NEW outcome, MayEnd(call.service, outcome, services)
    PROVE  IsGood(request, services, ResponseOf(call.service, outcome))
<1> DEFINE service == call.service
           response == ResponseOf(service, outcome)
<1>1. CASE service = "critics"
    <2>1. response = Ok
        BY <1>1 DEF ResponseOf, SignedInLists
    <2> QED  BY <2>1, OkIsGood
<1>2. CASE service # "critics" /\ outcome = "ok" /\ service = "sign_in"
    <2>1. response = [NoContent EXCEPT !.cookie = "set"]
        BY <1>2 DEF ResponseOf
    <2>2. "set" = "cleared" => MayClearCookie(request, services)
        OBVIOUS
    <2> QED  BY <2>1, <2>2, NoContentIsGood
<1>3. CASE service \notin {"critics", "sign_in"} /\ outcome \in {"ok", "undated"}
    <2>1. response = Ok
        BY <1>3 DEF ResponseOf
    <2> QED  BY <2>1, OkIsGood
<1>4. CASE service # "critics" /\ outcome = "rejected" /\ service \in SignedInLists
    <2>1. response = [Problem("session_rejected") EXCEPT !.cookie = "cleared"]
        BY <1>4 DEF ResponseOf, SignedInLists
    <2>2. /\ DOMAIN response = ResponseParts /\ response.kind = "problem"
          /\ response.code = "session_rejected" /\ response.status = StatusOf("session_rejected")
        BY <2>1, ProblemParts DEF ResponseParts
    <2>3. MayClearCookie(request, services)
        BY <1>4 DEF MayClearCookie, MayEnd, IsAsked
    <2>4. response.code = "invalid_request" /\ RouteOf(request.path) \in PagedRoutes => HasUndocumentedPage(request.query)
        BY <2>2
    <2>5. IsGood(request, services, response)
        <3> HIDE DEF response
        <3> QED  BY <2>2, <2>3, <2>4, ProblemIsGood
    <2> QED  BY <2>5
<1>5. CASE /\ service # "critics" /\ outcome \in {"notFound", "rejected"} \cup Failures
           /\ ~(outcome = "rejected" /\ service \in SignedInLists)
    <2>1. response = ProblemOf(outcome)
        BY <1>5 DEF ResponseOf, Failures
    <2>2. \E code \in Codes \ {"invalid_request"} : ProblemOf(outcome) = Problem(code)
        BY <1>5 DEF ProblemOf, Codes, Failures
    <2>3. \A code \in Codes \ {"invalid_request"} : IsGood(request, services, Problem(code))
        BY KeptProblemIsGood
    <2> QED  BY <2>1, <2>2, <2>3
<1>6. service # "critics" =>
          \/ outcome = "ok"
          \/ outcome = "undated" /\ service = "game"
          \/ outcome \in {"notFound", "rejected"} \cup Failures
    BY DEF MayEnd
<1>7. "game" \notin {"critics", "sign_in"}
    OBVIOUS
<1> QED  BY <1>1, <1>2, <1>3, <1>4, <1>5, <1>6, <1>7

-----------------------------------------------------------------------------
(* The inductive invariant *)

ConnParts == {"state", "request", "call", "response", "span"}

\* The span of a request tells its route, and its id or none.
IsSpanOf(s, request, span) ==
    /\ IsSpan(span) /\ span.kept.route = RouteOf(request.path)
    /\ "request_id" \in DOMAIN span.kept => span.kept.request_id = s

IsConn(s, c, requests, services) ==
    /\ DOMAIN c = ConnParts /\ c.state \in States
    /\ c.state \in {"idle", "calling"} => c.response = NoResponse
    /\ c.state \in {"sending", "done"} => c.response # NoResponse
    /\ c.response # NoResponse => IsGood(c.request, services, c.response) /\ c.response.secure
    /\ c.state # "idle" => c.request \in requests /\ IsSpanOf(s, c.request, c.span)
    /\ c.state = "calling" => IsAsked(c.request, c.call)

Connections ==
    /\ DOMAIN conn = Slots
    /\ \A s \in Slots : IsConn(s, conn[s], Requests(s), Running)

\* The latest end of a call, on the clock of the stop: the lookup of a score may
\* begin at the end of the game's.
LatestEnd(service) == IF service = "critics" THEN Deadline["game"] + Deadline["critics"] ELSE Deadline[service]

IsTask(task, service, now) ==
    /\ DOMAIN task = {"left", "scope"}
    /\ task.left \in 0..Deadline[service] /\ now + task.left <= LatestEnd(service)

\* A shared lookup is outside the spans, and a call of its own belongs to a
\* request that waits for it, or was cut.
IsTaskOf(key, task, c) ==
    IF key \in Slots
    THEN c.state \in {"calling", "cut"} /\ c.call.service \in OwnServices /\ task.scope = <<c.span>>
    ELSE task.scope = << >>

Lookups ==
    /\ DOMAIN work \subseteq Keys
    /\ \A key \in DOMAIN work : IsTask(work[key], ServiceOf(key), clock)
    /\ \A key \in DOMAIN work : IsTaskOf(key, work[key], conn[key])
    /\ \A s \in Slots : conn[s].state = "calling" => KeyOf(s, conn[s].call.service) \in DOMAIN work

Phases ==
    /\ env \in Environments /\ clock \in 0..Grace
    /\ phase \in {"starting", "failed", "serving", "stopping", "drained", "cut"}
    /\ phase \in {"starting", "failed"} => \A s \in Slots : conn[s].state = "idle"
    /\ phase \in {"starting", "serving"} => clock = 0

Cuts ==
    \A s \in Slots : conn[s].state = "cut" =>
        /\ phase = "cut"
        /\ conn[s].response = NoResponse => Longest(conn[s].call.service) >= Grace

\* A line belongs to the request that it names.
IsLine(line, c) ==
    LET kept == line.fields.kept
    IN  /\ DOMAIN kept \subseteq AllowedFields /\ kept.message # "url"
        /\ "request_id" \in DOMAIN kept =>
               /\ kept.request_id \in Slots /\ c[kept.request_id].state # "idle"
               /\ line.about = {kept.request_id} /\ kept.route = RouteOf(c[kept.request_id].request.path)

StatusOfAnswer(c) == IF c.response = NoResponse THEN {} ELSE {c.response.status}

IsLog(lines, c) ==
    /\ \A line \in lines : IsLine(line, c)
    /\ \A s \in Slots : Statuses(lines, s) = StatusOfAnswer(c[s])

ServerInv == Connections /\ Lookups /\ Phases /\ Cuts /\ IsLog(log, conn)

LEMMA AnswerIsSomething ==
    ASSUME NEW answer, IsAnswer(answer)
    PROVE  answer # NoResponse
<1>1. NoResponse.kind = "none"
    BY DEF NoResponse, Response
<1> QED  BY <1>1 DEF IsAnswer

LEMMA ServicesAreApart ==
    /\ SharedServices \cap OwnServices = {} /\ Slots \cap SharedServices = {} /\ Slots \cap OwnServices = {}
    /\ {"game", "critics"} \subseteq SharedServices
<1>1. SharedServices \cap OwnServices = {}
    BY DEF SharedServices, OwnServices, AccountServices, PublicLists, SignedInLists
<1>2. Slots \cap AllServices = {}
    BY HttpServerAssumption
<1> QED  BY <1>1, <1>2 DEF AllServices, SharedServices

LEMMA DeadlinesAreNat ==
    \A service \in AllServices :
        Deadline[service] \in Nat /\ LatestEnd(service) \in Nat /\ Deadline[service] <= LatestEnd(service)
<1>1. \A service \in AllServices : Deadline[service] \in Nat
    BY HttpServerAssumption
<1>2. {"game", "critics"} \subseteq AllServices
    BY DEF AllServices, SharedServices
<1>3. Deadline["game"] \in Nat /\ Deadline["critics"] \in Nat
    BY <1>1, <1>2
<1> QED  BY <1>1, <1>3 DEF LatestEnd

LEMMA RequestsAreRequests ==
    ASSUME Phases, NEW s \in Slots, NEW request \in Requests(s)
    PROVE  IsRequest(request)
BY HttpServerAssumption DEF Phases, Requests

LEMMA CompletedIsConn ==
    ASSUME NEW s, NEW c, NEW requests, NEW services, NEW response,
           DOMAIN c = ConnParts, c.request \in requests, IsSpanOf(s, c.request, c.span),
           IsGood(c.request, services, response)
    PROVE  LET d == Completed(c, response) IN
           /\ IsConn(s, d, requests, services)
           /\ d.state = "sending" /\ d.request = c.request /\ d.span = c.span
           /\ d.response # NoResponse /\ d.response.status = response.status
<1> DEFINE d == Completed(c, response)
<1>1. /\ DOMAIN d = ConnParts /\ d.state = "sending" /\ d.request = c.request /\ d.span = c.span
      /\ d.response = Secured(response)
    BY DEF Completed, ConnParts
<1>2. IsAnswer(response) /\ FollowsTheContract(c.request, services, response)
    BY DEF IsGood
<1> DEFINE r == Secured(response)
<1>3. /\ DOMAIN r = ResponseParts /\ r.status = response.status /\ r.kind = response.kind /\ r.code = response.code
      /\ r.cookie = response.cookie /\ r.cache = response.cache /\ r.secure
    BY <1>2 DEF IsAnswer, Secured, ResponseParts
<1> HIDE DEF d, r
<1>4. IsAnswer(r)
    BY <1>2, <1>3 DEF IsAnswer
<1>5. FollowsTheContract(c.request, services, r)
    BY <1>2, <1>3 DEF FollowsTheContract, IsApiAnswer, MayServeIndex
<1>6. d.response = r /\ r # NoResponse
    BY <1>1, <1>4, AnswerIsSomething DEF r
<1>7. IsConn(s, d, requests, services)
    BY <1>1, <1>3, <1>4, <1>5, <1>6 DEF IsConn, IsGood, States
<1> QED  BY <1>1, <1>3, <1>6, <1>7 DEF d

LEMMA SpanOfRequest ==
    ASSUME NEW s, NEW request, IsRequest(request)
    PROVE  IsSpanOf(s, request, SpanOf(s, request)) /\ IsSpanOf(s, request, WithId(s, SpanOf(s, request)))
<1> DEFINE route == RouteOf(TrimTrailingSlash(request).path)
           values == [route |-> route, method |-> request.method]
           plain == SpanOf(s, request)
           id == [request_id |-> s]
<1>1. route = RouteOf(request.path)
    BY TrimKeeps
<1>2. plain = Record(NoFields, values)
    BY DEF SpanOf
<1>3. DOMAIN values = {"route", "method"} /\ values.route = route /\ DOMAIN NoFields.kept = {}
    BY DEF NoFields
<1> HIDE DEF values, route
<1>4. DOMAIN plain.kept = {"route", "method"} /\ plain.kept.route = route
    BY <1>2, <1>3, RecordKept, AllowedNames
<1>5. WithId(s, plain) = Record(plain, id)
    BY DEF WithId
<1>6. DOMAIN id = {"request_id"} /\ id.request_id = s
    OBVIOUS
<1> HIDE DEF plain, id
<1>7. /\ DOMAIN WithId(s, plain).kept = {"route", "method", "request_id"}
      /\ WithId(s, plain).kept.route = route /\ WithId(s, plain).kept.request_id = s
    BY <1>4, <1>5, <1>6, RecordKept, AllowedNames
<1> QED  BY <1>1, <1>4, <1>7, AllowedNames DEF IsSpanOf, IsSpan, plain

-----------------------------------------------------------------------------
(* The history grows *)

LEMMA LineOfRequest ==
    ASSUME NEW s \in Slots, NEW c, NEW span, NEW events, NEW line \in Lines(events, <<span>>, {s}),
           c[s].state # "idle", IsSpanOf(s, c[s].request, span), \A e \in events : IsReport(e)
    PROVE  IsLine(line, c) /\ line.about = {s}
<1>1. PICK e \in events : line.about = {s} /\ SaysAs(line, e, span)
    BY LinesInside DEF IsSpanOf
<1>2. line.fields.kept.message # "url"
    BY <1>1, AllowedNames DEF SaysAs, IsReport, IsWritten
<1> QED  BY <1>1, <1>2 DEF IsLine, SaysAs, IsSpanOf

LEMMA StatusesOfNone ==
    ASSUME NEW s
    PROVE  Statuses({}, s) = {}
BY DEF Statuses

LEMMA StatusesElsewhere ==
    ASSUME NEW lines, NEW s, NEW t, t # s, \A line \in lines : line.about = {s}
    PROVE  Statuses(lines, t) = {}
BY DEF Statuses

\* A request keeps what it asked for, and its one answer.
Goes(c, d, lines, s) ==
    /\ c.state # "idle" => d.state # "idle" /\ d.request = c.request
    /\ \/ d.response = c.response /\ Statuses(lines, s) = {}
       \/ c.response = NoResponse /\ d.response # NoResponse /\ Statuses(lines, s) = {d.response.status}

LEMMA LogGrows ==
    ASSUME NEW old, NEW new, NEW c, NEW d, IsLog(old, c),
           \A line \in new : IsLine(line, d), \A s \in Slots : Goes(c[s], d[s], new, s)
    PROVE  IsLog(old \cup new, d)
<1>1. ASSUME NEW line \in old  PROVE IsLine(line, d)
    BY <1>1 DEF IsLog, IsLine, Goes
<1>2. ASSUME NEW s \in Slots  PROVE Statuses(old \cup new, s) = StatusOfAnswer(d[s])
    <2>1. Statuses(old \cup new, s) = StatusOfAnswer(c[s]) \cup Statuses(new, s)
        BY StatusesOfUnion DEF IsLog
    <2> QED  BY <2>1 DEF Goes, StatusOfAnswer
<1> QED  BY <1>1, <1>2 DEF IsLog

LEMMA LogStays ==
    ASSUME NEW lines, NEW c, NEW d, IsLog(lines, c),
           \A s \in Slots : /\ c[s].state # "idle" => d[s].state # "idle" /\ d[s].request = c[s].request
                            /\ d[s].response = c[s].response
    PROVE  IsLog(lines, d)
<1>1. \A s \in Slots : Goes(c[s], d[s], {}, s)
    BY StatusesOfNone DEF Goes
<1>2. lines \cup {} = lines
    OBVIOUS
<1>3. IsLog(lines \cup {}, d)
    BY <1>1, LogGrows
<1> QED  BY <1>2, <1>3

\* Lines about one request, which goes on while the others stay.
LEMMA LogOfOne ==
    ASSUME NEW s \in Slots, NEW old, NEW new, NEW c, NEW d, IsLog(old, c), \A t \in Slots : t # s => d[t] = c[t],
           \A line \in new : IsLine(line, d) /\ line.about = {s}, Goes(c[s], d[s], new, s)
    PROVE  IsLog(old \cup new, d)
<1>1. ASSUME NEW t \in Slots, t # s  PROVE Goes(c[t], d[t], new, t)
    <2>1. Statuses(new, t) = {}
        BY <1>1, StatusesElsewhere
    <2> QED  BY <1>1, <2>1 DEF Goes
<1> QED  BY <1>1, LogGrows

LEMMA EventsAreReports ==
    /\ IsReport(PanicLine) /\ IsReport(Contained) /\ IsReport(ScoreFailed)
    /\ \A response : IsReport(CompletedWith(response))
    /\ \A outcome : IsReport(AccountFailed(outcome))
    /\ \A e \in CallEvents : IsReport(e) /\ e.values.message # "completed"
    /\ PanicLine.values.message # "completed" /\ Contained.values.message # "completed"
    /\ ScoreFailed.values.message # "completed"
    /\ \A outcome : AccountFailed(outcome).values.message # "completed"
<1>1. IsReport(PanicLine) /\ IsReport(Contained) /\ IsReport(ScoreFailed)
    BY DEF IsReport, PanicLine, Contained, ScoreFailed, Event, IsOwn
<1>2. \A response : IsReport(CompletedWith(response))
    BY DEF IsReport, CompletedWith, Event, IsOwn
<1>3. \A outcome : IsReport(AccountFailed(outcome))
    BY DEF IsReport, AccountFailed, Event, IsOwn
<1>4. \A e \in CallEvents : IsReport(e) /\ e.values.message # "completed"
    BY DEF IsReport, CallEvents, Event, IsOwn
<1>5. /\ PanicLine.values.message # "completed" /\ Contained.values.message # "completed"
      /\ ScoreFailed.values.message # "completed"
      /\ \A outcome : AccountFailed(outcome).values.message # "completed"
    BY DEF PanicLine, Contained, ScoreFailed, AccountFailed, Event
<1> QED  BY <1>1, <1>2, <1>3, <1>4, <1>5

\* A request that has begun, and events that do not end it.
IsOpen(d, s, span) == d[s].state # "idle" /\ IsSpanOf(s, d[s].request, span)
NoneCompletes(events) == \A e \in events : IsReport(e) /\ e.values.message # "completed"

LEMMA LinesOfUnion ==
    ASSUME NEW a, NEW b, NEW scope, NEW about
    PROVE  Lines(a \cup b, scope, about) = Lines(a, scope, about) \cup Lines(b, scope, about)
BY DEF Lines, Written

\* The lines with which a request ends: one of them tells the status.
LEMMA EndingStatus ==
    ASSUME NEW s, NEW span, NEW others, NEW response, IsSpan(span), NoneCompletes(others)
    PROVE  Statuses(Lines(others \cup {CompletedWith(response)}, <<span>>, {s}), s) = {response.status}
<1> DEFINE before == Lines(others, <<span>>, {s})
           last == Lines({CompletedWith(response)}, <<span>>, {s})
           all == Lines(others \cup {CompletedWith(response)}, <<span>>, {s})
<1>1. Statuses(before, s) = {}
    BY StatusesOfOthers DEF NoneCompletes
<1>2. Statuses(last, s) = {response.status}
    BY StatusesOfCompleted
<1>3. all = before \cup last
    BY LinesOfUnion
<1> HIDE DEF before, last, all
<1>4. Statuses(all, s) = Statuses(before, s) \cup Statuses(last, s)
    BY <1>3, StatusesOfUnion
<1>5. Statuses(all, s) = {response.status}
    BY <1>1, <1>2, <1>4
<1> QED  BY <1>5 DEF all

\* The lines with which a request ends are its own.
LEMMA EndingLines ==
    ASSUME NEW s \in Slots, NEW d, NEW span, NEW response, NEW others, IsOpen(d, s, span), NoneCompletes(others)
    PROVE  \A line \in Lines(others \cup {CompletedWith(response)}, <<span>>, {s}) : IsLine(line, d) /\ line.about = {s}
<1> DEFINE events == others \cup {CompletedWith(response)}
<1>1. \A e \in events : IsReport(e)
    BY EventsAreReports DEF NoneCompletes
<1> HIDE DEF events
<1>2. \A line \in Lines(events, <<span>>, {s}) : IsLine(line, d) /\ line.about = {s}
    BY <1>1, LineOfRequest DEF IsOpen
<1> QED  BY <1>2 DEF events

\* Between f and g the request of s gets its one answer, and the others stay.
IsAnswered(f, g, s, response) ==
    /\ f[s].response = NoResponse /\ g[s].response # NoResponse /\ g[s].response.status = response.status
    /\ g[s].state # "idle" /\ (f[s].state # "idle" => f[s].request = g[s].request)
    /\ IsSpanOf(s, g[s].request, g[s].span)
OthersStay(f, g, s) == \A t \in Slots : t # s => g[t] = f[t]

LEMMA EndIsLogged ==
    ASSUME NEW s \in Slots, NEW old, NEW f, NEW g, NEW response, NEW others,
           IsLog(old, f), IsAnswered(f, g, s, response), OthersStay(f, g, s), NoneCompletes(others)
    PROVE  IsLog(old \cup Lines(others \cup {CompletedWith(response)}, <<g[s].span>>, {s}), g)
<1> DEFINE span == g[s].span
           new == Lines(others \cup {CompletedWith(response)}, <<span>>, {s})
<1>1. IsOpen(g, s, span) /\ IsSpan(span)
    BY DEF IsSpanOf, IsOpen, IsAnswered
<1> HIDE DEF span
<1>2. \A line \in new : IsLine(line, g) /\ line.about = {s}
    BY <1>1, EndingLines
<1>3. Statuses(new, s) = {response.status}
    BY <1>1, EndingStatus
<1> HIDE DEF new
<1>4. Goes(f[s], g[s], new, s)
    BY <1>3 DEF Goes, IsAnswered
<1>5. IsLog(old \cup new, g)
    BY <1>2, <1>4, LogOfOne DEF OthersStay
<1> QED  BY <1>5 DEF new, span

LEMMA Completes ==
    ASSUME NEW s \in Slots, NEW c, NEW response, NEW others,
           Connections, IsLog(log, conn), conn[s].state \in {"idle", "calling"},
           DOMAIN c = ConnParts, c.request \in Requests(s), IsSpanOf(s, c.request, c.span),
           conn[s].state # "idle" => conn[s].request = c.request,
           IsGood(c.request, Running, response),
           conn' = [conn EXCEPT ![s] = Completed(c, response)], env' = env,
           NoneCompletes(others),
           log' = log \cup Lines(others \cup {CompletedWith(response)}, <<conn'[s].span>>, {s})
    PROVE  /\ Connections' /\ IsLog(log, conn)'
           /\ conn'[s].state = "sending" /\ OthersStay(conn, conn', s)
<1> DEFINE d == Completed(c, response)
           requests == Requests(s)
           services == Running
<1>0. /\ c.request \in requests /\ IsGood(c.request, services, response)
      /\ requests' = requests /\ services' = services
    BY DEF Requests, Running
<1> HIDE DEF requests, services
<1>1. /\ IsConn(s, d, requests, services)
      /\ d.state = "sending" /\ d.request = c.request /\ d.span = c.span
      /\ d.response # NoResponse /\ d.response.status = response.status
    BY <1>0, CompletedIsConn
<1> HIDE DEF d
<1>2. DOMAIN conn' = Slots /\ conn'[s] = d /\ \A t \in Slots : t # s => conn'[t] = conn[t]
    BY DEF d, Connections
<1>3. Connections'
    BY <1>0, <1>1, <1>2 DEF Connections, Requests, Running, requests, services
<1>4. IsLog(log', conn')
    <2> DEFINE after == conn'
               old == log
               before == conn
               ending == Lines(others \cup {CompletedWith(response)}, <<after[s].span>>, {s})
    <2>1. IsAnswered(before, after, s, response) /\ OthersStay(before, after, s) /\ IsLog(old, before)
        BY <1>1, <1>2 DEF Connections, IsConn, IsAnswered, OthersStay
    <2>2. log' = old \cup ending
        OBVIOUS
    <2> HIDE DEF before, after, old
    <2>3. IsLog(old \cup ending, after)
        BY <2>1, EndIsLogged
    <2> HIDE DEF ending
    <2> QED  BY <2>2, <2>3 DEF after
<1> QED  BY <1>1, <1>2, <1>3, <1>4 DEF OthersStay

LEMMA PanicIsGood ==
    ASSUME NEW request, NEW services
    PROVE  IsGood(request, services, PanicAnswer)
<1>1. "internal_error" = "invalid_request" /\ RouteOf(request.path) \in PagedRoutes => HasUndocumentedPage(request.query)
    OBVIOUS
<1> QED  BY <1>1, KeptProblemIsGood DEF PanicAnswer

LEMMA PanicReports ==
    /\ NoneCompletes({PanicLine, Contained}) /\ NoneCompletes({})
    /\ {PanicLine, Contained, CompletedWith(PanicAnswer)} = {PanicLine, Contained} \cup {CompletedWith(PanicAnswer)}
BY EventsAreReports DEF NoneCompletes

-----------------------------------------------------------------------------
(* The first state, and the steps that start and stop the server *)

LEMMA InitInv ==
    ASSUME Init
    PROVE  ServerInv
<1>1. \A s \in Slots : conn[s] = Idle
    BY DEF Init
<1>2. /\ DOMAIN Idle = ConnParts /\ Idle.state = "idle" /\ Idle.response = NoResponse
    BY DEF Idle, ConnParts
<1>3. Connections
    <2>1. DOMAIN conn = Slots
        BY DEF Init
    <2> QED  BY <1>1, <1>2, <2>1 DEF Connections, IsConn, States
<1>4. Lookups
    <2>1. DOMAIN work = {}
        BY DEF Init
    <2> QED  BY <1>1, <1>2, <2>1 DEF Lookups
<1>5. Phases
    BY <1>1, <1>2, HttpServerAssumption DEF Init, Phases
<1>6. Cuts
    BY <1>1, <1>2 DEF Cuts
<1>7. IsLog(log, conn)
    BY <1>1, <1>2, StatusesOfNone DEF Init, IsLog, StatusOfAnswer
<1> QED  BY <1>3, <1>4, <1>5, <1>6, <1>7 DEF ServerInv

\* The connections and the running calls stay as they are.
LEMMA ConnectionsStay ==
    ASSUME ServerInv, UNCHANGED <<env, conn>>
    PROVE  Connections'
BY DEF ServerInv, Connections, Requests, Running

LEMMA LookupsStay ==
    ASSUME ServerInv, UNCHANGED <<clock, conn, work>>
    PROVE  Lookups'
BY DEF ServerInv, Lookups, ServiceOf

LEMMA StutterInv ==
    ASSUME ServerInv, UNCHANGED vars
    PROVE  ServerInv'
<1>1. Connections' /\ Lookups'
    BY ConnectionsStay, LookupsStay DEF vars
<1>2. Phases' /\ Cuts' /\ IsLog(log, conn)'
    BY DEF vars, ServerInv, Phases, Cuts
<1> QED  BY <1>1, <1>2 DEF ServerInv

LEMMA StartUpInv ==
    ASSUME ServerInv, StartUp
    PROVE  ServerInv'
<1>1. Connections' /\ Lookups'
    BY ConnectionsStay, LookupsStay DEF StartUp
<1>2. Phases' /\ Cuts'
    BY DEF StartUp, ServerInv, Phases, Cuts
<1>3. log' = {}
    <2> DEFINE events == {Event("warn", [message |-> "invalidSetting", stage |-> "config", reason |-> tag]) :
                              tag \in InvalidSettings(env)}
    <2>1. \A e \in events : IsReport(e)
        BY DEF IsReport, Event, IsOwn
    <2> HIDE DEF events
    <2>2. Lines(events, << >>, {}) = {}
        BY <2>1, NoLineOutside
    <2> QED  BY <2>2 DEF StartUp, events
<1>4. IsLog(log', conn')
    <2>1. \A s \in Slots : conn'[s].state = "idle" /\ conn'[s].response = NoResponse
        BY DEF StartUp, ServerInv, Phases, Connections, IsConn
    <2> QED  BY <1>3, <2>1, StatusesOfNone DEF IsLog, StatusOfAnswer
<1> QED  BY <1>1, <1>2, <1>4 DEF ServerInv

LEMMA StopInv ==
    ASSUME ServerInv, StopSignal \/ Drained
    PROVE  ServerInv'
<1>1. UNCHANGED <<env, clock, conn, work, log>>
    BY DEF StopSignal, Drained
<1>2. Connections' /\ Lookups'
    BY <1>1, ConnectionsStay, LookupsStay
<1>3. Phases'
    BY <1>1 DEF StopSignal, Drained, ServerInv, Phases
<1>4. Cuts'
    BY <1>1 DEF StopSignal, Drained, ServerInv, Cuts
<1> QED  BY <1>1, <1>2, <1>3, <1>4 DEF ServerInv

-----------------------------------------------------------------------------
(* What a step leaves *)

\* A step while the server serves.
LEMMA PhasesStay ==
    ASSUME ServerInv, UNCHANGED <<env, phase, clock>>, IsServing
    PROVE  Phases'
BY DEF ServerInv, Phases, IsServing

LEMMA CutsStay ==
    ASSUME ServerInv, UNCHANGED phase, \A t \in Slots : conn'[t].state = "cut" => conn'[t] = conn[t]
    PROVE  Cuts'
BY DEF ServerInv, Cuts

\* A call of a request goes on when the request does, or when it is cut.
Holds(c, d) == d.state \in {"calling", "cut"} /\ d.call = c.call /\ d.span = c.span

LEMMA TaskStays ==
    ASSUME Lookups, UNCHANGED clock, NEW key \in DOMAIN work, work'[key] = work[key],
           key \in Slots => Holds(conn[key], conn'[key])
    PROVE  IsTask(work'[key], ServiceOf(key)', clock') /\ IsTaskOf(key, work'[key], conn'[key])
<1>1. ServiceOf(key)' = ServiceOf(key)
    BY DEF ServiceOf, Holds
<1>2. IsTask(work'[key], ServiceOf(key)', clock')
    BY <1>1 DEF Lookups
<1>3. IsTaskOf(key, work'[key], conn'[key])
    BY DEF Lookups, IsTaskOf, Holds
<1> QED  BY <1>2, <1>3

\* No call begins.
LEMMA CallsEnd ==
    ASSUME Lookups, UNCHANGED clock, DOMAIN work' \subseteq DOMAIN work,
           \A key \in DOMAIN work' : work'[key] = work[key] /\ (key \in Slots => Holds(conn[key], conn'[key])),
           \A s \in Slots : conn'[s].state = "calling" =>
               conn'[s] = conn[s] /\ KeyOf(s, conn[s].call.service) \in DOMAIN work'
    PROVE  Lookups'
<1>1. ASSUME NEW key \in DOMAIN work'
      PROVE  IsTask(work'[key], ServiceOf(key)', clock') /\ IsTaskOf(key, work'[key], conn'[key])
    BY TaskStays
<1>2. DOMAIN work' \subseteq Keys
    BY DEF Lookups
<1>3. \A s \in Slots : conn'[s].state = "calling" => KeyOf(s, conn'[s].call.service) \in DOMAIN work'
    OBVIOUS
<1> QED  BY <1>1, <1>2, <1>3 DEF Lookups

\* A slot that is idle, or answered, runs no call of its own.
LEMMA NoOwnCall ==
    ASSUME Lookups, NEW s \in Slots, s \in DOMAIN work
    PROVE  conn[s].state \in {"calling", "cut"} /\ conn[s].call.service \in OwnServices
BY DEF Lookups, IsTaskOf

LEMMA KeyFacts ==
    ASSUME NEW s \in Slots, NEW service \in AllServices
    PROVE  /\ service \in SharedServices => KeyOf(s, service) = service /\ service \notin Slots
           /\ service \in OwnServices => KeyOf(s, service) = s /\ s \notin SharedServices
           /\ KeyOf(s, service) \in Keys
           /\ service \in SharedServices \/ service \in OwnServices
BY ServicesAreApart DEF KeyOf, Keys, AllServices

-----------------------------------------------------------------------------
(* A request arrives *)

\* A request that is answered at once: no call of it runs.
LEMMA AnsweredAtOnce ==
    ASSUME ServerInv, NEW s \in Slots, conn[s].state = "idle", phase = "serving", UNCHANGED <<env, phase, clock, work>>,
           Connections', IsLog(log, conn)', conn'[s].state = "sending", OthersStay(conn, conn', s)
    PROVE  ServerInv'
<1>1. s \notin DOMAIN work
    BY NoOwnCall DEF ServerInv
<1>2. \A key \in DOMAIN work' : key \in Slots => Holds(conn[key], conn'[key])
    <2>1. ASSUME NEW key \in DOMAIN work, key \in Slots  PROVE Holds(conn[key], conn'[key])
        <3>1. key # s
            BY <1>1
        <3>2. conn'[key] = conn[key]
            BY <2>1, <3>1 DEF OthersStay
        <3>3. conn[key].state \in {"calling", "cut"}
            BY <2>1, NoOwnCall DEF ServerInv
        <3> QED  BY <3>2, <3>3 DEF Holds
    <2> QED  BY <2>1
<1>3. \A t \in Slots : conn'[t].state \in {"calling", "cut"} => conn'[t] = conn[t]
    BY DEF OthersStay
<1>4. \A t \in Slots : conn'[t].state = "calling" =>
          conn'[t] = conn[t] /\ KeyOf(t, conn[t].call.service) \in DOMAIN work'
    BY <1>3 DEF ServerInv, Lookups
<1>5. Lookups'
    BY <1>2, <1>4, CallsEnd DEF ServerInv
<1>6. Phases' /\ Cuts'
    BY <1>3, PhasesStay, CutsStay DEF IsServing
<1> QED  BY <1>5, <1>6 DEF ServerInv

\* A connection with the request that has just arrived.
Opened(s, request, span) == [Idle EXCEPT !.request = request, !.span = span]

LEMMA OpenedParts ==
    ASSUME NEW s, NEW request, NEW span
    PROVE  LET open == Opened(s, request, span) IN
           /\ DOMAIN open = ConnParts /\ open.request = request /\ open.span = span
           /\ open.response = NoResponse
BY DEF Opened, Idle, ConnParts

\* The calls after one more has begun.
LEMMA BeginParts ==
    ASSUME NEW s, NEW service, NEW span, NEW key, key = KeyOf(s, service), NEW after, after = Begin(s, service, span)
    PROVE  /\ DOMAIN after = DOMAIN work \cup {key}
           /\ \A k \in DOMAIN work : after[k] = work[k]
           /\ key \notin DOMAIN work => after[key] = [left |-> Deadline[service], scope |-> Scope(service, span)]
<1> DEFINE new == [k \in {key} |-> [left |-> Deadline[service], scope |-> Scope(service, span)]]
<1>1. CASE key \in DOMAIN work
    BY <1>1 DEF Begin
<1>2. CASE key \notin DOMAIN work
    <2>1. after = Over(new, work)
        BY <1>2 DEF Begin
    <2>2. DOMAIN new = {key} /\ new[key] = [left |-> Deadline[service], scope |-> Scope(service, span)]
        OBVIOUS
    <2> HIDE DEF new
    <2>3. /\ DOMAIN after = {key} \cup DOMAIN work /\ after[key] = new[key]
          /\ \A k \in DOMAIN work \ {key} : after[k] = work[k]
        BY <2>1, <2>2 DEF Over
    <2> QED  BY <1>2, <2>2, <2>3
<1> QED  BY <1>1, <1>2

\* A request that waits for a call: the call runs already, or begins.
LEMMA AsksForACall ==
    ASSUME ServerInv, NEW s \in Slots, conn[s].state = "idle", phase = "serving", UNCHANGED <<env, phase, clock, log>>,
           NEW d, conn' = [conn EXCEPT ![s] = d], IsConn(s, d, Requests(s), Running), d.state = "calling",
           work' = Begin(s, d.call.service, d.span), d.call.service \in AllServices
    PROVE  ServerInv'
<1> DEFINE service == d.call.service
           key == KeyOf(s, service)
<1>1. DOMAIN conn' = Slots /\ conn'[s] = d /\ \A t \in Slots : t # s => conn'[t] = conn[t]
    BY DEF ServerInv, Connections
<1>2. Connections'
    BY <1>1 DEF ServerInv, Connections, Requests, Running
<1>3. /\ DOMAIN work' = DOMAIN work \cup {key}
      /\ \A k \in DOMAIN work : work'[k] = work[k]
      /\ key \notin DOMAIN work => work'[key] = [left |-> Deadline[service], scope |-> Scope(service, d.span)]
    <2> DEFINE after == work'
               span == d.span
    <2>1. after = Begin(s, service, span) /\ key = KeyOf(s, service)
        OBVIOUS
    <2> HIDE DEF after, span, service, key
    <2>2. /\ DOMAIN after = DOMAIN work \cup {key}
          /\ \A k \in DOMAIN work : after[k] = work[k]
          /\ key \notin DOMAIN work => after[key] = [left |-> Deadline[service], scope |-> Scope(service, span)]
        BY <2>1, BeginParts
    <2> QED  BY <2>2 DEF after, span
<1>4. s \notin DOMAIN work
    BY NoOwnCall DEF ServerInv
<1>5. /\ service \in SharedServices => key = service /\ service \notin Slots
      /\ service \in OwnServices => key = s /\ s \notin SharedServices
      /\ key \in Keys
      /\ service \in SharedServices \/ service \in OwnServices
    BY KeyFacts
<1> HIDE DEF key
<1>6. ASSUME NEW k \in DOMAIN work
      PROVE  IsTask(work'[k], ServiceOf(k)', clock') /\ IsTaskOf(k, work'[k], conn'[k])
    <2>1. k \in Slots => Holds(conn[k], conn'[k])
        BY <1>1, <1>4, NoOwnCall DEF Holds, ServerInv
    <2> QED  BY <1>3, <2>1, TaskStays DEF ServerInv
<1>7. ASSUME key \notin DOMAIN work
      PROVE  IsTask(work'[key], ServiceOf(key)', clock') /\ IsTaskOf(key, work'[key], conn'[key])
    <2>1. work'[key] = [left |-> Deadline[service], scope |-> Scope(service, d.span)] /\ clock' = 0
        BY <1>3, <1>7 DEF ServerInv, Phases
    <2>2. ServiceOf(key)' = service
        BY <1>1, <1>5 DEF ServiceOf
    <2>3. IsTask(work'[key], service, 0)
        BY <2>1, DeadlinesAreNat DEF IsTask
    <2>4. IsTaskOf(key, work'[key], conn'[key])
        BY <1>1, <1>5, <2>1, ServicesAreApart DEF IsTaskOf, Scope, TaskScope
    <2> QED  BY <2>1, <2>2, <2>3, <2>4
<1>8. ASSUME NEW t \in Slots, conn'[t].state = "calling"  PROVE KeyOf(t, conn'[t].call.service) \in DOMAIN work'
    BY <1>1, <1>3, <1>8 DEF ServerInv, Lookups, key
<1>9. Lookups'
    <2>1. DOMAIN work' \subseteq Keys
        BY <1>3, <1>5 DEF ServerInv, Lookups
    <2>2. ASSUME NEW k \in DOMAIN work'
          PROVE  IsTask(work'[k], ServiceOf(k)', clock') /\ IsTaskOf(k, work'[k], conn'[k])
        BY <1>3, <1>6, <1>7
    <2> QED  BY <1>8, <2>1, <2>2 DEF Lookups
<1>10. Phases' /\ Cuts'
    BY <1>1, PhasesStay, CutsStay DEF IsServing
<1>11. IsLog(log, conn)'
    <2> DEFINE after == conn'
               before == conn
               lines == log
    <2>1. \A t \in Slots : /\ before[t].state # "idle" => after[t].state # "idle" /\ after[t].request = before[t].request
                           /\ after[t].response = before[t].response
        BY <1>1 DEF ServerInv, Connections, IsConn
    <2>2. IsLog(lines, before)
        BY DEF ServerInv
    <2> HIDE DEF after, before, lines
    <2>3. IsLog(lines, after)
        BY <2>1, <2>2, LogStays
    <2> QED  BY <2>3 DEF after, lines
<1> QED  BY <1>2, <1>9, <1>10, <1>11 DEF ServerInv

LEMMA ReceiveInv ==
    ASSUME ServerInv, NEW s \in Slots, NEW request \in Requests(s), Receive(s, request)
    PROVE  ServerInv'
<1> DEFINE handled == Handle(request, Running)
           span == WithId(s, SpanOf(s, request))
           open == Opened(s, request, span)
<1>1. /\ phase = "serving" /\ conn[s].state = "idle" /\ UNCHANGED <<env, phase, clock>>
      /\ IF handled.call.service = "none"
         THEN /\ conn' = [conn EXCEPT ![s] = Completed(open, handled.response)]
              /\ log' = log \cup CompletedLines(s, handled.response)
              /\ UNCHANGED work
         ELSE /\ conn' = [conn EXCEPT ![s] = [open EXCEPT !.state = "calling", !.call = handled.call]]
              /\ work' = Begin(s, handled.call.service, open.span)
              /\ UNCHANGED log
    BY DEF Receive, Opened
<1>2. IsRequest(request)
    BY RequestsAreRequests DEF ServerInv
<1>3. IsSpanOf(s, request, span)
    BY <1>2, SpanOfRequest
<1>4. IsHandled(request, Running, handled)
    BY <1>2, HandleIsHandled
<1> HIDE DEF handled, span
<1>5. /\ DOMAIN open = ConnParts /\ open.request = request /\ open.span = span /\ open.response = NoResponse
    BY OpenedParts
<1> HIDE DEF open
<1>6. CASE handled.call.service = "none"
    <2>1. IsGood(request, Running, handled.response)
        BY <1>4, <1>6 DEF IsHandled, IsAsked, AllServices, SharedServices, OwnServices, AccountServices, PublicLists, SignedInLists
    <2> DEFINE response == handled.response
               none == {}
    <2>2. log' = log \cup Lines(none \cup {CompletedWith(response)}, <<conn'[s].span>>, {s})
        BY <1>1, <1>6 DEF CompletedLines
    <2>3. NoneCompletes(none)
        BY PanicReports
    <2> HIDE DEF response, none
    <2>4. Connections' /\ IsLog(log, conn)' /\ conn'[s].state = "sending" /\ OthersStay(conn, conn', s)
        BY <1>1, <1>3, <1>5, <1>6, <2>1, <2>2, <2>3, Completes DEF ServerInv, response
    <2> QED  BY <1>1, <1>6, <2>4, AnsweredAtOnce
<1>7. CASE handled.call.service # "none"
    <2> DEFINE d == [open EXCEPT !.state = "calling", !.call = handled.call]
    <2>1. IsAsked(request, handled.call)
        BY <1>4, <1>7 DEF IsHandled, NoCall
    <2>2. /\ DOMAIN d = ConnParts /\ d.state = "calling" /\ d.call = handled.call /\ d.request = request
          /\ d.span = span /\ d.response = NoResponse
        BY <1>5 DEF ConnParts
    <2>3. conn' = [conn EXCEPT ![s] = d] /\ work' = Begin(s, handled.call.service, span) /\ UNCHANGED log
        BY <1>1, <1>5, <1>7
    <2> HIDE DEF d
    <2>4. IsConn(s, d, Requests(s), Running)
        BY <1>3, <2>1, <2>2 DEF IsConn, States
    <2>5. handled.call.service \in AllServices
        BY <2>1 DEF IsAsked
    <2> QED  BY <1>1, <2>2, <2>3, <2>4, <2>5, AsksForACall
<1> QED  BY <1>6, <1>7

LEMMA ReceiveWithoutRandomnessInv ==
    ASSUME ServerInv, NEW s \in Slots, NEW request \in Requests(s), ReceiveWithoutRandomness(s, request)
    PROVE  ServerInv'
<1> DEFINE span == SpanOf(s, request)
           open == Opened(s, request, span)
           others == {PanicLine, Contained}
<1>1. /\ phase = "serving" /\ conn[s].state = "idle" /\ UNCHANGED <<env, phase, clock, work>>
      /\ conn' = [conn EXCEPT ![s] = Completed(open, PanicAnswer)]
      /\ log' = log \cup Lines(others \cup {CompletedWith(PanicAnswer)}, <<conn'[s].span>>, {s})
    BY PanicReports DEF ReceiveWithoutRandomness, Opened, PanicLines
<1>2. IsRequest(request)
    BY RequestsAreRequests DEF ServerInv
<1>3. IsSpanOf(s, request, span)
    BY <1>2, SpanOfRequest
<1> HIDE DEF span
<1>4. /\ DOMAIN open = ConnParts /\ open.request = request /\ open.span = span
    BY OpenedParts
<1>5. NoneCompletes(others) /\ IsGood(request, Running, PanicAnswer)
    BY PanicReports, PanicIsGood
<1> HIDE DEF open, others
<1>6. Connections' /\ IsLog(log, conn)' /\ conn'[s].state = "sending" /\ OthersStay(conn, conn', s)
    BY <1>1, <1>3, <1>4, <1>5, Completes DEF ServerInv
<1> QED  BY <1>1, <1>6, AnsweredAtOnce

-----------------------------------------------------------------------------
(* A call ends *)

\* The callers of a call wait for the service that it is of.
LEMMA WaitingFacts ==
    ASSUME Connections, Lookups, NEW key \in DOMAIN work, NEW s \in Waiting(key)
    PROVE  /\ s \in Slots /\ conn[s].state = "calling" /\ IsConn(s, conn[s], Requests(s), Running)
           /\ conn[s].call.service = ServiceOf(key)
           /\ key \in Slots => key = s
<1>1. s \in Slots /\ conn[s].state = "calling" /\ KeyOf(s, conn[s].call.service) = key
    BY DEF Waiting
<1>2. IsConn(s, conn[s], Requests(s), Running)
    BY <1>1 DEF Connections
<1>3. conn[s].call.service \in AllServices
    BY <1>1, <1>2 DEF IsConn, IsAsked
<1> DEFINE service == conn[s].call.service
<1>4. /\ service \in SharedServices => KeyOf(s, service) = service /\ service \notin Slots
      /\ service \in OwnServices => KeyOf(s, service) = s /\ s \notin SharedServices
      /\ service \in SharedServices \/ service \in OwnServices
    BY <1>1, <1>3, KeyFacts
<1>5. service = ServiceOf(key) /\ (key \in Slots => key = s)
    BY <1>1, <1>4 DEF ServiceOf
<1> QED  BY <1>1, <1>2, <1>5

LEMMA ScoreIsOfTheGame ==
    ASSUME Lookups, NEW key \in DOMAIN work, NEW outcome, NeedsScore(ServiceOf(key), outcome)
    PROVE  key = "game" /\ key \notin Slots
<1>1. ServiceOf(key) = "game"
    BY DEF NeedsScore
<1>2. CASE key \in Slots
    <2>1. conn[key].call.service \in OwnServices
        BY <1>2, NoOwnCall
    <2> QED  BY <1>1, <1>2, <2>1, ServicesAreApart DEF ServiceOf
<1>3. CASE key \notin Slots
    BY <1>1, <1>3 DEF ServiceOf
<1> QED  BY <1>2, <1>3

LEMMA ScoreIsNoPage ==
    ASSUME NEW request, NEW call, IsAsked(request, call)
    PROVE  LET next == [call EXCEPT !.service = "critics"] IN IsAsked(request, next) /\ next.service = "critics"
<1> DEFINE next == [call EXCEPT !.service = "critics"]
<1>1. DOMAIN next = {"service", "page"} /\ next.service = "critics"
    BY DEF IsAsked
<1>2. "critics" \in AllServices /\ "critics" \notin PublicLists /\ "critics" \notin SignedInLists
    BY DEF AllServices, SharedServices, PublicLists, SignedInLists
<1> HIDE DEF next
<1>3. IsAsked(request, next)
    BY <1>1, <1>2 DEF IsAsked, AsksForAPage
<1> QED  BY <1>1, <1>3 DEF next

\* What a caller goes on with: the call of a score, or its answer.
GoesOn(c, d, outcome) ==
    /\ d.request = c.request /\ d.span = c.span
    /\ IF NeedsScore(c.call.service, outcome)
       THEN d.state = "calling" /\ d.call.service = "critics" /\ d.response = c.response
       ELSE /\ d.state = "sending" /\ d.response # NoResponse
            /\ d.response.status = ResponseOf(c.call.service, outcome).status

LEMMA DeliveredIsConn ==
    ASSUME NEW s \in Slots, NEW c, NEW requests, NEW services, IsConn(s, c, requests, services), c.state = "calling",
           NEW outcome, MayEnd(c.call.service, outcome, services)
    PROVE  IsConn(s, Delivered(c, outcome), requests, services) /\ GoesOn(c, Delivered(c, outcome), outcome)
<1>1. /\ DOMAIN c = ConnParts /\ c.response = NoResponse /\ c.request \in requests
      /\ IsSpanOf(s, c.request, c.span) /\ IsAsked(c.request, c.call)
    BY DEF IsConn
<1>2. CASE NeedsScore(c.call.service, outcome)
    <2> DEFINE next == [c.call EXCEPT !.service = "critics"]
               d == [c EXCEPT !.call = next]
    <2>1. Delivered(c, outcome) = d
        BY <1>1, <1>2 DEF Delivered, ConnParts
    <2>2. IsAsked(c.request, next) /\ next.service = "critics"
        BY <1>1, ScoreIsNoPage
    <2> HIDE DEF next
    <2>3. /\ DOMAIN d = ConnParts /\ d.state = c.state /\ d.request = c.request /\ d.span = c.span
          /\ d.response = c.response /\ d.call = next
        BY <1>1 DEF ConnParts
    <2> HIDE DEF d
    <2>4. IsConn(s, d, requests, services)
        BY <1>1, <2>2, <2>3 DEF IsConn, States
    <2>5. GoesOn(c, d, outcome)
        BY <1>2, <2>2, <2>3 DEF GoesOn
    <2> QED  BY <2>1, <2>4, <2>5
<1>3. CASE ~NeedsScore(c.call.service, outcome)
    <2> DEFINE response == ResponseOf(c.call.service, outcome)
               d == Completed(c, response)
    <2>1. Delivered(c, outcome) = d
        BY <1>3 DEF Delivered
    <2>2. IsGood(c.request, services, response)
        BY <1>1, ResponseIsGood
    <2> HIDE DEF response
    <2>3. /\ IsConn(s, d, requests, services)
          /\ d.state = "sending" /\ d.request = c.request /\ d.span = c.span
          /\ d.response # NoResponse /\ d.response.status = response.status
        BY <1>1, <2>2, CompletedIsConn
    <2> HIDE DEF d
    <2>4. GoesOn(c, d, outcome)
        BY <1>3, <2>3 DEF GoesOn, response
    <2> QED  BY <2>1, <2>3, <2>4
<1> QED  BY <1>2, <1>3

LEMMA DeliveredReports ==
    ASSUME NEW service, NEW outcome
    PROVE  NoneCompletes(DeliveredEvents(service, outcome))
BY EventsAreReports DEF NoneCompletes, DeliveredEvents

LEMMA NoLineOfNone ==
    ASSUME NEW scope, NEW about
    PROVE  Lines({}, scope, about) = {}
BY DEF Lines, Written

\* The lines about one caller: its own, and one status if it has its answer.
CallerLines(s, before, after, response, events) ==
    Lines(events, <<before[s].span>>, {s}) \cup Lines({CompletedWith(response)}, <<after[s].span>>, {s})

LEMMA LinesOfCaller ==
    ASSUME NEW s \in Slots, NEW before, NEW after, NEW response, NEW events,
           IsOpen(after, s, after[s].span), after[s].span = before[s].span, NoneCompletes(events)
    PROVE  /\ \A line \in CallerLines(s, before, after, response, events) : IsLine(line, after) /\ line.about = {s}
           /\ Statuses(CallerLines(s, before, after, response, events), s) = {response.status}
<1> DEFINE span == after[s].span
           all == Lines(events \cup {CompletedWith(response)}, <<span>>, {s})
<1>1. IsOpen(after, s, span) /\ IsSpan(span)
    BY DEF IsOpen, IsSpanOf
<1>2. all = Lines(events, <<span>>, {s}) \cup Lines({CompletedWith(response)}, <<span>>, {s})
    BY LinesOfUnion
<1> HIDE DEF span
<1>3. \A line \in all : IsLine(line, after) /\ line.about = {s}
    BY <1>1, EndingLines
<1>4. Statuses(all, s) = {response.status}
    BY <1>1, EndingStatus
<1> HIDE DEF all
<1>5. /\ before[s].span = span /\ after[s].span = span
    BY DEF span
<1> QED  BY <1>2, <1>3, <1>4, <1>5 DEF CallerLines

LEMMA CallerIsLogged ==
    ASSUME NEW s \in Slots, NEW outcome, NEW requests, NEW services, conn'[s] = Delivered(conn[s], outcome),
           IsConn(s, conn[s], requests, services), conn[s].state = "calling",
           IsConn(s, conn'[s], requests, services), GoesOn(conn[s], conn'[s], outcome)
    PROVE  LET told == DeliveredLines(s, conn[s].call.service, outcome) IN
           /\ \A line \in told : IsLine(line, conn') /\ line.about = {s}
           /\ Goes(conn[s], conn'[s], told, s)
<1> DEFINE service == conn[s].call.service
           events == DeliveredEvents(service, outcome)
           told == DeliveredLines(s, service, outcome)
<1>1. NoneCompletes(events)
    BY DeliveredReports
<1>2. conn'[s].state # "idle" /\ conn'[s].request = conn[s].request /\ conn'[s].span = conn[s].span
    BY DEF GoesOn
<1>3. CASE NeedsScore(service, outcome)
    <2>1. events = {}
        <3>1. service = "game"
            BY <1>3 DEF NeedsScore
        <3>2. "game" \notin AccountServices
            BY DEF AccountServices, SignedInLists
        <3> QED  BY <3>1, <3>2 DEF DeliveredEvents
    <2>2. told = {}
        BY <1>3, <2>1, NoLineOfNone DEF DeliveredLines
    <2> HIDE DEF told
    <2>3. Goes(conn[s], conn'[s], told, s)
        BY <1>2, <1>3, <2>2, StatusesOfNone DEF Goes, GoesOn
    <2> QED  BY <2>2, <2>3 DEF told
<1>4. CASE ~NeedsScore(service, outcome)
    <2> DEFINE response == ResponseOf(service, outcome)
               before == conn
               after == conn'
    <2>1. IsOpen(after, s, after[s].span) /\ after[s].span = before[s].span
        BY <1>2 DEF IsOpen, IsConn
    <2>2. told = CallerLines(s, before, after, response, events)
        BY <1>4 DEF DeliveredLines, CompletedLines, CallerLines
    <2> HIDE DEF told, events, response, before, after
    <2>3. /\ \A line \in told : IsLine(line, after) /\ line.about = {s}
          /\ Statuses(told, s) = {response.status}
        BY <1>1, <2>1, <2>2, LinesOfCaller
    <2>4. Goes(conn[s], conn'[s], told, s)
        BY <1>2, <1>4, <2>3 DEF Goes, GoesOn, IsConn, response
    <2> QED  BY <2>3, <2>4 DEF told, after
<1> QED  BY <1>3, <1>4

\* The lines about several requests.
LEMMA StatusesOfAll ==
    ASSUME NEW W, NEW f, \A t \in W : \A line \in f[t] : line.about = {t},
           NEW all, \A line : line \in all <=> \E t \in W : line \in f[t]
    PROVE  \A s : Statuses(all, s) = IF s \in W THEN Statuses(f[s], s) ELSE {}
<1> TAKE s
<1>1. ASSUME NEW t \in W, NEW line \in f[t], line.about = {s}  PROVE t = s
    BY <1>1
<1>2. CASE s \in W
    BY <1>1, <1>2 DEF Statuses
<1>3. CASE s \notin W
    BY <1>1, <1>3 DEF Statuses
<1> QED  BY <1>2, <1>3

LEMMA LogOfAll ==
    ASSUME NEW old, NEW c, NEW d, IsLog(old, c), NEW W, W \subseteq Slots, NEW f,
           \A t \in W : \A line \in f[t] : IsLine(line, d) /\ line.about = {t},
           \A t \in W : Goes(c[t], d[t], f[t], t), \A t \in Slots \ W : d[t] = c[t]
    PROVE  IsLog(old \cup UNION {f[t] : t \in W}, d)
<1> DEFINE new == UNION {f[t] : t \in W}
<1>1. \A line \in new : IsLine(line, d)
    OBVIOUS
<1>2. /\ \A line : line \in new <=> \E t \in W : line \in f[t]
      /\ \A t \in W : \A line \in f[t] : line.about = {t}
    OBVIOUS
<1> HIDE DEF new
<1>3. \A s : Statuses(new, s) = IF s \in W THEN Statuses(f[s], s) ELSE {}
    BY <1>2, StatusesOfAll
<1>4. ASSUME NEW s \in Slots  PROVE Goes(c[s], d[s], new, s)
    <2>1. CASE s \in W
        BY <1>3, <2>1 DEF Goes
    <2>2. CASE s \notin W
        BY <1>3, <2>2 DEF Goes
    <2> QED  BY <2>1, <2>2
<1>5. IsLog(old \cup new, d)
    BY <1>1, <1>4, LogGrows
<1> QED  BY <1>5 DEF new

\* The calls after one has ended, with the call of a score that may begin.
LEMMA WorkAfter ==
    ASSUME NEW key \in DOMAIN work, NEW begun, DOMAIN begun \subseteq {"critics"},
           "critics" \in DOMAIN begun => begun["critics"] = [left |-> Deadline["critics"], scope |-> << >>],
           work' = Over(Without(key), begun)
    PROVE  /\ DOMAIN work' = (DOMAIN work \ {key}) \cup DOMAIN begun
           /\ \A k \in DOMAIN work \ {key} : work'[k] = work[k]
           /\ "critics" \in DOMAIN begun /\ ("critics" \notin DOMAIN work \/ key = "critics") =>
                  work'["critics"] = [left |-> Deadline["critics"], scope |-> << >>]
<1> DEFINE rest == Without(key)
<1>1. DOMAIN rest = DOMAIN work \ {key} /\ \A k \in DOMAIN rest : rest[k] = work[k]
    BY DEF Without, Restrict
<1> HIDE DEF rest
<1>2. work' = Over(rest, begun)
    BY DEF rest
<1> QED  BY <1>1, <1>2 DEF Over

\* No call is left that was for key, and the others go on; the callers of key
\* go on with a score, or have their answer.
LEMMA DeliverInv ==
    ASSUME ServerInv, IsServing, NEW key \in DOMAIN work, NEW outcome, MayEnd(ServiceOf(key), outcome, Running),
           Deliver(key, outcome, {})
    PROVE  ServerInv'
<1> DEFINE service == ServiceOf(key)
           W == Waiting(key)
           needed == NeedsScore(service, outcome)
           begun == IF W # {} /\ needed THEN Score ELSE << >>
           told == [s \in W |-> DeliveredLines(s, service, outcome)]
<1>1. /\ conn' = [s \in Slots |-> IF s \in W THEN Delivered(conn[s], outcome) ELSE conn[s]]
      /\ work' = Over(Without(key), begun)
      /\ log' = log \cup UNION {DeliveredLines(s, service, outcome) : s \in W}
      /\ UNCHANGED <<env, phase, clock>>
    BY DEF Deliver
<1>2. ASSUME NEW s \in W
      PROVE  /\ s \in Slots /\ conn[s].state = "calling" /\ conn[s].call.service = service /\ (key \in Slots => key = s)
             /\ conn'[s] = Delivered(conn[s], outcome)
             /\ IsConn(s, conn[s], Requests(s), Running)
    BY <1>1, WaitingFacts DEF ServerInv
<1>3. \A s \in Slots \ W : conn'[s] = conn[s]
    BY <1>1
<1>4. ASSUME NEW s \in W
      PROVE  IsConn(s, conn'[s], Requests(s), Running) /\ GoesOn(conn[s], conn'[s], outcome)
    <2> DEFINE requests == Requests(s)
               services == Running
               c == conn[s]
    <2>1. IsConn(s, c, requests, services) /\ c.state = "calling" /\ MayEnd(c.call.service, outcome, services)
        BY <1>2
    <2>2. s \in Slots /\ conn'[s] = Delivered(c, outcome)
        BY <1>2
    <2> HIDE DEF requests, services, c
    <2>3. IsConn(s, Delivered(c, outcome), requests, services) /\ GoesOn(c, Delivered(c, outcome), outcome)
        BY <2>1, <2>2, DeliveredIsConn
    <2> QED  BY <2>2, <2>3 DEF requests, services, c
<1>5. Connections'
    <2>1. DOMAIN conn' = Slots
        BY <1>1
    <2>2. ASSUME NEW s \in Slots  PROVE IsConn(s, conn'[s], Requests(s), Running)
        BY <1>3, <1>4 DEF ServerInv, Connections
    <2>3. \A s \in Slots : Requests(s)' = Requests(s) /\ Running' = Running
        BY <1>1 DEF Requests, Running
    <2> QED  BY <2>1, <2>2, <2>3 DEF Connections
<1>6. IsLog(log, conn)'
    <2>1. ASSUME NEW s \in W
          PROVE  /\ \A line \in told[s] : IsLine(line, conn') /\ line.about = {s}
                 /\ Goes(conn[s], conn'[s], told[s], s)
        <3>1. told[s] = DeliveredLines(s, conn[s].call.service, outcome)
            BY <1>2
        <3> HIDE DEF told
        <3>2. /\ \A line \in DeliveredLines(s, conn[s].call.service, outcome) : IsLine(line, conn') /\ line.about = {s}
              /\ Goes(conn[s], conn'[s], DeliveredLines(s, conn[s].call.service, outcome), s)
            BY <1>2, <1>4, CallerIsLogged
        <3> QED  BY <3>1, <3>2
    <2> DEFINE before == conn
               after == conn'
               old == log
    <2>2. log' = old \cup UNION {told[s] : s \in W}
        BY <1>1
    <2>3. IsLog(old, before) /\ W \subseteq Slots /\ \A t \in Slots \ W : after[t] = before[t]
        BY <1>2, <1>3 DEF ServerInv
    <2>4. /\ \A t \in W : \A line \in told[t] : IsLine(line, after) /\ line.about = {t}
          /\ \A t \in W : Goes(before[t], after[t], told[t], t)
        BY <2>1
    <2> HIDE DEF before, after, old, told, W
    <2>5. IsLog(old \cup UNION {told[s] : s \in W}, after)
        BY <2>3, <2>4, LogOfAll
    <2> QED  BY <2>2, <2>5 DEF after
<1>7. Lookups'
    <2>1. needed => key = "game" /\ key \notin Slots
        BY ScoreIsOfTheGame DEF ServerInv
    <2>2. /\ DOMAIN work' = (DOMAIN work \ {key}) \cup DOMAIN begun
          /\ \A k \in DOMAIN work \ {key} : work'[k] = work[k]
          /\ "critics" \in DOMAIN begun /\ ("critics" \notin DOMAIN work \/ key = "critics") =>
                 work'["critics"] = [left |-> Deadline["critics"], scope |-> << >>]
          /\ DOMAIN begun = IF W # {} /\ needed THEN {"critics"} ELSE {}
        <3>1. /\ DOMAIN begun = IF W # {} /\ needed THEN {"critics"} ELSE {}
              /\ "critics" \in DOMAIN begun => begun["critics"] = [left |-> Deadline["critics"], scope |-> << >>]
            BY DEF Score
        <3> HIDE DEF begun, needed, W
        <3>2. DOMAIN begun \subseteq {"critics"} /\ work' = Over(Without(key), begun)
            BY <1>1, <3>1
        <3> QED  BY <3>1, <3>2, WorkAfter
    <2> HIDE DEF begun
    <2>3. ASSUME NEW k \in DOMAIN work, k # key
          PROVE  IsTask(work'[k], ServiceOf(k)', clock') /\ IsTaskOf(k, work'[k], conn'[k])
        <3>1. ASSUME k \in Slots  PROVE Holds(conn[k], conn'[k])
            <4>1. conn[k].state \in {"calling", "cut"} /\ conn[k].call.service \in OwnServices
                BY <3>1, NoOwnCall DEF ServerInv
            <4>2. KeyOf(k, conn[k].call.service) = k
                BY <4>1, ServicesAreApart DEF KeyOf
            <4>3. k \notin W
                BY <2>3, <4>2 DEF Waiting
            <4> QED  BY <1>3, <3>1, <4>1, <4>3 DEF Holds
        <3> QED  BY <1>1, <2>2, <2>3, <3>1, TaskStays DEF ServerInv
    <2>4. ASSUME "critics" \in DOMAIN begun, "critics" \notin DOMAIN work
          PROVE  IsTask(work'["critics"], ServiceOf("critics")', clock') /\ IsTaskOf("critics", work'["critics"], conn'["critics"])
        <3>1. work'["critics"] = [left |-> Deadline["critics"], scope |-> << >>] /\ "critics" \notin Slots
            BY <2>2, <2>4, ServicesAreApart
        <3>2. ServiceOf("critics")' = "critics"
            BY <3>1 DEF ServiceOf
        <3>3. /\ key = "game" /\ service = "game"
            BY <2>1, <2>2, <2>4 DEF ServiceOf
        <3>4. clock + work["game"].left <= Deadline["game"] /\ work["game"].left \in Nat /\ clock \in Nat
            <4>1. IsTask(work["game"], "game", clock)
                BY <3>3 DEF ServerInv, Lookups
            <4>2. Deadline["game"] \in Nat /\ clock \in Nat
                BY ServicesAreApart, DeadlinesAreNat, HttpServerAssumption DEF AllServices, ServerInv, Phases
            <4> QED  BY <4>1, <4>2 DEF IsTask, LatestEnd
        <3>5. Deadline["game"] \in Nat /\ Deadline["critics"] \in Nat
            BY ServicesAreApart, DeadlinesAreNat DEF AllServices
        <3>6. clock + Deadline["critics"] <= Deadline["game"] + Deadline["critics"]
            BY <3>4, <3>5
        <3>7. IsTask(work'["critics"], "critics", clock)
            BY <3>1, <3>5, <3>6 DEF IsTask, LatestEnd
        <3>8. IsTaskOf("critics", work'["critics"], conn'["critics"])
            BY <3>1 DEF IsTaskOf
        <3> QED  BY <1>1, <3>2, <3>7, <3>8
    <2>5. ASSUME NEW k \in DOMAIN work'
          PROVE  IsTask(work'[k], ServiceOf(k)', clock') /\ IsTaskOf(k, work'[k], conn'[k])
        <3>1. CASE k \in DOMAIN work /\ k # key
            BY <2>3, <3>1
        <3>2. CASE k \notin DOMAIN work
            <4>1. k = "critics" /\ "critics" \in DOMAIN begun
                BY <2>2, <3>2
            <4> QED  BY <2>4, <3>2, <4>1
        <3>3. CASE k = key
            <4>1. "critics" \in DOMAIN begun /\ key = "critics" /\ needed
                BY <2>2, <3>3
            <4> QED  BY <2>1, <4>1
        <3> QED  BY <3>1, <3>2, <3>3
    <2>6. DOMAIN work' \subseteq Keys
        <3>1. "critics" \in Keys
            BY ServicesAreApart DEF Keys
        <3> QED  BY <2>2, <3>1 DEF ServerInv, Lookups
    <2>7. ASSUME NEW s \in Slots, conn'[s].state = "calling"
          PROVE  KeyOf(s, conn'[s].call.service) \in DOMAIN work'
        <3>1. CASE s \in W
            <4>1. needed /\ conn'[s].call.service = "critics"
                BY <1>2, <1>4, <2>7, <3>1 DEF GoesOn
            <4>2. KeyOf(s, "critics") = "critics"
                BY ServicesAreApart DEF KeyOf
            <4> QED  BY <2>2, <3>1, <4>1, <4>2
        <3>2. CASE s \notin W
            <4>1. conn'[s] = conn[s]
                BY <1>3, <3>2
            <4>2. KeyOf(s, conn[s].call.service) # key
                BY <2>7, <3>2, <4>1 DEF Waiting
            <4>3. KeyOf(s, conn[s].call.service) \in DOMAIN work
                BY <2>7, <4>1 DEF ServerInv, Lookups
            <4> QED  BY <2>2, <4>1, <4>2, <4>3
        <3> QED  BY <3>1, <3>2
    <2> QED  BY <2>5, <2>6, <2>7 DEF Lookups
<1>8. Phases' /\ Cuts'
    <2>1. \A t \in Slots : conn'[t].state = "cut" => conn'[t] = conn[t]
        BY <1>3, <1>4 DEF GoesOn
    <2> QED  BY <1>1, <2>1, PhasesStay, CutsStay
<1> QED  BY <1>5, <1>6, <1>7, <1>8 DEF ServerInv

LEMMA OutcomesMayEnd ==
    ASSUME NEW service, NEW outcome \in Outcomes(service)
    PROVE  MayEnd(service, outcome, Running)
<1>1. CASE service = "critics"
    BY <1>1 DEF MayEnd
<1>2. CASE service \in AccountServices
    <2>1. service \notin {"critics", "game"}
        BY <1>2 DEF AccountServices, SignedInLists
    <2>2. Outcomes(service) = IF Running.account = "sony" THEN {"ok", "rejected"} \cup Failures ELSE {"unavailable"}
        BY <1>2, <2>1 DEF Outcomes
    <2> QED  BY <1>2, <2>2 DEF MayEnd, Failures
<1>3. CASE service = "game" /\ service \notin AccountServices
    <2>1. Outcomes(service) = IF Running.games = "sony" THEN {"ok", "undated", "notFound"} \cup Failures
                              ELSE {"unavailable"}
        BY <1>3 DEF Outcomes
    <2> QED  BY <1>3, <2>1 DEF MayEnd, Failures
<1>4. CASE service \notin AccountServices \cup {"critics", "game"}
    <2>1. Outcomes(service) = IF Running.games = "sony" THEN {"ok"} \cup Failures ELSE {"unavailable"}
        BY <1>4 DEF Outcomes
    <2> QED  BY <2>1 DEF MayEnd, Failures
<1> QED  BY <1>1, <1>2, <1>3, <1>4

LEMMA WorkEndsInv ==
    ASSUME ServerInv, NEW key, WorkEnds(key)
    PROVE  ServerInv'
<1>1. PICK outcome \in Outcomes(ServiceOf(key)) : Deliver(key, outcome, {})
    BY DEF WorkEnds
<1>2. IsServing /\ key \in DOMAIN work
    BY DEF WorkEnds
<1> QED  BY <1>1, <1>2, OutcomesMayEnd, DeliverInv

LEMMA TaskPanicsInv ==
    ASSUME ServerInv, NEW key, TaskPanics(key)
    PROVE  ServerInv'
<1> DEFINE scope == IF key \in Slots THEN << >> ELSE work[key].scope
           lines == Lines({PanicLine}, scope, Waiting(key))
           outcome == IF key = "critics" THEN "failed" ELSE "unavailable"
<1>1. IsServing /\ key \in DOMAIN work /\ Deliver(key, outcome, lines)
    BY DEF TaskPanics
<1>2. scope = << >>
    BY <1>1 DEF ServerInv, Lookups, IsTaskOf
<1>3. lines = {}
    <2>1. \A e \in {PanicLine} : IsReport(e)
        BY EventsAreReports
    <2> QED  BY <1>2, <2>1, NoLineOutside
<1> HIDE DEF lines
<1>4. Deliver(key, outcome, {})
    BY <1>1, <1>3 DEF Deliver
<1>5. MayEnd(ServiceOf(key), outcome, Running)
    <2>1. key = "critics" => ServiceOf(key) = "critics"
        BY ServicesAreApart DEF ServiceOf
    <2> QED  BY <2>1 DEF MayEnd, Failures
<1> HIDE DEF outcome
<1> QED  BY <1>1, <1>4, <1>5, DeliverInv

-----------------------------------------------------------------------------
(* A request leaves its call *)

\* The slot s calls no longer, and its own call, if it has one, is dropped.
LEMMA SlotLeaves ==
    ASSUME ServerInv, IsServing, NEW s \in Slots, UNCHANGED <<env, phase, clock>>, work' \in {work, Without(s)},
           s \notin DOMAIN work', OthersStay(conn, conn', s), conn'[s].state \notin {"calling", "cut"}
    PROVE  Lookups' /\ Phases' /\ Cuts'
<1>1. \A t \in Slots : conn'[t].state \in {"calling", "cut"} => t # s /\ conn'[t] = conn[t]
    BY DEF OthersStay
<1>2. DOMAIN work' = DOMAIN work \ {s} /\ \A k \in DOMAIN work' : work'[k] = work[k]
    <2>1. DOMAIN Without(s) = DOMAIN work \ {s} /\ \A k \in DOMAIN work \ {s} : Without(s)[k] = work[k]
        BY DEF Without, Restrict
    <2> QED  BY <2>1
<1>3. ASSUME NEW key \in DOMAIN work', key \in Slots  PROVE Holds(conn[key], conn'[key])
    <2>1. conn[key].state \in {"calling", "cut"}
        BY <1>2, <1>3, NoOwnCall DEF ServerInv
    <2>2. conn'[key] = conn[key]
        BY <1>2, <1>3 DEF OthersStay
    <2> QED  BY <2>1, <2>2 DEF Holds
<1>4. ASSUME NEW t \in Slots, conn'[t].state = "calling"
      PROVE  conn'[t] = conn[t] /\ KeyOf(t, conn[t].call.service) \in DOMAIN work'
    <2>1. t # s /\ conn'[t] = conn[t]
        BY <1>1, <1>4
    <2>2. KeyOf(t, conn[t].call.service) \in DOMAIN work
        BY <1>4, <2>1 DEF ServerInv, Lookups
    <2>3. KeyOf(t, conn[t].call.service) # s
        BY <2>1, ServicesAreApart DEF KeyOf
    <2> QED  BY <1>2, <2>1, <2>2, <2>3
<1>5. Lookups'
    BY <1>2, <1>3, <1>4, CallsEnd DEF ServerInv
<1>6. Phases' /\ Cuts'
    BY <1>1, PhasesStay, CutsStay
<1> QED  BY <1>5, <1>6

LEMMA WithoutKey ==
    ASSUME NEW key
    PROVE  key \notin DOMAIN Without(key)
BY DEF Without, Restrict

LEMMA HandlerPanicsInv ==
    ASSUME ServerInv, NEW s \in Slots, HandlerPanics(s)
    PROVE  ServerInv'
<1> DEFINE c == conn[s]
           others == {PanicLine, Contained}
<1>1. /\ IsServing /\ c.state = "calling" /\ UNCHANGED <<env, phase, clock>> /\ work' = Without(s)
      /\ conn' = [conn EXCEPT ![s] = Completed(c, PanicAnswer)]
      /\ log' = log \cup Lines(others \cup {CompletedWith(PanicAnswer)}, <<conn'[s].span>>, {s})
    BY PanicReports DEF HandlerPanics, PanicLines
<1>2. DOMAIN c = ConnParts /\ c.request \in Requests(s) /\ IsSpanOf(s, c.request, c.span) /\ conn[s].request = c.request
    BY <1>1 DEF ServerInv, Connections, IsConn
<1>3. NoneCompletes(others) /\ IsGood(c.request, Running, PanicAnswer) /\ conn[s].state = "calling"
    BY <1>1, PanicReports, PanicIsGood
<1> HIDE DEF c, others
<1>4. Connections' /\ IsLog(log, conn)' /\ conn'[s].state = "sending" /\ OthersStay(conn, conn', s)
    BY <1>1, <1>2, <1>3, Completes DEF ServerInv
<1>5. Lookups' /\ Phases' /\ Cuts'
    BY <1>1, <1>4, WithoutKey, SlotLeaves
<1> QED  BY <1>4, <1>5 DEF ServerInv

\* A request ends, with its answer or without.
LEMMA SlotEnds ==
    ASSUME ServerInv, NEW s \in Slots, NEW state \in {"done", "gone"}, UNCHANGED <<env, log>>,
           conn[s].state \in {"calling", "sending"}, state = "done" => conn[s].state = "sending",
           conn' = [conn EXCEPT ![s].state = state]
    PROVE  Connections' /\ IsLog(log, conn)' /\ conn'[s].state = state /\ OthersStay(conn, conn', s)
<1> DEFINE d == [conn[s] EXCEPT !.state = state]
<1>1. DOMAIN conn' = Slots /\ conn'[s] = d /\ \A t \in Slots : t # s => conn'[t] = conn[t]
    BY DEF ServerInv, Connections
<1>2. /\ DOMAIN d = ConnParts /\ d.state = state /\ d.request = conn[s].request /\ d.response = conn[s].response
      /\ d.span = conn[s].span
    BY DEF ServerInv, Connections, IsConn, ConnParts
<1> HIDE DEF d
<1>3. IsConn(s, d, Requests(s), Running)
    BY <1>2 DEF ServerInv, Connections, IsConn, States
<1>4. Connections'
    BY <1>1, <1>3 DEF ServerInv, Connections, Requests, Running
<1>5. IsLog(log, conn)'
    <2> DEFINE before == conn
               after == conn'
               lines == log
    <2>1. \A t \in Slots : /\ before[t].state # "idle" => after[t].state # "idle" /\ after[t].request = before[t].request
                           /\ after[t].response = before[t].response
        BY <1>1, <1>2
    <2>2. IsLog(lines, before)
        BY DEF ServerInv
    <2> HIDE DEF after, before, lines
    <2>3. IsLog(lines, after)
        BY <2>1, <2>2, LogStays
    <2> QED  BY <2>3 DEF after, lines
<1> QED  BY <1>1, <1>2, <1>4, <1>5 DEF OthersStay

LEMMA SentInv ==
    ASSUME ServerInv, NEW s \in Slots, Sent(s)
    PROVE  ServerInv'
<1>1. /\ IsServing /\ conn[s].state = "sending" /\ conn' = [conn EXCEPT ![s].state = "done"]
      /\ UNCHANGED <<env, phase, clock, work, log>>
    BY DEF Sent
<1>2. Connections' /\ IsLog(log, conn)' /\ conn'[s].state = "done" /\ OthersStay(conn, conn', s)
    BY <1>1, SlotEnds
<1>3. s \notin DOMAIN work'
    BY <1>1, NoOwnCall DEF ServerInv
<1>4. Lookups' /\ Phases' /\ Cuts'
    BY <1>1, <1>2, <1>3, SlotLeaves
<1> QED  BY <1>2, <1>4 DEF ServerInv

LEMMA DisconnectsInv ==
    ASSUME ServerInv, NEW s \in Slots, Disconnects(s)
    PROVE  ServerInv'
<1>1. /\ IsServing /\ conn[s].state \in {"calling", "sending"} /\ conn' = [conn EXCEPT ![s].state = "gone"]
      /\ work' = Without(s) /\ UNCHANGED <<env, phase, clock, log>>
    BY DEF Disconnects, IsActive
<1>2. Connections' /\ IsLog(log, conn)' /\ conn'[s].state = "gone" /\ OthersStay(conn, conn', s)
    BY <1>1, SlotEnds
<1>3. Lookups' /\ Phases' /\ Cuts'
    BY <1>1, <1>2, WithoutKey, SlotLeaves
<1> QED  BY <1>2, <1>3 DEF ServerInv

-----------------------------------------------------------------------------
(* A call writes lines, and time passes *)

\* A line of a shared lookup is in no span, and a line of a call of its own
\* reports on the request that waits for it.
LEMMA WorkLogsInv ==
    ASSUME ServerInv, NEW key, WorkLogs(key)
    PROVE  ServerInv'
<1>1. IsServing /\ key \in DOMAIN work /\ UNCHANGED <<env, phase, clock, conn, work>>
    BY DEF WorkLogs
<1>2. PICK e \in CallEvents : log' = log \cup Lines({e}, work[key].scope, Waiting(key))
    BY DEF WorkLogs
<1> DEFINE new == Lines({e}, work[key].scope, Waiting(key))
<1>3. IsReport(e) /\ e.values.message # "completed"
    BY EventsAreReports
<1>4. IsLog(log \cup new, conn)
    <2>1. CASE key \in Slots
        <3> DEFINE span == conn[key].span
        <3>1. conn[key].state \in {"calling", "cut"} /\ conn[key].call.service \in OwnServices /\ work[key].scope = <<span>>
            BY <1>1, <2>1 DEF ServerInv, Lookups, IsTaskOf
        <3>2. conn[key].state = "calling"
            BY <1>1, <2>1, <3>1 DEF ServerInv, Cuts, IsServing
        <3>3. Waiting(key) = {key}
            <4>1. KeyOf(key, conn[key].call.service) = key
                BY <3>1, ServicesAreApart DEF KeyOf
            <4>2. key \in Waiting(key)
                BY <2>1, <3>2, <4>1 DEF Waiting
            <4>3. \A s \in Waiting(key) : s = key
                BY <1>1, <2>1, WaitingFacts DEF ServerInv
            <4> QED  BY <4>2, <4>3
        <3>4. IsOpen(conn, key, span) /\ IsSpan(span)
            BY <2>1, <3>2 DEF ServerInv, Connections, IsConn, IsOpen, IsSpanOf
        <3>5. new = Lines({e}, <<span>>, {key})
            BY <3>1, <3>3
        <3> DEFINE events == {e}
                   c == conn
        <3>6. \A x \in events : IsReport(x) /\ x.values.message # "completed"
            BY <1>3
        <3>7. key \in Slots /\ c[key].state # "idle" /\ IsSpanOf(key, c[key].request, span)
            BY <2>1, <3>4 DEF IsOpen
        <3> HIDE DEF new, span, events, c
        <3>8. \A line \in Lines(events, <<span>>, {key}) : IsLine(line, c) /\ line.about = {key}
            BY <3>6, <3>7, LineOfRequest
        <3>9. Statuses(Lines(events, <<span>>, {key}), key) = {}
            BY <3>4, <3>6, StatusesOfOthers
        <3>10. /\ \A line \in new : IsLine(line, c) /\ line.about = {key}
               /\ Goes(c[key], c[key], new, key)
            BY <3>5, <3>8, <3>9 DEF Goes, events
        <3>11. IsLog(log, c)
            BY DEF ServerInv, c
        <3>12. IsLog(log \cup new, c)
            BY <2>1, <3>10, <3>11, LogOfOne
        <3> QED  BY <3>12 DEF c
    <2>2. CASE key \notin Slots
        <3>1. work[key].scope = << >>
            BY <1>1, <2>2 DEF ServerInv, Lookups, IsTaskOf
        <3>2. \A x \in {e} : IsReport(x)
            BY <1>3
        <3>3. new = {}
            BY <3>1, <3>2, NoLineOutside
        <3> HIDE DEF new
        <3>4. log \cup new = log
            BY <3>3
        <3> QED  BY <3>4 DEF ServerInv
    <2> QED  BY <2>1, <2>2
<1>5. Connections' /\ Lookups'
    BY <1>1, ConnectionsStay, LookupsStay
<1>6. Phases' /\ Cuts'
    BY <1>1, PhasesStay, CutsStay
<1> HIDE DEF new
<1>7. IsLog(log', conn')
    BY <1>1, <1>2, <1>4 DEF new
<1> QED  BY <1>5, <1>6, <1>7 DEF ServerInv

LEMMA LatestIsWithinLongest ==
    ASSUME NEW service \in AllServices
    PROVE  LatestEnd(service) \in Nat /\ Longest(service) \in Nat /\ LatestEnd(service) <= Longest(service)
<1>1. Deadline["game"] \in Nat /\ Deadline["critics"] \in Nat /\ Deadline[service] \in Nat
    BY ServicesAreApart, DeadlinesAreNat DEF AllServices
<1> QED  BY <1>1 DEF LatestEnd, Longest

\* A call that still runs when the grace period ends has deadlines that fill it.
LEMMA RunsThroughGrace ==
    ASSUME ServerInv, NEW s \in Slots, conn[s].state = "calling", clock >= Grace
    PROVE  Longest(conn[s].call.service) >= Grace
<1> DEFINE service == conn[s].call.service
           key == KeyOf(s, service)
<1>1. key \in DOMAIN work
    BY DEF ServerInv, Lookups
<1>2. service \in AllServices
    BY DEF ServerInv, Connections, IsConn, IsAsked
<1>3. ServiceOf(key) = service
    BY <1>2, KeyFacts DEF ServiceOf
<1> HIDE DEF key, service
<1>4. IsTask(work[key], service, clock)
    BY <1>1, <1>3 DEF ServerInv, Lookups
<1>5. clock \in Nat /\ Grace \in Nat
    BY HttpServerAssumption DEF ServerInv, Phases
<1>6. work[key].left \in Nat /\ clock + work[key].left <= LatestEnd(service)
    <2>1. Deadline[service] \in Nat
        BY <1>2, DeadlinesAreNat
    <2> QED  BY <1>4, <2>1 DEF IsTask
<1>7. clock <= LatestEnd(service)
    BY <1>2, <1>5, <1>6, LatestIsWithinLongest
<1>8. Longest(service) >= Grace
    BY <1>2, <1>5, <1>7, LatestIsWithinLongest
<1> QED  BY <1>8 DEF service

LEMMA GraceOverInv ==
    ASSUME ServerInv, GraceOver
    PROVE  ServerInv'
<1>1. /\ phase = "stopping" /\ clock >= Grace /\ phase' = "cut" /\ UNCHANGED <<env, clock, work, log>>
      /\ conn' = [s \in Slots |-> IF IsActive(conn[s]) THEN [conn[s] EXCEPT !.state = "cut"] ELSE conn[s]]
    BY DEF GraceOver, GraceEnds
<1>2. ASSUME NEW s \in Slots, conn[s].state \in {"calling", "sending"}
      PROVE  /\ conn'[s].state = "cut" /\ DOMAIN conn'[s] = ConnParts /\ conn'[s].request = conn[s].request
             /\ conn'[s].response = conn[s].response /\ conn'[s].span = conn[s].span /\ conn'[s].call = conn[s].call
    <2>1. DOMAIN conn[s] = ConnParts
        BY DEF ServerInv, Connections, IsConn
    <2>2. conn'[s] = [conn[s] EXCEPT !.state = "cut"]
        BY <1>1, <1>2 DEF IsActive
    <2> QED  BY <2>1, <2>2 DEF ConnParts
<1>3. \A s \in Slots : conn[s].state \notin {"calling", "sending"} => conn'[s] = conn[s]
    BY <1>1 DEF IsActive
<1>4. Connections'
    <2>1. DOMAIN conn' = Slots
        BY <1>1
    <2>2. ASSUME NEW s \in Slots  PROVE IsConn(s, conn'[s], Requests(s), Running)
        <3>1. IsConn(s, conn[s], Requests(s), Running)
            BY DEF ServerInv, Connections
        <3>2. CASE conn[s].state \in {"calling", "sending"}
            BY <1>2, <3>1, <3>2 DEF IsConn, States
        <3>3. CASE conn[s].state \notin {"calling", "sending"}
            BY <1>3, <3>1, <3>3
        <3> QED  BY <3>2, <3>3
    <2>3. \A s \in Slots : Requests(s)' = Requests(s) /\ Running' = Running
        BY <1>1 DEF Requests, Running
    <2> QED  BY <2>1, <2>2, <2>3 DEF Connections
<1>5. Lookups'
    <2>1. ASSUME NEW key \in DOMAIN work', key \in Slots  PROVE Holds(conn[key], conn'[key])
        <3>1. conn[key].state \in {"calling", "cut"}
            BY <1>1, <2>1, NoOwnCall DEF ServerInv
        <3> QED  BY <1>2, <1>3, <2>1, <3>1 DEF Holds
    <2>2. \A s \in Slots : conn'[s].state # "calling"
        BY <1>2, <1>3
    <2> QED  BY <1>1, <2>1, <2>2, CallsEnd DEF ServerInv
<1>6. Phases'
    BY <1>1 DEF ServerInv, Phases
<1>7. Cuts'
    <2>1. ASSUME NEW s \in Slots, conn'[s].state = "cut", conn'[s].response = NoResponse
          PROVE  Longest(conn'[s].call.service) >= Grace
        <3>1. conn[s].state # "cut"
            BY <1>1 DEF ServerInv, Cuts
        <3>2. conn[s].state \in {"calling", "sending"}
            BY <1>3, <2>1, <3>1
        <3>3. conn[s].state = "calling" /\ conn'[s].call = conn[s].call
            BY <1>2, <2>1, <3>2 DEF ServerInv, Connections, IsConn
        <3> QED  BY <1>1, <3>3, RunsThroughGrace
    <2> QED  BY <1>1, <2>1 DEF Cuts, Longest
<1>8. IsLog(log, conn)'
    <2> DEFINE before == conn
               after == conn'
               lines == log
    <2>1. \A t \in Slots : /\ before[t].state # "idle" => after[t].state # "idle" /\ after[t].request = before[t].request
                           /\ after[t].response = before[t].response
        BY <1>2, <1>3
    <2>2. IsLog(lines, before) /\ log' = lines
        BY <1>1 DEF ServerInv
    <2> HIDE DEF after, before, lines
    <2>3. IsLog(lines, after)
        BY <2>1, <2>2, LogStays
    <2> QED  BY <2>2, <2>3 DEF after
<1> QED  BY <1>4, <1>5, <1>6, <1>7, <1>8 DEF ServerInv

LEMMA TickInv ==
    ASSUME ServerInv, Tick
    PROVE  ServerInv'
<1>1. /\ IsServing /\ CallsInTime /\ (phase = "stopping" => clock < Grace)
      /\ clock' = (IF phase = "stopping" THEN clock + 1 ELSE clock)
      /\ work' = [key \in DOMAIN work |-> [work[key] EXCEPT !.left = @ - 1]]
      /\ UNCHANGED <<env, phase, conn, log>>
    BY DEF Tick
<1>2. clock \in Nat /\ Grace \in Nat /\ clock' \in {clock, clock + 1}
    BY <1>1, HttpServerAssumption DEF ServerInv, Phases
<1>3. ASSUME NEW key \in DOMAIN work
      PROVE  IsTask(work'[key], ServiceOf(key)', clock') /\ IsTaskOf(key, work'[key], conn'[key])
    <2> DEFINE task == work[key]
               next == work'[key]
               service == ServiceOf(key)
    <2>1. IsTask(task, service, clock) /\ IsTaskOf(key, task, conn[key])
        BY DEF ServerInv, Lookups
    <2>2. next = [task EXCEPT !.left = task.left - 1] /\ task.left > 0
        BY <1>1 DEF CallsInTime
    <2>3. service \in AllServices
        <3>1. CASE key \in Slots
            BY <2>1, <3>1 DEF IsTaskOf, ServiceOf, AllServices
        <3>2. CASE key \notin Slots
            BY <3>2 DEF ServerInv, Lookups, Keys, ServiceOf, AllServices
        <3> QED  BY <3>1, <3>2
    <2>4. ServiceOf(key)' = service
        BY <1>1 DEF ServiceOf
    <2> HIDE DEF task, next, service
    <2>5. DOMAIN next = {"left", "scope"} /\ next.scope = task.scope /\ next.left = task.left - 1
        BY <2>1, <2>2 DEF IsTask
    <2>6. Deadline[service] \in Nat /\ LatestEnd(service) \in Nat
        BY <2>3, DeadlinesAreNat
    <2>7. task.left \in Nat /\ task.left <= Deadline[service] /\ clock + task.left <= LatestEnd(service)
        BY <2>1, <2>6 DEF IsTask
    <2>8. next.left \in 0..Deadline[service] /\ clock' + next.left <= LatestEnd(service)
        BY <1>2, <2>2, <2>5, <2>6, <2>7
    <2>9. IsTask(next, service, clock')
        BY <2>5, <2>8 DEF IsTask
    <2>10. IsTaskOf(key, next, conn'[key])
        BY <1>1, <2>1, <2>5 DEF IsTaskOf
    <2> QED  BY <2>4, <2>9, <2>10 DEF next
<1>4. Lookups'
    <2>1. DOMAIN work' = DOMAIN work
        BY <1>1
    <2> QED  BY <1>1, <1>3, <2>1 DEF ServerInv, Lookups
<1>5. Phases'
    BY <1>1, <1>2 DEF ServerInv, Phases, IsServing
<1>6. Connections' /\ Cuts' /\ IsLog(log, conn)'
    BY <1>1, ConnectionsStay, CutsStay DEF ServerInv
<1> QED  BY <1>4, <1>5, <1>6 DEF ServerInv

-----------------------------------------------------------------------------
(* The theorems *)

LEMMA NextInv ==
    ASSUME ServerInv, [Next]_vars
    PROVE  ServerInv'
<1>1. CASE StartUp
    BY <1>1, StartUpInv
<1>2. CASE StopSignal \/ Drained
    BY <1>2, StopInv
<1>3. CASE GraceOver
    BY <1>3, GraceOverInv
<1>4. CASE Tick
    BY <1>4, TickInv
<1>5. ASSUME NEW s \in Slots, NEW request \in Requests(s), Receive(s, request) \/ ReceiveWithoutRandomness(s, request)
      PROVE  ServerInv'
    BY <1>5, ReceiveInv, ReceiveWithoutRandomnessInv
<1>6. ASSUME NEW key \in Keys, WorkEnds(key) \/ TaskPanics(key) \/ WorkLogs(key)
      PROVE  ServerInv'
    BY <1>6, WorkEndsInv, TaskPanicsInv, WorkLogsInv
<1>7. ASSUME NEW s \in Slots, HandlerPanics(s) \/ Sent(s) \/ Disconnects(s)
      PROVE  ServerInv'
    BY <1>7, HandlerPanicsInv, SentInv, DisconnectsInv
<1>8. CASE UNCHANGED vars
    BY <1>8, StutterInv
<1> QED  BY <1>1, <1>2, <1>3, <1>4, <1>5, <1>6, <1>7, <1>8 DEF Next

\* The inductive invariant: the connections, the calls that run, the phases, the
\* requests that a stop cuts, and the lines of the log with the statuses they tell.
THEOREM Invariant == Spec => []ServerInv
<1>1. Init => ServerInv
    BY InitInv
<1>2. ServerInv /\ [Next]_vars => ServerInv'
    BY NextInv
<1> QED  BY <1>1, <1>2, PTL DEF Spec

\* The server has the values that the code gives it; a call that runs is never
\* past its deadline, and a request that waits has a call that runs.
THEOREM TypeCorrect == Spec => []TypeOK
<1>1. ServerInv => TypeOK
    <2> SUFFICES ASSUME ServerInv PROVE TypeOK
        OBVIOUS
    <2>1. /\ env \in Environments /\ clock \in 0..Grace
          /\ phase \in {"starting", "failed", "serving", "stopping", "drained", "cut"}
        BY DEF ServerInv, Phases
    <2>2. \A s \in Slots :
              /\ conn[s].state \in States
              /\ conn[s].state # "idle" => conn[s].request \in Requests(s)
              /\ conn[s].state = "calling" => KeyOf(s, conn[s].call.service) \in DOMAIN work
        BY DEF ServerInv, Connections, IsConn, Lookups
    <2>3. DOMAIN work \subseteq Keys /\ \A key \in DOMAIN work : work[key].left \in 0..Deadline[ServiceOf(key)]
        BY DEF ServerInv, Lookups, IsTask
    <2> QED  BY <2>1, <2>2, <2>3 DEF TypeOK
<1> QED  BY <1>1, Invariant, PTL

\* A line of the log with a request id reports on that request alone, under its
\* own route, and shows no field beyond the allowlist.
THEOREM LinesCorrect == Spec => []LinesBelongToTheirRequest
<1>1. ServerInv => LinesBelongToTheirRequest
    BY DEF ServerInv, IsLog, IsLine, LinesBelongToTheirRequest
<1> QED  BY <1>1, Invariant, PTL

\* A request with an answer has its one status in its answer and in its line, the
\* headers of every answer, and is cut only by a stop that its deadlines outlast.
THEOREM AccountedCorrect == Spec => []EveryRequestIsAccountedFor
<1>1. ServerInv => EveryRequestIsAccountedFor
    <2> SUFFICES ASSUME ServerInv, NEW s \in Slots
                 PROVE  LET c == conn[s] IN
                        /\ Statuses(log, s) = IF c.response = NoResponse THEN {} ELSE {c.response.status}
                        /\ c.response # NoResponse => c.response.secure
                        /\ c.state \in {"sending", "done"} => c.response # NoResponse
                        /\ c.state = "cut" =>
                               /\ phase = "cut"
                               /\ c.response = NoResponse => Longest(c.call.service) >= Grace
        BY DEF EveryRequestIsAccountedFor, Statuses
    <2>1. Statuses(log, s) = StatusOfAnswer(conn[s])
        BY DEF ServerInv, IsLog
    <2>2. IsConn(s, conn[s], Requests(s), Running)
        BY DEF ServerInv, Connections
    <2> QED  BY <2>1, <2>2 DEF ServerInv, Cuts, StatusOfAnswer, IsConn
<1> QED  BY <1>1, Invariant, PTL

\* Every answer follows the contract of the API, whatever its service gave, and a
\* service is only asked for pages that it may be asked for.
THEOREM ContractCorrect == Spec => []AnswersFollowTheContract
<1>1. ServerInv => AnswersFollowTheContract
    BY DEF ServerInv, Connections, IsConn, IsGood, IsAsked, AnswersFollowTheContract
<1> QED  BY <1>1, Invariant, PTL
=============================================================================
