------------------------------ MODULE StoreCall ------------------------------
(***************************************************************************)
(* One call to the Sony store (sources/sony/catalog.rs): the transport call *)
(* with its retries, the errors that Sony reports inside an HTTP 200 body   *)
(* (graphql_errors.rs), the decoders (catalog/), and the problem that the   *)
(* HTTP layer makes of a failure (http/errors.rs).                          *)
(*                                                                          *)
(* A body is what the decoders tell apart: whether it is JSON, the elements *)
(* of its `errors` array, its requested node, and how many raw elements of  *)
(* that node decode (`kept`) or do not (`dropped`).                         *)
(***************************************************************************)
EXTENDS Transport, FiniteSets

VARIABLES
    operation,  \* the adapter method that was called
    outcome     \* what it returned

storeVars == <<isFailure, attempt, at, wait, elapsed, seen, result, operation, outcome>>

\* The operations, by the decoder they use.
Grids == {"feature grid", "browse", "search", "genres"}
Products == {"product detail", "product price"}
Operations == Grids \cup Products \cup {"monthly"}

\* The elements of an `errors` array: a 5xx statusCode, a 404 statusCode, the
\* persisted-query code, and an element of the wrong shape.
ErrorElements == {"5xx", "404", "rotated", "malformed"}
BodyShapes == [json : BOOLEAN, errors : SUBSET ErrorElements, node : {"null", "malformed", "ok"},
               kept : Nat, dropped : Nat]
ASSUME BodiesAssumption == Bodies \subseteq BodyShapes

-----------------------------------------------------------------------------
(* What the adapter reads in a body *)

\* is_graphql_server_error: the rule needs both the status and a null node.
ReportsServerErrorAnyNode(body) == body.json /\ "5xx" \in body.errors
ReportsServerError(body) == body.json /\ "5xx" \in body.errors /\ body.node = "null"

\* is_persisted_query_rotation: one malformed element fails the whole envelope.
ReportsRotation(body) == body.json /\ "rotated" \in body.errors /\ "malformed" \notin body.errors

Unavailable == [kind |-> "unavailable"]
Rotated == [kind |-> "rotated"]
Limit(seconds) == [kind |-> "limited", retryAfterSeconds |-> seconds]
Data(elements) == [kind |-> "data", elements |-> elements]

\* extract_category_grid: the node must be readable, its elements need not be.
CategoryGrid(body) == IF body.node = "ok" THEN Data(body.kept) ELSE Unavailable

\* extract_browse_page and parse_search_response keep the same rule for a page.
BrowsePage(body) == CategoryGrid(body)
SearchPage(body) == IF body.node = "ok" THEN Data(body.kept) ELSE Unavailable

\* extract_genres: a facet in which nothing decodes has drifted.
GenreFacet(body) == IF body.node = "ok" /\ body.kept > 0 THEN Data(body.kept) ELSE Unavailable

\* extract_product_detail and parse_product_price degrade to empty values.
ProductDetail(body) == Data(IF body.node = "ok" THEN body.kept ELSE 0)
ProductPrice(body) == Data(IF body.node = "ok" THEN body.kept ELSE 0)

\* parse_plus_monthly: "ok" is a list with a readable bucket, or an empty one.
Monthly(body) == IF body.node = "ok" THEN Data(body.kept) ELSE Unavailable

DecodeDriftAsEmpty(op, body) == Data(IF body.node = "ok" THEN body.kept ELSE 0)
Decode(op, body) ==
    CASE op = "feature grid" -> CategoryGrid(body)
      [] op = "browse" -> BrowsePage(body)
      [] op = "search" -> SearchPage(body)
      [] op = "genres" -> GenreFacet(body)
      [] op = "product detail" -> ProductDetail(body)
      [] op = "product price" -> ProductPrice(body)
      [] op = "monthly" -> Monthly(body)

\* json_body, then graphql_checked for the GraphQL operations, then the decoder.
Read(op, body) ==
    IF ~body.json THEN Unavailable
    ELSE IF op # "monthly" /\ ReportsRotation(body) THEN Rotated
    ELSE IF op # "monthly" /\ ReportsServerError(body) THEN Unavailable
    ELSE Decode(op, body)
ReadUnchecked(op, body) == IF ~body.json THEN Unavailable ELSE Decode(op, body)

\* div_ceil: part of a second is advertised as a whole one.
Seconds(ticks) == (ticks + Second - 1) \div Second

\* upstream_error
Classify(op, value) ==
    IF value.kind = "answer" /\ value.answer.status = "2xx" THEN Read(op, value.answer.body)
    ELSE IF value.kind = "rate limited"
    THEN Limit(IF value.retryAfter = NoDelay THEN NoDelay ELSE Seconds(value.retryAfter))
    ELSE Unavailable

\* From<&UpstreamError> for Problem, ProblemCode::status.
HttpStatus(value) ==
    CASE value.kind = "data" -> 200
      [] value.kind \in {"unavailable", "rotated"} -> 502
      [] value.kind = "limited" -> 503

-----------------------------------------------------------------------------

\* graphql passes reports_server_error; fetch_plus_monthly uses plain `send`.
Init ==
    /\ InitCall
    /\ operation \in Operations
    /\ isFailure = IF operation = "monthly" THEN {} ELSE {b \in Bodies : ReportsServerError(b)}
    /\ outcome = NoResult

Attempt == NextCall /\ UNCHANGED <<operation, outcome>>

AnswerUnlessFailed ==
    /\ at = "done" /\ outcome = NoResult /\ result # TransportFailed
    /\ outcome' = Classify(operation, result)
    /\ UNCHANGED callVars /\ UNCHANGED operation
Answer ==
    /\ at = "done" /\ outcome = NoResult
    /\ outcome' = Classify(operation, result)
    /\ UNCHANGED callVars /\ UNCHANGED operation

Next == Attempt \/ Answer

Spec == Init /\ [][Next]_storeVars

\* Every attempt has its deadline, and the runtime wakes a sleeping call.
FairSpec == Spec /\ WF_storeVars(Next)

-----------------------------------------------------------------------------
(* Properties *)

\* What Sony proved with the call's last answer.
LastBody == seen[Len(seen)].body
Proven ==
    /\ seen[Len(seen)].status = "2xx" /\ LastBody.json
    /\ operation # "monthly" => "5xx" \notin LastBody.errors \/ LastBody.node # "null"

\* An outage, a rotated query hash, a rate limit or a body of an unknown shape
\* never reads as data, so the page never shows an empty list for a list that
\* Sony did not answer.  Only a product node may be missing: the page then
\* shows the game without a description.
OutageIsNotData ==
    outcome.kind = "data" =>
        /\ Proven
        /\ operation # "monthly" => ~ReportsRotation(LastBody)
        /\ operation \notin Products => LastBody.node = "ok"
        /\ HttpStatus(outcome) = 200

\* A partial answer, with a server error next to a node that has data, is
\* kept: one failed field of Sony's never turns a page into an error, and is
\* never asked for twice.
PartialAnswerIsKept ==
    \A i \in 1..Len(seen) :
        /\ seen[i].status = "2xx" /\ operation \in Grids \cup Products
        /\ seen[i].body.json /\ seen[i].body.node = "ok" /\ seen[i].body.kept > 0
        /\ ~ReportsRotation(seen[i].body)
        => /\ i = Len(seen)
           /\ outcome # NoResult => outcome = Data(seen[i].body.kept)

\* Every call is answered, also when the service never is.
CallsEnd == <>(outcome # NoResult)
=============================================================================
