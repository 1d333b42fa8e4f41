------------------------------- MODULE Routes -------------------------------
(***************************************************************************)
(* What one request of the HTTP interface asks for, before anything is      *)
(* awaited: the router of http/mod.rs and openapi.rs, the handlers of       *)
(* games.rs, session.rs and probes.rs, the client build of static_files.rs  *)
(* and the failures of errors.rs.                                           *)
(*                                                                          *)
(* A request is a record [method, path, slashes, html, query, id, cookie,   *)
(* body].  Its path is the sequence of its segments and the number of its   *)
(* trailing slashes, html says whether its Accept header names text/html,   *)
(* id describes the segment of a game page, cookie is the npsso cookie      *)
(* ("none", "empty" or "npsso") and body is [size, media, valid].           *)
(***************************************************************************)
EXTENDS QueryParams, FiniteSets

CONSTANTS
    DotAt   \* the position of the last dot, of the segments that have one

-----------------------------------------------------------------------------
(* Requests and answers *)

IsRequest(r) ==
    /\ DOMAIN r = {"method", "path", "slashes", "html", "query", "id", "cookie", "body"}
    /\ r.path \in Seq(STRING)
    /\ r.body \in [size : {"fits", "tooLarge", "unreadable"}, media : {"json", "none", "other"}, valid : BOOLEAN]

Response(status, kind) == [status |-> status, kind |-> kind, code |-> "", cookie |-> "kept", cache |-> "",
                           commit |-> "", secure |-> FALSE]
NoResponse == Response(0, "none")
Ok == Response(200, "json")
NoContent == Response(204, "empty")
Empty404 == Response(404, "empty")

StatusOf(code) ==
    CASE code = "invalid_request" -> 400
      [] code \in {"not_found", "game_not_found"} -> 404
      [] code = "session_rejected" -> 401
      [] code = "unsupported_media_type" -> 415
      [] code = "payload_too_large" -> 413
      [] code \in {"upstream_unavailable", "upstream_query_rotated"} -> 502
      [] code = "upstream_rate_limited" -> 503
      [] code = "internal_error" -> 500

Problem(code) == [Response(StatusOf(code), "problem") EXCEPT !.code = code]

\* From<UpstreamError>, From<GameLookupError> and From<AccountError>.
ProblemOf(failure) ==
    CASE failure = "unavailable" -> Problem("upstream_unavailable")
      [] failure = "rotated" -> Problem("upstream_query_rotated")
      [] failure = "limited" -> Problem("upstream_rate_limited")
      [] failure = "notFound" -> Problem("game_not_found")
      [] failure = "rejected" -> Problem("session_rejected")

\* What a handler does at once: it answers, or it calls a service.
NoCall == [service |-> "none", page |-> Invalid]
Answers(response) == [call |-> NoCall, response |-> response]
Calls(service, page) == [call |-> [service |-> service, page |-> page], response |-> NoResponse]

-----------------------------------------------------------------------------
(* The client build *)

IsRead(request) == request.method \in {"GET", "HEAD"}
Under(prefix, path) == path # << >> /\ Head(path) = prefix
HasExtension(path) == path # << >> /\ Last(path) \in DOMAIN DotAt /\ DotAt[Last(path)] > 0
Index == <<"index.html">>
NoCache(kind) == [Response(200, kind) EXCEPT !.cache = "no-cache"]

\* The hashed bundles; the path below /assets is never empty here.
AssetAnswer(path, build) ==
    IF Len(path) > 1 /\ path \in build THEN Response(200, "file") ELSE Empty404

\* The root is index.html itself, every other file has its own path.
FileAnswer(request, build) ==
    LET path == IF request.path = << >> THEN Index ELSE request.path
    IN  CASE path \in build -> NoCache(IF path = Index THEN "index" ELSE "file")
          [] path \notin build /\ ~HasExtension(path) /\ request.html /\ Index \in build -> NoCache("index")
          [] OTHER -> Empty404

SiteAnswer(request, build) ==
    IF ~IsRead(request) THEN Empty404
    ELSE IF Under("assets", request.path) THEN AssetAnswer(request.path, build)
    ELSE FileAnswer(request, build)

IsApiPath(path) == Under("api", path)

Fallback(request, build) ==
    IF IsApiPath(request.path) THEN Problem("not_found") ELSE SiteAnswer(request, build)

-----------------------------------------------------------------------------
(* The handlers *)

PublicLists == {"new", "upcoming", "discounted", "monthly", "search", "genres", "browse"}
SignedInLists == {"purchased", "wishlist"}

\* The page of a list request; the genre menu is always whole.
WholeMenu == [menu |-> "genres"]
ListPage(list, query) ==
    CASE list = "search" -> Search(query)
      [] list = "browse" -> Browse(query)
      [] list = "genres" -> Valid(WholeMenu)
      [] OTHER -> Pagination(query)

ListHandler(list, request) ==
    LET page == ListPage(list, request.query)
    IN  IF page.valid THEN Calls(list, page) ELSE Answers(Problem("invalid_request"))

GameHandler(request) ==
    IF PathId(request.id).valid THEN Calls("game", Invalid) ELSE Answers(Problem("invalid_request"))

\* npsso_from_cookie: an empty cookie is none.
SignedInHandler(list, request) ==
    IF request.cookie = "npsso" THEN Calls(list, Invalid) ELSE Answers(Problem("session_rejected"))

\* sign_in: the body limit comes before the media type and the body itself.
SignIn(request) ==
    CASE request.body.size = "tooLarge" -> Answers(Problem("payload_too_large"))
      [] request.body.size = "unreadable" -> Answers(Problem("invalid_request"))
      [] request.body.size = "fits" /\ request.body.media = "other" -> Answers(Problem("unsupported_media_type"))
      [] request.body.size = "fits" /\ request.body.media # "other" ->
            IF request.body.valid THEN Calls("sign_in", Invalid) ELSE Answers(Problem("invalid_request"))

SignOut == Answers([NoContent EXCEPT !.cookie = "cleared"])

-----------------------------------------------------------------------------
(* The router *)

\* The route pattern of a path without its trailing slashes; the client build
\* and every unknown path have none, and are logged as "static".
RouteOf(path) ==
    CASE path \in {<<"healthz">>, <<"readyz">>, <<"version">>} -> Head(path)
      [] path = <<"api", "session">> -> "session"
      [] Len(path) = 3 /\ SubSeq(path, 1, 2) = <<"api", "games">> ->
            IF path[3] \in PublicLists \cup SignedInLists THEN path[3] ELSE "game"
      [] OTHER -> "static"

Operational == {"healthz", "readyz", "version"}

\* The probes and the build identity call no service.
OperationalAnswer(route, services) ==
    IF route = "version" THEN [Ok EXCEPT !.commit = services.commit] ELSE Ok

\* app and router, with the client build and the commit of the services.
Dispatch(request, services) ==
    LET route == RouteOf(request.path)
        build == services.build
    IN  IF request.slashes > 0 /\ request.path # << >> THEN Answers(Fallback(request, build))
        ELSE
        CASE route \in Operational -> Answers(
                IF IsRead(request) THEN OperationalAnswer(route, services) ELSE Empty404)
          [] route = "session" /\ request.method = "POST" -> SignIn(request)
          [] route = "session" /\ request.method = "DELETE" -> SignOut
          [] route = "session" /\ request.method \notin {"POST", "DELETE"} -> Answers(Problem("not_found"))
          [] route = "static" -> Answers(Fallback(request, build))
          [] OTHER -> IF ~IsRead(request) THEN Answers(Problem("not_found"))
                      ELSE CASE route \in PublicLists -> ListHandler(route, request)
                             [] route \in SignedInLists -> SignedInHandler(route, request)
                             [] route = "game" -> GameHandler(request)

\* trim_trailing_slash, in front of the router.
TrimTrailingSlash(request) == [request EXCEPT !.slashes = 0]

Handle(request, services) == Dispatch(TrimTrailingSlash(request), services)
=============================================================================
