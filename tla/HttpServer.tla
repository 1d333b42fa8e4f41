----------------------------- MODULE HttpServer -----------------------------
(***************************************************************************)
(* The server process around its services: start-up (main.rs, wiring.rs),   *)
(* the middleware that every request passes (request_context of             *)
(* http/mod.rs), the handlers while they await a service, the log lines of  *)
(* all of it (observability.rs), and the serve loop with its grace period   *)
(* (lifecycle.rs).                                                          *)
(*                                                                          *)
(* Each slot is one connection with one request.  Requests for the same     *)
(* list or game share a lookup, which runs in a task of the cache and       *)
(* outside their spans; a search, which is never cached, and a signed-in    *)
(* call run in their own request.  A client may leave, be slow to take its  *)
(* answer, or never take it; a handler, the request id and a task may       *)
(* panic.                                                                   *)
(***************************************************************************)
EXTENDS Routes, Startup, LogLines

CONSTANTS
    Slots,         \* the connections
    Environments,  \* the environments in which the process may start
    Loads,         \* by name: the requests that may arrive on each slot; an
                   \* environment says which of them it has
    Deadline,      \* how long a call of each service may take
    Grace          \* SHUTDOWN_GRACE

SharedServices == (PublicLists \ {"search"}) \cup {"game", "critics"}
AccountServices == SignedInLists \cup {"sign_in"}
OwnServices == AccountServices \cup {"search"}
AllServices == SharedServices \cup OwnServices

ASSUME HttpServerAssumption ==
    /\ Deadline \in [AllServices -> Nat \ {0}] /\ Grace \in Nat \ {0}
    /\ Slots \cap AllServices = {}
    /\ \A load \in DOMAIN Loads : DOMAIN Loads[load] = Slots /\ \A s \in Slots : \A r \in Loads[load][s] : IsRequest(r)
    /\ \A e \in Environments : e.load \in DOMAIN Loads

VARIABLES
    env,    \* the environment of the process
    phase,  \* starting, failed, serving, stopping, drained or cut
    clock,  \* the time since the stop signal
    conn,   \* what each connection does
    work,   \* the calls that run: their time left and the spans around them
    log     \* history: the lines inside a span, each with the requests it reports on

vars == <<env, phase, clock, conn, work, log>>

Running == Services(env)
Requests(s) == Loads[env.load][s]

-----------------------------------------------------------------------------
(* One request *)

NoRequest == [method |-> "none"]
Idle == [state |-> "idle", request |-> NoRequest, call |-> NoCall, response |-> NoResponse, span |-> NoFields]
States == {"idle", "calling", "sending", "done", "gone", "cut"}
IsActive(c) == c.state \in {"calling", "sending"}

\* The span of a request: its id is recorded when the operating system gave
\* random bytes for it.
SpanOf(s, request) ==
    LET route == RouteOf(TrimTrailingSlash(request).path)
    IN  Record(NoFields, [route |-> route, method |-> request.method])
WithId(s, span) == Record(span, [request_id |-> s])

\* What is written of events about some requests, in the spans of scope.
Written(events, scope, about) ==
    {[fields |-> LineOf(scope, e), about |-> about] : e \in {e \in events : IsWritten(e)}}

\* The history keeps the lines that name a span.
Lines(events, scope, about) == {line \in Written(events, scope, about) : "route" \in DOMAIN line.fields.kept}

PanicLine == Event("error", [panic_location |-> "location", message |-> "panic"])
Contained == Event("error", [message |-> "contained"])
CompletedWith(response) ==
    Event("info", [message |-> "completed", status |-> response.status, elapsed_ms |-> 0])
AccountFailed(outcome) == Event("warn", [message |-> "accountFailed", reason |-> outcome])
ScoreFailed == Event("warn", [message |-> "scoreFailed", reason |-> "failed"])

PanicAnswer == Problem("internal_error")

\* The headers of a server that adds them inside the catch.
SecuredUnlessPanic(response) == [response EXCEPT !.secure = response # PanicAnswer]

\* add_security_headers comes after the catch of a panic.
Secured(response) == [response EXCEPT !.secure = TRUE]

\* The end of request_context: the answer is ready and one line is written.
Completed(c, response) ==
    [c EXCEPT !.state = "sending", !.call = NoCall, !.response = Secured(response)]
CompletedLines(s, response) == Lines({CompletedWith(response)}, <<conn'[s].span>>, {s})

\* catch_unwind: the panic hook writes first, inside the span.
PanicLines(s) == Lines({PanicLine, Contained, CompletedWith(PanicAnswer)}, <<conn'[s].span>>, {s})

\* expire_cookie_on_rejection of the signed-in lists, and sign_in.
ResponseOf(service, outcome) ==
    CASE service = "critics" -> Ok
      [] outcome = "ok" /\ service = "sign_in" -> [NoContent EXCEPT !.cookie = "set"]
      [] outcome \in {"ok", "undated"} /\ service \notin {"sign_in", "critics"} -> Ok
      [] outcome = "rejected" /\ service \in SignedInLists -> [Problem("session_rejected") EXCEPT !.cookie = "cleared"]
      [] OTHER -> ProblemOf(outcome)

-----------------------------------------------------------------------------
(* Calls *)

\* Callers of a shared service wait for one lookup; another call is its own.
KeyOf(s, service) == IF service \in SharedServices THEN service ELSE s
Waiting(key) == {s \in Slots : conn[s].state = "calling" /\ KeyOf(s, conn[s].call.service) = key}

\* A lookup is a spawned task: it has none of the spans of its callers.
TaskScopeOfStarter(span) == <<span>>
TaskScope(span) == << >>
Scope(service, span) == IF service \in SharedServices THEN TaskScope(span) ELSE <<span>>

Begin(s, service, span) ==
    LET key == KeyOf(s, service)
    IN  IF key \in DOMAIN work THEN work
        ELSE Over([k \in {key} |-> [left |-> Deadline[service], scope |-> Scope(service, span)]], work)
Without(key) == Restrict(work, DOMAIN work \ {key})

\* The lookup of a critic score that a game page begins.
Score == [critics |-> [left |-> Deadline["critics"], scope |-> << >>]]

Failures == {"unavailable", "rotated", "limited"}

\* What a service may answer; NotConnected is an outage, NoCriticScores no score.
Outcomes(service) ==
    CASE service = "critics" -> {"ok", "failed"}
      [] service \in AccountServices ->
            IF Running.account = "sony" THEN {"ok", "rejected"} \cup Failures ELSE {"unavailable"}
      [] service = "game" -> IF Running.games = "sony" THEN {"ok", "undated", "notFound"} \cup Failures ELSE {"unavailable"}
      [] OTHER -> IF Running.games = "sony" THEN {"ok"} \cup Failures ELSE {"unavailable"}

\* game_by_id awaits the score after the game, when the feature is on and the
\* game has a release year.
NeedsScore(service, outcome) == service = "game" /\ outcome = "ok" /\ Running.critics = "igdb"

-----------------------------------------------------------------------------
(* Actions *)

Init ==
    /\ env \in Environments
    /\ phase = "starting" /\ clock = 0
    /\ conn = [s \in Slots |-> Idle]
    /\ work = << >> /\ log = {}

\* main and run: the invalid settings are logged before anything can fail.
StartUp ==
    /\ phase = "starting"
    /\ phase' = IF Starts(env) THEN "serving" ELSE "failed"
    /\ log' = Lines({Event("warn", [message |-> "invalidSetting", stage |-> "config", reason |-> tag]) :
                         tag \in InvalidSettings(env)}, << >>, {})
    /\ UNCHANGED <<env, clock, conn, work>>

\* A request arrives and runs up to its first await.
Receive(s, request) ==
    /\ phase = "serving" /\ conn[s].state = "idle"
    /\ \E handled \in {Handle(request, Running)},
          open \in {[Idle EXCEPT !.request = request, !.span = WithId(s, SpanOf(s, request))]} :
          IF handled.call.service = "none"
          THEN /\ conn' = [conn EXCEPT ![s] = Completed(open, handled.response)]
               /\ log' = log \cup CompletedLines(s, handled.response)
               /\ UNCHANGED work
          ELSE /\ conn' = [conn EXCEPT ![s] = [open EXCEPT !.state = "calling", !.call = handled.call]]
               /\ work' = Begin(s, handled.call.service, open.span)
               /\ UNCHANGED log
    /\ UNCHANGED <<env, phase, clock>>

\* Uuid::new_v4 panics: the span has no id, and the containment holds it.
ReceiveWithoutRandomness(s, request) ==
    LET open == [Idle EXCEPT !.request = request, !.span = SpanOf(s, request)]
    IN  /\ phase = "serving" /\ conn[s].state = "idle"
        /\ conn' = [conn EXCEPT ![s] = Completed(open, PanicAnswer)]
        /\ log' = log \cup PanicLines(s)
        /\ UNCHANGED <<env, phase, clock, work>>

\* What the call gives to one of its callers.
Delivered(c, outcome) ==
    IF NeedsScore(c.call.service, outcome) THEN [c EXCEPT !.call.service = "critics"]
    ELSE Completed(c, ResponseOf(c.call.service, outcome))

DeliveredEvents(service, outcome) ==
    {e \in {AccountFailed(outcome), ScoreFailed} :
        \/ e = ScoreFailed /\ service = "critics" /\ outcome = "failed"
        \/ e # ScoreFailed /\ service \in AccountServices /\ outcome # "ok"}

DeliveredLines(s, service, outcome) ==
    Lines(DeliveredEvents(service, outcome), <<conn[s].span>>, {s})
    \cup IF NeedsScore(service, outcome) THEN {} ELSE CompletedLines(s, ResponseOf(service, outcome))

ServiceOf(key) == IF key \in Slots THEN conn[key].call.service ELSE key

Deliver(key, outcome, lines) ==
    LET waiting == Waiting(key)
        service == ServiceOf(key)
    IN  /\ conn' = [s \in Slots |-> IF s \in waiting THEN Delivered(conn[s], outcome) ELSE conn[s]]
        /\ work' = Over(Without(key), IF waiting # {} /\ NeedsScore(service, outcome) THEN Score ELSE << >>)
        /\ log' = log \cup lines \cup UNION {DeliveredLines(s, service, outcome) : s \in waiting}
        /\ UNCHANGED <<env, phase, clock>>

IsServing == phase \in {"serving", "stopping"}

WorkEnds(key) ==
    /\ IsServing /\ key \in DOMAIN work
    /\ \E outcome \in Outcomes(ServiceOf(key)) : Deliver(key, outcome, {})

\* The task of a lookup or of an exchange panics: its callers see an outage,
\* or no score.  A search has no task of its own: its panic is that of its handler.
RunsATask(key) == key \in SharedServices \/ ServiceOf(key) \in AccountServices
TaskPanics(key) ==
    /\ IsServing /\ key \in DOMAIN work /\ RunsATask(key)
    /\ LET about == Waiting(key)
           scope == IF key \in Slots THEN << >> ELSE work[key].scope
       IN  Deliver(key, IF key = "critics" THEN "failed" ELSE "unavailable", Lines({PanicLine}, scope, about))

\* The request itself panics while it works on a call.
HandlerPanics(s) ==
    /\ IsServing /\ conn[s].state = "calling"
    /\ conn' = [conn EXCEPT ![s] = Completed(conn[s], PanicAnswer)]
    /\ work' = Without(s)
    /\ log' = log \cup PanicLines(s)
    /\ UNCHANGED <<env, phase, clock>>

\* Events of a running call: of this crate, and of a library that names URLs.
CallEvents == {
    Event("warn", [message |-> "queryFailed", reason |-> "unavailable"]),
    Event("debug", [message |-> "listFilled"]),
    [target |-> "hyper_util", level |-> "info", values |-> [message |-> "url"]]}

WorkLogs(key) ==
    /\ IsServing /\ key \in DOMAIN work
    /\ \E e \in CallEvents : log' = log \cup Lines({e}, work[key].scope, Waiting(key))
    /\ UNCHANGED <<env, phase, clock, conn, work>>

Sent(s) ==
    /\ IsServing /\ conn[s].state = "sending"
    /\ conn' = [conn EXCEPT ![s].state = "done"]
    /\ UNCHANGED <<env, phase, clock, work, log>>

\* The client closes its connection: the future of the request is dropped, and
\* with it the calls that run in the request; a lookup goes on.
Disconnects(s) ==
    /\ IsServing /\ IsActive(conn[s])
    /\ conn' = [conn EXCEPT ![s].state = "gone"]
    /\ work' = Without(s)
    /\ UNCHANGED <<env, phase, clock, log>>

\* shutdown_signal: only a handler that could be set up completes.
StopSignal ==
    /\ phase = "serving" /\ env.signals # {}
    /\ phase' = "stopping"
    /\ UNCHANGED <<env, clock, conn, work, log>>

IsDrained == \A s \in Slots : ~IsActive(conn[s])

Drained ==
    /\ phase = "stopping" /\ IsDrained
    /\ phase' = "drained"
    /\ UNCHANGED <<env, clock, conn, work, log>>

\* A grace period that never ends.
GraceNeverEnds == FALSE
GraceEnds == clock >= Grace

\* serve returns, and the process cuts what is still active.
GraceOver ==
    /\ phase = "stopping" /\ GraceEnds
    /\ phase' = "cut"
    /\ conn' = [s \in Slots |-> IF IsActive(conn[s]) THEN [conn[s] EXCEPT !.state = "cut"] ELSE conn[s]]
    /\ UNCHANGED <<env, clock, work, log>>

\* A call that nothing bounds, and one that ends by its deadline.
CallsUnbounded == TRUE
CallsInTime == \A key \in DOMAIN work : work[key].left > 0

\* The clock counts from the stop signal.
Tick ==
    /\ IsServing
    /\ CallsInTime
    /\ phase = "stopping" \/ DOMAIN work # {}
    /\ phase = "stopping" => clock < Grace
    /\ clock' = IF phase = "stopping" THEN clock + 1 ELSE clock
    /\ work' = [key \in DOMAIN work |-> [work[key] EXCEPT !.left = @ - 1]]
    /\ UNCHANGED <<env, phase, conn, log>>

Keys == SharedServices \cup Slots

Next ==
    \/ StartUp \/ StopSignal \/ Drained \/ GraceOver \/ Tick
    \/ \E s \in Slots : \E request \in Requests(s) : Receive(s, request) \/ ReceiveWithoutRandomness(s, request)
    \/ \E key \in Keys : WorkEnds(key) \/ TaskPanics(key) \/ WorkLogs(key)
    \/ \E s \in Slots : HandlerPanics(s) \/ Sent(s) \/ Disconnects(s)

\* Timers and ready futures are polled; a client need not take its answer.
Fairness ==
    /\ WF_vars(Tick) /\ WF_vars(Drained) /\ WF_vars(GraceOver)
    /\ \A key \in Keys : WF_vars(WorkEnds(key))

Spec == Init /\ [][Next]_vars /\ Fairness

-----------------------------------------------------------------------------
(* Properties *)

\* The phases, the connections and the running calls have the values that the
\* code gives them; no call runs past its deadline.
TypeOK ==
    /\ env \in Environments /\ clock \in 0..Grace
    /\ phase \in {"starting", "failed", "serving", "stopping", "drained", "cut"}
    /\ \A s \in Slots :
        /\ conn[s].state \in States
        /\ conn[s].state # "idle" => conn[s].request \in Requests(s)
        /\ conn[s].state = "calling" => KeyOf(s, conn[s].call.service) \in DOMAIN work
    /\ DOMAIN work \subseteq Keys
    /\ \A key \in DOMAIN work : work[key].left \in 0..Deadline[ServiceOf(key)]

\* observability.rs and request_context: a line with a request id reports on
\* that request alone, under its own route, even when the work it reports on is
\* shared, and no line shows a field beyond the allowlist or an event of a library.
LinesBelongToTheirRequest ==
    \A line \in log :
        LET kept == line.fields.kept
        IN  /\ DOMAIN kept \subseteq AllowedFields
            /\ kept.message # "url"
            /\ "request_id" \in DOMAIN kept =>
                   /\ line.about = {kept.request_id}
                   /\ kept.route = RouteOf(conn[kept.request_id].request.path)

\* A game page awaits two calls, one after the other.
Longest(service) ==
    IF service \in {"game", "critics"} THEN Deadline["game"] + Deadline["critics"] ELSE Deadline[service]

\* request_context and lifecycle.rs: a request that has an answer has one status
\* in its answer and in its line, and every answer has the security headers, that
\* of a panic included; the stop cuts only a call whose own deadlines fill
\* the grace period, or an answer that the client does not take.
EveryRequestIsAccountedFor ==
    \A s \in Slots :
        LET c == conn[s]
            statuses == {line.fields.kept.status :
                line \in {x \in log : x.about = {s} /\ x.fields.kept.message = "completed"}}
        IN  /\ statuses = IF c.response = NoResponse THEN {} ELSE {c.response.status}
            /\ c.response # NoResponse => c.response.secure
            /\ c.state \in {"sending", "done"} => c.response # NoResponse
            /\ c.state = "cut" =>
                   /\ phase = "cut"
                   /\ c.response = NoResponse => Longest(c.call.service) >= Grace

\* A number in the form that the API document gives for offset and size.
IsDocumented(pair) ==
    LET text == pair[2]
    IN  /\ text.word = "digits" /\ text.radix = 10 /\ text.sign = ""
        /\ text.whole \in Seq(0..9) \ {<< >>} /\ text.fraction = << >> /\ text.exponent = 0
        /\ Horner(text.whole, 10) \in IF pair[1] = "size" THEN 1..MaxPageSize ELSE 0..MaxSafeInteger

PagedRoutes == {"new", "upcoming", "discounted", "monthly"}
BelowApi(request) == request.path # << >> /\ request.path[1] = "api"

\* A failure below /api, and nothing of the client build there.
IsApiAnswer(answer) ==
    /\ answer.kind \notin {"file", "index"}
    /\ answer.status >= 400 => answer.kind = "problem" /\ answer.status = StatusOf(answer.code)

MayServeIndex(request, answer) ==
    /\ IsRead(request) /\ answer.cache = "no-cache"
    /\ request.path = Index \/ ~HasExtension(request.path)
    /\ request.path # << >> => request.path[1] # "assets"

\* A parameter of a page that is repeated, or not as the API document has it.
HasUndocumentedPage(query) ==
    \E k \in DOMAIN query :
        /\ query[k][1] \in {"offset", "size"}
        /\ ~IsDocumented(query[k]) \/ PositionsOf(query, query[k][1]) # {k}

MayClearCookie(request, services) ==
    request.method = "DELETE" \/ (request.cookie = "npsso" /\ services.account = "sony")

FollowsTheContract(request, services, answer) ==
    /\ BelowApi(request) => IsApiAnswer(answer)
    /\ answer.kind = "index" => MayServeIndex(request, answer)
    /\ answer.code = "invalid_request" /\ RouteOf(request.path) \in PagedRoutes => HasUndocumentedPage(request.query)
    /\ answer.cookie = "cleared" => MayClearCookie(request, services)

\* A page that a service may be asked for.
AsksForAPage(call) ==
    call.service \in PublicLists \ {"genres"} =>
        /\ call.page.value.offset \in 0..MaxSafeInteger
        /\ call.page.value.size \in 1..(IF call.service = "search" THEN SearchMaxPageSize ELSE MaxPageSize)

\* The rules of static_files.rs, errors.rs, session.rs and openapi.rs: an API
\* path never reaches the client build and each of its failures is a problem with
\* the status of its code, a missing bundle is never index.html, a documented page
\* is never refused and the page of a service is one that it may be asked for, and
\* only Sony's own rejection or a sign-out clears the cookie.
AnswersFollowTheContract ==
    \A s \in Slots :
        LET c == conn[s]
        IN  /\ c.state # "idle" /\ c.response # NoResponse => FollowsTheContract(c.request, Running, c.response)
            /\ c.state = "calling" => AsksForAPage(c.call)

\* lifecycle.rs: after the stop signal the serve loop ends, whatever its clients do.
StopsInTime == phase = "stopping" ~> phase \in {"drained", "cut"}

\* lifecycle.rs:20-22, STACK.md:351: no request that still waits for Sony
\* outlives the grace period; the longest one is the purchased crawl.
GraceCoversTheLongestRequest == \A s \in Slots : conn[s].state = "cut" => conn[s].response # NoResponse
=============================================================================
