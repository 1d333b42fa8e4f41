---------------------------- MODULE MCHttpServer ----------------------------
(* HttpServer for TLC: one connection with any of the requests below, or two   *)
(* that meet in a shared lookup, or run past the grace period.                *)
EXTENDS HttpServer

CONSTANTS c1, c2

-----------------------------------------------------------------------------
(* Texts and requests *)

Number(word, sign, radix, whole, fraction, exponent) ==
    [word |-> word, sign |-> sign, radix |-> radix, whole |-> whole, fraction |-> fraction, exponent |-> exponent]
Digits(whole) == Number("digits", "", 10, whole, << >>, 0)
Text(name, length, letters) == [name |-> name, length |-> length, letters |-> letters]

\* Numbers that are read as 1, 2, 0, 12 and 16, and numbers that are refused.
Numbers == {
    Digits(<<1>>), Digits(<<0, 2>>), Number("empty", "", 10, << >>, << >>, 0),
    Number("digits", "+", 10, <<1>>, <<2>>, 1), Number("digits", "", 16, <<1, 0>>, << >>, 0),
    Number("digits", "-", 10, <<0>>, << >>, 0), Number("digits", "-", 10, <<1>>, << >>, 0),
    Number("digits", "-", 16, <<1>>, << >>, 0), Number("digits", "", 2, <<2>>, << >>, 0),
    Number("digits", "", 10, <<1>>, <<5>>, 0), Number("digits", "", 10, << >>, << >>, 1),
    Number("digits", "", 10, <<2>>, << >>, 3), Number("Infinity", "", 10, << >>, << >>, 0),
    Number("other", "", 10, << >>, << >>, 0), Digits(<<6>>)}

Get(path) == [method |-> "GET", path |-> path, slashes |-> 0, html |-> FALSE, query |-> << >>,
              id |-> [decodes |-> TRUE, length |-> 1], cookie |-> "none",
              body |-> [size |-> "fits", media |-> "none", valid |-> TRUE]]
As(method, request) == [request EXCEPT !.method = method]
Html(request) == [request EXCEPT !.html = TRUE]
Ask(list, query) == [Get(<<"api", "games", list>>) EXCEPT !.query = query]
SignedIn(list, cookie) == [Get(<<"api", "games", list>>) EXCEPT !.cookie = cookie]
Session(method, body) == [As(method, Get(<<"api", "session">>)) EXCEPT !.body = body]
Body(size, media, valid) == [size |-> size, media |-> media, valid |-> valid]
Game(decodes, length) == [Get(<<"api", "games", "id">>) EXCEPT !.id = [decodes |-> decodes, length |-> length]]

Genre1 == <<"genre", Text("ACTION", 6, TRUE)>>
Newest == <<"order", Text("newest", 6, FALSE)>>
Q(length) == <<"q", Text("term", length, FALSE)>>

Pages == {Ask("new", <<<<"size", n>>>>) : n \in Numbers} \cup {Ask("upcoming", <<<<"offset", n>>>>) : n \in Numbers}
         \cup {Ask("monthly", <<<<"size", Digits(<<1>>)>>, <<"size", Digits(<<1>>)>>>>),
               [Ask("discounted", <<<<"other", Digits(<<1>>)>>>>) EXCEPT !.slashes = 1]}
Searches == {Ask("search", <<Q(n)>>) : n \in {0, 2, 3}} \cup {Ask("search", << >>), Ask("search", <<Q(1), <<"size", Digits(<<4>>)>>>>)}
Browses == {Ask("browse", <<Genre1, Newest>>), Ask("browse", <<Genre1>>), Ask("browse", <<Newest>>),
            Ask("browse", <<<<"genre", Text("action", 6, FALSE)>>, Newest>>),
            Ask("browse", <<Genre1, <<"order", Text("worst", 5, FALSE)>>>>), Ask("genres", << >>)}
Games == {Game(TRUE, 3), Game(TRUE, 0), Game(FALSE, 3), As("POST", Game(TRUE, 3))}
Sessions == {Session("POST", Body("tooLarge", "other", TRUE)), Session("POST", Body("unreadable", "json", TRUE)),
             Session("POST", Body("fits", "other", TRUE)), Session("POST", Body("fits", "none", FALSE)),
             Session("POST", Body("fits", "json", TRUE)), Session("DELETE", Body("fits", "none", FALSE)),
             Session("PUT", Body("fits", "none", FALSE))}
SignedInRequests == {SignedIn("purchased", "none"), SignedIn("wishlist", "empty"), SignedIn("wishlist", "npsso")}
Files == {Get(<<>>), Html(Get(<<"games", "1">>)), Get(<<"games", "1">>), Html(Get(<<"favicon.ico">>)),
          Html(Get(<<"gone.ico">>)), Html(Get(<<".env">>)), Html(Get(<<"assets">>)), Get(<<"assets", "app.js">>),
          Html(Get(<<"assets", "old">>)), As("POST", Get(<< >>)), As("HEAD", Get(<<"index.html">>)),
          Html(Get(<<"api">>)), Html(Get(<<"api", "games", "new", "x">>)), Html(Get(<<"apix">>)),
          Get(<<"healthz">>), As("POST", Get(<<"readyz">>)), Get(<<"version">>)}

AllRequests == Pages \cup Searches \cup Browses \cup Games \cup Sessions \cup SignedInRequests \cup Files
Meeting == {Ask("new", << >>), SignedIn("purchased", "npsso"), Game(TRUE, 3)}

\* The dots of the segments that have one; that of .env is its first character.
MCDotAt == ("favicon.ico" :> 7) @@ ("gone.ico" :> 4) @@ ("app.js" :> 3) @@ ("index.html" :> 5) @@ (".env" :> 0)
Build == {<<"index.html">>, <<"favicon.ico">>, <<"assets", "app.js">>}

-----------------------------------------------------------------------------
(* Environments *)

Setting(name, length, hex) == [name |-> name, length |-> length, hex |-> hex]
Clients(first, second) == (c1 :> first) @@ (c2 :> second)
MCLoads == [load \in {"any request", "meeting", "library"} |->
    CASE load = "any request" -> Clients(AllRequests, {})
      [] load = "meeting" -> Clients(Meeting \cup {Ask("search", <<Q(2)>>)}, Meeting)
      [] load = "library" -> Clients({SignedIn("purchased", "npsso")}, {})]

AllWork == {"logging", "sony_contract", "runtime", "bind", "sony_client", "account_client", "igdb_client"}
Production == [
    port |-> 8080, igdbId |-> Setting("id", 2, FALSE), igdbSecret |-> Setting("secret", 6, FALSE),
    format |-> Absent, commit |-> Setting("0123abc", 7, TRUE), works |-> AllWork, build |-> Build,
    signals |-> {"sigint", "sigterm"}, load |-> "any request"]
Busy == [Production EXCEPT !.load = "meeting", !.signals = {"sigint"}]
Bare == [Production EXCEPT
    !.port = -1, !.igdbSecret = Absent, !.format = Setting("xml", 3, FALSE),
    !.commit = Setting("/srv/app", 8, FALSE), !.build = {}, !.works = AllWork \ {"sony_client", "account_client"}]
Unbound == [Bare EXCEPT !.works = AllWork \ {"bind"}]
MCEnvironments == {Production, Busy, Bare, Unbound}

\* Every call fits the grace period but the signed-in lists.
MCDeadline == [service \in AllServices |-> IF service \in SignedInLists THEN 3 ELSE 1]

\* In seconds: a signed-in list exchanges the NPSSO first (15, account.rs:85),
\* then reads the library (30) or the wishlist (15) and enriches the latter (12).
SecondsDeadline == [service \in AllServices |->
    CASE service = "purchased" -> 15 + 30
      [] service = "wishlist" -> 15 + 15 + 12
      [] service = "sign_in" -> 15
      [] OTHER -> 6]
Library == {[Production EXCEPT !.load = "library"]}
=============================================================================
