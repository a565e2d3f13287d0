------------------------------- MODULE ApiRoutes -------------------------------
(***************************************************************************)
(* Which handler ApiServer gives a request to: the custom routes of        *)
(* add_route, compared one after the other on a copy of the table taken    *)
(* under mu_, and the built-in routes, which httplib finds by their exact  *)
(* path.  A GET asks the custom routes first (pre-routing), a request with *)
(* a body the built-in one.                                                *)
(*                                                                         *)
(* A path is a sequence of words, "/" and "?", the last a decoded "%3F":   *)
(* the query has left it.  A pattern is a sequence of segments, of which   *)
(* some are placeholders; a query is a sequence of pairs, of which some    *)
(* have no "=".                                                            *)
(***************************************************************************)
EXTENDS Naturals, Sequences, SequencesExt, FiniteSetsExt

CONSTANTS
  Routes,       \* [method, pattern] that may be added
  Asked,        \* [method, path, query, key] that may be asked for; key: it has the API key
  HasKey,       \* cfg_.api_key is set
  MaxRoutes, None

VARIABLES
  routes,       \* routes_
  request,      \* the request that is looked at, or None
  where,        \* "idle", "received", "routing", "ended"
  snapshot,     \* dispatch_custom's copy of routes_
  outcome,      \* [kind, route, params, query]
  known,        \* history: how many routes there were when the request came
  first         \* history: the outcome when the same request came before, or None

vars == <<routes, request, where, snapshot, outcome, known, first>>

\* The methods httplib hands to dispatch_custom: GET, and those with a body.
Dispatched == {"GET", "POST", "PUT", "PATCH", "DELETE"}

Literal(w) == [param |-> FALSE, name |-> w]
Placeholder(n) == [param |-> TRUE, name |-> n]
Outcome(kind, route, params, query) == [kind |-> kind, route |-> route, params |-> params, query |-> query]
Nowhere == Outcome(None, 0, <<>>, <<>>)

Init ==
  /\ routes = <<>> /\ snapshot = <<>>
  /\ request = None /\ where = "idle" /\ outcome = Nowhere
  /\ known = 0 /\ first = None

-----------------------------------------------------------------------------
(* parse_query and match_path.                                             *)

\* The elements of s that are in S, in their order.
Only(s, S) ==
  LET only[n \in 0..Len(s)] ==
        IF n = 0 THEN <<>> ELSE IF s[n] \in S THEN Append(only[n - 1], s[n]) ELSE only[n - 1]
  IN  only[Len(s)]

\* Mutation: a key keeps its first value.
ParseQueryFirst(pairs) ==
  LET keyed == Only(pairs, {p \in Range(pairs) : p.eq})
      keys  == {keyed[i].key : i \in DOMAIN keyed}
  IN  [k \in keys |-> keyed[Min({i \in DOMAIN keyed : keyed[i].key = k})].value]

(* Pairs without "=" are skipped; a key that comes again replaces its value.*)
ParseQuery(pairs) ==
  LET keyed == Only(pairs, {p \in Range(pairs) : p.eq})
      keys  == {keyed[i].key : i \in DOMAIN keyed}
  IN  [k \in keys |-> keyed[Max({i \in DOMAIN keyed : keyed[i].key = k})].value]

(* What is before the first "?" is split at "/"; empty parts do not count.  *)
Clean(path) == LET q == SelectInSeq(path, LAMBDA t : t = "?") IN IF q = 0 THEN path ELSE SubSeq(path, 1, q - 1)

Pushed(cut) == IF cut.part = <<>> THEN cut.parts ELSE Append(cut.parts, cut.part)
Cut(tokens) ==
  LET cut[n \in 0..Len(tokens)] ==
        IF n = 0 THEN [parts |-> <<>>, part |-> <<>>]
        ELSE IF tokens[n] = "/" THEN [parts |-> Pushed(cut[n - 1]), part |-> <<>>]
        ELSE [cut[n - 1] EXCEPT !.part = Append(@, tokens[n])]
  IN  cut[Len(tokens)]
Parts(tokens) == Pushed(Cut(tokens))

\* Mutation: a pattern matches whatever it is the beginning of.
MatchPathPrefix(path, pattern) ==
  LET parts == Parts(Clean(path))
      names == {pattern[i].name : i \in {j \in DOMAIN pattern : pattern[j].param}}
      ok    == /\ Len(parts) >= Len(pattern)
               /\ \A i \in DOMAIN pattern : pattern[i].param \/ parts[i] = <<pattern[i].name>>
  IN  [ok |-> ok,
       params |-> [n \in IF ok THEN names ELSE {} |-> parts[Max({i \in DOMAIN pattern : pattern[i] = Placeholder(n)})]]]

(* Each part is the pattern's, or bound to the name there; a name that     *)
(* comes twice is bound to the later part.                                 *)
MatchPath(path, pattern) ==
  LET parts == Parts(Clean(path))
      names == {pattern[i].name : i \in {j \in DOMAIN pattern : pattern[j].param}}
      ok    == /\ Len(parts) = Len(pattern)
               /\ \A i \in DOMAIN pattern : pattern[i].param \/ parts[i] = <<pattern[i].name>>
  IN  [ok |-> ok,
       params |-> [n \in IF ok THEN names ELSE {} |-> parts[Max({i \in DOMAIN pattern : pattern[i] = Placeholder(n)})]]]

-----------------------------------------------------------------------------
\* Mutation: a new route goes before the others.
AddRouteFront(rt) ==
  /\ Len(routes) < MaxRoutes
  /\ routes' = <<rt>> \o routes
  /\ UNCHANGED <<request, where, snapshot, outcome, known, first>>

(* add_route, under mu_, by any thread and at any time.                    *)
AddRoute(rt) ==
  /\ Len(routes) < MaxRoutes
  /\ routes' = Append(routes, rt)
  /\ UNCHANGED <<request, where, snapshot, outcome, known, first>>

Receive(q) ==
  /\ where = "idle"
  /\ request' = q
  /\ where' = "received" /\ known' = Len(routes)
  /\ UNCHANGED <<routes, snapshot, outcome, first>>

\* The same request comes once more.
ReceiveAgain ==
  /\ where = "ended" /\ first = None
  /\ first' = outcome /\ outcome' = Nowhere
  /\ where' = "received" /\ known' = Len(routes)
  /\ UNCHANGED <<routes, request, snapshot>>

End(o) == outcome' = o /\ where' = "ended"

ChatPath    == <<"/", "chat">>      \* /v1/chat/completions
ModelsPath  == <<"/", "models">>    \* /v1/models
HealthzPath == <<"/", "healthz">>

AuthOk == ~HasKey \/ request.key

(* svr.Post("/v1/chat/completions") comes before the custom routes.        *)
PostChat ==
  /\ where = "received" /\ request.method = "POST" /\ request.path = ChatPath
  /\ End(Outcome(IF AuthOk THEN "builtin" ELSE "unauthorized", 0, <<>>, <<>>))
  /\ UNCHANGED <<routes, request, snapshot, known, first>>

TakeSnapshot ==
  /\ where = "received" /\ request.method \in Dispatched
  /\ ~(request.method = "POST" /\ request.path = ChatPath)
  /\ snapshot' = routes /\ where' = "routing"
  /\ UNCHANGED <<routes, request, outcome, known, first>>

Matching == {i \in DOMAIN snapshot : /\ snapshot[i].method = request.method
                                     /\ MatchPath(request.path, snapshot[i].pattern).ok}

\* Mutation: the last of several.
HandleLast ==
  /\ where = "routing" /\ Matching # {} /\ AuthOk
  /\ LET i == Max(Matching)
     IN  End(Outcome("handled", i, MatchPath(request.path, snapshot[i].pattern).params, ParseQuery(request.query)))
  /\ UNCHANGED <<routes, request, snapshot, known, first>>

(* The first route that fits gets the request, its parameters and query.   *)
Handle ==
  /\ where = "routing" /\ Matching # {} /\ AuthOk
  /\ LET i == Min(Matching)
     IN  End(Outcome("handled", i, MatchPath(request.path, snapshot[i].pattern).params, ParseQuery(request.query)))
  /\ UNCHANGED <<routes, request, snapshot, known, first>>

(* Only a route that fits asks for the key.                                *)
Unauthorized ==
  /\ where = "routing" /\ Matching # {} /\ ~AuthOk
  /\ End(Outcome("unauthorized", 0, <<>>, <<>>))
  /\ UNCHANGED <<routes, request, snapshot, known, first>>

(* No custom route: the built-in GETs, of which /healthz needs no key, or  *)
(* 404.  httplib answers HEAD from the handlers of GET, without asking the *)
(* custom ones.                                                            *)
Unhandled ==
  /\ \/ where = "routing" /\ Matching = {}
     \/ where = "received" /\ request.method \notin Dispatched
  /\ End(Outcome(IF request.method \notin {"GET", "HEAD"} \/ request.path \notin {ModelsPath, HealthzPath} THEN "notFound"
                 ELSE IF request.path = ModelsPath /\ ~AuthOk THEN "unauthorized" ELSE "builtin", 0, <<>>, <<>>))
  /\ UNCHANGED <<routes, request, snapshot, known, first>>

Next ==
  \/ \E rt \in Routes : AddRoute(rt)
  \/ \E q \in Asked : Receive(q)
  \/ ReceiveAgain \/ PostChat \/ TakeSnapshot \/ Handle \/ Unauthorized \/ Unhandled

Spec == Init /\ [][Next]_vars

-----------------------------------------------------------------------------
TypeOK ==
  /\ routes \in Seq(Routes) /\ Len(routes) <= MaxRoutes
  /\ where \in {"idle", "received", "routing", "ended"}
  /\ outcome.kind \in {None, "handled", "builtin", "unauthorized", "notFound"}
  /\ outcome.route \in 0..MaxRoutes /\ known \in 0..MaxRoutes

(* What a path says, in other words than match_path's: without the slashes *)
(* at its ends and behind another, it is the pattern written with a value  *)
(* for each placeholder.                                                   *)
Plain(path) ==
  LET c == Clean(path)
      kept == {i \in DOMAIN c : c[i] # "/" \/ (/\ \E k \in 1..(i - 1) : c[k] # "/"
                                              /\ i < Len(c) /\ c[i + 1] # "/")}
      plain[n \in 0..Len(c)] ==
        IF n = 0 THEN <<>> ELSE IF n \in kept THEN Append(plain[n - 1], c[n]) ELSE plain[n - 1]
  IN  plain[Len(c)]

Written(pattern, values) ==
  FlattenSeq([i \in DOMAIN pattern |->
    (IF i = 1 THEN <<>> ELSE <<"/">>) \o (IF pattern[i].param THEN values[i] ELSE <<pattern[i].name>>)])

Values(path) == {s \in SubSeqs(path) : s # <<>> /\ ~Contains(s, "/")}
Fits(rt) ==
  /\ rt.method = request.method
  /\ \E values \in [DOMAIN rt.pattern -> Values(request.path)] : Written(rt.pattern, values) = Plain(request.path)

NamesOnce(pattern) == \A i, j \in DOMAIN pattern : pattern[i].param /\ pattern[i] = pattern[j] => i = j

(* server.h: "Handlers are matched in the order they were added.  The      *)
(* first matching handler wins; if nothing matches, a 404 is returned."    *)
(* While routes are added: the one that ran fits and none before it does,  *)
(* its parameters and the pattern give the path back and the query has the *)
(* last value of each key; a 404 says that no route known when the request *)
(* came fits; nothing runs without the key.  It is not so for methods      *)
(* httplib does not hand over, and the chat route cannot be replaced.      *)
RouteChosen ==
  where = "ended" =>
    LET fits == {i \in DOMAIN routes : Fits(routes[i])}
        o == outcome
        pattern == routes[o.route].pattern
        values == [i \in DOMAIN pattern |-> IF pattern[i].param THEN o.params[pattern[i].name] ELSE <<>>]
        pairs == {i \in DOMAIN request.query : request.query[i].eq}
    IN  CASE o.kind = "handled" ->
               /\ AuthOk /\ o.route \in fits /\ \A i \in fits : o.route <= i
               /\ NamesOnce(pattern) => Written(pattern, values) = Plain(request.path)
               /\ DOMAIN o.query = {request.query[i].key : i \in pairs}
               /\ \A i \in pairs : o.query[request.query[i].key] = request.query[i].value
                                   \/ \E j \in pairs : j > i /\ request.query[j].key = request.query[i].key
          [] o.kind = "unauthorized" -> HasKey /\ ~request.key
          [] o.kind = "builtin" ->
               \/ request.method = "POST" /\ request.path = ChatPath
               \/ request.method = "HEAD" \/ \A i \in fits : i > known
          [] OTHER -> request.method \in Dispatched => \A i \in fits : i > known

(* Of one request, what a handler answered once no other handler and no    *)
(* 404 answers later: routes are only ever added, and behind.              *)
RoutesStay ==
  where = "ended" /\ first # None =>
    /\ first.kind # "notFound" /\ first.kind # "builtin" => outcome = first
    /\ outcome.kind = "notFound" => first.kind = "notFound"
=============================================================================
