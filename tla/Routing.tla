------------------------------ MODULE Routing ------------------------------
(* How a request finds its handler (flama/routing/, lib/core/src/route_table.rs): the routers and their     *)
(* ordered tables, the resolution that descends through mounts, and the second resolution every handler's    *)
(* wrapper makes from the scope the first one left. One request at a time: a resolution has no await in it.  *)
EXTENDS Url

CONSTANTS
    Top,            \* the application a server calls
    AppKind,        \* name of a router |-> "flama" (an application), "router" or "asgi" (any other callable)
    Candidates,     \* name of a router |-> the routes that may be added to it
    MaxRoutes,      \* name of a router |-> how many of them
    Requests,       \* the requests: [type, path, method]
    Values          \* placeholder |-> the values a URL may be built with

VARIABLES
    tables,         \* router |-> its routes, in the order they were added
    stage,          \* where the request is
    request,
    scope,          \* what the layers hand down: the app, the router being asked, root_path and path
    first,          \* the route the router found and the values of its placeholders
    second          \* the same for the wrapper

vars == <<tables, stage, request, scope, first, second>>

Routers == DOMAIN AppKind
IsFlama(a) == AppKind[a] = "flama"
NoRequest == [type |-> "none", path |-> <<>>, method |-> "none"]
NoScope == [app |-> Top, router |-> Top, root |-> <<>>, path |-> <<>>]
NoRoute == [router |-> Top, index |-> 0, values |-> <<>>]
----------------------------------------------------------------------------
(* The route table. *)

(* Route.__init__: who serves GET serves HEAD. *)
WithHead(methods) == methods \cup (IF "GET" \in methods THEN {"HEAD"} ELSE {})

InScope(route, type) == route.kind = "mount" \/ route.kind = type

(* A route matches with the template its path was compiled to when the route was made. *)
Match(route, path) == MatchTemplate(route.template, path)

Applies(route, path, type) ==
    /\ InScope(route, type)
    /\ Match(route, path).kind \in (IF route.kind = "mount" THEN {"exact", "partial"} ELSE {"exact"})

Serves(route, method) == route.kind = "http" => method \in WithHead(route.methods)

(* Mutant of FirstOf: the routes are asked latest first. *)
LatestOf(indices) == CHOOSE i \in indices : \A j \in indices : j <= i

FirstOf(indices) == CHOOSE i \in indices : \A j \in indices : i <= j

AppliesIn(table, path, type) == {i \in DOMAIN table : Applies(table[i], path, type)}

(* RouteTable.resolve: the first route that applies and serves the method; 405 when some apply, else 404. *)
Found(route, index, path) ==
    [type |-> IF route.kind = "mount" THEN "mount" ELSE "full", index |-> index, match |-> Match(route, path),
     allowed |-> {}]
NotAllowed(table, applying) ==
    [type |-> "method_not_allowed", index |-> FirstOf(applying), match |-> NoMatch,
     allowed |-> UNION {WithHead(table[i].methods) : i \in applying}]
ResolutionAmong(table, path, applying, serving) ==
    CASE serving # {} -> Found(table[FirstOf(serving)], FirstOf(serving), path)
      [] serving = {} /\ applying # {} -> NotAllowed(table, applying)
      [] OTHER -> [type |-> "not_found", index |-> 0, match |-> NoMatch, allowed |-> {}]
ServingAmong(table, path, method, applying) ==
    ResolutionAmong(table, path, applying, {i \in applying : Serves(table[i], method)})
Resolution(table, path, type, method) == ServingAmong(table, path, method, AppliesIn(table, path, type))

Asked == Resolution(tables[scope.router], scope.path, request.type, request.method)

(* What a mount tells the application under it (Router.resolve_route and Mount.route_scope). *)
MountScope(s, child, match) ==
    [app |-> IF IsFlama(child) THEN child ELSE s.app, router |-> child,
     root |-> IF IsFlama(child) THEN <<>> ELSE Template(Concat(s.root, match.matched)),
     path |-> Template(Concat(<<"/">>, match.unmatched))]
----------------------------------------------------------------------------
(* URLs by name: a route's own name, or the name of a mount and then that of a route under it. *)
NoUrl == <<>>

Parameters(placeholders) == {v \in [placeholders -> UNION {Values[p] : p \in placeholders}] :
                                \A p \in placeholders : v[p] \in Values[p]}

RouteUrl(route, params) ==
    IF Buildable(route.path, params) /\ DOMAIN Build(route.path, params).unused = {}
    THEN Build(route.path, params).path ELSE NoUrl

UrlUnder(under, name, built) ==
    LET named == SelectSeq(under, LAMBDA route : route.name = name /\ RouteUrl(route, built.unused) # NoUrl)
    IN  IF named = <<>> THEN NoUrl ELSE Concat(built.path, RouteUrl(Head(named), built.unused))
MountedUrl(mount, name, params) ==
    IF Buildable(mount.path, params) THEN UrlUnder(tables[mount.app], name, Build(mount.path, params)) ELSE NoUrl
----------------------------------------------------------------------------
Init ==
    /\ tables = [r \in Routers |-> <<>>]
    /\ stage = "building"
    /\ request = NoRequest
    /\ scope = NoScope
    /\ first = NoRoute
    /\ second = NoRoute

Mounted(r) == r = Top \/ \E q \in Routers : \E i \in DOMAIN tables[q] :
                            tables[q][i].kind = "mount" /\ tables[q][i].app = r

Add(r, kind) ==
    /\ stage = "building"
    /\ AppKind[r] # "asgi"
    /\ Mounted(r)
    /\ Len(tables[r]) < MaxRoutes[r]
    /\ \E route \in Candidates[r] :
          /\ route.kind = kind
          /\ tables' = [tables EXCEPT ![r] = Append(@, route @@ [template |-> Template(route.path)])]
    /\ UNCHANGED <<stage, request, scope, first, second>>

AddRoute(r) == Add(r, "http")
AddWebSocketRoute(r) == Add(r, "websocket")
Mount(r) == Add(r, "mount")

(* The server calls the application. *)
Receive ==
    /\ stage = "building"
    /\ tables[Top] # <<>>
    /\ stage' = "resolving"
    /\ request' \in Requests
    /\ scope' = [NoScope EXCEPT !.path = request'.path]
    /\ UNCHANGED <<tables, first, second>>

Reject ==
    /\ stage \in {"resolving", "again"}
    /\ Asked.type \in {"not_found", "method_not_allowed"}
    /\ stage' = Asked.type
    /\ UNCHANGED <<tables, request, scope, first, second>>

Descend ==
    LET child == tables[scope.router][Asked.index].app
    IN  /\ stage \in {"resolving", "again"}
        /\ Asked.type = "mount"
        /\ AppKind[child] # "asgi"
        /\ scope' = MountScope(scope, child, Asked.match)
        /\ UNCHANGED <<tables, stage, request, first, second>>

(* Anything that cannot resolve a route is the route's end: the mount itself is called, and computes its    *)
(* scope again, from the scope it was given.                                                                *)
CallMounted ==
    LET mount == tables[scope.router][Asked.index]
        Given == MountScope(scope, mount.app, Asked.match)
    IN  /\ stage \in {"resolving", "again"}
        /\ Asked.type = "mount"
        /\ AppKind[mount.app] = "asgi"
        /\ scope' = MountScope(Given, mount.app, Match(mount, Given.path))
        /\ stage' = "mounted"
        /\ UNCHANGED <<tables, request, first, second>>

Route ==
    /\ stage = "resolving"
    /\ Asked.type = "full"
    /\ first' = [router |-> scope.router, index |-> Asked.index, values |-> Asked.match.values]
    /\ stage' = "wrapped"
    /\ UNCHANGED <<tables, request, scope, second>>

(* Mutant of Rebuild: the path is not put together again. *)
RebuildFromPath ==
    /\ stage = "wrapped"
    /\ scope' = [scope EXCEPT !.root = <<>>, !.router = scope.app]
    /\ stage' = "again"
    /\ UNCHANGED <<tables, request, first, second>>

(* HTTPFunctionWrapper, WebSocketFunctionWrapper and BaseEndpoint put the path together again and resolve it *)
(* from the application: what they find is where the handler's arguments come from.                          *)
Rebuild ==
    /\ stage = "wrapped"
    /\ scope' = [scope EXCEPT !.path = RStrip(scope.root) \o scope.path, !.root = <<>>, !.router = scope.app]
    /\ stage' = "again"
    /\ UNCHANGED <<tables, request, first, second>>

Handle ==
    /\ stage = "again"
    /\ Asked.type = "full"
    /\ second' = [router |-> scope.router, index |-> Asked.index, values |-> Asked.match.values]
    /\ stage' = "handled"
    /\ UNCHANGED <<tables, request, scope, first>>

Next ==
    \/ \E r \in Routers : AddRoute(r) \/ AddWebSocketRoute(r) \/ Mount(r)
    \/ Receive \/ Reject \/ Descend \/ CallMounted \/ Route \/ Rebuild \/ Handle

Spec == Init /\ [][Next]_vars
----------------------------------------------------------------------------
(* What a mount of the application takes apart is what the wrapper puts together: it has no empty segment,   *)
(* goes on after the mount's own path, and the mount ends where a segment ends.                              *)
TakenApart(path) ==
    \A i \in DOMAIN tables[Top] :
        LET mount == tables[Top][i]
            match == Match(mount, path)
        IN  mount.kind = "mount" /\ match.kind # "none" =>
                RStrip(match.matched) \o Template(Concat(<<"/">>, match.unmatched)) = path

(* The handler gets its own arguments: unless a mount's path is requested with an empty segment, with        *)
(* nothing after it or with a longer name, the wrapper finds the route and the values the router found.      *)
SecondResolutionAgrees == stage = "handled" /\ TakenApart(request.path) => second = first

(* A 405 tells the truth: what it allows is what some route of the table, asked alone, would serve on the   *)
(* same path, and the method of the request is not in it.                                                    *)
AllowIsExact ==
    stage = "method_not_allowed" =>
        LET Alone(i, method) == Resolution(<<tables[scope.router][i]>>, scope.path, request.type, method).type = "full"
        IN  /\ request.method \notin Asked.allowed
            /\ \A method \in {"GET", "HEAD", "POST"} :
                  method \in Asked.allowed <=> \E i \in DOMAIN tables[scope.router] : Alone(i, method)

(* A request has one resolution: the wrapper's agrees with the router's, and with those a 405 speaks of.      *)
ResolutionsAgree == SecondResolutionAgrees /\ AllowIsExact

(* A URL built by name leads to the route that has the name: the mount takes it and the route under it is an *)
(* exact match of what the mount leaves, whatever the values.                                                *)
BuiltUrlsMatch ==
    stage = "building" =>
        \A i \in DOMAIN tables[Top] : LET route == tables[Top][i] IN
            IF route.kind # "mount"
            THEN \A params \in Parameters(Placeholders(route.path)) :
                    Match(route, RouteUrl(route, params)).kind = "exact"
            ELSE \A j \in DOMAIN tables[route.app] : LET named == tables[route.app][j] IN
                    \A params \in Parameters(Placeholders(route.path) \cup Placeholders(named.path)) :
                        LET taken == Match(route, MountedUrl(route, named.name, params))
                        IN  /\ taken.kind # "none"
                            /\ Match(named, Concat(<<"/">>, taken.unmatched)).kind = "exact"

(* Adding a route takes no request from the route that served it. *)
ServedStaysServed ==
    [][stage = "building" /\ stage' = "building" =>
          \A r \in Routers : tables'[r] # tables[r] =>
              \A q \in Requests :
                  LET before == Resolution(tables[r], q.path, q.type, q.method)
                  IN  before.type \in {"full", "mount"} =>
                          Resolution(tables'[r], q.path, q.type, q.method) = before]_vars

(* What the tests of the router expect: an application mounted under a path gets the rest of the path. *)
MountedAppSeesRest ==
    stage = "mounted" =>
        \E i \in DOMAIN tables[Top] :
            LET match == Match(tables[Top][i], request.path)
            IN  tables[Top][i].app = scope.router /\ scope.path = Concat(<<"/">>, match.unmatched)
=============================================================================
