------------------------------- MODULE Routing -------------------------------
(***************************************************************************)
(* Route declarations and their registration: trees of RouteList and        *)
(* HttpRoute objects, RouteBuild.build, which folds prefixes and            *)
(* middlewares into the routes in place, RouteServiceProvider.routers,      *)
(* which hands the built routes to FastAPI, and RouteBuild.url.             *)
(*                                                                         *)
(* Python's sharing is part of the model: HttpRoute.middlewares is one list *)
(* of the class until build gives a route a list of its own, and the        *)
(* default http_routes of build_routes is one list of the process, returned *)
(* by every build.  It is kept as a set: a route that occurs twice in it is *)
(* registered twice in the same way.                                        *)
(***************************************************************************)
EXTENDS Sequences, Naturals

CONSTANTS
  Lists,        \* the RouteList objects
  Routes,       \* the HttpRoute objects
  Top,          \* "in no list"
  Parent,       \* the list each list or route is in
  Segment,      \* the prefix of each list, the path of each route, as a sequence
  ListGuards,   \* middlewares given to lists
  RouteGuards,  \* middlewares given to routes
  MaxBuilds     \* bound on the builds of one behaviour

Nodes  == Lists \cup Routes
Guards == ListGuards \cup RouteGuards
Names  == UNION {{Segment[n][i] : i \in DOMAIN Segment[n]} : n \in Nodes}

\* No list is inside itself: in any set of lists there is one that is in none of them.
ASSUME TreeAssumption ==
  /\ Lists \cap Routes = {} /\ Top \notin Nodes
  /\ Parent \in [Nodes -> Lists \cup {Top}]
  /\ \A S \in SUBSET Lists : S # {} => \E l \in S : Parent[l] \notin S
  /\ Segment \in [Nodes -> Seq(Names)]
  /\ ListGuards \cap RouteGuards = {}
  /\ MaxBuilds \in Nat

VARIABLES
  prefix,       \* the prefix attribute of each list and route
  middlewares,  \* the middlewares attribute of lists, and of routes that have one
  shared,       \* HttpRoute.middlewares, the list of the class
  bound,        \* the routes with a middlewares list of their own
  http_routes,  \* the default argument of build_routes
  router,       \* the routes of the last APIRouter given to FastAPI, in any order
  url,          \* history: the last route url was asked for, and its answer
  due,          \* history: the guards a route must have when it is registered
  nth,          \* history: how often each list was built as a router
  builds        \* builds so far

objects == <<prefix, middlewares, shared, bound, http_routes>>
vars    == <<prefix, middlewares, shared, bound, http_routes, router, url, due, nth, builds>>

Routers == {r \in Lists : Parent[r] = Top}

\* The lists around n, the innermost one first.
Around[n \in Nodes] == IF Parent[n] = Top THEN <<>> ELSE <<Parent[n]>> \o Around[Parent[n]]

Ancestors == [n \in Nodes |-> {Around[n][i] : i \in DOMAIN Around[n]}]
Below     == [r \in Lists |-> {n \in Nodes : r \in Ancestors[n]}]

\* The path of a route as its declaration reads: every prefix around it, outermost
\* first, then its own path.
Declared[n \in Nodes] ==
  IF Parent[n] = Top THEN Segment[n] ELSE Declared[Parent[n]] \o Segment[n]

Entries == [route : Routes, path : Seq(Names), guards : SUBSET Guards, due : SUBSET Guards,
            nth : Nat]

\* Only routes share the list of the class, only built routes are collected, and a
\* route that was not built has neither prefix nor guards of its own.
TypeOK ==
  /\ shared \subseteq RouteGuards
  /\ bound \subseteq Routes /\ http_routes \subseteq bound
  /\ middlewares \in [Nodes -> SUBSET Guards]
  /\ \A n \in Routes : n \notin bound => middlewares[n] = {} /\ prefix[n] = <<>>
  /\ router \subseteq Entries

Init ==
  /\ prefix = [n \in Nodes |-> IF n \in Lists THEN Segment[n] ELSE <<>>]
  /\ middlewares = [n \in Nodes |-> {}]
  /\ shared = {} /\ bound = {} /\ http_routes = {}
  /\ router = {} /\ url = <<>>
  /\ due = [n \in Nodes |-> {}]
  /\ nth = [r \in Lists |-> 0] /\ builds = 0

-----------------------------------------------------------------------------
(* Declarations.                                                           *)

\* Attribute lookup: a route without a list of its own has that of the class.
Attribute(n) == IF n \in Routes \ bound THEN shared ELSE middlewares[n]

\* RouteList.middleware
GuardList(n, g) ==
  /\ n \in Lists /\ g \in ListGuards \ middlewares[n]
  /\ middlewares' = [middlewares EXCEPT ![n] = @ \cup {g}]
  /\ UNCHANGED <<prefix, shared, bound, http_routes, router, url, due, nth, builds>>

\* Mutant: a new list for the class instead of extend, lost on a bound route.
GuardRouteRebinds(n, g) ==
  /\ n \in Routes /\ g \in RouteGuards \ Attribute(n)
  /\ shared' = shared \cup {g}
  /\ due' = [due EXCEPT ![n] = @ \cup {g}]
  /\ UNCHANGED <<prefix, middlewares, bound, http_routes, router, url, nth, builds>>

\* HttpRoute.middleware: extend changes whatever list the lookup finds.
GuardRoute(n, g) ==
  /\ n \in Routes /\ g \in RouteGuards \ Attribute(n)
  /\ IF n \in bound
       THEN middlewares' = [middlewares EXCEPT ![n] = @ \cup {g}] /\ UNCHANGED shared
       ELSE shared' = shared \cup {g} /\ UNCHANGED middlewares
  /\ due' = [due EXCEPT ![n] = @ \cup {g}]
  /\ UNCHANGED <<prefix, bound, http_routes, router, url, nth, builds>>

-----------------------------------------------------------------------------
(* RouteBuild.build.                                                       *)

\* Mutant: build_prefix applied to the children of the router too.
PrefixesWithRouter(r) ==
  LET Inner[n \in Below[r]] ==
        (IF Parent[n] = r THEN prefix[r] ELSE Inner[Parent[n]]) \o prefix[n]
  IN  [n \in Nodes |->
         IF n \notin Below[r] THEN prefix[n]
         ELSE IF n \in Routes THEN prefix[r] \o Inner[n] ELSE Inner[n]]

\* build_prefix puts the prefix of its group before that of a list or route; the
\* router itself is no group, its prefix is put before that of a route at the end.
Prefixes(r) ==
  LET Inner[n \in Below[r]] ==
        (IF Parent[n] = r THEN <<>> ELSE Inner[Parent[n]]) \o prefix[n]
  IN  [n \in Nodes |->
         IF n \notin Below[r] THEN prefix[n]
         ELSE IF n \in Routes THEN prefix[r] \o Inner[n] ELSE Inner[n]]

\* Mutant: the guards of the other lists are collected too.
MiddlewaresOfAll(r) ==
  [n \in Nodes |-> IF n \in Below[r] THEN Attribute(n) \cup UNION {middlewares[l] : l \in Lists}
                   ELSE middlewares[n]]

\* build_middleware: the union of a node's own, the router's and its group's.
Middlewares(r) ==
  LET Inner[n \in Below[r]] ==
        Attribute(n) \cup middlewares[r] \cup (IF Parent[n] = r THEN {} ELSE Inner[Parent[n]])
  IN  [n \in Nodes |-> IF n \in Below[r] THEN Inner[n] ELSE middlewares[n]]

\* Mutant: nested lists are appended like routes.
BuiltWithLists(r) == http_routes \cup Below[r]

\* The list every build shares, with the routes of this router appended.
Built(r) == http_routes \cup (Below[r] \cap Routes)

Build(r) ==
  /\ builds < MaxBuilds
  /\ prefix' = Prefixes(r)
  /\ middlewares' = Middlewares(r)
  /\ bound' = bound \cup (Below[r] \cap Routes)
  /\ http_routes' = Built(r)
  /\ due' = [n \in Nodes |-> IF n \in Below[r] \cap Routes
                             THEN due[n] \cup UNION {middlewares[l] : l \in Ancestors[n]}
                             ELSE due[n]]
  /\ nth' = [nth EXCEPT ![r] = @ + 1]
  /\ builds' = builds + 1
  /\ UNCHANGED shared

\* The router a route is in, itself if it is in none.
RouterOf(n) == IF Parent[n] = Top THEN n ELSE Around[n][Len(Around[n])]

-----------------------------------------------------------------------------
(* RouteServiceProvider.routers and register_routes, RouteBuild.url.       *)

\* full_path = route.prefix + route.path, a dependency for each middleware.
Register(r) ==
  /\ Build(r)
  /\ router' =
       {[route |-> n, path |-> prefix'[n] \o Segment[n], guards |-> middlewares'[n],
         due |-> due'[n], nth |-> nth'[RouterOf(n)]] : n \in http_routes'}
  /\ UNCHANGED url

\* routers may also be given an HttpRoute, which is registered as it is.
RegisterRoute(n) ==
  /\ n \in Routes /\ Parent[n] = Top
  /\ router' =
       {[route |-> n, path |-> prefix[n] \o Segment[n], guards |-> Attribute(n),
         due |-> due[n], nth |-> 1]}
  /\ UNCHANGED <<objects, url, due, nth, builds>>

\* url builds the router again and returns the path, without the prefix, of the
\* route of that name in the list all builds share.
Url(r) ==
  /\ Build(r)
  /\ \E n \in Routes : url' = IF n \in http_routes' THEN <<n, Segment[n]>> ELSE url
  /\ UNCHANGED router

Next ==
  \/ \E n \in Nodes, g \in Guards : GuardList(n, g) \/ GuardRoute(n, g)
  \/ \E r \in Routers : Register(r) \/ Url(r)
  \/ \E n \in Routes : RegisterRoute(n)

Spec == Init /\ [][Next]_vars

-----------------------------------------------------------------------------
(* Correctness properties.                                                 *)

\* A route is never registered without a middleware that was given to it, or that
\* a list around it had when its router was built, in whatever order lists and
\* routes are declared, guarded, built and registered (middlewares of HttpRoute,
\* build_middleware, the list that build_routes shares).
Guarded == \A e \in router : e.due \subseteq e.guards

\* A middleware given to a list reaches the routes in that list and no other route.
Confined ==
  \A e \in router :
    e.guards \cap ListGuards \subseteq UNION {middlewares[l] : l \in Ancestors[e.route]}

\* The first build of a router registers each of its routes under every prefix
\* around it, once and in order, and building other routers does not change that.
PathsRight == \A e \in router : e.nth = 1 => e.path = Declared[e.route]

\* url: "Construct the full URL by combining the base URL and the route's path":
\* the URL of a route is one it is registered under.
UrlIsServed ==
  url # <<>> /\ (\E e \in router : e.route = url[1]) =>
    \E e \in router : e.route = url[1] /\ e.path = url[2]
=============================================================================
