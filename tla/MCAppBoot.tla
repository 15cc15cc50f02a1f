----------------------------- MODULE MCAppBoot -----------------------------
(* The providers of the framework, and a user's route provider whose boot   *)
(* makes what routes need and registers one more provider.  The default     *)
(* list (Database, Redis, Queue) keeps its order, and Middleware comes       *)
(* before Routes; Auth and those two may come anywhere in it.               *)
EXTENDS AppBoot

CONSTANTS Database, Redis, Queue, Auth, Middleware, Routes, More,
          db, redis, queue, jwt, guard, router, more

INSTANCE FrameworkProviders

Configured   == {Database, Redis, Queue, Auth, Middleware, Routes}
AllProviders == Configured \cup {More, Routing}
AllAbstracts == {Config, db, redis, queue, jwt, guard, router, more}
Singletons   == {Config, db, router, more}

Described == [p \in AllProviders |->
  CASE p = Database   -> DatabaseServiceProvider
    [] p = Redis      -> RedisServiceProvider
    [] p = Queue      -> QueueServiceProvider
    [] p = Auth       -> AuthServiceProvider
    [] p = Middleware -> MiddlewareServiceProvider
    [] p = Routing    -> RoutingServiceProvider
    [] p = Routes     -> [ServiceProvider EXCEPT !.bootMakes = {router, guard, queue, db, more}]
    [] p = More       -> [ServiceProvider EXCEPT !.binds = {more}, !.bootMakes = {more, router}]]

TheBinds         == [p \in AllProviders |-> Described[p].binds]
TheRegisterMakes == [p \in AllProviders |-> Described[p].registerMakes]
TheBootBinds     == [p \in AllProviders |-> Described[p].bootBinds]
TheBootMakes     == [p \in AllProviders |-> Described[p].bootMakes]
TheExtra         == [p \in AllProviders |-> IF p = Routes THEN More ELSE None]

Before(s, p, q) == \E i, k \in DOMAIN s : i < k /\ s[i] = p /\ s[k] = q

TheOrders ==
  {s \in [1..6 -> Configured] : /\ {s[i] : i \in 1..6} = Configured
                                /\ Before(s, Database, Redis) /\ Before(s, Redis, Queue)
                                /\ Before(s, Middleware, Routes)}

\* The framework's providers and that list are in order.
ASSUME TheyAreInOrder == ProvidersInOrder
=============================================================================
