-------------------------- MODULE FrameworkProviders --------------------------
(***************************************************************************)
(* The service providers of the framework, as AppBoot needs them: the keys  *)
(* that their register and boot methods bind and make.  Reading the         *)
(* configuration makes the key "config".                                    *)
(***************************************************************************)
CONSTANTS
  Config,   \* "config"
  db,       \* "db", bound by singleton
  redis,    \* the classes Redis and ARedis, bound together
  queue,    \* Queue and "queue:default"
  jwt,      \* JWTAuthentication and "auth"
  guard,    \* the keys "middlewares.<name>"
  router    \* Router, bound by singleton, and Route

ServiceProvider == [binds |-> {}, registerMakes |-> {}, bootBinds |-> {}, bootMakes |-> {}]

\* register_models reads the configuration and makes "db" after it was bound; boot
\* opens the default connection.
DatabaseServiceProvider ==
  [ServiceProvider EXCEPT !.binds = {db}, !.registerMakes = {db, Config},
                          !.bootMakes = {db, Config}]

RedisServiceProvider ==
  [ServiceProvider EXCEPT !.binds = {redis}, !.registerMakes = {Config}]

\* The connection that "queue:default" will use is made at registration; boot mounts
\* a dashboard on a connection of its own.
QueueServiceProvider ==
  [ServiceProvider EXCEPT !.binds = {queue}, !.registerMakes = {redis},
                          !.bootMakes = {redis, Config}]

AuthServiceProvider ==
  [ServiceProvider EXCEPT !.binds = {jwt}, !.registerMakes = {Config}]

\* The configured middlewares are classes: those that are bound are made, the others
\* called without arguments, which JWTAuthentication does not allow.
MiddlewareServiceProvider ==
  [ServiceProvider EXCEPT !.registerMakes = {Config}, !.bootMakes = {jwt}, !.bootBinds = {guard}]

RoutingServiceProvider == [ServiceProvider EXCEPT !.binds = {router}]
=============================================================================
