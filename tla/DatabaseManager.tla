-------------------------- MODULE DatabaseManager --------------------------
(***************************************************************************)
(* DatabaseManager: connections cached by name, above the one name that     *)
(* Tortoise knows.  A connection that is not cached is made by Tortoise.init,*)
(* which first awaits the closing of whatever is registered, so that other  *)
(* tasks of the event loop run between the look into the cache and the      *)
(* entry.  Everything after that await happens in one go.                   *)
(*                                                                         *)
(* The handlers that register_tortoise adds to the server never run: the    *)
(* kernel gives it a lifespan of its own, which replaces them.              *)
(***************************************************************************)
EXTENDS TortoiseRegistry

CONSTANTS
  Tasks,      \* the tasks of one event loop
  Default,    \* the default connection
  Names,      \* connection names that are configured
  Misnamed    \* those that end in ::read or ::write, of which no URL can be made

VARIABLES
  cached,     \* _connections: the client of each name, 0 if there is none
  refreshed,  \* the names under which a coroutine of reconnect took its place
  opening,    \* what each task waits for in configure
  made        \* history: the clients made by connection, and the last one before its check

manager == <<cached, refreshed, opening, made>>

Idle == [step |-> "idle"]

\* Booted: DatabaseServiceProvider.boot has asked for the default connection.
BootedManager ==
  /\ target = Default /\ registered = 1 /\ base = <<Default>>
  /\ live = {} /\ leaked = 0
  /\ cached = [n \in Names |-> IF n = Default THEN 1 ELSE 0]
  /\ refreshed = {}
  /\ opening = [t \in Tasks |-> Idle]
  /\ made = {[client |-> 1, name |-> Default, saw |-> 0]}

-----------------------------------------------------------------------------
(* configure.                                                              *)

\* Mutant: init is left out when Tortoise is initialised already.
ConfigureOnce(n) ==
  IF n \in Misnamed
    THEN registered' = 0 /\ UNCHANGED <<target, base, live, leaked>>
  ELSE IF target # "nowhere" THEN UseModels
  ELSE Configure(n)

\* The end of configure: init raises if it cannot read the URL, after it has closed and
\* discarded what was registered.
ConfigureEnds(n) ==
  IF n \in Misnamed
    THEN registered' = 0 /\ UNCHANGED <<target, base, live, leaked>>
    ELSE Configure(n)

\* connection stores the client that configure returned.
Store(n, saw) ==
  IF n \in Misnamed
    THEN UNCHANGED <<cached, refreshed, made>>
    ELSE /\ cached' = [cached EXCEPT ![n] = registered']
         /\ refreshed' = refreshed \ {n}
         /\ made' = made \cup {[client |-> registered', name |-> n, saw |-> saw]}

\* Mutant: the registered client is discarded before init, which then closes nothing.
ConfigureBeginsAfterDiscard(t, n, stores) ==
  /\ opening' = [opening EXCEPT ![t] = [step |-> "closed", name |-> n, old |-> registered,
                                        stores |-> stores, saw |-> Len(base)]]
  /\ UNCHANGED registry

\* The first steps of configure: to its end if nothing is registered, else to the await.
ConfigureBegins(t, n, stores) ==
  IF registered = 0
    THEN ConfigureEnds(n) /\ UNCHANGED opening
    ELSE /\ opening' = [opening EXCEPT ![t] = [step |-> "closing", name |-> n, old |-> registered,
                                               stores |-> stores, saw |-> Len(base)]]
         /\ UNCHANGED registry

\* The pool of the client that was registered when init began is closed.
Closed(t) ==
  /\ opening[t].step = "closing"
  /\ opening' = [opening EXCEPT ![t].step = "closed"]
  /\ Close(opening[t].old)
  /\ UNCHANGED <<cached, refreshed, made>>

\* The task goes on, and whatever is registered by then is discarded.
Configured(t) ==
  /\ opening[t].step = "closed"
  /\ opening' = [opening EXCEPT ![t] = Idle]
  /\ ConfigureEnds(opening[t].name)
  /\ IF opening[t].stores
       THEN Store(opening[t].name, opening[t].saw)
       ELSE UNCHANGED <<cached, refreshed, made>>

-----------------------------------------------------------------------------
(* connection, reconnect, refresh_connections.                             *)

InCache(n) == cached[n] # 0 \/ n \in refreshed

ConnectionMissing(t, n) ==
  /\ ConfigureBegins(t, n, TRUE)
  /\ IF registered = 0 THEN Store(n, Len(base)) ELSE UNCHANGED <<cached, refreshed, made>>

\* Mutant: connection does not look into the cache.
ConnectionAlways(t, n) ==
  /\ opening[t] = Idle
  /\ ConnectionMissing(t, n)

\* What is in the cache is returned without an await, a coroutine of reconnect too.
Connection(t, n) ==
  /\ opening[t] = Idle
  /\ IF InCache(n) THEN UNCHANGED <<registry, manager>> ELSE ConnectionMissing(t, n)

\* reconnect of a cached name puts the coroutine of configure into the cache; the caller
\* may await it or, as _reconnector does, leave that to its own caller.
Reconnect(t, n, awaits) ==
  /\ opening[t] = Idle
  /\ InCache(n)
  /\ cached' = [cached EXCEPT ![n] = 0]
  /\ refreshed' = refreshed \cup {n}
  /\ UNCHANGED made
  /\ IF awaits THEN ConfigureBegins(t, n, FALSE) ELSE UNCHANGED <<registry, opening>>

\* A task calls the manager, or goes on in configure.
Calls(t) ==
  \E n \in Names : \/ Connection(t, n)
                   \/ \E awaits \in BOOLEAN : Reconnect(t, n, awaits)

GoesOn(t) == Closed(t) \/ Configured(t)

-----------------------------------------------------------------------------
(* Correctness properties.                                                 *)

\* connection: although Tortoise has one name for all connections, and is initialised
\* again while other tasks are in the middle of it, what is cached under a name is a
\* client of the database of that name.
NamesKept == \A n \in Names : cached[n] # 0 => base[cached[n]] = n

\* connection makes a second client for a name only if it looked into the cache before
\* the first was made.
OnePerName ==
  \A m1, m2 \in made : m1.name = m2.name /\ m1.client < m2.client => m2.saw < m1.client
=============================================================================
