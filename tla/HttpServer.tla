----------------------------- MODULE HttpServer -----------------------------
(***************************************************************************)
(* The tasks of an HTTP server between start and end of its lifespan: they  *)
(* handle the requests of AuthTokens, and handlers of the application ask   *)
(* the DatabaseManager for connections.  Both meet in Tortoise.  A query    *)
(* takes the registered client when a handler begins to wait for it, opens  *)
(* the pool of that client if there is none, and is answered after that;    *)
(* at each of these awaits another task may replace the registered client.  *)
(***************************************************************************)
EXTENDS AuthTokens

CONSTANTS
  Default, Names, Misnamed,   \* see DatabaseManager
  MaxCalls                    \* bound: requests and calls of the manager

ASSUME HttpAssumption == Default \in Names

VARIABLES
  target, registered, base, live, leaked,   \* see TortoiseRegistry
  cached, refreshed, opening, made,         \* see DatabaseManager
  picked,   \* the client that answers the query each task waits for, and if its pool is
            \* there; NoClient of a task that waits for none
  late,     \* history: the clients whose pool was opened while a task was in configure or
            \* when the client was no longer the registered one
  calls

Manager == INSTANCE DatabaseManager

database == <<target, registered, base, live, leaked>>
manager  == <<cached, refreshed, opening, made>>
httpVars == <<auth, database, manager, picked, late, calls>>

NoClient == [client |-> 0, open |-> FALSE]

HttpInit ==
  /\ AuthInit /\ Manager!BootedManager
  /\ picked = [t \in Tasks |-> NoClient]
  /\ late = {} /\ calls = 0

\* A task does one thing at a time.
Free(t) == pc[t] = "idle" /\ opening[t] = Manager!Idle

NewCall == calls < MaxCalls /\ calls' = calls + 1

\* A handler that now waits for a query has taken the registered client for it, and knows
\* whether that has a pool.
Picks(t) ==
  IF pc'[t] \in {"idle", "decode"}
    THEN picked' = [picked EXCEPT ![t] = NoClient] /\ UNCHANGED database
    ELSE /\ Manager!Take
         /\ picked' = [picked EXCEPT ![t] = [client |-> Manager!Current,
                                             open   |-> Manager!Current \in live]]
         /\ UNCHANGED <<live, leaked>>

Arrival(t) ==
  /\ Free(t) /\ NewCall
  /\ Arrives(t) /\ Picks(t)
  /\ UNCHANGED <<manager, late>>

NobodyConfigures == \A t \in Tasks : opening[t] = Manager!Idle

\* create_pool returns; the client has it now, also if it got another one in the meantime
\* and if it is no longer registered.  SQLite's client keeps the one that it got first.
Opens(t) ==
  LET c == picked[t].client IN
  /\ c # 0 /\ ~picked[t].open
  /\ picked' = [picked EXCEPT ![t].open = TRUE]
  /\ \/ /\ Manager!CreateConnection(c)
        /\ late' = IF c = registered /\ NobodyConfigures THEN late ELSE late \cup {c}
     \/ c \in live /\ UNCHANGED <<database, late>>
  /\ UNCHANGED <<auth, manager, calls>>

\* A query is answered where its client has an open pool and is one of the default database,
\* in which the tables of users and tokens are.
Query(t) ==
  /\ picked[t].open
  /\ picked[t].client \in live /\ base[picked[t].client] = Default
  /\ Queried(t) /\ Picks(t)
  /\ UNCHANGED <<manager, late, calls>>

\* A handler goes on without a query, or its query fails: the pool cannot be opened or was
\* closed, the database is another one, or any other error.
NoQuery(t) ==
  /\ Decode(t) \/ QueryFails(t)
  /\ Picks(t)
  /\ UNCHANGED <<manager, late, calls>>

\* A handler calls connection or reconnect.
ManagerCall(t) ==
  /\ Free(t) /\ NewCall
  /\ Manager!Calls(t)
  /\ UNCHANGED <<auth, picked, late>>

\* A handler that waits in configure goes on.
ManagerGoesOn(t) ==
  /\ Manager!GoesOn(t)
  /\ UNCHANGED <<auth, picked, late, calls>>

Clock == Tick /\ UNCHANGED <<database, manager, picked, late, calls>>

HttpNext ==
  \/ Clock
  \/ \E t \in Tasks : \/ Arrival(t) \/ Opens(t) \/ Query(t) \/ NoQuery(t)
                     \/ ManagerCall(t) \/ ManagerGoesOn(t)

HttpSpec == HttpInit /\ [][HttpNext]_httpVars

-----------------------------------------------------------------------------
(* Correctness properties.                                                 *)

\* See DatabaseManager: a client cached under a name belongs to the database of that name.
NamesKept == Manager!NamesKept

\* See DatabaseManager: a second client for a name is made only by overlapping calls.
OnePerName == Manager!OnePerName

\* configure: init closes the pool of the client it replaces, so that requests use the only
\* client with an open pool.  One whose pool a query opens while a task is in configure, or
\* after the query's client was replaced, may stay behind with its connections, since no
\* later init closes it.
OnlyLatePoolsStray ==
  \A c \in live :
    \/ c = registered \/ c \in late
    \/ \E t \in Tasks : opening[t].step = "closing" /\ opening[t].old = c
=============================================================================
