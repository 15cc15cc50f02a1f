-------------------------- MODULE TortoiseRegistry --------------------------
(***************************************************************************)
(* What the rest of the system relies on in Tortoise ORM 0.20: one registry *)
(* of clients for the whole process, of which this code uses the single     *)
(* name "default".  A client belongs to one database and opens a pool of    *)
(* connections when it is first used.  Models always use the registered     *)
(* client; whoever keeps a client that is no longer registered can still    *)
(* open its pool, but close_connections no longer reaches it.               *)
(***************************************************************************)
EXTENDS Naturals, Sequences

VARIABLES
  target,      \* the database "default" is configured for, "nowhere" before any init
  registered,  \* the client registered as "default", 0 if there is none
  base,        \* the database of each client, in the order they were made
  live,        \* the clients whose pool is open
  leaked       \* pools that no client has, replaced by another or never handed over

registry == <<target, registered, base, live, leaked>>

Clients == 1..Len(base)

\* What get_connection("default") returns: the registered client or a new one.
Current == IF registered = 0 THEN Len(base) + 1 ELSE registered

\* The end of Tortoise.init and get_connection("default") after it, in one go: what was
\* registered is discarded.
Configure(d) ==
  /\ target' = d
  /\ base' = Append(base, d)
  /\ registered' = Len(base) + 1
  /\ UNCHANGED <<live, leaked>>

\* A query of a model first takes the registered client.
Take ==
  /\ target # "nowhere"
  /\ base' = IF registered = 0 THEN Append(base, target) ELSE base
  /\ registered' = Current
  /\ UNCHANGED target

\* A query of a model that nothing comes in between of: the client's pool is opened if it
\* is not open.
UseModels == Take /\ live' = live \cup {Current} /\ UNCHANGED leaked

\* create_connection: a new pool, whether the client has one or not.
CreateConnection(c) ==
  /\ leaked' = leaked + (IF c \in live THEN 1 ELSE 0)
  /\ live' = live \cup {c}
  /\ UNCHANGED <<target, registered, base>>

\* Leaving create_connection before the new pool is the client's: connections of its are
\* open or not yet.
HalfOpen(pools) ==
  /\ pools \in {0, 1}
  /\ leaked' = leaked + pools
  /\ UNCHANGED live

\* Closing the pool of a client; one without a pool stays as it is.
Close(c) ==
  /\ live' = live \ {c}
  /\ UNCHANGED <<target, registered, base, leaked>>

\* Mutant: the client is discarded and its pool stays open.
CloseForgets ==
  /\ registered' = 0
  /\ UNCHANGED <<target, base, live, leaked>>

\* connections.close_all, by the only task of a process: close, then discard.
CloseConnections ==
  /\ live' = live \ {registered}
  /\ registered' = 0
  /\ UNCHANGED <<target, base, leaked>>
=============================================================================
