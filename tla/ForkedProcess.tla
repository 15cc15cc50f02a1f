--------------------------- MODULE ForkedProcess ---------------------------
(***************************************************************************)
(* A process forked from an application and the database in it: a process   *)
(* that performs a job of class Job, or a BaseProcess.  It inherits the     *)
(* Tortoise registry and the client that the database manager has cached,   *)
(* if the application was booted.  The hooks of Job open the pool of the    *)
(* cached client and close the registered one.                              *)
(***************************************************************************)
EXTENDS JobHorse, FiniteSets

VARIABLES
  at,        \* where the life span of a BaseProcess is, "job" in a process for a job
  target, registered, base, live, leaked,   \* see TortoiseRegistry
  cached,    \* the client in _connections of the default database, 0 if there is none
  inherited, \* history: the number of open pools when the process was forked
  unclosed,  \* history: life spans whose on_shutdown raised, or was not run or not to its end
  halfOpened \* history: pools that were left half open

Tortoise == INSTANCE TortoiseRegistry
Process  == INSTANCE BaseProcess

database == <<target, registered, base, live, leaked>>

forkVars == <<vars, at, database, cached, inherited, unclosed, halfOpened>>

\* Forked after boot, with or without a query of the parent, or before.
ForkInit ==
  /\ Init
  /\ at = "job" \/ (at = "startup" /\ job = CHOOSE j \in Jobs : TRUE)
  /\ \/ cached = 1 /\ base = <<"default">> /\ inherited \in {0, 1}
     \/ cached = 0 /\ base = <<>> /\ inherited = 0
  /\ registered = cached
  /\ target = IF cached = 1 THEN "default" ELSE "nowhere"
  /\ live = 1..inherited
  /\ leaked = 0 /\ unclosed = 0 /\ halfOpened = 0

\* Job.register_db: without a cached connection this is a KeyError.
JobStartup(raises) ==
  /\ Startup(raises)
  /\ cached = 0 => raises
  /\ IF raises THEN UNCHANGED database ELSE Tortoise!CreateConnection(cached)
  /\ UNCHANGED <<unclosed, halfOpened>>

\* Only coroutine functions can await a query.
MayQuery == IF call = "function" THEN job.coro ELSE job.coroCb /\ ~Dropped

JobBody(uses, raises) ==
  /\ Body(raises)
  /\ uses => MayQuery
  /\ IF uses THEN Tortoise!UseModels ELSE UNCHANGED database
  /\ UNCHANGED <<unclosed, halfOpened>>

\* Job.on_shutdown.
JobShutdown(raises) ==
  /\ Shutdown(raises)
  /\ unclosed' = unclosed + (IF raises THEN 1 ELSE 0)
  /\ IF raises THEN UNCHANGED database ELSE Tortoise!CloseConnections
  /\ UNCHANGED halfOpened

\* The alarm of the death penalty while on_startup opens the pool, while the function or the
\* callback waits, for a query or for something else, and while on_shutdown closes: the
\* registered client has then been closed or not, and is not discarded.
JobAbandon(pools) ==
  /\ Abandon
  /\ halfOpened' = halfOpened + pools
  /\ \/ /\ step = "startup" /\ (cached = 0 => pools = 0)
        /\ Tortoise!HalfOpen(pools)
        /\ UNCHANGED <<target, registered, base, unclosed>>
     \/ /\ step = "body"
        /\ \/ pools = 0 /\ UNCHANGED database
           \/ pools = 0 /\ Tortoise!UseModels
           \/ Tortoise!Current \notin live /\ Tortoise!Take /\ Tortoise!HalfOpen(pools)
        /\ unclosed' = unclosed + 1
     \/ /\ step = "shutdown" /\ pools = 0
        /\ live' \in {live, live \ {registered}}
        /\ unclosed' = unclosed + 1
        /\ UNCHANGED <<target, registered, base, leaked>>

\* What a job does that does not reach the database.
JobElsewhere ==
  /\ \/ Save \/ Perform
     \/ WorkerSucceeded \/ WorkerOnSuccess \/ WorkerOnFailure \/ WorkerFailed
     \/ SyncPerformed \/ SyncCalledBack
  /\ UNCHANGED <<database, unclosed, halfOpened>>

JobStep ==
  /\ at = "job"
  /\ \/ JobElsewhere
     \/ \E raises \in BOOLEAN :
          \/ JobStartup(raises) \/ JobShutdown(raises)
          \/ \E uses \in BOOLEAN : JobBody(uses, raises)
     \/ \E pools \in {0, 1} : JobAbandon(pools)
  /\ UNCHANGED <<at, cached, inherited>>

ProcessStep ==
  /\ \E raises \in BOOLEAN :
       \/ Process!OnStartup(cached, raises)
       \/ \E uses \in BOOLEAN : Process!Handle(uses, raises)
       \/ Process!OnHandled(raises)
       \/ Process!OnShutdown(raises)
  /\ UNCHANGED <<vars, cached, inherited, unclosed, halfOpened>>

ForkNext == JobStep \/ ProcessStep

ForkSpec == ForkInit /\ [][ForkNext]_forkVars

-----------------------------------------------------------------------------
(* Correctness properties.                                                 *)

Pools == Cardinality(live) + leaked

BetweenLifespans == step \in {"new", "stored", "leave", "end", "error"}

\* Job.on_startup and on_shutdown: the first life span of a job closes every pool it
\* opened, if its on_shutdown is run to its end.  close_connections discards the client that
\* stays cached, so each later life span, of a coroutine callback, opens a pool that nobody
\* closes.  A BaseProcess that ends has closed its pools, whether handle returned or failed.
PoolsReleased ==
  /\ at = "job" /\ job.lifespan /\ BetweenLifespans /\ unclosed = 0 =>
       Pools = inherited + halfOpened + (IF opened = 0 THEN 0 ELSE opened - 1)
  /\ at = "ended" => Pools = inherited

\* Wherever hooks raise and the time of a job runs out, a life span leaves at most one pool
\* open, and one more if its time runs out while a pool is being opened.
OnePoolPerLifespan ==
  /\ at = "job" /\ job.lifespan => Pools <= inherited + opened + halfOpened
  /\ at # "job" => Pools <= inherited + 1
=============================================================================
