------------------------- MODULE ForkedProcessProofs -------------------------
(***************************************************************************)
(* That a forked process closes the pools it opens, for every set of jobs.  *)
(* The inductive invariant follows the client that was cached before the    *)
(* fork through the life spans:                                            *)
(*   untouched   before the first, the client and its pool are as forked    *)
(*   the first   its pool is opened again, the inherited one is leaked      *)
(*   between     closed and discarded, though it stays cached               *)
(*   the others  its pool is opened, which close_connections cannot reach   *)
(* as long as each on_shutdown is run to its end, and counts what may be    *)
(* open if not.                                                            *)
(***************************************************************************)
EXTENDS JobRunProofs, Sequences, FiniteSetTheorems

ForkTypeInv ==
  /\ cached \in {0, 1} /\ inherited \in {0, 1} /\ inherited <= cached
  /\ base \in Seq({"default"}) /\ cached <= Len(base)
  /\ registered \in Nat /\ unclosed \in Nat /\ leaked \in Nat /\ halfOpened \in Nat
  /\ at \in {"job", "startup", "handle", "failed", "success", "shutdown", "ended", "died"}
  /\ target = IF cached = 1 THEN "default" ELSE "nowhere"
  /\ at # "job" => halfOpened = 0

Untouched == registered = cached /\ live = 1..inherited /\ leaked = halfOpened
FirstOpen == registered = 1 /\ live = {1} /\ leaked = inherited + halfOpened
Released  == registered = 0 /\ live = {} /\ leaked = inherited + halfOpened

\* The pools of a life span of a callback, and of the callbacks before it.
Later ==
  /\ registered # 1 /\ live = {1} \cup ({registered} \ {0})
  /\ leaked = inherited + halfOpened + (opened - 2)

InCall == step \in {"body", "shutdown"} /\ InLifespan(call)

JobPools ==
  /\ cached = 0 => opened = 0
  /\ opened = 0 => Untouched
  /\ opened = 1 => IF InCall THEN FirstOpen ELSE Released
  /\ opened > 1 => Later /\ (~InCall => registered = 0)

\* A pool that is registered is one that the next opening of its client replaces or that
\* close_connections closes; if it is not open, one less can be.
JobBound ==
  /\ IsFiniteSet(live) /\ 0 \notin live
  /\ IF opened = 0 THEN Untouched
     ELSE Pools <= inherited + opened + halfOpened - (IF registered \in live THEN 0 ELSE 1)

PoolInv ==
  /\ cached = 0 => Untouched
  /\ at = "job" /\ job.lifespan => JobBound
  /\ at = "job" /\ job.lifespan /\ unclosed = 0 => JobPools
  /\ at = "startup" => Untouched
  /\ at \in {"handle", "failed", "success", "shutdown"} => FirstOpen
  /\ at = "ended" => Released
  /\ at = "died" => Untouched \/ FirstOpen

ForkInv == ForkTypeInv /\ PoolInv

-----------------------------------------------------------------------------
(* The registry.                                                           *)

\* What hooks and queries do, done or left halfway.
Tidy == \/ Tortoise!UseModels \/ Tortoise!CreateConnection(cached)
        \/ Tortoise!CloseConnections \/ UNCHANGED database

Halfway(pools) ==
  \/ Tortoise!HalfOpen(pools) /\ Tortoise!Take
  \/ Tortoise!HalfOpen(pools) /\ UNCHANGED <<target, registered, base>>
  \/ live' \in {live, live \ {registered}} /\ UNCHANGED <<target, registered, base, leaked>>

\* What queries and hooks leave of the types.
LEMMA RegistryTypes ==
  ASSUME ForkTypeInv, Tidy \/ \E pools \in {0, 1} : Halfway(pools)
  PROVE  /\ registered' \in Nat /\ leaked' \in Nat /\ target' = target
         /\ base' \in Seq({"default"}) /\ Len(base') >= Len(base)
<1> USE DEF ForkTypeInv
<1>0. ASSUME Tortoise!Take
      PROVE  /\ base' \in Seq({"default"}) /\ Len(base') >= Len(base)
             /\ registered' \in Nat /\ target' = target
  <2>1. target = "default" /\ base' = (IF registered = 0 THEN Append(base, target) ELSE base)
    BY <1>0 DEF Tortoise!Take
  <2>2. base' \in Seq({"default"}) /\ Len(base') >= Len(base)
    BY <2>1
  <2>3. registered' \in Nat /\ target' = target
    BY <1>0 DEF Tortoise!Take, Tortoise!Current
  <2> QED
    BY <2>2, <2>3
<1>1. CASE Tortoise!UseModels
  BY <1>0, <1>1 DEF Tortoise!UseModels
<1>2. CASE Tortoise!CreateConnection(cached)
  BY <1>2 DEF Tortoise!CreateConnection
<1>3. CASE Tortoise!CloseConnections
  BY <1>3 DEF Tortoise!CloseConnections
<1>4. CASE UNCHANGED database
  BY <1>4 DEF database
<1>5. CASE \E pools \in {0, 1} : Halfway(pools)
  BY <1>0, <1>5 DEF Halfway, Tortoise!HalfOpen
<1> QED
  BY <1>1, <1>2, <1>3, <1>4, <1>5 DEF Tidy

\* A query uses the registered client, whose pool is open, or one it makes, which is not
\* the cached one.
LEMMA QueryPools ==
  ASSUME ForkTypeInv, Tortoise!UseModels
  PROVE  /\ cached = 1 /\ leaked' = leaked
         /\ FirstOpen => registered' = 1 /\ live' = {1}
         /\ registered # 1 /\ live = {1} \cup ({registered} \ {0}) =>
              registered' # 1 /\ live' = {1} \cup ({registered'} \ {0})
<1>1. cached = 1 /\ leaked' = leaked
  BY DEF ForkTypeInv, Tortoise!UseModels, Tortoise!Take
<1>2. Len(base) \in Nat /\ Len(base) >= 1
  BY <1>1 DEF ForkTypeInv
<1>3. registered' = (IF registered = 0 THEN Len(base) + 1 ELSE registered)
      /\ live' = live \cup {registered'}
  BY DEF Tortoise!UseModels, Tortoise!Take, Tortoise!Current
<1>4. FirstOpen => registered' = 1 /\ live' = {1}
  BY <1>3 DEF FirstOpen
<1>5. registered' # 0 /\ (registered # 1 => registered' # 1)
  BY <1>2, <1>3 DEF ForkTypeInv
<1>6. ASSUME registered # 1, live = {1} \cup ({registered} \ {0})
      PROVE  live' = {1} \cup ({registered'} \ {0})
  BY <1>3, <1>5, <1>6
<1> QED
  BY <1>1, <1>4, <1>5, <1>6

-----------------------------------------------------------------------------
(* Types.                                                                  *)

LEMMA ForkTypeStep == ASSUME ForkTypeInv, [ForkNext]_forkVars PROVE ForkTypeInv'
<1>1. CASE JobStep
  <2>1. UNCHANGED <<at, cached, inherited>> /\ at = "job"
    BY <1>1 DEF JobStep
  <2>2. unclosed' \in Nat /\ halfOpened' \in Nat
    BY <1>1 DEF JobStep, JobElsewhere, JobStartup, JobBody, JobShutdown, JobAbandon, ForkTypeInv
  <2>3. Tidy \/ \E pools \in {0, 1} : Halfway(pools)
    <3>1. ASSUME NEW pools \in {0, 1}, JobAbandon(pools) PROVE Tidy \/ Halfway(pools)
      BY <3>1 DEF JobAbandon, Tidy, Halfway
    <3> QED
      BY <1>1, <3>1 DEF JobStep, JobElsewhere, JobStartup, JobBody, JobShutdown, Tidy
  <2> QED
    BY <2>1, <2>2, <2>3, RegistryTypes DEF ForkTypeInv
<1>2. CASE ProcessStep
  <2>1. UNCHANGED <<cached, inherited, unclosed, halfOpened>> /\ at # "job"
    BY <1>2 DEF ProcessStep, Process!OnStartup, Process!Handle, Process!OnHandled,
                Process!OnShutdown
  <2>2. at' \in {"job", "startup", "handle", "failed", "success", "shutdown", "ended", "died"}
    BY <1>2 DEF ProcessStep, Process!OnStartup, Process!Handle, Process!OnHandled,
                Process!OnShutdown
  <2>3. Tidy
    BY <1>2 DEF Tidy, ProcessStep, Process!OnStartup, Process!Handle, Process!OnHandled,
                Process!OnShutdown, Process!UseModels, Process!Take, Process!CreateConnection,
                Process!CloseConnections, Process!registry, Process!Current, database,
                Tortoise!UseModels, Tortoise!Take, Tortoise!CreateConnection,
                Tortoise!CloseConnections, Tortoise!Current
  <2> QED
    BY <2>1, <2>2, <2>3, RegistryTypes DEF ForkTypeInv
<1>3. CASE UNCHANGED forkVars
  BY <1>3 DEF forkVars, database, ForkTypeInv
<1> QED
  BY <1>1, <1>2, <1>3 DEF ForkNext

-----------------------------------------------------------------------------
(* The life spans of a job.                                                *)

\* Where no call is inside its life span, before and after, nothing changes.
LEMMA PoolsElsewhere ==
  ASSUME ForkInv, JobElsewhere, UNCHANGED <<cached, inherited>>, job.lifespan
  PROVE  /\ JobPools => JobPools'
         /\ UNCHANGED <<opened, registered, live, leaked, halfOpened>>
<1>1. ~InCall /\ ~InCall' /\ opened' = opened
  <2>1. CASE Save
    BY <2>1 DEF Save, InCall
  <2>2. CASE Perform
    BY <2>2 DEF Perform, InCall, First, InLifespan
  <2>3. ASSUME NEW c, Enter(c), step = "leave" PROVE ~InCall /\ ~InCall' /\ opened' = opened
    BY <2>3 DEF Enter, Skip, InCall, First, InLifespan
  <2>4. CASE WorkerOnSuccess \/ WorkerOnFailure \/ SyncPerformed
    BY <2>3, <2>4 DEF WorkerOnSuccess, WorkerOnFailure, SyncPerformed
  <2>5. CASE WorkerSucceeded \/ WorkerFailed \/ SyncCalledBack
    BY <2>5 DEF WorkerSucceeded, WorkerFailed, SyncCalledBack, Stop, InCall
  <2> QED
    BY <2>1, <2>2, <2>4, <2>5 DEF JobElsewhere
<1>2. UNCHANGED <<registered, live, leaked, cached, inherited, halfOpened>>
  BY DEF JobElsewhere, database
<1> QED
  BY <1>1, <1>2 DEF JobPools, Untouched, FirstOpen, Released, Later

\* on_startup opens the pool of the cached client, which was closed or, before the first
\* life span, inherited.
LEMMA PoolsStartup ==
  ASSUME Inv, ForkInv, NEW raises \in BOOLEAN, JobStartup(raises),
         UNCHANGED <<cached, inherited>>, JobPools
  PROVE  JobPools'
<1>1. step = "startup" /\ InLifespan(call) /\ call' = call /\ job' = job /\ opened \in Nat
  BY DEF Inv, TypeInv, HookInv, JobStartup, Startup
<1>2. ~InCall
  BY <1>1 DEF InCall
<1>3. CASE raises
  <2>1. opened' = opened /\ ~InCall' /\ UNCHANGED <<registered, live, leaked, halfOpened>>
    BY <1>1, <1>3 DEF JobStartup, Startup, InCall, database
  <2> QED
    BY <1>2, <2>1 DEF JobPools, Untouched, FirstOpen, Released, Later
<1>4. CASE ~raises
  <2>1. opened' = opened + 1 /\ InCall'
    BY <1>1, <1>4 DEF JobStartup, Startup, InCall, InLifespan
  <2>2. /\ cached = 1 /\ cached' = 1 /\ inherited' = inherited /\ registered' = registered
        /\ halfOpened' = halfOpened
        /\ leaked' = leaked + (IF 1 \in live THEN 1 ELSE 0)
        /\ live' = live \cup {1}
    BY <1>4 DEF JobStartup, Tortoise!CreateConnection, ForkInv, ForkTypeInv
  <2>3. inherited \in {0, 1} /\ registered \in Nat /\ leaked \in Nat /\ halfOpened \in Nat
    BY DEF ForkInv, ForkTypeInv
  <2>4. CASE opened = 0
    <3>1. registered = 1 /\ live = 1..inherited /\ leaked = halfOpened
      BY <2>2, <2>4 DEF JobPools, Untouched
    <3>2. registered' = 1 /\ live' = {1} /\ leaked' = inherited' + halfOpened'
      BY <2>2, <2>3, <3>1
    <3> QED
      BY <2>1, <2>2, <2>4, <3>2 DEF JobPools, FirstOpen
  <2>5. CASE opened = 1
    <3>1. registered = 0 /\ live = {} /\ leaked = inherited + halfOpened
      BY <1>2, <2>5 DEF JobPools, Released
    <3>2. registered' = 0 /\ live' = {1} /\ leaked' = inherited' + halfOpened'
      BY <2>2, <2>3, <3>1
    <3> QED
      BY <2>1, <2>2, <2>3, <2>5, <3>2 DEF JobPools, Later
  <2>6. CASE opened > 1
    <3>1. registered = 0 /\ live = {1} /\ leaked = inherited + halfOpened + (opened - 2)
      BY <1>2, <2>6 DEF JobPools, Later
    <3>2. registered' = 0 /\ live' = {1} /\ leaked' = inherited' + halfOpened' + (opened' - 2)
      BY <1>1, <2>1, <2>2, <2>3, <3>1
    <3> QED
      BY <1>1, <2>1, <2>2, <2>6, <3>2 DEF JobPools, Later
  <2> QED
    BY <1>1, <2>4, <2>5, <2>6
<1> QED
  BY <1>3, <1>4

\* Only in a life span can the code of a job that has them query models.
LEMMA PoolsBody ==
  ASSUME Inv, ForkInv, NEW uses \in BOOLEAN, NEW raises \in BOOLEAN, JobBody(uses, raises),
         UNCHANGED <<cached, inherited>>, job.lifespan, JobPools
  PROVE  JobPools'
<1>1. step = "body" /\ call' = call /\ job' = job /\ opened' = opened /\ opened \in Nat
  BY DEF Inv, TypeInv, JobBody, Body
<1>2. InCall' <=> InCall
  BY <1>1 DEF JobBody, Body, InCall, InLifespan
<1>3. CASE ~uses
  <2>1. UNCHANGED <<registered, live, leaked, halfOpened>>
    BY <1>3 DEF JobBody, database
  <2> QED
    BY <1>1, <1>2, <2>1 DEF JobPools, Untouched, FirstOpen, Released, Later
<1>4. CASE uses
  <2>1. Tortoise!UseModels /\ InLifespan(call)
    BY <1>4 DEF JobBody, MayQuery, InLifespan
  <2>2. InCall /\ opened >= 1
    BY <1>1, <2>1 DEF InCall, Inv, TypeInv, HookInv
  <2>3. cached = 1 /\ leaked' = leaked /\ halfOpened' = halfOpened
    BY <2>1, QueryPools DEF ForkInv, JobBody
  <2>4. CASE opened = 1
    <3>1. FirstOpen
      BY <2>2, <2>4 DEF JobPools
    <3>2. registered' = 1 /\ live' = {1} /\ leaked' = inherited' + halfOpened'
      BY <2>1, <2>3, <3>1, QueryPools DEF ForkInv, FirstOpen
    <3> QED
      BY <1>1, <1>2, <2>2, <2>3, <2>4, <3>2 DEF JobPools, FirstOpen
  <2>5. CASE opened > 1
    <3>1. Later
      BY <2>5 DEF JobPools
    <3>2. registered' # 1 /\ live' = {1} \cup ({registered'} \ {0})
      BY <2>1, <3>1, QueryPools DEF ForkInv, Later
    <3>3. leaked' = inherited' + halfOpened' + (opened' - 2)
      BY <1>1, <2>3, <3>1 DEF Later
    <3> QED
      BY <1>1, <1>2, <2>2, <2>3, <2>5, <3>2, <3>3 DEF JobPools, Later
  <2> QED
    BY <1>1, <2>2, <2>4, <2>5
<1> QED
  BY <1>3, <1>4

\* on_shutdown closes what is registered: the cached client in the first life span, that
\* of a query in a later one.
LEMMA PoolsShutdown ==
  ASSUME Inv, ForkInv, NEW raises \in BOOLEAN, JobShutdown(raises), unclosed' = 0,
         UNCHANGED <<cached, inherited>>, JobPools
  PROVE  JobPools'
<1>1. /\ step = "shutdown" /\ step' = "leave" /\ opened' = opened /\ opened \in Nat
      /\ InLifespan(call) /\ opened >= 1
  BY DEF Inv, TypeInv, HookInv, JobShutdown, Shutdown
<1>2. InCall /\ ~InCall'
  BY <1>1 DEF InCall
<1>3. ~raises
  BY DEF JobShutdown, ForkInv, ForkTypeInv
<1>4. /\ live' = live \ {registered} /\ registered' = 0 /\ leaked' = leaked
      /\ halfOpened' = halfOpened
  BY <1>3 DEF JobShutdown, Tortoise!CloseConnections
<1>5. cached # 0
  BY <1>1 DEF JobPools
<1>6. CASE opened = 1
  <2>1. registered = 1 /\ live = {1} /\ leaked = inherited + halfOpened
    BY <1>2, <1>6 DEF JobPools, FirstOpen
  <2>2. live' = {} /\ leaked' = inherited' + halfOpened'
    BY <1>4, <2>1
  <2> QED
    BY <1>1, <1>2, <1>4, <1>5, <1>6, <2>2 DEF JobPools, Released
<1>7. CASE opened > 1
  <2>1. registered # 1 /\ live = {1} \cup ({registered} \ {0}) 
        /\ leaked = inherited + halfOpened + (opened - 2)
    BY <1>7 DEF JobPools, Later
  <2>2. live' = {1} /\ leaked' = inherited' + halfOpened' + (opened' - 2)
    BY <1>1, <1>4, <2>1
  <2> QED
    BY <1>1, <1>2, <1>4, <1>5, <1>7, <2>2 DEF JobPools, Later
<1> QED
  BY <1>2, <1>1, <1>6, <1>7

\* Of the life spans whose time runs out, those that are still opening their pool count.
LEMMA PoolsAbandon ==
  ASSUME Inv, ForkInv, NEW pools \in {0, 1}, JobAbandon(pools), unclosed' = unclosed,
         UNCHANGED <<cached, inherited>>, JobPools
  PROVE  JobPools'
<1>1. step = "startup"
  BY DEF JobAbandon, ForkInv, ForkTypeInv
<1>2. /\ step' = "leave" /\ opened' = opened /\ UNCHANGED <<registered, live>>
      /\ leaked' = leaked + pools /\ halfOpened' = halfOpened + pools
  BY <1>1 DEF JobAbandon, Abandon, Tortoise!HalfOpen
<1>3. ~InCall /\ ~InCall'
  BY <1>1, <1>2 DEF InCall
<1>4. inherited \in Nat /\ leaked \in Nat /\ halfOpened \in Nat /\ pools \in Nat
  BY DEF ForkInv, ForkTypeInv
<1>5. Untouched => Untouched'
  BY <1>2, <1>4 DEF Untouched
<1>6. Released => Released'
  BY <1>2, <1>4 DEF Released
<1>7. opened \in Nat
  BY DEF Inv, TypeInv
<1>8. Later => Later'
  BY <1>2, <1>4, <1>7 DEF Later
<1> QED
  BY <1>2, <1>3, <1>5, <1>6, <1>7, <1>8 DEF JobPools

-----------------------------------------------------------------------------
(* What may be open in a job, whatever is cut short.                        *)

\* The number of pools with one client's added or taken away.
LEMMA PoolsOf ==
  ASSUME IsFiniteSet(live), 0 \notin live, NEW c
  PROVE  /\ Cardinality(live) \in Nat
         /\ IsFiniteSet(live \cup {c}) /\ IsFiniteSet(live \ {c}) /\ 0 \notin live \ {c}
         /\ c # 0 => 0 \notin live \cup {c}
         /\ Cardinality(live \cup {c}) = Cardinality(live) + (IF c \in live THEN 0 ELSE 1)
         /\ Cardinality(live \ {c}) = Cardinality(live) - (IF c \in live THEN 1 ELSE 0)
  BY FS_CardinalityType, FS_AddElement, FS_RemoveElement

\* A query opens at most the pool that the bound has left for the registered client.
LEMMA QueryBound ==
  ASSUME ForkInv, JobBound, opened \in Nat, opened # 0, UNCHANGED <<opened, inherited>>,
         \/ Tortoise!UseModels /\ halfOpened' = halfOpened
         \/ \E pools \in {0, 1} : /\ Tortoise!Current \notin live /\ Tortoise!Take
                                  /\ Tortoise!HalfOpen(pools)
                                  /\ halfOpened' = halfOpened + pools
  PROVE  JobBound'
<1> DEFINE now == Tortoise!Current
<1>1. /\ leaked \in Nat /\ halfOpened \in Nat /\ inherited \in Nat /\ registered \in Nat
      /\ Len(base) \in Nat /\ IsFiniteSet(live) /\ 0 \notin live
      /\ Cardinality(live) + leaked
           <= inherited + opened + halfOpened - (IF registered \in live THEN 0 ELSE 1)
  BY DEF ForkInv, ForkTypeInv, JobBound, Pools
<1>2. now # 0 /\ registered' = now /\ (now \notin live => registered \notin live)
      /\ (now \in live => registered = now \/ registered \notin live)
  BY <1>1 DEF Tortoise!UseModels, Tortoise!Take, Tortoise!Current
<1>3. CASE Tortoise!UseModels /\ halfOpened' = halfOpened
  <2>1. live' = live \cup {now} /\ leaked' = leaked
    BY <1>3 DEF Tortoise!UseModels
  <2>2. /\ IsFiniteSet(live') /\ 0 \notin live' /\ registered' \in live'
        /\ Cardinality(live') = Cardinality(live) + (IF now \in live THEN 0 ELSE 1)
        /\ Cardinality(live) \in Nat
    BY <1>1, <1>2, <2>1, PoolsOf
  <2> HIDE DEF now
  <2>3. Cardinality(live') + leaked' <= inherited + opened + halfOpened
    BY <1>1, <1>2, <2>1, <2>2
  <2> QED
    BY <1>1, <1>3, <2>2, <2>3 DEF JobBound, Pools
<1>4. ASSUME NEW pools \in {0, 1}, now \notin live, Tortoise!HalfOpen(pools),
             halfOpened' = halfOpened + pools
      PROVE  JobBound'
  <2>1. live' = live /\ leaked' = leaked + pools /\ pools \in Nat
    BY <1>4 DEF Tortoise!HalfOpen
  <2>2. Cardinality(live) \in Nat
    BY <1>1, FS_CardinalityType
  <2> HIDE DEF now
  <2>3. Cardinality(live) + leaked' <= inherited + opened + halfOpened' - 1
    BY <1>1, <1>2, <1>4, <2>1, <2>2
  <2> QED
    BY <1>1, <1>2, <1>4, <2>1, <2>3 DEF JobBound, Pools
<1> QED
  BY <1>3, <1>4

\* The bound of a job, step by step.
LEMMA BoundStep ==
  ASSUME Inv, ForkInv, JobStep, job.lifespan, JobBound
  PROVE  JobBound'
<1>1. /\ leaked \in Nat /\ halfOpened \in Nat /\ inherited \in {0, 1} /\ registered \in Nat
      /\ opened \in Nat /\ IsFiniteSet(live) /\ 0 \notin live
      /\ Cardinality(live) \in Nat /\ inherited' = inherited /\ cached' = cached
  BY FS_CardinalityType DEF ForkInv, ForkTypeInv, Inv, TypeInv, JobBound, JobStep
<1>2. opened # 0 => Cardinality(live) + leaked
           <= inherited + opened + halfOpened - (IF registered \in live THEN 0 ELSE 1)
  BY DEF JobBound, Pools
<1>3. step \in {"body", "shutdown"} /\ InLifespan(call) => opened # 0
  BY DEF Inv, TypeInv, HookInv
<1>4. ASSUME UNCHANGED <<opened, registered, live, leaked, halfOpened>> PROVE JobBound'
  BY <1>1, <1>4 DEF JobBound, Pools, Untouched
<1>5. CASE JobElsewhere
  BY <1>1, <1>4, <1>5, PoolsElsewhere
<1>6. ASSUME NEW raises \in BOOLEAN, JobStartup(raises) PROVE JobBound'
  <2>1. CASE raises
    BY <1>4, <1>6, <2>1 DEF JobStartup, Startup, database
  <2>2. CASE ~raises
    <3>1. /\ cached = 1 /\ opened' = opened + 1 /\ registered' = registered
          /\ leaked' = leaked + (IF 1 \in live THEN 1 ELSE 0)
          /\ live' = live \cup {1} /\ halfOpened' = halfOpened
      BY <1>6, <2>2 DEF JobStartup, Startup, Tortoise!CreateConnection, ForkInv, ForkTypeInv
    <3>2. /\ IsFiniteSet(live') /\ 0 \notin live'
          /\ Cardinality(live') = Cardinality(live) + (IF 1 \in live THEN 0 ELSE 1)
      BY <1>1, <3>1, PoolsOf
    <3>3. Cardinality(live') + leaked' = Cardinality(live) + leaked + 1
      BY <1>1, <3>1, <3>2
    <3>4. CASE opened = 0
      <4>1. Untouched
        BY <3>4 DEF JobBound
      <4>2. registered' \in live' /\ Cardinality(live) = inherited /\ leaked = halfOpened
        <5>1. (live = {} /\ inherited = 0) \/ (live = {1} /\ inherited = 1)
          BY <1>1, <4>1 DEF Untouched
        <5> QED
          BY <3>1, <4>1, <5>1, FS_EmptySet, FS_Singleton DEF Untouched
      <4> QED
        BY <1>1, <3>1, <3>2, <3>3, <3>4, <4>2 DEF JobBound, Pools
    <3>5. CASE opened # 0
      <4>1. registered \in live => registered' \in live'
        BY <3>1
      <4>2. Cardinality(live') + leaked' <=
               inherited + opened' + halfOpened - (IF registered' \in live' THEN 0 ELSE 1)
        BY <1>1, <1>2, <3>1, <3>3, <3>5, <4>1
      <4> QED
        BY <1>1, <3>1, <3>2, <4>2 DEF JobBound, Pools
    <3> QED
      BY <3>4, <3>5
  <2> QED
    BY <2>1, <2>2
<1>7. ASSUME NEW uses \in BOOLEAN, NEW raises \in BOOLEAN, JobBody(uses, raises) PROVE JobBound'
  <2>1. CASE ~uses
    BY <1>4, <1>7, <2>1 DEF JobBody, Body, database
  <2>2. CASE uses
    <3>1. step = "body" /\ InLifespan(call) /\ opened' = opened /\ halfOpened' = halfOpened
      BY <1>7, <2>2 DEF JobBody, Body, MayQuery, InLifespan
    <3> QED
      BY <1>1, <1>3, <1>7, <2>2, <3>1, QueryBound DEF JobBody
  <2> QED
    BY <2>1, <2>2
<1>8. ASSUME opened # 0, live' = live \ {registered}, registered' \in {0, registered},
             UNCHANGED <<opened, leaked, halfOpened>>
      PROVE  JobBound'
  <2>1. /\ IsFiniteSet(live') /\ 0 \notin live' /\ registered' \notin live'
        /\ Cardinality(live') = Cardinality(live) - (IF registered \in live THEN 1 ELSE 0)
    BY <1>1, <1>8, PoolsOf
  <2>2. Cardinality(live') + leaked <= inherited + opened + halfOpened - 1
    BY <1>1, <1>2, <1>8, <2>1
  <2> QED
    BY <1>1, <1>8, <2>1, <2>2 DEF JobBound, Pools
<1>9. ASSUME NEW raises \in BOOLEAN, JobShutdown(raises) PROVE JobBound'
  <2>1. opened # 0 /\ opened' = opened /\ halfOpened' = halfOpened
    BY <1>3, <1>9 DEF JobShutdown, Shutdown, Inv, HookInv
  <2> QED
    BY <1>4, <1>8, <1>9, <2>1 DEF JobShutdown, database, Tortoise!CloseConnections
<1>10. ASSUME NEW pools \in {0, 1}, JobAbandon(pools) PROVE JobBound'
  <2>1. InLifespan(call) /\ opened' = opened /\ halfOpened' = halfOpened + pools
    BY <1>10 DEF JobAbandon, Abandon
  <2>2. CASE step = "startup"
    <3>1. live' = live /\ registered' = registered /\ leaked' = leaked + pools
      BY <1>10, <2>2 DEF JobAbandon, Tortoise!HalfOpen
    <3>2. CASE opened = 0
      BY <1>1, <2>1, <3>1, <3>2 DEF JobBound, Untouched
    <3>3. CASE opened # 0
      BY <1>1, <1>2, <2>1, <3>1, <3>3 DEF JobBound, Pools
    <3> QED
      BY <3>2, <3>3
  <2>3. CASE step = "body"
    <3>1. \/ pools = 0 /\ UNCHANGED database
          \/ pools = 0 /\ Tortoise!UseModels
          \/ Tortoise!Current \notin live /\ Tortoise!Take /\ Tortoise!HalfOpen(pools)
      BY <1>10, <2>3 DEF JobAbandon
    <3>2. CASE pools = 0 /\ UNCHANGED database
      BY <1>1, <1>4, <2>1, <3>2 DEF database
    <3>3. CASE pools = 0 /\ Tortoise!UseModels
      <4>1. halfOpened' = halfOpened
        BY <1>1, <2>1, <3>3
      <4> QED
        BY <1>1, <1>3, <2>1, <2>3, <3>3, <4>1, QueryBound
    <3>4. CASE Tortoise!Current \notin live /\ Tortoise!Take /\ Tortoise!HalfOpen(pools)
      BY <1>1, <1>3, <2>1, <2>3, <3>4, QueryBound
    <3> QED
      BY <3>1, <3>2, <3>3, <3>4
  <2>4. CASE step = "shutdown"
    <3>1. /\ halfOpened' = halfOpened /\ live' \in {live, live \ {registered}}
          /\ UNCHANGED <<registered, leaked>>
      BY <1>1, <1>10, <2>1, <2>4 DEF JobAbandon
    <3> QED
      BY <1>3, <1>4, <1>8, <2>1, <2>4, <3>1
  <2> QED
    BY <1>10, <2>2, <2>3, <2>4 DEF JobAbandon
<1> QED
  BY <1>5, <1>6, <1>7, <1>9, <1>10 DEF JobStep

-----------------------------------------------------------------------------
(* Both kinds of processes.                                                *)

\* Without a connection there is nothing to open, use or close.
LEMMA NothingStep ==
  ASSUME ForkInv, [ForkNext]_forkVars, cached = 0
  PROVE  Untouched'
<1>1. cached' = cached /\ inherited' = inherited
  BY DEF ForkNext, JobStep, ProcessStep, forkVars
<1>2. /\ registered = 0 /\ inherited = 0 /\ live = {} /\ leaked = halfOpened
      /\ halfOpened \in Nat
  BY DEF ForkInv, ForkTypeInv, PoolInv, Untouched
<1>3. ~Tortoise!Take /\ ~Tortoise!UseModels
  BY DEF ForkInv, ForkTypeInv, Tortoise!Take, Tortoise!UseModels
<1>4. /\ halfOpened' = halfOpened
      /\ \/ UNCHANGED database \/ Tortoise!CloseConnections
         \/ /\ live' \in {live, live \ {registered}}
            /\ UNCHANGED <<target, registered, base, leaked>>
  <2>1. ASSUME NEW pools \in {0, 1}, JobAbandon(pools)
        PROVE  /\ halfOpened' = halfOpened
               /\ \/ UNCHANGED database
                  \/ /\ live' \in {live, live \ {registered}}
                     /\ UNCHANGED <<target, registered, base, leaked>>
    BY <1>2, <1>3, <2>1 DEF JobAbandon, Tortoise!HalfOpen, database, ForkInv, ForkTypeInv
  <2>2. CASE JobStep
    BY <1>3, <2>1, <2>2 DEF JobStep, JobElsewhere, JobStartup, JobBody, JobShutdown
  <2>3. CASE ProcessStep
    <3>1. ~Process!UseModels /\ halfOpened' = halfOpened
      BY <1>2, <1>3, <2>3 DEF ProcessStep, Process!UseModels, Process!Take, Process!Current,
                              Tortoise!Take, Tortoise!Current
    <3> QED
      BY <2>3, <3>1 DEF ProcessStep, Process!OnStartup, Process!Handle, Process!OnHandled,
         Process!OnShutdown, Process!CloseConnections, Process!registry, database,
         Tortoise!CloseConnections
  <2>4. CASE UNCHANGED forkVars
    BY <2>4 DEF forkVars
  <2> QED
    BY <2>2, <2>3, <2>4 DEF ForkNext
<1>5. registered' = 0 /\ live' = {} /\ leaked' = halfOpened'
  BY <1>2, <1>4 DEF database, Tortoise!CloseConnections
<1> QED
  BY <1>1, <1>2, <1>5 DEF Untouched

\* The one life span of a BaseProcess.
LEMMA ProcessPools ==
  ASSUME ForkInv, ProcessStep
  PROVE  /\ at # "job" /\ at' # "job" /\ at' # "startup"
         /\ at' \in {"handle", "failed", "success", "shutdown"} => FirstOpen'
         /\ at' = "ended" => Released'
         /\ at' = "died" => Untouched' \/ FirstOpen'
<1> USE DEF ForkInv, ForkTypeInv, PoolInv
<1>1. /\ inherited' = inherited /\ cached' = cached /\ inherited \in {0, 1}
      /\ halfOpened' = halfOpened /\ halfOpened = 0
  BY DEF ProcessStep, Process!OnStartup, Process!Handle, Process!OnHandled, Process!OnShutdown
<1>2. ASSUME NEW raises \in BOOLEAN, Process!OnStartup(cached, raises)
      PROVE  /\ at = "startup"
             /\ (at' = "died" /\ Untouched') \/ (at' = "handle" /\ FirstOpen')
  <2>1. at = "startup" /\ at' = (IF raises THEN "died" ELSE "handle")
    BY <1>2 DEF Process!OnStartup
  <2>2. ASSUME raises PROVE Untouched'
    BY <1>1, <1>2, <2>1, <2>2 DEF Process!OnStartup, Process!registry, Untouched
  <2>3. ASSUME ~raises PROVE FirstOpen'
    <3>1. /\ cached = 1 /\ registered' = registered /\ live' = live \cup {1}
          /\ leaked' = leaked + (IF 1 \in live THEN 1 ELSE 0)
      BY <1>2, <2>3 DEF Process!OnStartup, Process!CreateConnection
    <3>2. registered = 1 /\ live = 1..inherited /\ leaked = 0
      BY <1>1, <2>1, <3>1 DEF Untouched
    <3> QED
      BY <1>1, <3>1, <3>2 DEF FirstOpen
  <2> QED
    BY <2>1, <2>2, <2>3
<1>3. ASSUME NEW uses \in BOOLEAN, NEW raises \in BOOLEAN, Process!Handle(uses, raises)
      PROVE  at = "handle" /\ at' \in {"failed", "success"} /\ FirstOpen'
  <2>1. at = "handle" /\ at' \in {"failed", "success"} /\ registered = 1 /\ FirstOpen
    BY <1>3 DEF Process!Handle, FirstOpen
  <2>2. registered' = 1 /\ live' = {1} /\ leaked' = leaked
    BY <1>3, <2>1 DEF Process!Handle, Process!UseModels, Process!Take, Process!Current,
                      Process!registry, FirstOpen
  <2> QED
    BY <1>1, <2>1, <2>2 DEF FirstOpen
<1>4. ASSUME NEW raises \in BOOLEAN, Process!OnHandled(raises)
      PROVE  at \in {"failed", "success"} /\ at' \in {"died", "shutdown"} /\ FirstOpen'
  BY <1>1, <1>4 DEF Process!OnHandled, Process!registry, FirstOpen
<1>5. ASSUME NEW raises \in BOOLEAN, Process!OnShutdown(raises)
      PROVE  at = "shutdown" /\ ((at' = "died" /\ FirstOpen') \/ (at' = "ended" /\ Released'))
  BY <1>1, <1>5 DEF Process!OnShutdown, Process!CloseConnections, Process!registry,
                         FirstOpen, Released
<1> QED
  BY <1>2, <1>3, <1>4, <1>5 DEF ProcessStep

LEMMA PoolStep == ASSUME Inv, ForkInv, [ForkNext]_forkVars PROVE PoolInv'
<1>1. CASE JobStep
  <2>1. at = "job" /\ at' = "job" /\ UNCHANGED <<cached, inherited>>
    BY <1>1 DEF JobStep
  <2>2. cached' = 0 => Untouched'
    BY <2>1, NothingStep
  <2>3. job' = job /\ (unclosed' = 0 => unclosed = 0)
    <3>1. job' = job
      BY ForkedStep, DoneGrows
    <3>2. unclosed' = unclosed \/ unclosed' = unclosed + 1
      BY <1>1 DEF JobStep, JobElsewhere, JobStartup, JobBody, JobShutdown, JobAbandon,
                     ForkInv, ForkTypeInv
    <3> QED
      BY <3>1, <3>2 DEF ForkInv, ForkTypeInv
  <2>4. ASSUME job.lifespan, unclosed' = 0 PROVE JobPools'
    <3>1. JobPools
      BY <2>1, <2>3, <2>4 DEF ForkInv, PoolInv
    <3>2. ASSUME NEW pools \in {0, 1}, JobAbandon(pools) PROVE JobPools'
      BY <2>1, <2>3, <2>4, <3>1, <3>2, PoolsAbandon DEF ForkInv, ForkTypeInv
    <3> QED
      BY <1>1, <2>1, <2>4, <3>1, <3>2, PoolsElsewhere, PoolsStartup, PoolsBody, PoolsShutdown
         DEF JobStep
  <2>5. ASSUME job.lifespan PROVE JobBound'
    BY <1>1, <2>1, <2>5, BoundStep DEF ForkInv, PoolInv
  <2> QED
    BY <2>1, <2>2, <2>3, <2>4, <2>5 DEF PoolInv
<1>2. CASE ProcessStep
  <2>1. cached' = 0 => Untouched'
    BY <1>2, NothingStep DEF ProcessStep
  <2> QED
    BY <1>2, <2>1, ProcessPools DEF PoolInv
<1>3. CASE UNCHANGED forkVars
  BY <1>3 DEF forkVars, vars, database, ForkInv, PoolInv, JobPools, JobBound, Pools,
              Untouched, FirstOpen, Released, Later, InCall, InLifespan
<1> QED
  BY <1>1, <1>2, <1>3 DEF ForkNext

LEMMA InitForkInv == ASSUME ForkInit PROVE ForkInv
<1>1. ForkTypeInv
  <2>1. cached \in {0, 1} /\ inherited \in {0, 1} /\ inherited <= cached
    BY DEF ForkInit
  <2>2. base \in Seq({"default"}) /\ cached <= Len(base)
    <3>1. <<"default">> \in Seq({"default"}) /\ Len(<<"default">>) = 1
      OBVIOUS
    <3>2. <<>> \in Seq({"default"}) /\ Len(<<>>) = 0
      OBVIOUS
    <3>3. (cached = 1 /\ base = <<"default">>) \/ (cached = 0 /\ base = <<>>)
      BY DEF ForkInit
    <3>4. CASE cached = 1 /\ base = <<"default">>
      BY <3>1, <3>4
    <3>5. CASE cached = 0 /\ base = <<>>
      BY <3>2, <3>5
    <3> QED
      BY <3>3, <3>4, <3>5
  <2> QED
    BY <2>1, <2>2 DEF ForkInit, ForkTypeInv
<1>2. Untouched
  BY DEF ForkInit, Untouched
<1>3. opened = 0 /\ at \in {"job", "startup"}
  BY DEF ForkInit, Init
<1>4. IsFiniteSet(live) /\ 0 \notin live
  BY FS_Interval DEF ForkInit
<1> QED
  BY <1>1, <1>2, <1>3, <1>4 DEF ForkInv, PoolInv, JobPools, JobBound

\* What the process counts as open, at the points where the life spans are over.
LEMMA PoolCounts ==
  ASSUME ForkInv, opened \in Nat
  PROVE  /\ Released \/ Untouched => Pools = inherited + halfOpened
         /\ FirstOpen => Pools = inherited + halfOpened + 1
         /\ Later /\ registered = 0 => Pools = inherited + halfOpened + (opened - 1)
<1>1. Cardinality({}) = 0 /\ Cardinality({1}) = 1
  BY FS_EmptySet, FS_Singleton
<1>2. inherited \in {0, 1} /\ halfOpened \in Nat
  BY DEF ForkInv, ForkTypeInv
<1>3. ASSUME Untouched PROVE Pools = inherited + halfOpened
  <2>1. (live = {} /\ inherited = 0) \/ (live = {1} /\ inherited = 1)
    BY <1>2, <1>3 DEF Untouched
  <2>2. leaked = halfOpened
    BY <1>3 DEF Untouched
  <2> QED
    BY <1>1, <1>2, <2>1, <2>2 DEF Pools
<1>4. ASSUME Released PROVE Pools = inherited + halfOpened
  BY <1>1, <1>2, <1>4 DEF Released, Pools
<1>5. ASSUME FirstOpen PROVE Pools = inherited + halfOpened + 1
  BY <1>1, <1>2, <1>5 DEF FirstOpen, Pools
<1>6. ASSUME Later, registered = 0 PROVE Pools = inherited + halfOpened + (opened - 1)
  <2>1. live = {1} /\ leaked = inherited + halfOpened + (opened - 2)
    BY <1>6 DEF Later
  <2> QED
    BY <1>1, <1>2, <2>1 DEF Pools
<1> QED
  BY <1>3, <1>4, <1>5, <1>6

\* The invariant of a forked process, with that of the job in it.
THEOREM ForkInvariance == ForkSpec => [](Inv /\ ForkInv)
<1>1. ForkSpec => []Inv
  BY ForkedImplementsJobRun, Invariance, PTL
<1>2. Inv /\ ForkInv /\ [ForkNext]_forkVars => ForkInv'
  BY ForkTypeStep, PoolStep DEF ForkInv
<1> QED
  BY InitForkInv, <1>1, <1>2, PTL DEF ForkSpec

\* The first life span of a job, and that of a BaseProcess, closes the pools it opens;
\* each later life span leaves one open (Job.on_startup and on_shutdown, register_db and
\* close_connections, whatever hooks and functions query and raise), as long as no life span
\* ends before its on_shutdown has.
THEOREM PoolsClosed == ForkSpec => []PoolsReleased
<1>1. Inv /\ ForkInv => PoolsReleased
  <2> SUFFICES ASSUME Inv, ForkInv PROVE PoolsReleased
    OBVIOUS
  <2>1. opened \in Nat
    BY DEF Inv, TypeInv
  <2>2. ASSUME at = "job", job.lifespan, BetweenLifespans, unclosed = 0
        PROVE  Pools = inherited + halfOpened + (IF opened = 0 THEN 0 ELSE opened - 1)
    <3>1. JobPools /\ ~InCall
      BY <2>2 DEF ForkInv, PoolInv, BetweenLifespans, InCall
    <3>2. CASE opened = 0
      BY <2>1, <3>1, <3>2, PoolCounts DEF JobPools, ForkInv, ForkTypeInv
    <3>3. CASE opened = 1
      BY <2>1, <3>1, <3>3, PoolCounts DEF JobPools, ForkInv, ForkTypeInv
    <3>4. CASE opened > 1
      BY <2>1, <3>1, <3>4, PoolCounts DEF JobPools
    <3> QED
      BY <2>1, <3>2, <3>3, <3>4
  <2>3. at = "ended" => Pools = inherited
    BY <2>1, PoolCounts DEF ForkInv, ForkTypeInv, PoolInv
  <2> QED
    BY <2>2, <2>3 DEF PoolsReleased
<1> QED
  BY <1>1, ForkInvariance, PTL

\* Whatever a time limit cuts short, a life span leaves at most one pool open, and one more
\* if it is cut short while it opens one (Job.register_db, a query of the job).
THEOREM PoolsBounded == ForkSpec => []OnePoolPerLifespan
<1>1. Inv /\ ForkInv => OnePoolPerLifespan
  <2> SUFFICES ASSUME Inv, ForkInv PROVE OnePoolPerLifespan
    OBVIOUS
  <2>1. opened \in Nat /\ inherited \in Nat /\ halfOpened \in Nat /\ leaked \in Nat
    BY DEF Inv, TypeInv, ForkInv, ForkTypeInv
  <2>2. ASSUME at = "job", job.lifespan PROVE Pools <= inherited + opened + halfOpened
    <3>1. JobBound
      BY <2>2 DEF ForkInv, PoolInv
    <3>2. Pools \in Nat
      BY <2>1, <3>1, FS_CardinalityType DEF JobBound, Pools
    <3>3. CASE opened = 0
      BY <2>1, <3>1, <3>3, PoolCounts DEF JobBound
    <3>4. CASE opened # 0
      BY <2>1, <3>1, <3>2, <3>4 DEF JobBound
    <3> QED
      BY <3>3, <3>4
  <2>3. ASSUME at # "job" PROVE Pools <= inherited + 1
    <3>1. halfOpened = 0 /\ (Untouched \/ FirstOpen \/ Released)
      BY <2>3 DEF ForkInv, ForkTypeInv, PoolInv
    <3> QED
      BY <2>1, <3>1, PoolCounts
  <2> QED
    BY <2>2, <2>3 DEF OnePoolPerLifespan
<1> QED
  BY <1>1, ForkInvariance, PTL
=============================================================================
