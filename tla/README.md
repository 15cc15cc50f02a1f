# diracore: verification project

TLA+ modules for the parts of diracore whose behaviour depends on order, sharing
or failure, the TLC configurations that check them on small instances, and TLAPS
proofs of the properties that matter most for every instance. All paths below
are relative to `src/diracore/`; `PROJECT.json` maps every definition to its lines.

## 1. The system

diracore is a web framework: an application container boots service providers,
FastAPI serves the routes they declare, and a queue on Redis (a subclass of rq
with asynchronous job functions) runs jobs in worker processes.

| Part | State | Operations | What is hard |
|---|---|---|---|
| Work queue and workers (`queue/base/worker.py`, `queue/base/queue.py`) | In Redis: the queue list, the intermediate list, job hashes, StartedJobRegistry. In each worker: `completed_jobs`, the job in hand, the pid of its work horse | `awork` (loop, maintenance, dequeue, fork, monitor, heartbeat), `dequeue_any` with `lmove` or `lpop`, `aperform_job` in the forked horse | Two processes per worker, each of which may die at any command; a horse (detached by `setsid`) outlives its worker; cleanups of one worker run while others work; Redis errors before and after a command took effect; undecodable and expired hashes |
| Jobs (`queue/base/job.py`, `queue/base/callback.py`, `queue/job.py`) | The job hash with callback names and pickled params; the asynchronous life span around the function | `AscJob.create`, `to_dict`/`restore`, `_execute`, `JobBase.enqueue*`, `lifespan`, success and failure callbacks, `AscQueue.run_sync` | Every hook and callback may raise; a time limit may end the event loop under a suspended life span; callbacks are created in several ways and called in others; outcome is recorded after the callback on workers, before it on synchronous queues |
| Routing (`routing/router.py`, `foundation/support/providers/route_service.py`) | Trees of `RouteList` and `HttpRoute`; `HttpRoute.middlewares`, one list of the class; the default `http_routes` list of `build_routes` | `middleware`, `build`, `register_routes`, `url` | In-place folding and two shared mutable lists make the result depend on the order of declarations and builds |
| Application, container, bootstrap (`foundation/application.py`, `container/`, `support/service_provider.py`, `foundation/bootstrap/`) | `_service_providers`, `_booted`, `bindings`, `instances` | `register`, `boot`, `bind`, `singleton`, `instance`, `make`, the bootstrappers | Providers register providers while the boot loop runs; a provider raises and the lifespan is entered again; rebinding |
| Service providers of the framework (`database/providers/`, `queue/queue_service.py`, `foundation/support/providers/`, `support/http/auth/service.py`) | none of their own | `register`, `boot` | They depend on each other through the container |
| Kernels (`foundation/http/http_kernel.py`, `foundation/console/console_kernel.py`) | the list of bootstrappers | `lifespan`, `handle` | see bootstrap |
| Database manager (`database/manager.py`) | `_connections`, and Tortoise's registry of one client, shared by the whole process | `connection`, `reconnect`, `refresh_connections`, `configure` | Check, then await, then store; `Tortoise.init` closes earlier connections; queries run meanwhile |
| Processes (`processes/process.py`) | the client inherited from the parent, and its pool | `run`, `lifespan`, `on_handle` | `on_shutdown` is not in a `finally` |
| Token authentication (`support/http/auth/`) | users and tokens in the database | `register`, `login`, `create_access_token`, the dependency that checks a token | Check, then act, in concurrent requests; tokens of one second; expiry |
| Command line, configuration, contracts | none beyond one call | | |

How they interact: a kernel runs the bootstrappers on the application; providers
bind connections, queues and routers in the container and make them in `boot`;
a request handler makes `queue:<name>` and enqueues a job; workers share nothing
with it but Redis; a job opens and closes the database in its life span hooks.

What makes each part correct: a job has one owner, is invoked at most once, is never lost and gets
one outcome (queue); hooks are paired, outcome and callbacks agree, params arrive (jobs); a route is
served under its declared path with every guard given to it and none of another list's (routing);
every provider is booted, after everything it makes is bound, and singletons stay what they are
(bootstrap); a client cached under a name belongs to its database, and what a life span opens it
closes (database, processes); a user who registered has a token, an address has one user, and a
token opens what it was given for, for as long as it was given (authentication). Where the code
keeps such a promise only under a condition, the property states the exact condition.

## 2. Modules

| Module | Models |
|---|---|
| `JobService` | abstract: what the queue promises about one job, without Redis and workers |
| `WorkQueue` | the queue, the workers and their horses; refines `JobService` |
| `WorkQueueProofs` | theorems about `WorkQueue` |
| `JobRun` | one job from `create` to its outcome |
| `JobHorse` | the refinement mapping from `JobRun` to a work horse of `WorkQueue` |
| `TortoiseRegistry` | external: the registry of clients and their pools in Tortoise |
| `BaseProcess` | the life span of a process, over `TortoiseRegistry` |
| `ForkedProcess` | composes `JobRun` or `BaseProcess` with the inherited registry |
| `JobRunProofs` | theorems about `JobRun`, and that `ForkedProcess` behaves as `JobRun` |
| `JobHorseProofs` | that `JobRun` implements the work horse of `WorkQueue` |
| `ForkedProcessProofs` | that forked processes close the pools they open |
| `DatabaseManager` | cached connections of a server, over `TortoiseRegistry` |
| `AuthTokens` | registration, login, logout, the guard of a route |
| `HttpServer` | composes `AuthTokens` and `DatabaseManager`: the tasks of one server |
| `HttpServerProofs` | theorems about `HttpServer` |
| `Routing` | declarations, builds, registration and `url` |
| `RoutingProofs` | theorems about `Routing` |
| `AppBoot` | bootstrap, registration, boot loop, container |
| `AppBootProofs` | theorems about `AppBoot` |
| `FrameworkProviders` | what the framework's service providers bind and make |
| `MCWorkQueue`, `MCJobRun`, `MCForkedProcess`, `MCRouting`, `MCAppBoot`, `MCHttpServer` | the instances that TLC checks |

### WorkQueue

A worker is the pair `wpc[w]`, `hpc[w]`: the parent in `awork`, and the child in `aperform_job`.
Values of `wpc`: `loop` (top of the loop, blocked in `dequeue_job_and_maintain_ttl` included),
`popped` (`dequeue_any` between pop and fetch), `fetched` (the job is returned), `monitor` (forked),
`heartbeat` (after `aexecute_job`), `quit`, `crashed`, and `thrown` by a failure callback (see
below). Values of `hpc`: the command of `aperform_job` that is next, `hung`, or the exit code. Each
Redis command or transaction is one action, because that is the unit in which others can interleave
and after which a process can die. rq is not part of the repository: its calls
(`prepare_job_execution`, `handle_job_success`, `monitor_work_horse`, the two cleanups, ...) are
modelled by what the workers rely on, and are marked external in the map.

Time is abstracted to what it guards. `StartedJobRegistry.cleanup` fails an entry
nobody renewed: one whose worker is not in `monitor`, where heartbeats renew it.
The cleanup of the intermediate list spares a job that is younger than a minute:
one that is `OnItsWay`, since the steps from pop to `prepare_job_execution` take far
less. A death penalty raises in `Perform`; code that swallows it is `Hang`, which
only `KillHung` ends. `Movers` are the workers with one queue on Redis 6.2 or later,
which use `lmove`; all others use `lpop`. A worker of `lpop` that dies between pop and
`prepare_job_execution` loses the job: `NoJobLost` says so by its condition.

A cleanup of the StartedJobRegistry goes through all abandoned entries. rq calls the failure callback
of each (`AscJob.execute_failure_callback`, which raises again what the callback raises), marks it
failed at once, and takes them all off the registry in a pipeline at the end. `CleanMarks`,
`CleanStarted` and `CleanRaises` are these three effects as steps of one worker each: the model
does not keep the order in which a worker goes through the entries, nor rq's lock that keeps two
workers out of the same cleanup, so it has more behaviours than the code and not fewer. Jobs in
`Raising` have a failure callback that may raise when a cleanup calls it. Every coroutine
function does: it is called inside the running loop of `awork`, where `run_sync_or_async` cannot
start its own. Such a worker is `thrown` out of `awork` and the entry stays for the next worker. These
are no faults and are not counted: one abandoned job can end all workers, which
is why `EveryJobSettles` and `RegistriesDrain` allow for `EndedByCallback` and for nothing else.

Faults are actions counted by `faults`; a configuration chooses their kinds.

`awork` is the asynchronous API of `AscWorker`. The command `queue.work`
(`queue/commands.py:13`) starts rq's own `work` loop instead, which differs in what it
calls to perform a job and is not modelled.

### JobRun

One job and the call stack of the process that performs it: `call` is the function or
a callback, `step` where the call is inside `lifespan`, `raised` the exception under way.
`Supported` lists the kinds of job for which the code keeps its promise, and
`CleanRunSucceeds` is checked for them; the kinds it excludes are those of the findings
and these, read off the code: a bare function as callback on a worker gets
params it does not expect (`base/job.py:343-345` against `:258`), and a coroutine function
given to `create` as callback is called and never awaited (`:345` against `:200`).

The death penalty of a worker is an exception raised by a signal handler. In code that is running it
is one more error of that code (`raises`). While a coroutine is suspended it is raised in the event
loop and leaves `run_until_complete` without entering the coroutine: `Abandon`. The `finally` of
`lifespan` then does not run, so a life span is left open (`abandoned`). `Balanced` says that this
is the only way to leave one open and that no such job is finished. On synchronous queues there is
no death penalty. Nor does an abandoned coroutine run later: the traceback of the exception keeps it
until the outcome is recorded, and a horse ends with `os._exit` (`worker.py:150-152`).

`inLoop` is a thread that runs an event loop, such as a request handler that enqueues on a
synchronous queue: `_execute` and `run_sync_or_async` then fail to start theirs. A forked
horse is not such a thread, since asyncio forgets the running loop in a forked child.

`JobHorse` maps a state of `JobRun` to one of `WorkQueue` with one job and one worker, whose
horse it is, and `ImplementsHorse` says that every step is a step of that horse or a
stutter. So what `WorkQueue` assumes in `Perform`, `OnSuccess` and `OnFailure` is what hooks,
exceptions and callbacks really do, and a finished job of the queue is one whose hooks were
balanced and whose success callback returned.

### ForkedProcess, BaseProcess, TortoiseRegistry

A forked process inherits `_connections` with the client that boot cached, the registry with the
same client, and perhaps an open pool. `Job.on_startup` and `BaseProcess.on_startup` open a pool of
the cached client; queries use the registered client; `on_shutdown` closes the registered client and
discards it from the registry, but not from `_connections`. In the first life span the two are one
client. In a second (a coroutine callback of the same job) they are not, and the pool that
`on_startup` opens stays open: `PoolsReleased` counts exactly these, for jobs whose `on_shutdown`
hooks are run to their end. `JobAbandon` adds what the death penalty leaves at each await: a pool
that is created and not handed over (`halfOpened`), a query that is under way, a close that is not
followed by the discard. For these, and for hooks that raise, `OnePoolPerLifespan` bounds what stays
open. Tortoise 0.20, which `pyproject.toml` asks for, is external; `TortoiseRegistry` has the facts
about it that the code relies on.

### DatabaseManager

A task in `configure` is `closing` until the old pool is closed, then `closed` until the task
goes on; from there to the entry in `_connections` there is no await. Nothing is awaited
if no client is registered. Names in `Misnamed` end in `::read` or `::write`:
`get_db_name` leaves the ending in the URL scheme, which Tortoise refuses after it
has closed and discarded the registered client. A name with a missing configuration raises
before it has changed anything and is left out.

### AuthTokens and HttpServer

`pc[t]` is the query a handler waits for; what it computes between two queries is one
step with the answer of the first. `memo[t]` is what the handler carries to its next
query. Passwords are right or wrong. A tick is half a second, so that a
second holds two moments; credentials are the user and the second in which the token
expires, which is all that tells the tokens of one user apart. `excused` is history: who logged out,
and whose registration failed after `User.create`. A query that fails is one that has written nothing;
one that was applied and whose answer is lost is left out.

In `HttpServer` a query has three moments, between which other tasks run. `Picks`: when the handler
begins to wait for it, it takes the registered client, and finds a pool there or not. `Opens`:
`create_pool` returns and the pool is the client's, even if that client has been replaced since.
`Query`: the answer, which needs an open pool of a client of the default database, because that is
where the tables of users and tokens are. `picked[t]` is the client between the first and the last.
`connection` and `reconnect` are called by the same tasks. `late` are the clients whose pool was
opened while a task was in `configure`, or when they were no longer registered; `OnlyLatePoolsStray`
says that no other pool is left behind. When two first queries of one client overlap, each may
create a pool and the client keeps one of them; the other is counted in `leaked`, and no property
speaks of it.

### Routing

Nodes are lists and routes; `Parent` is the declaration tree. Python's sharing is
explicit: `shared` is the list of the class `HttpRoute`, which `middleware` extends until
`build` has given the route a list of its own (`bound`); `http_routes` is the default
argument that all builds append to. `due` and `nth` are history variables for the
properties: the guards a route must have, and how often its router was built.
`TreeAssumption` says that no list is inside itself: in any set of lists there is one whose
own list is not in the set. `build_routes` would not return from a list inside itself.

### AppBoot

Providers are described by the keys they bind and make in `register` and `boot`, and the
provider they register in `boot`. `FrameworkProviders` has
these descriptions for the framework's own providers, and `MCAppBoot` adds a user's
route provider. An object is a number, so that two calls of `make` can be compared.
`booted`, `boots` and the position `next` follow the loop in `Application.boot`,
which runs over a list that grows. `Orders` are the lists of providers an application may
configure. `ProvidersInOrder` is the condition on them that the code leaves to users: a
register method makes only what providers up to it in the list bind, a boot method what any
register method binds, or what boot methods up to its own bind. `MCAppBoot` states, and
TLC confirms, that the framework's providers satisfy it in every order the run allows.

## 3. Runs

`CHECK_DEADLOCK FALSE` in all configurations: a worker blocks on an empty queue or
has quit, a job run ends, and builds and lifespans are bounded; none of these states is
an error, and "stuck" is excluded by `EveryJobSettles` and `RegistriesDrain`.

| Run | Shows |
|---|---|
| `WorkQueueSafety` | `ExclusiveOwner`, `AtMostOnce`, `NoJobLost`, `TypeOK` with 3 jobs (one undecodable), 2 workers, `max_jobs` 2, 3 faults of any kinds |
| `WorkQueueLive` | Under fairness, with 2 jobs, 3 workers and 2 faults (anything but a lost reply): every job settles, the registries drain, outcomes are stable; the failure callback of one of the jobs may raise in a cleanup |
| `WorkQueueRefines` | With 3 jobs, one worker of each kind of pop and 2 faults that leave processes alive: `WorkQueue` implements `JobService` |
| `WorkQueuePoison` | violation: one undecodable job ends both workers, and other jobs wait for ever |
| `WorkQueueReplyLost` | violation: the failure callback starts for a job recorded as finished |
| `JobRunAll` | all kinds of job, and a `BaseProcess`, in a process forked before or after boot, with or without an open pool; each hook, function and callback may query, may raise and may run out of time. It includes the refinement of `WorkQueue`'s horse |
| `JobRunSyncHandle` | violation: a `handle` that is no coroutine function runs and its job fails |
| `JobRunSyncQueue` | violation: `enqueue` of a `JobBase` on a synchronous queue raises |
| `RoutingSafety` | 2 routers, nested groups, 5 routes, one guard of each kind, 3 builds |
| `RoutingUrl` | violation: `url` returns a path that is not served |
| `AppBoot` | 8 providers, 6 of them configured in 60 orders (the default list keeps its order, and Middleware comes before Routes), 3 lifespans, 2 failures |
| `HttpServer` | 2 tasks, 2 usernames, 1 address, a default, a second and a misnamed connection, tokens of 2 ticks, 5 moments, 3 zones, 3 calls of any kind; 4.5 million states. `TokenlessOnlyByFailure`, `EmailTwiceOnlyByRace`, `NamesKept`, `OnePerName`, `OnlyLatePoolsStray`, `TokenServesItsLifetime` |

Bounds. Ownership, loss and double invocation need at most two workers that meet at one job and a
second job behind it in the queue; the third job is the undecodable one. Three faults allow a worker
to die, its horse to be killed and the cleanup of the survivor to be hit. With `max_jobs` 2 both the
count below and at the limit occur. Two faults and three workers in `WorkQueueLive` leave one
worker, the least with which anything can settle, after a worker and its horse, or two workers, have
died; the abandoned job of `Raising` is one of two, so that the job that is not comes before or
behind it in the queue. In `Routing`, a second build is where all sharing shows, a third interleaves
another router between two builds of the same one. In `AppBoot`, a third lifespan is the first after
a successful retry. In `HttpServer`, two calls make each race (two registrations, two first calls
for a connection, an initialisation and a query) and a third uses what they left (a guarded request
for a token that has a twin, or that a logout deletes); time ends two ticks after a first token may
have expired. A query that picks its client, an initialisation that replaces it, and the answer to
the query take two calls. `MaxFaults`, `MaxBuilds`, `MaxLifespans`, `MaxFailures`, `MaxCalls` and
`MaxTime` are the only bounds in the models; jobs are bounded because an id is enqueued once.

Fairness. A worker or horse that can take its next step takes it: they are operating
system processes whose calls time out (Redis sockets, the death penalty, the
monitor's kill). Maintenance is weakly fair: `awork` runs it in its loop, and
`dequeue_job_and_maintain_ttl` repeats it while waiting. Nothing is assumed of clients
or faults; in particular a worker that died is not restarted. Nor is anything assumed of a failure
callback in `Raising`: it may raise each time it is called, or never, since fairness of
`Maintenance` is satisfied by either.

Every property of a passing run has a mutant, an operator marked `Mutant` that changes
one definition as a plausible bug would and that makes TLC refute the property.

## 4. Proofs

`WorkQueueProofs` proves, for any sets of jobs and workers, any numbers and kinds of
faults, from `ConstantsAssumption` (types of the constants) alone:

| Theorem | States | Extra hypothesis |
|---|---|---|
| `TypeCorrect` | `[]TypeOK` | |
| `Exclusive` | `[]ExclusiveOwner` | |
| `InvokedOnce` | `[]AtMostOnce` | |
| `NothingLost` | `[]NoJobLost` | |
| `OutcomesStable` | `OutcomeStable` | replies are not lost |
| `Refinement` | `ImplementsJobService` | workers do not die and replies are not lost |

None of these is inductive by itself. The argument is built from:

- `TypeInv`: types, and which counters of the two processes go together (`ControlInv`):
  an idle worker has no job, a horse exists only under a monitor or a worker that is
  gone.
- `OwnerInv`: exclusive ownership, and that an id that was never enqueued is nowhere;
  without the latter `Enqueue` could duplicate an id.
- `InvokedInv`: an invoked job is neither queued nor in front of its `perform`.
- `SettledInv`: where a job may be, by its status. A finished job is in no registry unless
  its worker is gone, and the horse of a live worker that is still to record an
  outcome has none recorded. A lost reply breaks it, hence the hypothesis.
- `ServedInv`: while no worker dies each horse is waited for. The refinement needs it, since
  an orphaned horse can overwrite the outcome that a cleanup recorded.

Each `...Step` lemma has one proof step per action. `AppendElements` and `TailElements` say
what RPUSH and LPOP do to the set of queued ids.

`JobRunProofs` proves every invariant of `JobRun`, for every set of jobs that satisfies
`JobsAssumption` (it is a job that `JobBase` can make, in a thread where it can be), and
`ForkedImplementsJobRun`, by which the same holds of a job in a forked process:
`TypeCorrect`, `HooksBalanced`, `FinishedComplete`, `CallbackAgrees`, `ParamsDelivered`,
`CleanSuccess`. The invariant is a conjunction of parts, each preserved by a step if the
parts named before it hold:

- `HookInv` bounds the number of life spans by the rank of the call (the function first,
  then a callback) and says that only the present one is open, abandoned ones aside;
- `OutcomeInv` says when an outcome is recorded: on a worker at the end only, on a
  synchronous queue before the callback;
- `DoneInv` says which hooks and functions have run to their end: the success callback starts only
  after the function and the hooks around it, and no exception is lost on the way;
- `ParamsInv` follows the params through `create`, `to_dict` and `restore`;
- `CleanInv` says that in a supported job no exception is under way while no user code raised.

`JobHorseProofs` proves `HorseImplemented`, and `ForkedHorseImplemented` for a process with a
database: `ImplementsHorse` for every set of jobs. Only two things of a job are visible to
`WorkQueue`, the command of `aperform_job` and the status in Redis, so each edge of
`HorseStep` is first proved in terms of those two (`PrepareEdge` to the edges of
`record_failure`), and then each action of `JobRun` to take one of them or to change neither.
From the invariant of `JobRunProofs` it takes that a worker records no outcome before the last
step of its job (`OutcomeOpen`).

`ForkedProcessProofs` proves `PoolsClosed`, that is `[]PoolsReleased`, and `PoolsBounded`, that is
`[]OnePoolPerLifespan`, for every set of jobs and every state of the registry that a fork can
inherit. `PoolInv` follows the client that was cached before the fork: untouched before
the first life span, open in it together with the inherited pool that is leaked, closed and
discarded after it, and from the second life span on opened where `close_connections` cannot reach it
(`JobPools`, while every `on_shutdown` has run to its end). If one has not, only a count
remains (`JobBound`): a registered client without an open pool leaves room for the one it may
open. Both need `HookInv`, which counts the life spans.

`AppBootProofs` proves all properties of the run `AppBoot`, for any providers, any lists of them
and any number of lifespans and failures, from `ProvidersAssumption`:

| Theorem | States | Extra hypothesis |
|---|---|---|
| `AppTypesCorrect` | `[]TypeOK` | |
| `EveryObjectBooted` | `[]BootedOnce` | |
| `SingletonsKept` | `SingletonKept` | |
| `EverythingResolved` | `[]Resolved` | `ProvidersInOrder` |
| `OneObjectHanded` | `[]OneObject` | `ProvidersInOrder` |

The first three say what the code gives in any case. The others cannot hold without
the hypothesis, since a provider may make what nobody binds; it is satisfied (see
`MCAppBoot`) and speaks of the lists only, not of what the loops do. The invariant is:

- `CountInv`: in a boot loop, objects before its position were booted once more than failures
  alone explain, those after it not yet. Objects that a boot method registers are appended
  behind the position, which is why the loop reaches them.
- `ConfigBound`, `ListBound`, `ObjectsBound`, `LoopBound`, `AllBound`: what is bound when. The two
  loops go through different lists (the configured one, and the objects in order of
  registration, which after a failure are those of several lifespans); `ObjectsBound` relates
  them: an object stands behind the objects of all providers that precede its own in the list.
- `ObjectInv`: who was given a singleton has the object the container keeps.

`RoutingProofs` proves all properties of the run `RoutingSafety`, `RoutingTypesCorrect`,
`RoutesGuarded`, `GuardsConfined` and `FirstPathsRight`, for every forest of lists at any
depth, any guards and any number of builds, from `TreeAssumption`. Build recurses along the tree.
The library's induction theorems cannot be instantiated here (see below), but
`TreeAssumption` gives induction in terms of sets, `TreeInduction`: a set holds all nodes if it holds
each whose parent it holds. `TreeRecursion` derives from it that a recursion along the tree
has a solution, and so the equations of `Around`, `Declared`, `Prefixes` and `Middlewares`.
The properties speak of what was registered; the invariant is about the routes from which it is
taken, at every moment:

- `GuardInv`: a route has what it is owed, in its own list or in that of the class. The step
  from the one to the other is its first build, which copies the list of the class
  (`BuildReaches`: the build of a router brings a route the guards of all lists around it).
- `ConfineInv`: the guards of lists that a route has are those of lists around it. It stays true
  because lists only gain guards (`BuildFacts`: `Reach` grows).
- `PathInv`: until its router is built, a list has the prefix it was given and a route
  no list of its own; after the first build, its path is `Declared` (`BuildPaths`); the build
  of another router touches neither, because no node is below two routers (`RouterBelow`).

`HttpServerProofs` proves all properties of the run `HttpServer`, for any number of tasks,
names, connections and requests, any `Lifetime` and zones, from `AuthAssumption`
(times are numbers, `None` is not a name) and `HttpAssumption` (the default connection is
configured): `AuthTypeCorrect`, `RegisteredHoldTokens`, `EmailsOnce`, `TokenServes`, `CacheKeepsNames`,
`SecondOnlyByRace`, `PoolsClosed`. Handlers and manager change different variables, so
that `AuthPart` and `ManagerPart` reduce a step of the server to a step of one of them, and
each has an invariant about what a task remembers between two steps:

- `UserInv`: no user that `register` saw in the table (`memo`) has the address that the
  handler is about to enter. The table only grows, so this survives the steps of others.
- `HoldInv`: every user has a token, is about to get one (`Registering`), or is excused. A step
  of another handler takes neither away: logout excuses whose tokens it deletes.
- `TokenInv`: the expiry that a handler carries is not later than the one it will compute.
- `ClientInv`: a cached client is an index into `base`, which only grows (`RegistryGrows`).
- `MadeInv`: a name for which a client was made is in the cache, so that whoever orders
  another had looked before (`saw` is less than the first client).
- `PickedInv`: the client that a query waits for exists, since clients are never forgotten.
- `PoolInv`: while some task is in `configure`, an open pool of the registered client is
  about to be closed, or was opened late. Without it the step that discards the
  registered client could leave any pool behind.

`TokenServes` is an action property: a token that is fresh is not refused by `jwt.decode`
(`FreshNotExpired`, the arithmetic of whole seconds and zones) and is the only row that the query
finds (`FreshFound`).

So every safety invariant, every action property and both refinements that the passing runs check
are theorems. Only model-checked are:

- `EveryJobSettles` and `RegistriesDrain`: liveness under fairness, out of the prover's reach.
- `ProvidersInOrder` of the framework's own providers: a fact about one list of constants.
- The five violations, which are counterexamples.

The instances of TLC remain the evidence that the hypotheses of the theorems can be met. What a
recursion along numbers or sequences computes is not proved anywhere, as theorems with an operator
for parameter cannot be used; along the tree of `Routing` the set form above replaces them.

## 5. Where code and documentation disagree

The five `violation` runs, each with its quotation in `PROJECT.json`. Without a run, because
they follow from reading two lines: `awork` counts a job after the heartbeat that
may fail, so that it can report no work after it worked (`worker.py:80-82` against
`:48`); `execute_stopped_callback` passes the params of the failure callback
(`base/job.py:366`); booting and booted callbacks of providers are coroutines that are not
awaited (`support/service_provider.py:35`).

What the later modules found and no doc contradicts; their properties state it as a condition. A
second life span of a forked process leaves a pool open (`queue/job.py:193`), and so does a job
whose time runs out while its life span is suspended, since `on_shutdown` is skipped
(`queue/job.py:126-127`, `worker.py:175`). A failure callback that raises, or is a coroutine
function, ends each worker whose cleanup finds its job abandoned (`base/job.py:357-359`,
`worker.py:63`). A query during a re-initialisation leaves a pool open, and so does one that took
its client before and opens the pool after (`database/manager.py:70`); in a server nothing closes
pools at the end (`foundation/http/http_kernel.py:35-37`). `reconnect` of a cached name leaves a
coroutine where `Job.register_db` expects a client (`manager.py:29`, `queue/job.py:184`). `::read`
and `::write` names cannot be connected, and trying closes the connection of everybody else
(`manager.py:33-37`). A second connection name turns all models to its database. Overlapping
registrations share an address and then nobody logs in by it (`controller.py:43-49`). Two logins in
one second make a token that the guard answers with an error (`middleware.py:68`). A registration
whose second write fails leaves a user without a token who cannot register again
(`controller.py:47-54`). Behind UTC tokens end early (`middleware.py:62`).

## 6. Not modelled, and the plan

Not modelled: command line and code templates (no state), configuration values, rq's scheduler and
suspension, job dependencies, several queues per worker (the same step on one of them), response
classes and tags of routes, constructor injection, stopped callbacks (nothing passes one).
Declarations from files are left out of `Routing`: they give the same lists, except that
`Route.group` with a file drops its `prefix` (`router.py:72-74`). That queries of handlers go to the
default connection, and that a failed query has written nothing, are assumptions of `HttpServer`.

`DatabaseManager.transaction` and the model metaclass change no state of their own.

What remains of the plan: to close the hypotheses of `OutcomesStable` and `Refinement` further, by
stating what holds of a job whose own worker lives and whose replies arrive, whatever happens to
others; and a theorem that the framework's providers are in order in every list that keeps the
default order, for any providers users add behind them.
