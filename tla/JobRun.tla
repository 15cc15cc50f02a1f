------------------------------- MODULE JobRun -------------------------------
(***************************************************************************)
(* One job from its creation to its outcome: AscJob.create, the Redis hash  *)
(* (to_dict, restore), AscJob._execute, JobBase.lifespan, and the callbacks *)
(* as a work horse (AscWorker.aperform_job) or a synchronous queue          *)
(* (AscQueue.run_sync) calls them.                                          *)
(*                                                                         *)
(* User code (a hook, the job's function, a callback) returns or raises.    *)
(* The death penalty of a worker raises JobTimeoutException from a signal:  *)
(* in code that is running it is one more error of that code, but while a   *)
(* coroutine is suspended it is raised in the event loop, outside of it.    *)
(***************************************************************************)
EXTENDS Naturals

CONSTANT Jobs   \* the jobs this instance considers, a subset of JobKinds

\* How a callback was given to create: an rq Callback or a bare function, which
\* expect (job, connection, ...), or an AscCallback, which expects its params first.
Callbacks == {"none", "plain", "asc"}

Hooks == {"success", "failure"}

JobKinds ==
  [queue    : {"worker", "sync"},   \* is_async of the queue
   inLoop   : BOOLEAN,              \* performed by a thread that runs an event loop
   lifespan : BOOLEAN,              \* enqueued by JobBase, or a function by itself
   coro     : BOOLEAN,              \* handle or the function is a coroutine function
   success  : Callbacks,
   failure  : Callbacks,
   coroCb   : BOOLEAN,              \* the callbacks are coroutine functions
   params   : [Hooks -> {"value", "empty"}]]   \* the params of its AscCallbacks

\* JobBase passes AscCallback(self._on_success, self); only enqueue, and not
\* enqueue_in and enqueue_at, also passes one on failure.
ByJobBase(j) ==
  j.lifespan => /\ j.success = "asc" /\ j.failure # "plain"
                /\ \A c \in Hooks : j.params[c] = "value"

\* A work horse is no thread of a loop; a synchronous queue performs a job where it is
\* enqueued, which may be in a request handler.
Placed(j) == j.inLoop => j.queue = "sync"

ASSUME JobsAssumption == Jobs \subseteq {j \in JobKinds : ByJobBase(j) /\ Placed(j)}

VARIABLES
  job,      \* the job
  args,     \* the params of its callbacks as this process has them
  call,     \* what is being called: the function or a callback
  step,     \* where that call is
  raised,   \* is an exception of that call under way?
  userRaised, \* history: did user code raise or run out of time?
  outcome,  \* the status recorded in Redis
  opened,   \* on_startup hooks that completed
  closed,   \* on_shutdown hooks that were started
  abandoned, \* history: life spans left between the two, their coroutine suspended for good
  done,     \* <<call, part>>: the hooks and functions that ran to their end, without raising
  received  \* the params each callback was called with

vars == <<job, args, call, step, raised, userRaised, outcome, opened, closed, abandoned, done,
          received>>

Calls == {"function"} \cup Hooks
Parts == {"startup", "body", "shutdown"}
Steps == {"new", "stored", "startup", "body", "shutdown", "leave", "end", "error"}

\* A process is in one call, at one step of it, no more life spans are closed than were
\* opened, and there is at most one outcome.
TypeOK ==
  /\ job \in Jobs
  /\ args \in [Hooks -> {"value", "empty", "None"}]
  /\ call \in Calls /\ step \in Steps
  /\ raised \in BOOLEAN /\ userRaised \in BOOLEAN
  /\ outcome \in {"none", "finished", "failed"}
  /\ opened \in 0..3 /\ closed \in 0..opened /\ abandoned \in 0..opened
  /\ done \in SUBSET (Calls \X Parts)
  /\ received \in [Hooks -> {"no", "value", "empty", "None"}]

Init ==
  /\ job \in Jobs
  /\ args = job.params
  /\ call = "function" /\ step = "new"
  /\ raised = FALSE /\ userRaised = FALSE /\ outcome = "none"
  /\ opened = 0 /\ closed = 0 /\ abandoned = 0 /\ done = {}
  /\ received = [c \in Hooks |-> "no"]

-----------------------------------------------------------------------------
\* Does the call run inside JobBase.lifespan?  JobBase always enqueues
\* (lifespan, handle); run_sync_or_async wraps callbacks that are coroutines.
InLifespan(c) == job.lifespan /\ (c = "function" \/ job.coroCb)

\* _execute and run_sync_or_async run what they have to await in a new event loop, which a
\* thread that runs one already refuses.
Blocked(c) == job.inLoop /\ (InLifespan(c) \/ (c = "function" /\ job.coro))

First(c) == IF InLifespan(c) THEN "startup" ELSE "body"

\* to_dict writes '' for falsy params, restore leaves such params None.
Save ==
  /\ step = "new" /\ job.queue = "worker"
  /\ args' = [c \in Hooks |-> IF args[c] = "empty" THEN "None" ELSE args[c]]
  /\ step' = "stored"
  /\ UNCHANGED <<job, call, raised, userRaised, outcome, opened, closed, abandoned, done, received>>

\* The horse performs the restored job; run_sync the one just created.
Perform ==
  /\ \/ step = "stored"
     \/ step = "new" /\ job.queue = "sync"
  /\ raised' = Blocked("function")
  /\ step' = IF Blocked("function") THEN "leave" ELSE First("function")
  /\ UNCHANGED <<job, args, call, userRaised, outcome, opened, closed, abandoned, done, received>>

-----------------------------------------------------------------------------
(* JobBase.lifespan.                                                       *)

\* Mutant: on_startup inside the try of lifespan.
StartupInTry(raises) ==
  /\ step = "startup"
  /\ opened' = IF raises THEN opened ELSE opened + 1
  /\ done' = IF raises THEN done ELSE done \cup {<<call, "startup">>}
  /\ step' = IF raises THEN "shutdown" ELSE "body"
  /\ raised' = raises
  /\ userRaised' = (userRaised \/ raises)
  /\ UNCHANGED <<job, args, call, outcome, closed, abandoned, received>>

Startup(raises) ==
  /\ step = "startup"
  /\ opened' = IF raises THEN opened ELSE opened + 1
  /\ done' = IF raises THEN done ELSE done \cup {<<call, "startup">>}
  /\ step' = IF raises THEN "leave" ELSE "body"
  /\ raised' = raises
  /\ userRaised' = (userRaised \/ raises)
  /\ UNCHANGED <<job, args, call, outcome, closed, abandoned, received>>

\* Mutant: run_sync_or_async forgets to wrap coroutine functions.
DroppedAlways == call # "function" /\ job.coroCb

\* A coroutine function that nobody awaits does not run: execute_success_callback
\* and execute_failure_callback call it and drop the coroutine.
Dropped == call # "function" /\ ~job.lifespan /\ job.coroCb

\* lifespan awaits what handle returns: a handle that is no coroutine function has
\* run when the await raises TypeError.
NotAwaitable == InLifespan(call) /\ call = "function" /\ ~job.coro

\* Mutant: no finally, as in BaseProcess.lifespan.
BodyNoFinally(raises) ==
  /\ step = "body"
  /\ raised' = (raises \/ NotAwaitable)
  /\ userRaised' = (userRaised \/ raises)
  /\ Dropped => ~raises
  /\ done' = IF raises \/ Dropped THEN done ELSE done \cup {<<call, "body">>}
  /\ step' = IF InLifespan(call) /\ ~raises THEN "shutdown" ELSE "leave"
  /\ UNCHANGED <<job, args, call, outcome, opened, closed, abandoned, received>>

Body(raises) ==
  /\ step = "body"
  /\ raised' = (raises \/ NotAwaitable)
  /\ userRaised' = (userRaised \/ raises)
  /\ Dropped => ~raises
  /\ done' = IF raises \/ Dropped THEN done ELSE done \cup {<<call, "body">>}
  /\ step' = IF InLifespan(call) THEN "shutdown" ELSE "leave"
  /\ UNCHANGED <<job, args, call, outcome, opened, closed, abandoned, received>>

\* Mutant: a return in the finally clause, which drops the exception.
ShutdownReturns(raises) ==
  /\ step = "shutdown"
  /\ closed' = closed + 1
  /\ done' = IF raises THEN done ELSE done \cup {<<call, "shutdown">>}
  /\ raised' = raises
  /\ userRaised' = (userRaised \/ raises)
  /\ step' = "leave"
  /\ UNCHANGED <<job, args, call, outcome, opened, abandoned, received>>

\* finally: an error of on_shutdown replaces the one under way.
Shutdown(raises) ==
  /\ step = "shutdown"
  /\ closed' = closed + 1
  /\ done' = IF raises THEN done ELSE done \cup {<<call, "shutdown">>}
  /\ raised' = (raised \/ raises)
  /\ userRaised' = (userRaised \/ raises)
  /\ step' = "leave"
  /\ UNCHANGED <<job, args, call, outcome, opened, abandoned, received>>

\* The alarm of a worker's death penalty rings while the coroutine of lifespan is suspended:
\* JobTimeoutException leaves run_until_complete and nothing of lifespan runs any more, its
\* finally included.  A handle that is no coroutine function is never suspended.
Abandon ==
  /\ job.queue = "worker" /\ InLifespan(call)
  /\ step \in Parts
  /\ step = "body" => ~NotAwaitable
  /\ step' = "leave"
  /\ raised' = TRUE /\ userRaised' = TRUE
  /\ closed' = closed + (IF step = "shutdown" THEN 1 ELSE 0)
  /\ abandoned' = abandoned + (IF step = "body" THEN 1 ELSE 0)
  /\ UNCHANGED <<job, args, call, outcome, opened, done, received>>

-----------------------------------------------------------------------------
(* Callbacks.                                                              *)

Kind(c) == IF c = "success" THEN job.success ELSE job.failure

\* execute_*_callback passes the params first, run_sync does not pass them.
Fits(c) == (Kind(c) = "asc") = (job.queue = "worker")

Reached(c) == Kind(c) # "none" /\ Fits(c) /\ ~Blocked(c)

\* The calls that do not reach the callback's code: there is none, or the wrong
\* number of arguments or the event loop raises.
Skip(c) ==
  /\ ~Reached(c)
  /\ step' = "leave" /\ raised' = (Kind(c) # "none")
  /\ UNCHANGED received

\* Mutant: both execute_*_callback read the failure params.
EnterWithOthers(c) ==
  /\ call' = c
  /\ \/ Skip(c)
     \/ /\ Reached(c)
        /\ step' = First(c) /\ raised' = FALSE
        /\ received' = [received EXCEPT
                          ![c] = IF Kind(c) = "asc" THEN args["failure"] ELSE "no"]
  /\ UNCHANGED <<job, args, userRaised, opened, closed, abandoned, done>>

\* Calling a callback, which gets its params as they were restored.
Enter(c) ==
  /\ call' = c
  /\ \/ Skip(c)
     \/ /\ Reached(c)
        /\ step' = First(c) /\ raised' = FALSE
        /\ received' = [received EXCEPT ![c] = IF Kind(c) = "asc" THEN args[c] ELSE "no"]
  /\ UNCHANGED <<job, args, userRaised, opened, closed, abandoned, done>>

Stop(at) ==
  /\ step' = at
  /\ UNCHANGED <<job, args, call, raised, userRaised, opened, closed, abandoned, done, received>>

-----------------------------------------------------------------------------
(* AscWorker.aperform_job: callback first, outcome second.                 *)

\* Mutant: the outcome is recorded before the callback is called.
WorkerSucceededFirst ==
  /\ step = "leave" /\ job.queue = "worker"
  /\ call = "function" /\ ~raised
  /\ outcome' = "finished"
  /\ Enter("success")

WorkerOnSuccess ==
  /\ step = "leave" /\ job.queue = "worker"
  /\ call = "function" /\ ~raised
  /\ Enter("success")
  /\ UNCHANGED outcome

WorkerSucceeded ==
  /\ step = "leave" /\ job.queue = "worker"
  /\ call = "success" /\ ~raised
  /\ outcome' = "finished"
  /\ Stop("end")

WorkerOnFailure ==
  /\ step = "leave" /\ job.queue = "worker"
  /\ call # "failure" /\ raised
  /\ Enter("failure")
  /\ UNCHANGED outcome

\* Mutant: the outcome is recorded without the failure callback.
WorkerFailedAtOnce ==
  /\ step = "leave" /\ job.queue = "worker"
  /\ raised \/ call = "failure"
  /\ outcome' = "failed"
  /\ Stop("end")

\* The failure callback was called, whatever came of that.
WorkerFailed ==
  /\ step = "leave" /\ job.queue = "worker"
  /\ call = "failure"
  /\ outcome' = "failed"
  /\ Stop("end")

-----------------------------------------------------------------------------
(* AscQueue.run_sync: outcome first, callback second; what the callback     *)
(* raises reaches the caller of enqueue.                                    *)

SyncPerformed ==
  /\ step = "leave" /\ job.queue = "sync" /\ call = "function"
  /\ outcome' = IF raised THEN "failed" ELSE "finished"
  /\ Enter(IF raised THEN "failure" ELSE "success")

SyncCalledBack ==
  /\ step = "leave" /\ job.queue = "sync" /\ call # "function"
  /\ UNCHANGED outcome
  /\ Stop(IF raised THEN "error" ELSE "end")

Next ==
  \/ Save \/ Perform
  \/ \E raises \in BOOLEAN : Startup(raises) \/ Body(raises) \/ Shutdown(raises)
  \/ Abandon
  \/ WorkerSucceeded \/ WorkerOnSuccess \/ WorkerOnFailure \/ WorkerFailed
  \/ SyncPerformed \/ SyncCalledBack

Spec == Init /\ [][Next]_vars

-----------------------------------------------------------------------------
(* Correctness properties.                                                 *)

Over == step \in {"end", "error"}

\* lifespan: when a call is over, every on_startup that completed has been followed by its
\* on_shutdown, and none is open twice, whatever user code raised.  The exception is a life
\* span whose time ran out while it was suspended between the two: no such job is finished.
Balanced ==
  /\ opened <= closed + abandoned + 1
  /\ step \in {"new", "stored", "startup", "leave"} \/ Over => opened = closed + abandoned
  /\ abandoned > 0 => outcome # "finished"

\* Did all the user code of a call run to its end, the hooks around it included?
Complete(c) ==
  /\ <<c, "body">> \in done
  /\ InLifespan(c) => {<<c, "startup">>, <<c, "shutdown">>} \subseteq done

\* A job is recorded as finished only if its function and on a worker its success callback
\* returned, and so did every on_startup and on_shutdown around them; the exception is a
\* callback that rq calls and does not await.
FinishedMeansComplete ==
  outcome = "finished" =>
    /\ Complete("function")
    /\ /\ job.queue = "worker" /\ job.success # "none"
       /\ job.lifespan \/ ~job.coroCb
       => Complete("success")

\* A failure callback never runs for a job that ends as finished, and a failed job
\* has called the one it has.
FailureCallbackAgrees ==
  /\ <<"failure", "body">> \in done => outcome # "finished"
  /\ Over /\ outcome = "failed" => call = "failure"

\* The params of an AscCallback survive create, to_dict and restore and reach that
\* callback and no other; params that are falsy arrive as None.
ParamsArrive ==
  \A c \in Hooks : received[c] # "no" =>
    /\ Kind(c) = "asc"
    /\ received[c] = IF job.params[c] = "value" THEN "value" ELSE "None"

\* Jobs the code can perform: asynchronous handles, AscCallbacks on workers, bare
\* callbacks on synchronous queues, callbacks of bare jobs not asynchronous, and in an
\* event loop no coroutine functions at all.
Supported(j) ==
  /\ j.inLoop => ~j.lifespan /\ ~j.coro
  /\ IF j.lifespan THEN j.coro ELSE ~j.coroCb
  /\ {j.success, j.failure} \subseteq {"none", IF j.queue = "worker" THEN "asc" ELSE "plain"}

\* A supported job whose user code never raises, and in time, is finished, its success callback has
\* run, and the queue raises no error of its own making.
CleanRunSucceeds ==
  Supported(job) /\ Over /\ ~userRaised =>
    /\ step = "end" /\ outcome = "finished"
    /\ job.success # "none" => <<"success", "body">> \in done

\* _execute: "if the function is a coroutine [...] the result will have to be
\* awaited", so a handle need not be one: if nothing raises, the job is finished.
HandledMeansFinished == Over /\ ~userRaised => outcome = "finished"

\* run_sync returns "Job: The job instance" if no user code raises.
RunSyncReturns == ~userRaised => step # "error"
=============================================================================
