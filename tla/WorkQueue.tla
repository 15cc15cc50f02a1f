------------------------------ MODULE WorkQueue ------------------------------
(***************************************************************************)
(* The background-job core of diracore: clients enqueue jobs through       *)
(* JobBase, AscWorker processes pop them (AscQueue.dequeue_any) and fork a  *)
(* work horse that executes each one (AscWorker.aperform_job).  All shared  *)
(* state lives in Redis and is changed through the rq library, whose calls  *)
(* are the "external" operators below; each is one Redis transaction.       *)
(*                                                                         *)
(* A worker w and its (single) work horse are two processes: wpc[w] is the  *)
(* parent inside AscWorker.awork, hpc[w] the child inside aperform_job, and *)
(* job[w] the job that both work on.  The parent may die, leave its loop or *)
(* lose Redis at any await or call; the child was detached with setsid and  *)
(* goes on alone.                                                           *)
(***************************************************************************)
EXTENDS Naturals, Sequences

CONSTANTS
  Jobs,           \* job ids (uuids: an id is enqueued once)
  Workers,        \* AscWorker processes
  NoJob,          \* "no job in hand"
  Movers,         \* workers with one queue and Redis >= 6.2, which pop with LMOVE
  QuitsWhenIdle,  \* burst mode or max_idle_time: leave when the queue is empty
  MaxJobs,        \* the max_jobs argument of awork; 0 stands for None
  Unreadable,     \* jobs whose hash AscJob.restore cannot decode (unpickling)
  Raising,        \* jobs whose failure callback may raise when the cleanup of abandoned
                  \* jobs calls it: coroutine functions always do, in the loop of awork
  Faults,         \* the kinds of fault this instance admits
  MaxFaults       \* bound on the number of faults of one behaviour

FaultKinds == {"crash",    \* a worker process is killed
               "monitor",  \* a worker loses Redis while it monitors its horse
               "redis",    \* any other Redis command fails and has no effect
               "reply",    \* handle_job_success is applied but its reply is lost
               "horse",    \* a work horse is killed
               "hang",     \* the job blocks after its death penalty has fired
               "expiry",   \* the hash of a queued job reaches its ttl
               "stop"}     \* a stop signal reaches a worker that is not BUSY

ASSUME ConstantsAssumption ==
  /\ NoJob \notin Jobs
  /\ Movers \subseteq Workers /\ QuitsWhenIdle \in BOOLEAN
  /\ MaxJobs \in Nat /\ MaxFaults \in Nat
  /\ Unreadable \subseteq Jobs /\ Raising \subseteq Jobs
  /\ Faults \subseteq FaultKinds

VARIABLES
  queue,         \* the Redis list of the queue, its front first
  intermediate,  \* the ids in the intermediate list
  status,        \* the status field of each job's hash
  started,       \* the ids in the StartedJobRegistry
  wpc,           \* where each worker is in awork
  hpc,           \* where each worker's horse is in aperform_job
  job,           \* the job a worker popped, and its horse performs
  completed,     \* completed_jobs of awork
  runs,          \* history: how often the job's function was invoked
  faults         \* faults so far

redis == <<queue, intermediate, status, started>>
vars  == <<queue, intermediate, status, started, wpc, hpc, job, completed, runs, faults>>

Settled == {"finished", "failed"}
Status  == {"none", "queued", "expired", "started"} \cup Settled
Running == {"prepare", "perform", "on_success", "record_success",
            "on_failure", "record_failure"}
Exited  == {"exit_0", "exit_1"}
Gone    == {"quit", "crashed", "thrown"}   \* thrown: by a failure callback, see CleanRaises

\* Workers, horses and the keys in Redis are of their types, and a worker that has
\* counted max_jobs jobs has left awork.
TypeOK ==
  /\ queue \in Seq(Jobs)
  /\ intermediate \in SUBSET Jobs
  /\ status \in [Jobs -> Status]
  /\ started \in SUBSET Jobs
  /\ wpc \in [Workers -> {"loop", "popped", "fetched", "monitor", "heartbeat"} \cup Gone]
  /\ hpc \in [Workers -> {"none", "hung"} \cup Running \cup Exited]
  /\ job \in [Workers -> Jobs \cup {NoJob}]
  /\ completed \in [Workers -> Nat]
  /\ runs \in [Jobs -> Nat]
  /\ faults \in Nat
  /\ MaxJobs > 0 => \A w \in Workers :
       completed[w] < MaxJobs \/ (completed[w] = MaxJobs /\ wpc[w] \in Gone)

Init ==
  /\ queue = <<>> /\ intermediate = {} /\ started = {}
  /\ status = [j \in Jobs |-> "none"]
  /\ wpc = [w \in Workers |-> "loop"]
  /\ hpc = [w \in Workers |-> "none"]
  /\ job = [w \in Workers |-> NoJob]
  /\ completed = [w \in Workers |-> 0]
  /\ runs = [j \in Jobs |-> 0]
  /\ faults = 0

-----------------------------------------------------------------------------
(* What the rq library does to Redis (external).                           *)

Queued == {queue[i] : i \in DOMAIN queue}

Fault(kind) == kind \in Faults /\ faults < MaxFaults /\ faults' = faults + 1

\* Worker.prepare_job_execution: one pipeline marks the job started, registers
\* it and takes it off the intermediate list.
PrepareJobExecution(j) ==
  /\ status' = [status EXCEPT ![j] = "started"]
  /\ started' = started \cup {j}
  /\ intermediate' = intermediate \ {j}
  /\ UNCHANGED queue

\* Job.heartbeat: renews, or enters, the job in the StartedJobRegistry.
JobHeartbeat(j) ==
  /\ started' = started \cup {j}
  /\ UNCHANGED <<queue, intermediate, status>>

\* Worker.handle_job_success and handle_job_failure: one transaction records
\* the outcome and takes the job out of the StartedJobRegistry.
HandleJobSuccess(j) ==
  /\ status' = [status EXCEPT ![j] = "finished"]
  /\ started' = started \ {j}
  /\ UNCHANGED <<queue, intermediate>>

HandleJobFailure(j) ==
  /\ status' = [status EXCEPT ![j] = "failed"]
  /\ started' = started \ {j}
  /\ UNCHANGED <<queue, intermediate>>

\* Queue.enqueue: saves the hash and pushes the id in one pipeline.
PushJob(j) ==
  /\ status[j] = "none"
  /\ status' = [status EXCEPT ![j] = "queued"]
  /\ queue' = Append(queue, j)
  /\ UNCHANGED <<intermediate, started>>

\* Redis removes the hash of a queued job whose ttl has passed; the id stays
\* wherever it is.
Expire(j) ==
  /\ Fault("expiry")
  /\ status[j] = "queued"
  /\ status' = [status EXCEPT ![j] = "expired"]
  /\ UNCHANGED <<queue, intermediate, started, wpc, hpc, job, completed, runs>>

-----------------------------------------------------------------------------
(* Steps of the two processes.                                             *)

GoWorker(w, from, to) == wpc[w] = from /\ wpc' = [wpc EXCEPT ![w] = to]
GoHorse(w, from, to)  == hpc[w] = from /\ hpc' = [hpc EXCEPT ![w] = to]

\* JobBase.enqueue
Enqueue(j) ==
  /\ PushJob(j)
  /\ UNCHANGED <<wpc, hpc, job, completed, runs, faults>>

\* Mutant: the front id is read and copied, but stays in the queue.
PopCopies(w) ==
  /\ GoWorker(w, "loop", "popped")
  /\ queue # <<>>
  /\ job' = [job EXCEPT ![w] = Head(queue)]
  /\ intermediate' = IF w \in Movers THEN intermediate \cup {Head(queue)} ELSE intermediate
  /\ UNCHANGED <<queue, status, started, hpc, completed, runs, faults>>

\* Mutant: a plain pop where the id should move to the intermediate list.
PopForgets(w) ==
  /\ GoWorker(w, "loop", "popped")
  /\ queue # <<>>
  /\ queue' = Tail(queue)
  /\ job' = [job EXCEPT ![w] = Head(queue)]
  /\ UNCHANGED <<intermediate, status, started, hpc, completed, runs, faults>>

\* AscQueue.lmove moves the front id to the intermediate list in one command,
\* AscQueue.lpop only removes it.
Pop(w) ==
  /\ GoWorker(w, "loop", "popped")
  /\ queue # <<>>
  /\ queue' = Tail(queue)
  /\ job' = [job EXCEPT ![w] = Head(queue)]
  /\ intermediate' = IF w \in Movers THEN intermediate \cup {Head(queue)} ELSE intermediate
  /\ UNCHANGED <<status, started, hpc, completed, runs, faults>>

\* dequeue_any returned None: burst mode, or idle for longer than max_idle_time.
QuitIdle(w) ==
  /\ QuitsWhenIdle
  /\ queue = <<>>
  /\ GoWorker(w, "loop", "quit")
  /\ UNCHANGED <<redis, hpc, job, completed, runs, faults>>

\* dequeue_any fetches the hash of the id it popped.
Fetch(w) ==
  /\ GoWorker(w, "popped", "fetched")
  /\ status[job[w]] # "expired"
  /\ job[w] \notin Unreadable
  /\ UNCHANGED <<redis, hpc, job, completed, runs, faults>>

\* NoSuchJobError: "silently pass on jobs that don't exist (anymore)".
FetchMissing(w) ==
  /\ GoWorker(w, "popped", "loop")
  /\ status[job[w]] = "expired"
  /\ job' = [job EXCEPT ![w] = NoJob]
  /\ UNCHANGED <<redis, hpc, completed, runs, faults>>

\* AscJob.restore raises: dequeue_any re-raises and awork leaves its loop.
FetchUnreadable(w) ==
  /\ GoWorker(w, "popped", "quit")
  /\ status[job[w]] # "expired"
  /\ job[w] \in Unreadable
  /\ UNCHANGED <<redis, hpc, job, completed, runs, faults>>

\* aexecute_job: set BUSY and fork the work horse.
Fork(w) ==
  /\ GoWorker(w, "fetched", "monitor")
  /\ hpc' = [hpc EXCEPT ![w] = "prepare"]
  /\ UNCHANGED <<redis, job, completed, runs, faults>>

\* Mutant: > for >= in the max_jobs test.
HeartbeatLate(w) ==
  /\ LET n == completed[w] + 1 IN
       /\ completed' = [completed EXCEPT ![w] = n]
       /\ GoWorker(w, "heartbeat", IF MaxJobs > 0 /\ n > MaxJobs THEN "quit" ELSE "loop")
  /\ UNCHANGED <<redis, hpc, job, runs, faults>>

\* The heartbeat that follows aexecute_job, then the max_jobs test.
Heartbeat(w) ==
  /\ LET n == completed[w] + 1 IN
       /\ completed' = [completed EXCEPT ![w] = n]
       /\ GoWorker(w, "heartbeat", IF MaxJobs > 0 /\ n >= MaxJobs THEN "quit" ELSE "loop")
  /\ UNCHANGED <<redis, hpc, job, runs, faults>>

\* The except clauses of awork: whatever fails before, in or after the call of
\* dequeue_any or in set_state ends the loop; a job in hand is not counted.
WorkerFails(w) ==
  /\ Fault("redis")
  /\ \E from \in {"loop", "popped", "fetched", "heartbeat"} : GoWorker(w, from, "quit")
  /\ UNCHANGED <<redis, hpc, job, completed, runs>>

\* monitor_work_horse raises: the worker leaves its loop, its horse goes on.
MonitorFails(w) ==
  /\ Fault("monitor")
  /\ GoWorker(w, "monitor", "quit")
  /\ UNCHANGED <<redis, hpc, job, completed, runs>>

\* A warm shutdown of a worker that is not BUSY raises StopRequested.
StopRequested(w) ==
  /\ Fault("stop")
  /\ \E from \in {"loop", "popped", "fetched", "heartbeat"} : GoWorker(w, from, "quit")
  /\ UNCHANGED <<redis, hpc, job, completed, runs>>

WorkerCrash(w) ==
  /\ Fault("crash")
  /\ \E from \in {"loop", "popped", "fetched", "monitor", "heartbeat"} :
       GoWorker(w, from, "crashed")
  /\ UNCHANGED <<redis, hpc, job, completed, runs>>

-----------------------------------------------------------------------------
(* The work horse: amain_work_horse and aperform_job.                      *)

Prepare(w) ==
  /\ GoHorse(w, "prepare", "perform")
  /\ PrepareJobExecution(job[w])
  /\ UNCHANGED <<wpc, job, completed, runs, faults>>

\* Mutant: the failed pipeline is ignored and the job performed all the same.
PrepareFailsIgnored(w) ==
  /\ Fault("redis")
  /\ GoHorse(w, "prepare", "perform")
  /\ UNCHANGED <<redis, wpc, job, completed, runs>>

PrepareFails(w) ==
  /\ Fault("redis")
  /\ GoHorse(w, "prepare", "on_failure")
  /\ UNCHANGED <<redis, wpc, job, completed, runs>>

\* job.perform() returns, or raises an error or JobTimeoutException.
Perform(w) ==
  /\ \E next \in {"on_success", "on_failure"} : GoHorse(w, "perform", next)
  /\ runs' = [runs EXCEPT ![job[w]] = @ + 1]
  /\ UNCHANGED <<redis, wpc, job, completed, faults>>

\* The death penalty fires once; code that runs after it may block for ever.
Hang(w) ==
  /\ Fault("hang")
  /\ GoHorse(w, "perform", "hung")
  /\ runs' = [runs EXCEPT ![job[w]] = @ + 1]
  /\ UNCHANGED <<redis, wpc, job, completed>>

\* The job's heartbeat, then its success callback, which may raise.
OnSuccess(w) ==
  /\ \E next \in {"record_success", "on_failure"} : GoHorse(w, "on_success", next)
  /\ JobHeartbeat(job[w])
  /\ UNCHANGED <<wpc, job, completed, runs, faults>>

OnSuccessFails(w) ==
  /\ Fault("redis")
  /\ GoHorse(w, "on_success", "on_failure")
  /\ UNCHANGED <<redis, wpc, job, completed, runs>>

\* Mutant: what handles a failure also runs after a success.
RecordSuccessFallsThrough(w) ==
  /\ GoHorse(w, "record_success", "on_failure")
  /\ HandleJobSuccess(job[w])
  /\ UNCHANGED <<wpc, job, completed, runs, faults>>

RecordSuccess(w) ==
  /\ GoHorse(w, "record_success", "exit_0")
  /\ HandleJobSuccess(job[w])
  /\ UNCHANGED <<wpc, job, completed, runs, faults>>

\* Mutant: a success that cannot be recorded makes the horse perform the job again.
RecordSuccessFailsRetries(w) ==
  /\ Fault("redis")
  /\ GoHorse(w, "record_success", "perform")
  /\ UNCHANGED <<redis, wpc, job, completed, runs>>

RecordSuccessFails(w) ==
  /\ Fault("redis")
  /\ GoHorse(w, "record_success", "on_failure")
  /\ UNCHANGED <<redis, wpc, job, completed, runs>>

\* Redis applied the transaction, the horse only sees the connection break.
RecordSuccessReplyLost(w) ==
  /\ Fault("reply")
  /\ GoHorse(w, "record_success", "on_failure")
  /\ HandleJobSuccess(job[w])
  /\ UNCHANGED <<wpc, job, completed, runs>>

\* The handler of aperform_job: heartbeat and failure callback; what they raise
\* replaces the exception that will be recorded.
OnFailure(w) ==
  /\ GoHorse(w, "on_failure", "record_failure")
  /\ JobHeartbeat(job[w])
  /\ UNCHANGED <<wpc, job, completed, runs, faults>>

OnFailureFails(w) ==
  /\ Fault("redis")
  /\ GoHorse(w, "on_failure", "record_failure")
  /\ UNCHANGED <<redis, wpc, job, completed, runs>>

\* An exception handler of the worker may raise: amain_work_horse exits with 1.
RecordFailure(w) ==
  /\ \E exit \in Exited : GoHorse(w, "record_failure", exit)
  /\ HandleJobFailure(job[w])
  /\ UNCHANGED <<wpc, job, completed, runs, faults>>

\* handle_job_failure swallows an error of its transaction, or raises one.
RecordFailureFails(w) ==
  /\ Fault("redis")
  /\ \E exit \in Exited : GoHorse(w, "record_failure", exit)
  /\ UNCHANGED <<redis, wpc, job, completed, runs>>

HorseKilled(w) ==
  /\ Fault("horse")
  /\ \E from \in Running \cup {"hung"} : GoHorse(w, from, "exit_1")
  /\ UNCHANGED <<redis, wpc, job, completed, runs>>

-----------------------------------------------------------------------------
(* monitor_work_horse (external), called by aexecute_job.                  *)

\* A horse that outlives its timeout by a minute is killed.
KillHung(w) ==
  /\ wpc[w] = "monitor"
  /\ GoHorse(w, "hung", "exit_1")
  /\ UNCHANGED <<redis, wpc, job, completed, runs, faults>>

\* waitpid returned.  A job whose horse exited with an error and recorded no
\* outcome is failed here.
MustFail(w) == hpc[w] = "exit_1" /\ status[job[w]] \in {"queued", "started"}

Reap(w) ==
  /\ hpc[w] \in Exited
  /\ GoWorker(w, "monitor", "heartbeat")
  /\ hpc' = [hpc EXCEPT ![w] = "none"]
  /\ job' = [job EXCEPT ![w] = NoJob]
  /\ IF MustFail(w) THEN HandleJobFailure(job[w]) ELSE UNCHANGED redis
  /\ UNCHANGED <<completed, runs, faults>>

\* The outcome cannot be recorded: handle_job_failure swallows that, the status
\* query before it raises.
ReapFails(w) ==
  /\ Fault("redis")
  /\ hpc[w] = "exit_1"
  /\ \E to \in {"heartbeat", "quit"} : GoWorker(w, "monitor", to)
  /\ hpc' = [hpc EXCEPT ![w] = "none"]
  /\ job' = [job EXCEPT ![w] = NoJob]
  /\ UNCHANGED <<redis, completed, runs>>

-----------------------------------------------------------------------------
(* run_maintenance_tasks (external), called by awork in its loop.          *)

Monitored(j) == \E v \in Workers : wpc[v] = "monitor" /\ job[v] = j

\* An entry nobody renewed is an abandoned job.
Abandoned(j) == j \in started /\ ~Monitored(j)

\* StartedJobRegistry.cleanup goes through the abandoned jobs, calls the failure callback of
\* each and marks it failed at once; in the end one pipeline takes them off the registry.
CleanMarks(w, j) ==
  /\ wpc[w] = "loop"
  /\ Abandoned(j)
  /\ status' = [status EXCEPT ![j] = "failed"]
  /\ UNCHANGED <<queue, intermediate, started, wpc, hpc, job, completed, runs, faults>>

CleanStarted(w, j) ==
  /\ wpc[w] = "loop"
  /\ Abandoned(j)
  /\ HandleJobFailure(j)
  /\ UNCHANGED <<wpc, hpc, job, completed, runs, faults>>

\* execute_failure_callback raises again what the callback raised: the worker leaves awork,
\* the pipeline is not executed and every entry stays, for the next worker to find.
CleanRaises(w, j) ==
  /\ Abandoned(j) /\ j \in Raising
  /\ GoWorker(w, "loop", "thrown")
  /\ UNCHANGED <<redis, hpc, job, completed, runs, faults>>

\* A popped job reaches prepare_job_execution within the minute the cleanup
\* of the intermediate list grants it, unless a process died on the way.
OnItsWay(j) == \E v \in Workers :
                 job[v] = j /\ (wpc[v] \in {"popped", "fetched"} \/ hpc[v] = "prepare")

Stuck(j) == j \in intermediate /\ j \notin started /\ ~OnItsWay(j)

\* IntermediateQueue.cleanup: drop an id without a hash, fail a stuck job.
CleanIntermediate(w, j) ==
  /\ wpc[w] = "loop"
  /\ Stuck(j)
  /\ status[j] = "expired" \/ j \notin Unreadable
  /\ status' = [status EXCEPT ![j] = IF @ = "expired" THEN @ ELSE "failed"]
  /\ intermediate' = intermediate \ {j}
  /\ UNCHANGED <<queue, started, wpc, hpc, job, completed, runs, faults>>

\* fetch_job raises on a hash that restore cannot decode.
CleanUnreadable(w, j) ==
  /\ Stuck(j)
  /\ j \in Unreadable /\ status[j] # "expired"
  /\ GoWorker(w, "loop", "quit")
  /\ UNCHANGED <<redis, hpc, job, completed, runs, faults>>

-----------------------------------------------------------------------------
WorkerStep(w) ==
  \/ Pop(w) \/ QuitIdle(w) \/ Fetch(w) \/ FetchMissing(w) \/ FetchUnreadable(w)
  \/ Fork(w) \/ KillHung(w) \/ Reap(w) \/ Heartbeat(w)

HorseStep(w) ==
  \/ Prepare(w) \/ Perform(w) \/ OnSuccess(w) \/ RecordSuccess(w)
  \/ OnFailure(w) \/ RecordFailure(w)

\* Mutant: a worker that waits for jobs runs no maintenance.
MaintenanceWhenBusy(w, j) ==
  /\ queue # <<>>
  /\ \/ CleanMarks(w, j) \/ CleanStarted(w, j) \/ CleanRaises(w, j)
     \/ CleanIntermediate(w, j) \/ CleanUnreadable(w, j)

Maintenance(w, j) ==
  \/ CleanMarks(w, j) \/ CleanStarted(w, j) \/ CleanRaises(w, j)
  \/ CleanIntermediate(w, j) \/ CleanUnreadable(w, j)

FaultStep(w) ==
  \/ WorkerFails(w) \/ MonitorFails(w) \/ StopRequested(w) \/ WorkerCrash(w)
  \/ PrepareFails(w) \/ Hang(w) \/ OnSuccessFails(w) \/ RecordSuccessFails(w)
  \/ RecordSuccessReplyLost(w) \/ OnFailureFails(w) \/ RecordFailureFails(w)
  \/ HorseKilled(w) \/ ReapFails(w)

Next ==
  \/ \E j \in Jobs : Enqueue(j) \/ Expire(j)
  \/ \E w \in Workers : WorkerStep(w) \/ HorseStep(w) \/ FaultStep(w)
  \/ \E w \in Workers, j \in Jobs : Maintenance(w, j)

Spec == Init /\ [][Next]_vars

\* A process that can take its next step takes it, and the maintenance a worker
\* runs between two jobs and while it waits is never put off for ever.  Nothing
\* is assumed of clients and faults.
Fairness ==
  /\ \A w \in Workers : WF_vars(WorkerStep(w)) /\ WF_vars(HorseStep(w))
  /\ \A w \in Workers, j \in Jobs : WF_vars(Maintenance(w, j))

FairSpec == Spec /\ Fairness

-----------------------------------------------------------------------------
(* Correctness properties.                                                 *)

\* A popped job belongs to one worker: no id is in the queue twice, in the queue
\* and in the hands of a worker, or in the hands of two workers (dequeue_any with
\* LMOVE or BLPOP, forks, crashes and all maintenance included).
ExclusiveOwner ==
  /\ \A i, k \in DOMAIN queue : queue[i] = queue[k] => i = k
  /\ \A w \in Workers : job[w] \notin Queued
  /\ \A w, v \in Workers : w # v /\ job[w] = job[v] => job[w] = NoJob

\* JobBase enqueues without a retry policy: whatever dies, disconnects or is
\* cleaned up, the function of a job is never invoked twice.
AtMostOnce == \A j \in Jobs : runs[j] <= 1

\* A job whose hash says "started" can be found by the cleanup of the
\* StartedJobRegistry, and one that says "queued" by a worker or, if all workers pop
\* with LMOVE, by the cleanup of the intermediate list: no failure between two
\* commands strands a job.
StartedIsTracked == \A j \in Jobs : status[j] = "started" => j \in started
QueuedIsTracked  == \A j \in Jobs : status[j] = "queued" => j \in Queued \cup intermediate
NoJobLost == StartedIsTracked /\ (Movers = Workers => QueuedIsTracked)

\* aperform_job, the monitor and the cleanups never overwrite each other's
\* outcome, unless the worker of that job is gone: then the cleanup fails the job
\* and the horse, which survives its worker, may still record another outcome.
Overwritten(j)  == status[j] \in Settled /\ status'[j] # status[j]
OutcomeStable ==
  [][\A j \in Jobs : Overwritten(j) => \E w \in Workers : job[w] = j /\ wpc[w] \in Gone]_vars

\* No worker is left, and a failure callback that the cleanup called has ended one.
EndedByCallback ==
  /\ \A w \in Workers : wpc[w] \in Gone
  /\ \E w \in Workers : wpc[w] = "thrown"

\* Every readable job is performed to an outcome or expires, as long as one worker
\* is left ("pops and performs all jobs on the current list of queues").  An abandoned job
\* whose failure callback raises can end every worker there is, one after the other.
EveryJobSettles ==
  \A j \in Jobs \ Unreadable :
    status[j] = "queued" ~> status[j] \in Settled \cup {"expired"} \/ EndedByCallback

\* Nothing stays behind: in the end the queue, the intermediate list and the
\* StartedJobRegistry are empty and no horse is waited for, unless no worker is left to see
\* to it because a failure callback ended the last ones.
RegistriesDrain ==
  <>[](\/ /\ queue = <<>> /\ intermediate = {} /\ started = {}
          /\ \A w \in Workers : wpc[w] \notin {"monitor", "heartbeat"}
       \/ EndedByCallback)

\* Without dying workers the system implements the life cycle JobService promises.
Service == INSTANCE JobService WITH invoked <- {j \in Jobs : runs[j] > 0}

ImplementsJobService == Service!Spec

\* A failure callback is "a callback to run when/if the Job fails": it never
\* starts for a job that is recorded as finished.
FailureCallbackMeansFailure ==
  \A w \in Workers : hpc[w] = "on_failure" => status[job[w]] # "finished"
=============================================================================
