----------------------------- MODULE MCJobRun ------------------------------
(* The kinds of job each run of JobRun considers: all of them, a handle that *)
(* is no coroutine function, a job enqueued on a synchronous queue.         *)
EXTENDS JobRun

Allowed == {j \in JobKinds : ByJobBase(j) /\ Placed(j)}

SyncHandles     == {j \in Allowed : j.queue = "worker" /\ j.lifespan /\ ~j.coro}
SyncQueueOfJobs == {j \in Allowed : j.queue = "sync" /\ j.lifespan /\ j.coro /\ ~j.inLoop}
=============================================================================
