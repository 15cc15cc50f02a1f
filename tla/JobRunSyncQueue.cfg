CONSTANT Jobs <- SyncQueueOfJobs
SPECIFICATION Spec
CHECK_DEADLOCK FALSE
INVARIANTS RunSyncReturns
