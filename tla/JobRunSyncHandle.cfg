CONSTANT Jobs <- SyncHandles
SPECIFICATION Spec
CHECK_DEADLOCK FALSE
INVARIANTS HandledMeansFinished
