CONSTANT Jobs <- Allowed
SPECIFICATION ForkSpec
CHECK_DEADLOCK FALSE
INVARIANTS TypeOK Balanced FinishedMeansComplete FailureCallbackAgrees ParamsArrive CleanRunSucceeds
INVARIANTS PoolsReleased OnePoolPerLifespan
PROPERTY ImplementsHorse
