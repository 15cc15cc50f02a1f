CONSTANTS
  j1 = j1  j2 = j2  j3 = j3  w1 = w1  w2 = w2  w3 = w3
  NoJob = NoJob
  Jobs = {j1, j2, j3}
  Workers = {w1, w2}
  Movers = {w1, w2}
  QuitsWhenIdle = TRUE
  MaxJobs = 2
  Unreadable = {j3}
  Raising = {j1}
  Faults <- AllFaults
  MaxFaults = 3
SPECIFICATION Spec
CHECK_DEADLOCK FALSE
INVARIANTS TypeOK ExclusiveOwner AtMostOnce NoJobLost
