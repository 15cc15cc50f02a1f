CONSTANTS
  j1 = j1  j2 = j2  j3 = j3  w1 = w1  w2 = w2  w3 = w3
  NoJob = NoJob
  Jobs = {j1, j2, j3}
  Workers = {w1, w2}
  Movers = {w1, w2}
  QuitsWhenIdle = FALSE
  MaxJobs = 0
  Unreadable = {j3}
  Raising = {}
  Faults <- NoFaults
  MaxFaults = 0
SPECIFICATION FairSpec
CHECK_DEADLOCK FALSE
PROPERTY EveryJobSettles
