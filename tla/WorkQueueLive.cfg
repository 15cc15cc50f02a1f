CONSTANTS
  j1 = j1  j2 = j2  j3 = j3  w1 = w1  w2 = w2  w3 = w3
  NoJob = NoJob
  Jobs = {j1, j2}
  Workers = {w1, w2, w3}
  Movers = {w1, w2, w3}
  QuitsWhenIdle = FALSE
  MaxJobs = 0
  Unreadable = {}
  Raising = {j2}
  Faults <- NoReplyLoss
  MaxFaults = 2
SPECIFICATION FairSpec
CHECK_DEADLOCK FALSE
PROPERTIES OutcomeStable EveryJobSettles RegistriesDrain
