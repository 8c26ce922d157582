SPECIFICATION FairSpec
CHECK_DEADLOCK FALSE
CONSTANTS
  Sessions = {s1}
  MaxJobs = 2
  KeptBatches = 1
  MaxCrashes = 1
PROPERTIES EveryJobSettles RemovedAgentStops
