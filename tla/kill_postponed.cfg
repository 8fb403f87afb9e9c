\* The code re-arms the wait for SIGKILL at every kill.
SPECIFICATION FairSpec
CONSTANTS
  Slots = 1
  MaxTime = 1
  Grace = 1
  Keep = 1
  Wanted <- NoJob
  RepeatKills = TRUE
  Mishaps <- Nothing
  MaxJobs = 1
  MaxRuns = 1
  MaxMishaps = 0
PROPERTIES
  EveryJobEnds
