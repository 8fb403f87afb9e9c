\* Every job ends and leaves nothing behind, over a crash or a failed fork, if copies end.
SPECIFICATION FairCopiesSpec
CONSTANTS
  Slots = 1
  MaxTime = 0
  Grace = 0
  Keep = 1
  Wanted <- FirstJob
  RepeatKills = FALSE
  Mishaps <- Deaths
  MaxJobs = 2
  MaxRuns = 3
  MaxMishaps = 1
PROPERTIES
  EveryJobEnds
  StragglersDie
  CgroupsGo
