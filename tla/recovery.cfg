\* What the state file promises: the daemon dies at any step, or cannot write.
SPECIFICATION Spec
CONSTANTS
  Slots = 1
  MaxTime = 0
  Grace = 0
  Keep = 1
  Wanted <- FirstJob
  RepeatKills = FALSE
  Mishaps <- Crashes
  MaxJobs = 2
  MaxRuns = 4
  MaxMishaps = 2
INVARIANTS
  BooksMatch
  DoneIsOver
  OutputKept
  AckedSurvive
  KillsStick
PROPERTIES
  StartedOnce
