\* The fork for the copy of the output fails: nothing is delivered or recorded.
SPECIFICATION Spec
CONSTANTS
  Slots = 1
  MaxTime = 1
  Grace = 0
  Keep = 1
  Wanted <- FirstJob
  RepeatKills = FALSE
  Mishaps <- NoForks
  MaxJobs = 1
  MaxRuns = 1
  MaxMishaps = 1
INVARIANTS
  OutputKept
