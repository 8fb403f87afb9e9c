\* Safety of the job's life: reloads, restarts, failed starts, failed copies.
SPECIFICATION Spec
CONSTANTS
  Slots = 1
  MaxTime = 1
  Grace = 0
  Keep = 1
  Wanted <- FirstJob
  RepeatKills = TRUE
  Mishaps <- Restarts
  MaxJobs = 2
  MaxRuns = 4
  MaxMishaps = 2
INVARIANTS
  TypeOK
  BooksMatch
  NoOrphan
  ExitCollected
  OutputKept
