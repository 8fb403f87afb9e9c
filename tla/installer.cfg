\* What runs of the installer, any of them cut short, leave on the machine.
SPECIFICATION Spec
CONSTANTS
  Dirs <- TwoDirs
  DefaultDir = "/opt/bin"
  Groups <- TwoGroups
  EntryPoints <- TwoEntries
  Daemon = "hpc-batchd"
  StateDir = "/srv/jobs"
  DefaultState = "/var/lib/hpc-batch"
  JobCgroups = "job cgroups"
  None = None
  Torn = Torn
  MaxRuns = 4
INVARIANTS
  TypeOK
  Managed
  DoneIsDone
CHECK_DEADLOCK FALSE
