\* The queue and the pool under the three policies: what is safe, what is promised, who starves.
SPECIFICATION FairSpec
CONSTANTS
  None = None
  Jobs <- MixedJobs
  Ask <- MixedAsk
  Limit <- MixedLimit
  NewLimits <- Longer
  Policies <- AllPolicies
  MaxOverrun = 0
  MaxRestarts = 1
  GpuIds <- OneGpu
  Links <- NoLinks
  GpuNode <- NoNodes
  NodeCpus <- FourCpus
  NodeMem <- TwoByTwo
  MemConfined = TRUE
INVARIANTS
  TypeOK
  NoSharing
  HoldersBooked
  MemoryBooked
  BudgetWithinPool
  NothingJumps
PROPERTIES
  FreedAccruesToHead
  HeadNeverDelayed
  LeasesKept
  NoStarvation
