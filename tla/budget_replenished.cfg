\* Easy-backfill behind a head that wants its GPUs on the node of its cpus.
SPECIFICATION FairSpec
CONSTANTS
  None = None
  Jobs <- PairJobs
  Ask <- PairAsk
  Limit <- PairLimit
  NewLimits <- NoChange
  Policies <- Easy
  MaxOverrun = 0
  MaxRestarts = 0
  GpuIds <- FourGpus
  Links <- PairLinks
  GpuNode <- TwoPairs
  NodeCpus <- FourCpus
  NodeMem <- TwoByTwo
  MemConfined = TRUE
PROPERTY FreedAccruesToHead
