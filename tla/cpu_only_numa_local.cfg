\* A --numa-local job on a machine without GPUs at the head of a fifo-strict queue.
SPECIFICATION FairSpec
CONSTANTS
  None = None
  Jobs <- LocalJobs
  Ask <- LocalAsk
  Limit <- LocalLimit
  NewLimits <- NoChange
  Policies <- Fifo
  MaxOverrun = 0
  MaxRestarts = 0
  GpuIds <- NoGpus
  Links <- NoLinks
  GpuNode <- NoNodes
  NodeCpus <- FourCpus
  NodeMem <- TwoByTwo
  MemConfined = TRUE
PROPERTY NoStarvation
