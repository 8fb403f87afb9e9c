\* A numa-local-gpu job that fits the larger node, on a machine with reserved cores.
SPECIFICATION Spec
CONSTANTS
  Jobs = {j1, j2, j3}
  None = None
  GpuIds <- PairGpus
  Links <- PairLinks
  GpuNode <- PairNode
  NodeCpus <- ReservedCpus
  NodeMem <- TwoNodeMem
  MemConfined = TRUE
  MinJobMem = 1
  Requests <- LocalRequests
SYMMETRY Symmetric
INVARIANT IdleMachineServes
