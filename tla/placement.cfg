\* What the pool decides, in every state its jobs can bring it to.
SPECIFICATION Spec
CONSTANTS
  Jobs = {j1, j2, j3}
  None = None
  GpuIds <- MeshGpus
  Links <- MeshLinks
  GpuNode <- MeshNode
  NodeCpus <- TwoNodeCpus
  NodeMem <- TwoNodeMem
  MemConfined = TRUE
  MinJobMem = 1
  Requests <- MeshRequests
SYMMETRY Symmetric
INVARIANTS
  TypeOK
  BooksBalance
  IdleMachineServes
  FitIsAllocatable
  ClosestIsBest
  SpansOnlyWhenItMust
  OneDomainLeftOpen
  DefaultsLeaveRoom
PROPERTY ReleaseNeverHurts
