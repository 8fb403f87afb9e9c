---------------------------- MODULE MCPlacement ----------------------------
(***************************************************************************)
(* Small machines and workloads for Placement.                             *)
(***************************************************************************)
EXTENDS Placement, TLC

Symmetric == Permutations(Jobs)

\* an ordinary request; the others are variations of it
Ask(cpu, gpus, mem) ==
  [ cpu |-> cpu, gpus |-> gpus, mem |-> mem, exclusive |-> FALSE, localMem |-> FALSE,
    localGpu |-> FALSE, floor |-> NoFloor ]

Link(rank) == [rank |-> rank, lanes |-> IF rank = 0 THEN 1 ELSE 0]

----------------------------------------------------------------------------
(* Two uneven nodes of which --reserve-cpu 1 and --reserve-mem 2 have taken a  *)
(* core and memory of node 0, two GPUs on each.  NVLink is a mesh here: 1-2 and 2-3   *)
(* are wired, 1-3 is not, so the NVLink island {1, 2, 3} is no clique.       *)
TwoNodeCpus == CpusAfterReserve((0 :> {0, 1, 2}) @@ (1 :> {3, 4}), 1)
TwoNodeMem  == MemAfterReserve((0 :> 4) @@ (1 :> 3), 2)
MeshGpus    == 0..3
MeshNode    == (0 :> 0) @@ (1 :> 0) @@ (2 :> 1) @@ (3 :> 1)
MeshLinks   == ({0, 1} :> Link(1)) @@ ({1, 2} :> Link(0)) @@ ({2, 3} :> [rank |-> 0, lanes |-> 2])
               @@ ({0, 2} :> Link(4)) @@ ({1, 3} :> Link(5))

MeshRequests ==
  { Ask(1, 0, 1), Ask(2, 0, 4), Ask(1, 0, 3), Ask(1, 2, 1), Ask(1, 3, 1),
    [Ask(2, 0, DefaultMem(2, FALSE, 1)) EXCEPT !.localMem = TRUE],
    [Ask(1, 2, 1) EXCEPT !.floor = 0],
    [Ask(3, 1, DefaultMem(3, TRUE, 1)) EXCEPT !.exclusive = TRUE] }

----------------------------------------------------------------------------
(* One GPU on each node, and --reserve-cpu 1 has taken a core of node 0.      *)
ReservedCpus  == CpusAfterReserve((0 :> {0, 1}) @@ (1 :> {2, 3}), 1)
PairGpus      == {0, 1}
PairNode      == (0 :> 0) @@ (1 :> 1)
PairLinks     == {0, 1} :> Link(5)
LocalRequests == { Ask(1, 0, 1), [Ask(2, 1, 1) EXCEPT !.localGpu = TRUE] }

=============================================================================
