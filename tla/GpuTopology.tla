---------------------------- MODULE GpuTopology ----------------------------
(***************************************************************************)
(* The interconnect between the GPUs of the machine and the search for the *)
(* closest-connected set of free ones (class GpuTopology and the two        *)
(* search methods of ResourcePool in src/hpc_batch/resources.py).          *)
(*                                                                         *)
(* A link class is its rank in _LINK_CLASSES, closest first: NV 0, PIX 1,   *)
(* PXB 2, PHB 3, NODE 4, SYS 5; a pair about which nothing is known ranks   *)
(* after all of them.  Where the code breaks a tie the operators return     *)
(* the set of the outcomes left, which then has one element.               *)
(***************************************************************************)
EXTENDS Integers, FiniteSets, Sequences, FiniteSetsExt, Functions

CONSTANTS
  GpuIds,   \* the indices of the GPUs
  Links,    \* known pairs {a, b} |-> [rank |-> link class, lanes |-> NVLinks]
  GpuNode   \* GPU |-> the NUMA node it hangs off, for those that say

UnknownRank == 6

ASSUME GpuAssumption ==
  /\ IsFiniteSet(GpuIds) /\ GpuIds \subseteq Nat
  /\ DOMAIN Links \subseteq kSubset(2, GpuIds)
  /\ \A pair \in DOMAIN Links :
        Links[pair].rank \in 0..(UnknownRank - 1) /\ Links[pair].lanes \in Nat
  /\ DOMAIN GpuNode \subseteq GpuIds

\* bool(topology): whether anything at all is known of the wiring
TopologyKnown == DOMAIN Links # {} \/ DOMAIN GpuNode # {}

RankOf(pair)  == IF pair \in DOMAIN Links THEN Links[pair].rank ELSE UnknownRank
LanesOf(pair) == IF pair \in DOMAIN Links THEN Links[pair].lanes ELSE 0

NodesFor(gpus) == { GpuNode[g] : g \in gpus \cap DOMAIN GpuNode }

GpusOn(node, gpus) == { g \in gpus \cap DOMAIN GpuNode : GpuNode[g] = node }

(***************************************************************************)
(* How good a set of GPUs is as a group: the rank of its slowest pair, the  *)
(* sum of the ranks, the NVLink lanes negated.  Smaller is better, compared *)
(* in that order.                                                          *)
(***************************************************************************)
Quality(gpus) ==
  LET pairs == kSubset(2, gpus)
  IN  << Max({0} \cup { RankOf(p) : p \in pairs }),
         MapThenSumSet(RankOf, pairs),
         -MapThenSumSet(LanesOf, pairs) >>

Precedes(a, b) ==
  \E i \in DOMAIN a : a[i] < b[i] /\ \A j \in 1..(i - 1) : a[j] = b[j]

(***************************************************************************)
(* The sets with the smallest key; of those with the same key, the one that *)
(* comes first when both are listed in increasing order (they have as many *)
(* elements, so it is the one holding the least element they do not share). *)
(***************************************************************************)
BestSets(key) ==
  { s \in DOMAIN key : \A t \in DOMAIN key \ {s} :
      \/ Precedes(key[s], key[t])
      \/ key[s] = key[t] /\ Min(SymDiff(s, t)) \in s }

\* gpus joined by links no worse than level: the least non-empty closed subsets
Islands(gpus, level) ==
  LET closed == { s \in SUBSET gpus :
                    s # {} /\ \A a \in s, b \in gpus \ s : RankOf({a, b}) > level }
  IN  { s \in closed : \A t \in closed : t \subseteq s => t = s }

(***************************************************************************)
(* The best set of one island.  An island of more than _MAX_GPU_LINK_SCANS *)
(* scored links is taken apart instead; no real machine has one (the        *)
(* comment at that constant) and neither has an instance of this module.   *)
(***************************************************************************)
WithinIsland(island, count) ==
  BestSets([s \in kSubset(count, island) |-> Quality(s)])

\* one level of the climb: the best pick of the islands wide enough, taken from
\* the smallest island where the qualities are equal
PickAt(free, count, level) ==
  LET roomy == { i \in Islands(free, level) : Cardinality(i) >= count }
      picks == UNION { WithinIsland(i, count) : i \in roomy }
      size(s) == Cardinality(CHOOSE i \in roomy : s \subseteq i)
  IN  BestSets([s \in picks |-> Quality(s) \o << size(s) >>])

\* fault: every pick of a level is believed to be as close as the level
DeliversUnchecked(free, count, level) == PickAt(free, count, level)

\* a level delivers when its pick really is as close as the level
Delivers(free, count, level) ==
  { s \in PickAt(free, count, level) : Quality(s)[1] <= level }

ClosestGpus(free, count) ==
  IF count >= Cardinality(free)
  THEN { free }
  ELSE UNION { Delivers(free, count, level) : level \in
         { l \in 0..UnknownRank : \A m \in 0..(l - 1) : Delivers(free, count, m) = {} } }

\* the first GPUs in index order
LowestGpus(pool, count) ==
  { s \in kSubset(count, pool) : \A a \in s, b \in pool \ s : a < b }

=============================================================================
