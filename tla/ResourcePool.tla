---------------------------- MODULE ResourcePool ----------------------------
(***************************************************************************)
(* The books of the machine and the one decision made from them: which      *)
(* cpus, GPUs and memory a request would get (class ResourcePool in         *)
(* src/hpc_batch/resources.py).                                            *)
(*                                                                         *)
(* This is a data module.  A pool is a record of what is free; the          *)
(* operators read or transform one and the modules that extend this one     *)
(* hold it in a variable.  A placement is a set of allocations: empty when  *)
(* the request has to wait, otherwise of one element, because the code      *)
(* breaks every tie.  Memory is counted in whole GiB.                       *)
(***************************************************************************)
EXTENDS GpuTopology

CONSTANTS
  NodeCpus,     \* NUMA node |-> the cpus of it that jobs may use
  NodeMem,      \* NUMA node |-> the memory of it that jobs may use
  MemConfined   \* cpuset.mems can be written

Nodes == DOMAIN NodeCpus

\* memory domain of a machine whose memory is not confined to nodes
SharedMem == -1

Confined == MemConfined /\ DOMAIN NodeMem = Nodes

Capacity == IF Confined
            THEN NodeMem
            ELSE [d \in {SharedMem} |-> SumFunction(NodeMem)]

Domains == IF Confined THEN Nodes ELSE {SharedMem}

TracksMemory == \E d \in Domains : Capacity[d] > 0

MemKey(node) == IF Confined THEN node ELSE SharedMem

AllCpus == UNION { NodeCpus[n] : n \in Nodes }

TotalCpus == Cardinality(AllCpus)

TotalMem == SumFunction(Capacity)

(***************************************************************************)
(* Node numbers and cpu numbers are the kernel's.  A cpu is on one node.    *)
(***************************************************************************)
ASSUME MachineAssumption ==
  /\ Nodes # {} /\ IsFiniteSet(Nodes) /\ Nodes \subseteq Nat
  /\ NodeCpus \in [Nodes -> SUBSET Nat] /\ \A n \in Nodes : IsFiniteSet(NodeCpus[n])
  /\ \A m, n \in Nodes : m # n => NodeCpus[m] \cap NodeCpus[n] = {}
  /\ MemConfined \in BOOLEAN
  /\ Capacity \in [Domains -> Nat]

(***************************************************************************)
(* What a job asks for, and the resources one job is given.  floor is the   *)
(* worst link class the job accepts between its GPUs.  A charge names every *)
(* memory domain; those it charges nothing are absent from mem_by_node.     *)
(***************************************************************************)
NoFloor == -1

Request ==
  [ cpu : Nat \ {0}, gpus : Nat, mem : Nat, exclusive : BOOLEAN,
    localMem : BOOLEAN, localGpu : BOOLEAN, floor : (0..UnknownRank) \cup {NoFloor} ]

Allocation ==
  [ cpus : SUBSET AllCpus, nodes : SUBSET Nodes, home : Nodes, gpus : SUBSET GpuIds,
    charge : [Domains -> Nat], exclusive : BOOLEAN ]

Pool ==
  [ cpus : [Nodes -> SUBSET AllCpus], gpus : SUBSET GpuIds, mem : [Domains -> Nat],
    active : Nat, exclusive : BOOLEAN ]

EmptyMachine ==
  [ cpus |-> NodeCpus, gpus |-> GpuIds, mem |-> Capacity, active |-> 0, exclusive |-> FALSE ]

-----------------------------------------------------------------------------
(***************************************************************************)
(* Placement of the cpus                                                   *)
(***************************************************************************)
FitsLocally(p, n, mem) == TracksMemory => mem <= p.mem[MemKey(n)]

\* one node for every job, except an exclusive one that did not ask to stay local
MaxNodes(r) ==
  IF r.exclusive /\ ~(r.localMem \/ (r.localGpu /\ r.gpus > 0))
  THEN Cardinality(Nodes) ELSE 1

\* the nodes whose key comes first; every key ends in the node
Foremost(key) ==
  { n \in DOMAIN key : \A m \in DOMAIN key \ {n} : Precedes(key[n], key[m]) }

\* fault: best fit by cpus alone, blind to the memory the node has left
HomeNodeByCpus(p, r, candidates, near) ==
  LET whole == { n \in candidates : Cardinality(p.cpus[n]) >= r.cpu }
  IN  Foremost([n \in whole |-> << Cardinality(p.cpus[n]), n >>])

(***************************************************************************)
(* The node that has to hold the whole cpu request: one that also holds the *)
(* whole budget, by the job's GPUs if possible and then by best fit; else,  *)
(* if the budget may span nodes, the one with the most free memory.         *)
(***************************************************************************)
HomeNode(p, r, candidates, near) ==
  LET whole == { n \in candidates : Cardinality(p.cpus[n]) >= r.cpu }
      local == { n \in whole : FitsLocally(p, n, r.mem) }
  IN  IF local # {}
      THEN Foremost([n \in local |-> << IF n \in near THEN 0 ELSE 1,
                                        Cardinality(p.cpus[n]), p.mem[MemKey(n)], n >>])
      ELSE IF r.localMem
           THEN {}
           ELSE Foremost([n \in whole |-> << -p.mem[MemKey(n)],
                                             Cardinality(p.cpus[n]), n >>])

NodeOf(cpu) == CHOOSE n \in Nodes : cpu \in NodeCpus[n]

\* the first k cpus when the nodes are drawn from in order
FirstCpus(cpus, k) ==
  { s \in kSubset(k, cpus) : \A a \in s, b \in cpus \ s :
      NodeOf(a) < NodeOf(b) \/ (NodeOf(a) = NodeOf(b) /\ a < b) }

PickCpus(p, r, candidates, near) ==
  IF MaxNodes(r) > 1
  THEN { [cpus |-> s, nodes |-> { n \in Nodes : s \cap p.cpus[n] # {} }] :
           s \in FirstCpus(UNION { p.cpus[n] : n \in candidates }, r.cpu) }
  ELSE UNION { { [cpus |-> s, nodes |-> {n}] : s \in FirstCpus(p.cpus[n], r.cpu) } :
                 n \in HomeNode(p, r, candidates, near) }

-----------------------------------------------------------------------------
(***************************************************************************)
(* Placement of the GPUs                                                   *)
(***************************************************************************)
\* the sets of free GPUs one of which has to hold all of the job's
GpuPools(p, r) ==
  IF r.localGpu
  THEN { GpusOn(n, p.gpus) : n \in NodesFor(p.gpus) }
  ELSE { p.gpus }

\* the pool of the lowest node, when the pools are the GPUs of a node each
LowestPool(pools) ==
  { s \in pools : \A t \in pools \ {s} : \A n \in NodesFor(s), m \in NodesFor(t) : n < m }

\* fault: a caller that does not search skips the floor too
PickGpusUnfloored(p, r, search) ==
  LET pools == { s \in GpuPools(p, r) : Cardinality(s) >= r.gpus }
      close == UNION { ClosestGpus(s, r.gpus) : s \in pools }
  IN  IF r.gpus = 0 \/ ~TopologyKnown \/ ~search
      THEN UNION { LowestGpus(s, r.gpus) : s \in LowestPool(pools) }
      ELSE { s \in BestSets([s \in close |-> Quality(s)]) :
               r.floor # NoFloor => Quality(s)[1] <= r.floor }

(***************************************************************************)
(* search is off for a caller that only asks whether the request fits: it   *)
(* then gets the first GPUs in index order, unless there is a floor.        *)
(***************************************************************************)
PickGpus(p, r, search) ==
  LET pools == { s \in GpuPools(p, r) : Cardinality(s) >= r.gpus }
      close == UNION { ClosestGpus(s, r.gpus) : s \in pools }
  IN  IF r.gpus = 0 \/ ~TopologyKnown \/ (~search /\ r.floor = NoFloor)
      THEN UNION { LowestGpus(s, r.gpus) : s \in LowestPool(pools) }
      ELSE { s \in BestSets([s \in close |-> Quality(s)]) :
               r.floor # NoFloor => Quality(s)[1] <= r.floor }

-----------------------------------------------------------------------------
(***************************************************************************)
(* The charge of a budget: the home node's domain first, then the others in *)
(* order unless the job asked to stay local.  A domain gives all it has     *)
(* before the next is touched, and the whole budget is covered or none.     *)
(***************************************************************************)
DrawnBefore(i, k, home) == k # i /\ (i = MemKey(home) \/ (k # MemKey(home) /\ i < k))

\* fault: a budget never leaves the home node
ChargesAtHome(p, r, home) ==
  { c \in [Domains -> {0, r.mem}] :
      c[MemKey(home)] = r.mem /\ SumFunction(c) = r.mem /\ \A k \in Domains : c[k] <= p.mem[k] }

\* fault: a domain need not be drained before the next is touched
ChargesAnySplit(p, r, home) ==
  { c \in [Domains -> 0..r.mem] : SumFunction(c) = r.mem /\ \A k \in Domains : c[k] <= p.mem[k] }

Charges(p, r, home) ==
  IF ~TracksMemory
  THEN { [k \in Domains |-> 0] }
  ELSE { c \in [Domains -> 0..r.mem] :
           /\ SumFunction(c) = r.mem
           /\ \A k \in Domains : c[k] <= p.mem[k]
           /\ \A k \in Domains : c[k] > 0 =>
                \A i \in Domains : DrawnBefore(i, k, home) => c[i] = p.mem[i]
           /\ r.localMem => \A k \in Domains \ {MemKey(home)} : c[k] = 0 }

(***************************************************************************)
(* The allocation a request would get.  GPUs come first, because cpus can   *)
(* be placed near them; a job that wants both on one node takes its cpus    *)
(* from the node its GPUs are on, or waits.                                *)
(***************************************************************************)
Candidates(r, near) ==
  IF r.localGpu /\ near # {}
  THEN { n \in Nodes \cap near : \A m \in near : n <= m }
  ELSE Nodes

Plan(p, r, search) ==
  IF p.exclusive \/ (r.exclusive /\ p.active > 0) \/ r.gpus > Cardinality(p.gpus)
  THEN {}
  ELSE UNION { UNION { UNION {
         { [ cpus |-> pick.cpus, nodes |-> pick.nodes, home |-> home, gpus |-> gpus,
             charge |-> charge, exclusive |-> r.exclusive ] :
           charge \in Charges(p, r, home) } :
           home \in { n \in pick.nodes : \A m \in pick.nodes : n <= m } } :
           pick \in PickCpus(p, r, Candidates(r, NodesFor(gpus)), NodesFor(gpus)) } :
           gpus \in PickGpus(p, r, search) }

Allocate(p, r) == Plan(p, r, TRUE)

WouldFit(p, r) == Plan(p, r, FALSE) # {}

-----------------------------------------------------------------------------
(***************************************************************************)
(* Bookkeeping                                                             *)
(***************************************************************************)
AtLeast(x, low)  == IF x < low THEN low ELSE x
AtMost(x, high)  == IF x > high THEN high ELSE x

(***************************************************************************)
(* The charge in the domains in force now.  One read back from the state    *)
(* file may name domains of another layout: those are folded onto the home  *)
(* node's domain, or dropped when there is no such domain either.           *)
(***************************************************************************)
ChargeDomains(a) ==
  LET strange == DOMAIN a.charge \ Domains
      own == [k \in Domains |-> IF k \in DOMAIN a.charge THEN a.charge[k] ELSE 0]
  IN  IF strange = {}
      THEN own
      ELSE [k \in Domains |-> IF k = MemKey(a.home)
                              THEN own[k] + SumFunctionOnSet(a.charge, strange)
                              ELSE own[k]]

\* fault: the count of active jobs goes the wrong way
ReserveMiscounts(p, a) ==
  [ cpus |-> [n \in Nodes |-> IF n \in a.nodes THEN p.cpus[n] \ a.cpus ELSE p.cpus[n]],
    gpus |-> p.gpus \ a.gpus,
    mem  |-> [k \in Domains |-> AtLeast(p.mem[k] - ChargeDomains(a)[k], 0)],
    active |-> p.active - 1,
    exclusive |-> p.exclusive \/ a.exclusive ]

\* fault: only the home node's domain is charged
ReserveAtHome(p, a) ==
  [ cpus |-> [n \in Nodes |-> IF n \in a.nodes THEN p.cpus[n] \ a.cpus ELSE p.cpus[n]],
    gpus |-> p.gpus \ a.gpus,
    mem  |-> [p.mem EXCEPT ![MemKey(a.home)] = AtLeast(@ - ChargeDomains(a)[MemKey(a.home)], 0)],
    active |-> p.active + 1,
    exclusive |-> p.exclusive \/ a.exclusive ]

Reserve(p, a) ==
  [ cpus |-> [n \in Nodes |-> IF n \in a.nodes THEN p.cpus[n] \ a.cpus ELSE p.cpus[n]],
    gpus |-> p.gpus \ a.gpus,
    mem  |-> [k \in Domains |-> AtLeast(p.mem[k] - ChargeDomains(a)[k], 0)],
    active |-> p.active + 1,
    exclusive |-> p.exclusive \/ a.exclusive ]

\* fault: what is given back replaces the free GPUs
ReleaseOverwrites(p, a) ==
  [ cpus |-> [n \in Nodes |-> IF n \in a.nodes
                              THEN p.cpus[n] \cup (a.cpus \cap NodeCpus[n])
                              ELSE p.cpus[n]],
    gpus |-> a.gpus \cap GpuIds,
    mem  |-> [k \in Domains |-> AtMost(p.mem[k] + ChargeDomains(a)[k], Capacity[k])],
    active |-> AtLeast(p.active - 1, 0),
    exclusive |-> p.exclusive /\ ~a.exclusive ]

Release(p, a) ==
  [ cpus |-> [n \in Nodes |-> IF n \in a.nodes
                              THEN p.cpus[n] \cup (a.cpus \cap NodeCpus[n])
                              ELSE p.cpus[n]],
    gpus |-> p.gpus \cup (a.gpus \cap GpuIds),
    mem  |-> [k \in Domains |-> AtMost(p.mem[k] + ChargeDomains(a)[k], Capacity[k])],
    active |-> AtLeast(p.active - 1, 0),
    exclusive |-> p.exclusive /\ ~a.exclusive ]

\* releases of several allocations, in any order: what they free adds up
ReleaseAll(p, allocs) ==
  [ cpus |-> [n \in Nodes |-> p.cpus[n] \cup
                 UNION { a.cpus \cap NodeCpus[n] : a \in { b \in allocs : n \in b.nodes } }],
    gpus |-> p.gpus \cup UNION { a.gpus \cap GpuIds : a \in allocs },
    mem  |-> [k \in Domains |-> AtMost(
                 p.mem[k] + MapThenSumSet(LAMBDA a : ChargeDomains(a)[k], allocs), Capacity[k])],
    active |-> AtLeast(p.active - Cardinality(allocs), 0),
    exclusive |-> p.exclusive /\ \A a \in allocs : ~a.exclusive ]

-----------------------------------------------------------------------------
(***************************************************************************)
(* What the daemon offers: apply_reserve holds cpus and memory back for the  *)
(* operating system, from the lowest node up, before there is a pool.  A     *)
(* node gives what the lower ones could not, but keeps a cpu and half of its *)
(* memory.  The low cpus go.                                               *)
(***************************************************************************)
\* what node n gives of an amount when each node m can spare spare[m]
GivenBy(n, amount, spare) ==
  LET lower == SumFunctionOnSet(spare, { m \in DOMAIN spare : m < n })
  IN  AtMost(AtLeast(amount - lower, 0), spare[n])

CpusAfterReserve(cpus, amount) ==
  LET spare == [n \in DOMAIN cpus |-> AtLeast(Cardinality(cpus[n]) - 1, 0)]
  IN  [n \in DOMAIN cpus |->
        { c \in cpus[n] :
            Cardinality({ d \in cpus[n] : d < c }) >= GivenBy(n, amount, spare) }]

MemAfterReserve(mem, amount) ==
  LET spare == [n \in DOMAIN mem |-> mem[n] \div 2]
  IN  [n \in DOMAIN mem |-> mem[n] - GivenBy(n, amount, spare)]

(***************************************************************************)
(* proportional_share: the memory that so many cpus are worth on the least   *)
(* generous node, rounded down (_tidy_gb) to the unit of memory.             *)
(***************************************************************************)
Least(set) == CHOOSE x \in set : \A y \in set : x <= y

Greatest(set) == CHOOSE x \in set : \A y \in set : x >= y

Shares(cpu) ==
  IF Confined
  THEN { (Capacity[n] * AtMost(cpu, Cardinality(NodeCpus[n]))) \div Cardinality(NodeCpus[n]) :
           n \in { m \in Nodes : NodeCpus[m] # {} } }
  ELSE IF TotalCpus = 0
       THEN {}
       ELSE { (Capacity[SharedMem] * AtMost(cpu, TotalCpus)) \div TotalCpus }

\* fault: what the cpus are worth on the most generous node
ShareOfTheBest(cpu) == IF Shares(cpu) = {} THEN 0 ELSE Greatest(Shares(cpu))

ProportionalShare(cpu) == IF Shares(cpu) = {} THEN 0 ELSE Least(Shares(cpu))

\* the budget of a job that names none (Daemon._default_mem_gb); floor is --min-job-mem
DefaultMem(cpu, exclusive, floor) ==
  IF exclusive
  THEN TotalMem
  ELSE AtMost(AtLeast(ProportionalShare(cpu), floor),
              Greatest({ Capacity[k] : k \in Domains }))

-----------------------------------------------------------------------------
(***************************************************************************)
(* validate: the requests a submission is refused for, because the machine  *)
(* could never satisfy them.                                               *)
(***************************************************************************)
Validate(r) ==
  /\ IF MaxNodes(r) > 1
     THEN r.cpu <= TotalCpus
     ELSE \E n \in Nodes : r.cpu <= Cardinality(NodeCpus[n])
  /\ r.gpus <= Cardinality(GpuIds)
  /\ (r.floor # NoFloor /\ r.gpus > 1) =>
        TopologyKnown /\ \E i \in Islands(GpuIds, r.floor) : r.gpus <= Cardinality(i)
  /\ (r.localGpu /\ r.gpus > 0) =>
        \E n \in NodesFor(GpuIds) : r.gpus <= Cardinality(GpusOn(n, GpuIds))
  /\ TracksMemory =>
        IF r.localMem THEN \E d \in Domains : r.mem <= Capacity[d] ELSE r.mem <= TotalMem

=============================================================================
