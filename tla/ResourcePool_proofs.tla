------------------------ MODULE ResourcePool_proofs ------------------------
(***************************************************************************)
(* What every allocation the pool decides on looks like, what reserving and   *)
(* releasing one or several does to the free-lists, that the GPUs that are     *)
(* picked are a best connected group, and when there is a decision at all     *)
(* (PlanExists), for every machine.                                        *)
(***************************************************************************)
EXTENDS ResourcePool, SetFacts, SequenceTheorems

(***************************************************************************)
(* The best of some sets is one of them, and the k-subsets of a set are      *)
(* subsets of it: a search returns nothing it was not given.                *)
(***************************************************************************)
LEMMA BestSetsAmong ==
  ASSUME NEW key, NEW s \in BestSets(key)
  PROVE  s \in DOMAIN key
  BY DEF BestSets

\* What the climb through the islands returns are GPUs it was given.
LEMMA ClosestAmongFree ==
  ASSUME NEW free, NEW count \in Nat, NEW s \in ClosestGpus(free, count)
  PROVE  s \subseteq free
<1>1. CASE count >= Cardinality(free)
  BY <1>1 DEF ClosestGpus
<1>2. CASE ~(count >= Cardinality(free))
  <2>1. PICK level \in 0..UnknownRank : s \in Delivers(free, count, level)
    BY <1>2 DEF ClosestGpus
  <2>2. s \in PickAt(free, count, level)
    BY <2>1 DEF Delivers
  <2>3. PICK i \in Islands(free, level) : s \in WithinIsland(i, count)
    BY <2>2, BestSetsAmong DEF PickAt
  <2>4. i \subseteq free
    BY <2>3 DEF Islands
  <2>5. s \in kSubset(count, i)
    BY <2>3, BestSetsAmong DEF WithinIsland
  <2> QED
    BY <2>4, <2>5 DEF kSubset
<1> QED
  BY <1>1, <1>2

(***************************************************************************)
(* The GPUs a request gets are free ones.                                   *)
(***************************************************************************)
LEMMA PickedGpusAreFree ==
  ASSUME NEW p, NEW r \in Request, NEW search \in BOOLEAN, NEW gpus \in PickGpus(p, r, search)
  PROVE  gpus \subseteq p.gpus
<1> DEFINE pools == { s \in GpuPools(p, r) : Cardinality(s) >= r.gpus }
           close == UNION { ClosestGpus(s, r.gpus) : s \in pools }
<1>1. \A s \in GpuPools(p, r) : s \subseteq p.gpus
  BY DEF GpuPools, GpusOn
<1>2. CASE r.gpus = 0 \/ ~TopologyKnown \/ (~search /\ r.floor = NoFloor)
  <2>1. PICK s \in LowestPool(pools) : gpus \in LowestGpus(s, r.gpus)
    BY <1>2 DEF PickGpus
  <2>2. s \in GpuPools(p, r)
    BY <2>1 DEF LowestPool
  <2> QED
    BY <1>1, <2>1, <2>2 DEF LowestGpus, kSubset
<1>3. CASE ~(r.gpus = 0 \/ ~TopologyKnown \/ (~search /\ r.floor = NoFloor))
  <2>1. gpus \in close
    BY <1>3, BestSetsAmong DEF PickGpus
  <2>2. PICK s \in pools : gpus \in ClosestGpus(s, r.gpus)
    BY <2>1
  <2>3. r.gpus \in Nat
    BY DEF Request
  <2>4. gpus \subseteq s
    BY <2>2, <2>3, ClosestAmongFree
  <2> QED
    BY <1>1, <2>2, <2>4
<1> QED
  BY <1>2, <1>3

(***************************************************************************)
(* The cpus a request gets are free cpus of the nodes it is given, and some. *)
(***************************************************************************)
LEMMA PickedCpusAreFree ==
  ASSUME NEW p, NEW r \in Request, NEW candidates \in SUBSET Nodes, NEW near,
         NEW pick \in PickCpus(p, r, candidates, near)
  PROVE  /\ pick.nodes \subseteq Nodes
         /\ pick.cpus \subseteq UNION { p.cpus[n] : n \in pick.nodes }
         /\ pick.cpus # {}
<1>0. \A set : {} \notin FirstCpus(set, r.cpu)
  BY FS_EmptySet DEF FirstCpus, kSubset, Request
<1>1. CASE MaxNodes(r) > 1
  <2>1. PICK s \in FirstCpus(UNION { p.cpus[n] : n \in candidates }, r.cpu) :
          pick = [cpus |-> s, nodes |-> { n \in Nodes : s \cap p.cpus[n] # {} }]
    BY <1>1 DEF PickCpus
  <2>2. s \subseteq UNION { p.cpus[n] : n \in candidates }
    BY <2>1 DEF FirstCpus, kSubset
  <2>3. s # {}
    BY <1>0, <2>1
  <2> QED
    BY <2>1, <2>2, <2>3
<1>2. CASE ~(MaxNodes(r) > 1)
  <2>1. PICK n \in HomeNode(p, r, candidates, near) :
          pick \in { [cpus |-> s, nodes |-> {n}] : s \in FirstCpus(p.cpus[n], r.cpu) }
    BY <1>2 DEF PickCpus
  <2>2. n \in candidates
    BY <2>1 DEF HomeNode, Foremost
  <2>3. PICK s \in FirstCpus(p.cpus[n], r.cpu) : pick = [cpus |-> s, nodes |-> {n}]
    BY <2>1
  <2>4. s \subseteq p.cpus[n]
    BY <2>3 DEF FirstCpus, kSubset
  <2> QED
    BY <1>0, <2>2, <2>3, <2>4
<1> QED
  BY <1>1, <1>2

(***************************************************************************)
(* A charge takes from no domain more than is free there.                   *)
(***************************************************************************)
LEMMA ChargesAreFree ==
  ASSUME NEW p \in Pool, NEW r \in Request, NEW home, NEW c \in Charges(p, r, home)
  PROVE  /\ c \in [Domains -> Nat]
         /\ \A k \in Domains : c[k] <= p.mem[k]
<1>1. r.mem \in Nat /\ p.mem \in [Domains -> Nat]
  BY DEF Request, Pool
<1>2. CASE TracksMemory
  BY <1>1, <1>2 DEF Charges
<1>3. CASE ~TracksMemory
  <2>1. c = [k \in Domains |-> 0]
    BY <1>3 DEF Charges
  <2> QED
    BY <1>1, <2>1
<1> QED
  BY <1>2, <1>3

(***************************************************************************)
(* What the pool decides on is an allocation of free resources, whichever    *)
(* of the two questions was asked, and none is made that breaks the rule of  *)
(* exclusive jobs.                                                          *)
(***************************************************************************)
THEOREM PlanIsFree ==
  ASSUME NEW p \in Pool, NEW r \in Request, NEW search \in BOOLEAN, NEW a \in Plan(p, r, search)
  PROVE  /\ a \in Allocation
         /\ a.cpus \subseteq UNION { p.cpus[n] : n \in a.nodes } /\ a.cpus # {}
         /\ a.gpus \subseteq p.gpus
         /\ \A k \in Domains : a.charge[k] <= p.mem[k]
         /\ a.exclusive = r.exclusive
         /\ ~p.exclusive
         /\ r.exclusive => p.active = 0
<1>1. /\ p.cpus \in [Nodes -> SUBSET AllCpus] /\ p.gpus \in SUBSET GpuIds
      /\ p.active \in Nat
      /\ r.exclusive \in BOOLEAN
  BY DEF Pool, Request
<1>2. /\ ~(p.exclusive \/ (r.exclusive /\ p.active > 0) \/ r.gpus > Cardinality(p.gpus))
      /\ a \in UNION { UNION { UNION {
         { [ cpus |-> pick.cpus, nodes |-> pick.nodes, home |-> home, gpus |-> gpus,
             charge |-> charge, exclusive |-> r.exclusive ] :
           charge \in Charges(p, r, home) } :
           home \in { n \in pick.nodes : \A m \in pick.nodes : n <= m } } :
           pick \in PickCpus(p, r, Candidates(r, NodesFor(gpus)), NodesFor(gpus)) } :
           gpus \in PickGpus(p, r, search) }
  BY DEF Plan
<1>3. PICK gpus \in PickGpus(p, r, search) :
        a \in UNION { UNION {
         { [ cpus |-> pick.cpus, nodes |-> pick.nodes, home |-> home, gpus |-> gpus,
             charge |-> charge, exclusive |-> r.exclusive ] :
           charge \in Charges(p, r, home) } :
           home \in { n \in pick.nodes : \A m \in pick.nodes : n <= m } } :
           pick \in PickCpus(p, r, Candidates(r, NodesFor(gpus)), NodesFor(gpus)) }
  BY <1>2
<1>a. PICK pick \in PickCpus(p, r, Candidates(r, NodesFor(gpus)), NodesFor(gpus)) :
        a \in UNION {
         { [ cpus |-> pick.cpus, nodes |-> pick.nodes, home |-> home, gpus |-> gpus,
             charge |-> charge, exclusive |-> r.exclusive ] :
           charge \in Charges(p, r, home) } :
           home \in { n \in pick.nodes : \A m \in pick.nodes : n <= m } }
  BY <1>3
<1>b. PICK home \in { n \in pick.nodes : \A m \in pick.nodes : n <= m } :
        a \in { [ cpus |-> pick.cpus, nodes |-> pick.nodes, home |-> home, gpus |-> gpus,
                  charge |-> charge, exclusive |-> r.exclusive ] :
                charge \in Charges(p, r, home) }
  BY <1>a
<1>c. PICK charge \in Charges(p, r, home) :
        a = [ cpus |-> pick.cpus, nodes |-> pick.nodes, home |-> home, gpus |-> gpus,
              charge |-> charge, exclusive |-> r.exclusive ]
  BY <1>b
<1>4. gpus \subseteq p.gpus
  BY <1>3, PickedGpusAreFree
<1>5. Candidates(r, NodesFor(gpus)) \in SUBSET Nodes
  BY DEF Candidates
<1>6. /\ pick.nodes \subseteq Nodes
      /\ pick.cpus \subseteq UNION { p.cpus[n] : n \in pick.nodes } /\ pick.cpus # {}
  BY <1>3, <1>5, PickedCpusAreFree
<1>7. charge \in [Domains -> Nat] /\ \A k \in Domains : charge[k] <= p.mem[k]
  BY <1>3, ChargesAreFree
<1>8. pick.cpus \subseteq AllCpus
  BY <1>1, <1>6
<1>9. a \in Allocation
  BY <1>1, <1>b, <1>c, <1>4, <1>6, <1>7, <1>8 DEF Allocation
<1> QED
  BY <1>1, <1>2, <1>c, <1>4, <1>6, <1>7, <1>9

\* So is what _plan decides when it is asked to allocate.
COROLLARY AllocateIsFree ==
  ASSUME NEW p \in Pool, NEW r \in Request, NEW a \in Allocate(p, r)
  PROVE  /\ a \in Allocation
         /\ a.cpus \subseteq UNION { p.cpus[n] : n \in a.nodes } /\ a.cpus # {}
         /\ a.gpus \subseteq p.gpus
         /\ \A k \in Domains : a.charge[k] <= p.mem[k]
         /\ a.exclusive = r.exclusive
         /\ ~p.exclusive
         /\ r.exclusive => p.active = 0
  BY PlanIsFree DEF Allocate

-----------------------------------------------------------------------------
(***************************************************************************)
(* An allocation made by this machine is charged to its own domains.        *)
(***************************************************************************)
LEMMA ChargeOfOwn ==
  ASSUME NEW a \in Allocation
  PROVE  ChargeDomains(a) = a.charge
<1>1. a.charge \in [Domains -> Nat]
  BY DEF Allocation
<1>2. DOMAIN a.charge = Domains
  BY <1>1
<1> QED
  BY <1>1, <1>2 DEF ChargeDomains

\* The pool of an idle machine is a pool.
LEMMA EmptyMachineType == EmptyMachine \in Pool
<1>1. NodeCpus \in [Nodes -> SUBSET AllCpus]
  BY MachineAssumption DEF AllCpus
<1> QED
  BY <1>1, MachineAssumption DEF EmptyMachine, Pool

\* Reserving an allocation in a pool leaves a pool, whatever was free ...
LEMMA ReserveType ==
  ASSUME NEW p \in Pool, NEW a \in Allocation
  PROVE  Reserve(p, a) \in Pool
<1>1. ChargeDomains(a) \in [Domains -> Nat]
  BY ChargeOfOwn DEF Allocation
<1>2. [n \in Nodes |-> IF n \in a.nodes THEN p.cpus[n] \ a.cpus ELSE p.cpus[n]]
        \in [Nodes -> SUBSET AllCpus]
  BY DEF Pool
<1>3. [k \in Domains |-> AtLeast(p.mem[k] - ChargeDomains(a)[k], 0)] \in [Domains -> Nat]
  BY <1>1 DEF Pool, AtLeast
<1>4. (p.exclusive \/ a.exclusive) \in BOOLEAN
  OBVIOUS
<1> QED
  BY <1>2, <1>3, <1>4 DEF Reserve, Pool

\* ... and so does releasing one.
LEMMA ReleaseType ==
  ASSUME NEW p \in Pool, NEW a \in Allocation
  PROVE  Release(p, a) \in Pool
<1>1. ChargeDomains(a) \in [Domains -> Nat]
  BY ChargeOfOwn DEF Allocation
<1>2. [n \in Nodes |-> IF n \in a.nodes
                       THEN p.cpus[n] \cup (a.cpus \cap NodeCpus[n])
                       ELSE p.cpus[n]] \in [Nodes -> SUBSET AllCpus]
  BY DEF Pool, Allocation
<1>3. [k \in Domains |-> AtMost(p.mem[k] + ChargeDomains(a)[k], Capacity[k])]
        \in [Domains -> Nat]
  BY <1>1, MachineAssumption DEF Pool, AtMost
<1>4. (p.exclusive /\ ~a.exclusive) \in BOOLEAN
  OBVIOUS
<1>5. p.gpus \cup (a.gpus \cap GpuIds) \in SUBSET GpuIds
  BY DEF Pool
<1>6. AtLeast(p.active - 1, 0) \in Nat
  BY DEF Pool, AtLeast
<1> QED
  BY <1>2, <1>3, <1>4, <1>5, <1>6 DEF Release, Pool

-----------------------------------------------------------------------------
\* a cpu is on one node
LEMMA CpusElsewhere ==
  ASSUME NEW a \in Allocation, NEW n \in Nodes \ a.nodes,
         a.cpus \subseteq UNION { NodeCpus[m] : m \in a.nodes }
  PROVE  NodeCpus[n] \cap a.cpus = {}
<1>1. SUFFICES ASSUME NEW c \in a.cpus PROVE c \notin NodeCpus[n]
  OBVIOUS
<1>2. PICK m \in a.nodes : c \in NodeCpus[m]
  BY <1>1
<1>3. m \in Nodes /\ m # n
  BY DEF Allocation
<1>4. NodeCpus[m] \cap NodeCpus[n] = {}
  BY <1>3, MachineAssumption
<1> QED
  BY <1>2, <1>4

(***************************************************************************)
(* Reserving an allocation takes its cpus, and releasing it gives them back, *)
(* on whatever node they are.                                               *)
(***************************************************************************)
LEMMA ReserveTakes ==
  ASSUME NEW p \in Pool, NEW a \in Allocation, NEW n \in Nodes,
         p.cpus[n] \subseteq NodeCpus[n],
         a.cpus \subseteq UNION { NodeCpus[m] : m \in a.nodes }
  PROVE  Reserve(p, a).cpus[n] = p.cpus[n] \ a.cpus
<1>1. CASE n \in a.nodes
  BY <1>1 DEF Reserve
<1>2. CASE n \notin a.nodes
  <2>1. NodeCpus[n] \cap a.cpus = {}
    BY <1>2, CpusElsewhere
  <2>2. p.cpus[n] = p.cpus[n] \ a.cpus
    BY <2>1
  <2> QED
    BY <1>2, <2>2 DEF Reserve
<1> QED
  BY <1>1, <1>2

\* Releasing gives the cpus back, whatever node they are on.
LEMMA ReleaseGives ==
  ASSUME NEW p, NEW a \in Allocation, NEW n \in Nodes,
         a.cpus \subseteq UNION { NodeCpus[m] : m \in a.nodes }
  PROVE  Release(p, a).cpus[n] = p.cpus[n] \cup (a.cpus \cap NodeCpus[n])
<1>1. CASE n \in a.nodes
  BY <1>1 DEF Release
<1>2. CASE n \notin a.nodes
  <2>1. NodeCpus[n] \cap a.cpus = {}
    BY <1>2, CpusElsewhere
  <2>2. p.cpus[n] = p.cpus[n] \cup (a.cpus \cap NodeCpus[n])
    BY <2>1
  <2> QED
    BY <1>2, <2>2 DEF Release
<1> QED
  BY <1>1, <1>2

(***************************************************************************)
(* One pool is within another if whatever is free in it is free in the       *)
(* other.  Reserving the same allocation in both keeps it so, and so does    *)
(* a release in the larger one (the argument behind _backfill).             *)
(***************************************************************************)
Within(b, p) ==
  /\ \A n \in Nodes : b.cpus[n] \subseteq p.cpus[n]
  /\ b.gpus \subseteq p.gpus
  /\ \A k \in Domains : b.mem[k] <= p.mem[k]
  /\ p.active <= b.active
  /\ p.exclusive => b.exclusive

\* Reserving the same in both of two pools keeps the one within the other (_backfill).
THEOREM ReserveMonotone ==
  ASSUME NEW b \in Pool, NEW p \in Pool, NEW a \in Allocation, Within(b, p)
  PROVE  Within(Reserve(b, a), Reserve(p, a))
<1>1. ChargeDomains(a) \in [Domains -> Nat]
  BY ChargeOfOwn DEF Allocation
<1>2. b.mem \in [Domains -> Nat] /\ p.mem \in [Domains -> Nat]
      /\ b.active \in Nat /\ p.active \in Nat
  BY DEF Pool
<1>3. \A n \in Nodes : Reserve(b, a).cpus[n] \subseteq Reserve(p, a).cpus[n]
  BY DEF Within, Reserve
<1>4. \A k \in Domains : Reserve(b, a).mem[k] <= Reserve(p, a).mem[k]
  BY <1>1, <1>2 DEF Within, Reserve, AtLeast
<1>5. Reserve(p, a).active <= Reserve(b, a).active
  BY <1>2 DEF Within, Reserve
<1> QED
  BY <1>3, <1>4, <1>5 DEF Within, Reserve

\* A release into the larger of two pools keeps the other within it (the frozen budget).
THEOREM ReleaseGrows ==
  ASSUME NEW b \in Pool, NEW p \in Pool, NEW a \in Allocation, Within(b, p),
         \A k \in Domains : p.mem[k] <= Capacity[k]
  PROVE  Within(b, Release(p, a))
<1>1. ChargeDomains(a) \in [Domains -> Nat]
  BY ChargeOfOwn DEF Allocation
<1>2. b.mem \in [Domains -> Nat] /\ p.mem \in [Domains -> Nat]
      /\ b.active \in Nat /\ p.active \in Nat
  BY DEF Pool
<1>3. \A n \in Nodes : b.cpus[n] \subseteq Release(p, a).cpus[n]
  BY DEF Within, Release
<1>4. \A k \in Domains : b.mem[k] <= Release(p, a).mem[k]
  BY <1>1, <1>2, MachineAssumption DEF Within, Release, AtMost
<1>5. Release(p, a).active <= b.active
  BY <1>2 DEF Within, Release, AtLeast
<1> QED
  BY <1>3, <1>4, <1>5 DEF Within, Release

-----------------------------------------------------------------------------
(***************************************************************************)
(* The wiring: what "better connected" means, and that the climb through    *)
(* the islands finds the best group there is.                               *)
(***************************************************************************)

\* Keys of one length are in a strict order that leaves no two different ones open.
LEMMA PrecedesOrder ==
  ASSUME NEW n \in Nat
  PROVE  /\ \A a \in [1..n -> Int] : ~Precedes(a, a)
         /\ \A a, b, c \in [1..n -> Int] : Precedes(a, b) /\ Precedes(b, c) => Precedes(a, c)
         /\ \A a, b \in [1..n -> Int] : a # b => Precedes(a, b) \/ Precedes(b, a)
<1>1. ASSUME NEW a \in [1..n -> Int] PROVE ~Precedes(a, a)
  BY DEF Precedes
<1>2. ASSUME NEW a \in [1..n -> Int], NEW b \in [1..n -> Int], NEW c \in [1..n -> Int],
             Precedes(a, b), Precedes(b, c)
      PROVE  Precedes(a, c)
  <2>1. PICK i \in 1..n : a[i] < b[i] /\ \A j \in 1..(i - 1) : a[j] = b[j]
    BY <1>2 DEF Precedes
  <2>2. PICK k \in 1..n : b[k] < c[k] /\ \A j \in 1..(k - 1) : b[j] = c[j]
    BY <1>2 DEF Precedes
  <2>3. CASE i <= k
    <3>1. a[i] < c[i]
      BY <2>1, <2>2, <2>3
    <3>2. \A j \in 1..(i - 1) : a[j] = c[j]
      BY <2>1, <2>2, <2>3
    <3> QED
      BY <3>1, <3>2 DEF Precedes
  <2>4. CASE k < i
    <3>1. a[k] < c[k]
      BY <2>1, <2>2, <2>4
    <3>2. \A j \in 1..(k - 1) : a[j] = c[j]
      BY <2>1, <2>2, <2>4
    <3> QED
      BY <3>1, <3>2 DEF Precedes
  <2> QED
    BY <2>3, <2>4
<1>3. ASSUME NEW a \in [1..n -> Int], NEW b \in [1..n -> Int], a # b
      PROVE  Precedes(a, b) \/ Precedes(b, a)
  <2> DEFINE D == { i \in 1..n : a[i] # b[i] }
  <2>1. D # {} /\ \A i \in D : i \in Int
    BY <1>3
  <2>2. IsFiniteSet(D)
    BY FS_Interval, FS_Subset
  <2>3. PICK i \in D : \A j \in D : i <= j
    <3> HIDE DEF D
    <3> QED
      BY <2>1, <2>2, HasLeast
  <2>4. \A j \in 1..(i - 1) : a[j] = b[j]
    BY <2>3
  <2>5. a[i] < b[i] \/ b[i] < a[i]
    BY <2>3
  <2> QED
    BY <2>3, <2>4, <2>5 DEF Precedes
<1> QED
  BY <1>1, <1>2, <1>3

\* Of two sets the one that holds the least element they do not share comes first.
ComesFirst(s, t) == \E m \in s : m \notin t /\ \A x \in GpuIds : x < m => (x \in s <=> x \in t)

\* The way BestSets breaks a tie: exactly one of two different sets comes first.
LEMMA TieBroken ==
  ASSUME NEW s \in SUBSET GpuIds, NEW t \in SUBSET GpuIds, s # t
  PROVE  /\ Min(SymDiff(s, t)) \in s <=> ComesFirst(s, t)
         /\ ComesFirst(s, t) \/ ComesFirst(t, s)
<1> DEFINE D == SymDiff(s, t)
<1>1. D \subseteq GpuIds /\ D # {} /\ \A x \in GpuIds : x \in D <=> ~(x \in s <=> x \in t)
  BY DEF SymDiff
<1>2. GpuIds \subseteq Int
  BY GpuAssumption
<1> HIDE DEF D
<1>3. IsFiniteSet(D)
  BY <1>1, GpuAssumption, FS_Subset
<1>4. PICK m \in D : \A y \in D : m <= y
  BY <1>1, <1>2, <1>3, HasLeast
<1>5. Min(D) = m
  <2>1. Min(D) \in D /\ \A y \in D : Min(D) <= y
    BY <1>4 DEF Min
  <2>2. m \in Int /\ Min(D) \in Int /\ m <= Min(D) /\ Min(D) <= m
    BY <1>1, <1>2, <1>4, <2>1
  <2> QED
    BY <2>2
<1>6. m \in GpuIds /\ m \in Int /\ \A x \in GpuIds : x < m => (x \in s <=> x \in t)
  BY <1>1, <1>2, <1>4
<1>7. m \in s => ComesFirst(s, t)
  BY <1>1, <1>4, <1>6 DEF ComesFirst
<1>8. m \in t => ComesFirst(t, s)
  BY <1>1, <1>4, <1>6 DEF ComesFirst
<1>9. m \in s \/ m \in t
  BY <1>1, <1>4, <1>6
<1>10. ASSUME ComesFirst(s, t) PROVE m \in s
  <2>1. PICK k \in s : k \notin t /\ \A x \in GpuIds : x < k => (x \in s <=> x \in t)
    BY <1>10 DEF ComesFirst
  <2>2. k \in D /\ k \in Int
    BY <1>1, <1>2, <2>1
  <2>3. m <= k
    BY <1>4, <2>2
  <2>4. m < k => FALSE
    BY <1>1, <1>4, <1>6, <2>1
  <2> QED
    BY <1>6, <2>1, <2>2, <2>3, <2>4
<1> QED
  BY <1>5, <1>7, <1>8, <1>9, <1>10 DEF D

\* Coming first is a strict order.
LEMMA FirstOrder ==
  ASSUME NEW s \in SUBSET GpuIds, NEW t \in SUBSET GpuIds
  PROVE  /\ ComesFirst(s, t) => s # t /\ ~ComesFirst(t, s)
         /\ \A u \in SUBSET GpuIds : ComesFirst(s, t) /\ ComesFirst(t, u) => ComesFirst(s, u)
<1>1. GpuIds \subseteq Int
  BY GpuAssumption
<1>2. ASSUME ComesFirst(s, t), ComesFirst(t, s) PROVE FALSE
  <2>1. PICK a \in s : a \notin t /\ \A x \in GpuIds : x < a => (x \in s <=> x \in t)
    BY <1>2 DEF ComesFirst
  <2>2. PICK b \in t : b \notin s /\ \A x \in GpuIds : x < b => (x \in s <=> x \in t)
    BY <1>2 DEF ComesFirst
  <2>3. a \in Int /\ b \in Int /\ a \in GpuIds /\ b \in GpuIds
    BY <1>1
  <2> QED
    BY <2>1, <2>2, <2>3
<1>3. ASSUME NEW u \in SUBSET GpuIds, ComesFirst(s, t), ComesFirst(t, u) PROVE ComesFirst(s, u)
  <2>1. PICK a \in s : a \notin t /\ \A x \in GpuIds : x < a => (x \in s <=> x \in t)
    BY <1>3 DEF ComesFirst
  <2>2. PICK b \in t : b \notin u /\ \A x \in GpuIds : x < b => (x \in t <=> x \in u)
    BY <1>3 DEF ComesFirst
  <2>3. a \in Int /\ b \in Int /\ a \in GpuIds /\ b \in GpuIds
    BY <1>1
  <2>4. CASE a < b
    <3>1. a \notin u /\ \A x \in GpuIds : x < a => (x \in s <=> x \in u)
      BY <1>1, <2>1, <2>2, <2>3, <2>4
    <3> QED
      BY <3>1 DEF ComesFirst
  <2>5. CASE b < a
    <3>1. b \in s /\ b \notin u /\ \A x \in GpuIds : x < b => (x \in s <=> x \in u)
      BY <1>1, <2>1, <2>2, <2>3, <2>5
    <3> QED
      BY <3>1 DEF ComesFirst
  <2>6. a # b
    BY <2>1, <2>2
  <2> QED
    BY <2>3, <2>4, <2>5, <2>6
<1>4. ComesFirst(s, t) => s # t
  BY DEF ComesFirst
<1> QED
  BY <1>2, <1>3, <1>4

\* So the search among finitely many sets has a best one: it never comes back empty ...
LEMMA BestSetsExist ==
  ASSUME NEW key, IsFiniteSet(DOMAIN key), DOMAIN key # {},
         NEW n \in Nat, \A s \in DOMAIN key : key[s] \in [1..n -> Int],
         \A s \in DOMAIN key : s \subseteq GpuIds
  PROVE  BestSets(key) # {}
<1> DEFINE S == DOMAIN key
           Under(s, t) == Precedes(key[s], key[t]) \/ (key[s] = key[t] /\ ComesFirst(s, t))
           R == { p \in S \X S : Under(p[1], p[2]) }
<1>1. \A s, t \in S : << s, t >> \in R <=> Under(s, t)
  OBVIOUS
<1>2. \A s \in S : ~Under(s, s)
  BY PrecedesOrder, FirstOrder
<1>3. ASSUME NEW s \in S, NEW t \in S, NEW u \in S, Under(s, t), Under(t, u)
      PROVE  Under(s, u)
  <2>1. /\ key[s] \in [1..n -> Int] /\ key[t] \in [1..n -> Int] /\ key[u] \in [1..n -> Int]
        /\ s \in SUBSET GpuIds /\ t \in SUBSET GpuIds /\ u \in SUBSET GpuIds
    OBVIOUS
  <2>2. Precedes(key[s], key[t]) /\ Precedes(key[t], key[u]) => Precedes(key[s], key[u])
    BY <2>1, PrecedesOrder
  <2>3. ComesFirst(s, t) /\ ComesFirst(t, u) => ComesFirst(s, u)
    BY <2>1, FirstOrder
  <2> QED
    BY <1>3, <2>2, <2>3
<1>4. PICK s \in S : \A t \in S : ~Under(t, s)
  <2>1. /\ \A x \in S : << x, x >> \notin R
        /\ \A x, y, z \in S : << x, y >> \in R /\ << y, z >> \in R => << x, z >> \in R
    BY <1>1, <1>2, <1>3
  <2>2. IsFiniteSet(S) /\ S # {}
    OBVIOUS
  <2>3. \E x \in S : \A y \in S : << y, x >> \notin R
    <3> HIDE DEF R, S
    <3> QED
      BY <2>1, <2>2, HasFirst
  <2> QED
    BY <1>1, <2>3
<1>5. ASSUME NEW t \in S \ {s}
      PROVE  \/ Precedes(key[s], key[t])
             \/ key[s] = key[t] /\ Min(SymDiff(s, t)) \in s
  <2>1. /\ key[s] \in [1..n -> Int] /\ key[t] \in [1..n -> Int]
        /\ s \in SUBSET GpuIds /\ t \in SUBSET GpuIds /\ s # t
    OBVIOUS
  <2>2. ~Precedes(key[t], key[s]) /\ (key[t] = key[s] => ~ComesFirst(t, s))
    BY <1>4
  <2>3. key[s] # key[t] => Precedes(key[s], key[t]) \/ Precedes(key[t], key[s])
    BY <2>1, PrecedesOrder
  <2>4. (Min(SymDiff(s, t)) \in s <=> ComesFirst(s, t)) /\ (ComesFirst(s, t) \/ ComesFirst(t, s))
    BY <2>1, TieBroken
  <2> QED
    BY <2>2, <2>3, <2>4
<1> QED
  BY <1>5 DEF BestSets

\* ... and no key among those searched precedes that of the best one.
LEMMA BestSetsBest ==
  ASSUME NEW key, NEW n \in Nat, \A s \in DOMAIN key : key[s] \in [1..n -> Int],
         NEW s \in BestSets(key), NEW t \in DOMAIN key
  PROVE  ~Precedes(key[t], key[s])
<1>1. s \in DOMAIN key
  BY DEF BestSets
<1>2. CASE t = s
  BY <1>1, <1>2, PrecedesOrder
<1>3. CASE t # s
  <2>1. Precedes(key[s], key[t]) \/ key[s] = key[t]
    BY <1>3 DEF BestSets
  <2> QED
    BY <1>1, <2>1, PrecedesOrder
<1> QED
  BY <1>2, <1>3

\* The fold that adds up the classes of some links is the sum of a function, about which
\* SetFacts has the lemmas ...
LEMMA RankSum ==
  ASSUME NEW S, IsFiniteSet(S), \A x \in S : RankOf(x) \in Int
  PROVE  MapThenSumSet(RankOf, S) = SumFunction([x \in S |-> RankOf(x)])
<1> DEFINE f == [x \in S |-> RankOf(x)]
           P(h) == h = [s \in SUBSET S |->
                           IF s = {} THEN 0
                           ELSE RankOf(CHOOSE x \in s : TRUE) + h[s \ {CHOOSE x \in s : TRUE}]]
           it == CHOOSE h : P(h)
<1>1. \A h : P(h) <=> Sums(h, f, S)
  <2>1. \A s \in SUBSET S : s # {} => f[CHOOSE x \in s : TRUE] = RankOf(CHOOSE x \in s : TRUE)
    OBVIOUS
  <2> QED
    BY <2>1 DEF Sums, AnyOf
<1>2. P(it)
  <2>1. PICK h : Sums(h, f, S)
    BY SumsExist
  <2>2. P(h)
    BY <1>1, <2>1
  <2> HIDE DEF P
  <2> QED
    BY <2>2, Zenon
<1>3. MapThenSumSet(RankOf, S) = it[S]
  BY DEF MapThenSumSet, MapThenFoldSet
<1>4. DOMAIN f = S
  OBVIOUS
<1>5. Sums(it, f, S)
  BY <1>1, <1>2
<1> HIDE DEF it, f
<1>6. PICK h : Sums(h, f, S) /\ SumFunction(f) = h[S]
  BY <1>4, SumOf
<1>7. h[S] = it[S]
  BY <1>5, <1>6, SumsAgree
<1> QED
  BY <1>3, <1>6, <1>7 DEF f

\* ... and so is the one that adds up their lanes.
LEMMA LanesSum ==
  ASSUME NEW S, IsFiniteSet(S), \A x \in S : LanesOf(x) \in Int
  PROVE  MapThenSumSet(LanesOf, S) = SumFunction([x \in S |-> LanesOf(x)])
<1> DEFINE f == [x \in S |-> LanesOf(x)]
           P(h) == h = [s \in SUBSET S |->
                           IF s = {} THEN 0
                           ELSE LanesOf(CHOOSE x \in s : TRUE) + h[s \ {CHOOSE x \in s : TRUE}]]
           it == CHOOSE h : P(h)
<1>1. \A h : P(h) <=> Sums(h, f, S)
  <2>1. \A s \in SUBSET S : s # {} => f[CHOOSE x \in s : TRUE] = LanesOf(CHOOSE x \in s : TRUE)
    OBVIOUS
  <2> QED
    BY <2>1 DEF Sums, AnyOf
<1>2. P(it)
  <2>1. PICK h : Sums(h, f, S)
    BY SumsExist
  <2>2. P(h)
    BY <1>1, <2>1
  <2> HIDE DEF P
  <2> QED
    BY <2>2, Zenon
<1>3. MapThenSumSet(LanesOf, S) = it[S]
  BY DEF MapThenSumSet, MapThenFoldSet
<1>4. DOMAIN f = S
  OBVIOUS
<1>5. Sums(it, f, S)
  BY <1>1, <1>2
<1> HIDE DEF it, f
<1>6. PICK h : Sums(h, f, S) /\ SumFunction(f) = h[S]
  BY <1>4, SumOf
<1>7. h[S] = it[S]
  BY <1>5, <1>6, SumsAgree
<1> QED
  BY <1>3, <1>6, <1>7 DEF f

\* The links of a group are finitely many, each of a known class and of some lanes.
LEMMA PairsKnown ==
  ASSUME NEW s \in SUBSET GpuIds
  PROVE  /\ IsFiniteSet(s) /\ IsFiniteSet(kSubset(2, s))
         /\ \A pair \in kSubset(2, s) : RankOf(pair) \in 0..UnknownRank /\ LanesOf(pair) \in Nat
         /\ \A a, b \in s : a # b => {a, b} \in kSubset(2, s)
<1>1. IsFiniteSet(s)
  BY GpuAssumption, FS_Subset
<1>2. IsFiniteSet(kSubset(2, s))
  <2>1. kSubset(2, s) \subseteq SUBSET s
    BY DEF kSubset
  <2>2. IsFiniteSet(SUBSET s)
    BY <1>1, FS_SUBSET
  <2> QED
    BY <2>1, <2>2, FS_Subset
<1>3. \A pair : RankOf(pair) \in 0..UnknownRank /\ LanesOf(pair) \in Nat
  BY GpuAssumption DEF RankOf, LanesOf, UnknownRank
<1>4. ASSUME NEW a \in s, NEW b \in s, a # b PROVE {a, b} \in kSubset(2, s)
  <2>1. IsFiniteSet({a}) /\ Cardinality({a}) = 1
    BY FS_Singleton
  <2>2. Cardinality({a} \cup {b}) = Cardinality({a}) + 1
    BY <1>4, <2>1, FS_AddElement
  <2>3. {a} \cup {b} = {a, b}
    OBVIOUS
  <2> QED
    BY <2>1, <2>2, <2>3 DEF kSubset
<1> QED
  BY <1>1, <1>2, <1>3, <1>4

\* A quality is three numbers, the first of which is the class of the worst link.
LEMMA QualityParts ==
  ASSUME NEW s \in SUBSET GpuIds
  PROVE  /\ Quality(s) \in [1..3 -> Int] /\ Quality(s)[1] \in 0..UnknownRank
         /\ Quality(s) \in Seq(Int) /\ Len(Quality(s)) = 3
         /\ \A pair \in kSubset(2, s) : RankOf(pair) <= Quality(s)[1]
         /\ \A level \in Nat : (\A pair \in kSubset(2, s) : RankOf(pair) <= level)
                                 => Quality(s)[1] <= level
<1> DEFINE pairs == kSubset(2, s)
           ranks == { RankOf(pair) : pair \in pairs }
           worst == Max({0} \cup ranks)
<1>1. \A pair \in pairs : RankOf(pair) \in 0..UnknownRank /\ LanesOf(pair) \in Nat
  BY PairsKnown
<1>2. IsFiniteSet({0} \cup ranks) /\ {0} \cup ranks \subseteq 0..UnknownRank
  <2> DEFINE f == [pair \in pairs |-> RankOf(pair)]
  <2>1. ranks = { f[pair] : pair \in pairs } /\ DOMAIN f = pairs
    OBVIOUS
  <2>2. IsFiniteSet(pairs)
    BY PairsKnown
  <2>3. IsFiniteSet({ f[pair] : pair \in pairs })
    <3> HIDE DEF f, pairs
    <3> QED
      BY <2>1, <2>2, FiniteImage
  <2>4. ranks \subseteq 0..UnknownRank /\ 0 \in 0..UnknownRank
    BY <1>1 DEF UnknownRank
  <2> HIDE DEF ranks, f
  <2>5. IsFiniteSet(ranks \cup {0}) /\ ranks \cup {0} = {0} \cup ranks
    BY <2>1, <2>3, FS_AddElement
  <2> QED
    BY <2>4, <2>5
<1>3. worst \in {0} \cup ranks /\ \A x \in {0} \cup ranks : x <= worst
  <2> DEFINE all == {0} \cup ranks
  <2>1. IsFiniteSet(all) /\ all # {} /\ \A z \in all : z \in Int
    BY <1>2
  <2> HIDE DEF all
  <2>2. \E x \in all : \A y \in all : y <= x
    BY <2>1, HasGreatest
  <2>3. \E x \in all : \A y \in all : x >= y
    BY <2>1, <2>2
  <2>4. Max(all) \in all /\ \A y \in all : Max(all) >= y
    BY <2>3 DEF Max
  <2>5. \A y \in all : y <= Max(all)
    BY <2>1, <2>4
  <2> QED
    BY <2>4, <2>5 DEF all
<1>4. MapThenSumSet(RankOf, pairs) \in Int /\ MapThenSumSet(LanesOf, pairs) \in Int
  <2> DEFINE f == [pair \in pairs |-> RankOf(pair)]
             g == [pair \in pairs |-> LanesOf(pair)]
  <2>1. /\ IsFiniteSet(pairs) /\ DOMAIN f = pairs /\ DOMAIN g = pairs
        /\ \A pair \in pairs : /\ RankOf(pair) \in Int /\ LanesOf(pair) \in Int
                               /\ f[pair] \in Int /\ g[pair] \in Int
    BY <1>1, PairsKnown
  <2> HIDE DEF pairs
  <2>2. MapThenSumSet(RankOf, pairs) = SumFunction(f)
    BY <2>1, RankSum
  <2>3. MapThenSumSet(LanesOf, pairs) = SumFunction(g)
    BY <2>1, LanesSum
  <2> HIDE DEF f, g
  <2> QED
    BY <2>1, <2>2, <2>3, SumInt
<1>5. Quality(s) = << worst, MapThenSumSet(RankOf, pairs), -MapThenSumSet(LanesOf, pairs) >>
  BY DEF Quality
<1>6. worst \in 0..UnknownRank
  BY <1>2, <1>3
<1>7. \A pair \in pairs : RankOf(pair) <= worst
  BY <1>3
<1>8. ASSUME NEW level \in Nat, \A pair \in pairs : RankOf(pair) <= level PROVE worst <= level
  BY <1>3, <1>8
<1> HIDE DEF worst, pairs
<1>9. /\ Quality(s)[1] = worst /\ Quality(s) \in [1..3 -> Int]
      /\ Quality(s) \in Seq(Int) /\ Len(Quality(s)) = 3
  BY <1>4, <1>5, <1>6
<1> QED
  BY <1>6, <1>7, <1>8, <1>9 DEF pairs

(***************************************************************************)
(* A group whose links are no worse than a level lies in one island of that  *)
(* level: the least closed set around one of its members.                    *)
(***************************************************************************)
LEMMA IslandAround ==
  ASSUME NEW free \in SUBSET GpuIds, NEW level \in Int, NEW s \in SUBSET free, s # {},
         \A pair \in kSubset(2, s) : RankOf(pair) <= level
  PROVE  \E i \in Islands(free, level) : s \subseteq i
<1> DEFINE Closed(u) == u # {} /\ \A a \in u, b \in free \ u : RankOf({a, b}) > level
<1>1. Islands(free, level) = { u \in SUBSET free : Closed(u)
                                 /\ \A t \in SUBSET free : Closed(t) /\ t \subseteq u => t = u }
  BY DEF Islands
<1>2. PICK a \in s : TRUE
  OBVIOUS
<1> DEFINE F == { u \in SUBSET free : Closed(u) /\ a \in u }
<1>3. PICK i \in F : \A u \in F : u \subseteq i => u = i
  <2>1. free \in F
    BY <1>2
  <2>2. IsFiniteSet(free) /\ \A u \in F : u \subseteq free
    BY GpuAssumption, FS_Subset
  <2> HIDE DEF F
  <2> QED
    BY <2>1, <2>2, LeastSubset
<1>4. s \subseteq i
  <2>1. ASSUME NEW b \in s, b \notin i PROVE FALSE
    <3>1. RankOf({a, b}) > level
      BY <2>1
    <3>2. {a, b} \in kSubset(2, s)
      BY <2>1, PairsKnown
    <3>3. RankOf({a, b}) <= level /\ RankOf({a, b}) \in Int
      BY <3>2, PairsKnown
    <3> QED
      BY <3>1, <3>3
  <2> QED
    BY <2>1
<1>5. ASSUME NEW t \in SUBSET free, Closed(t), t \subseteq i, t # i PROVE FALSE
  <2>1. a \notin t
    BY <1>3, <1>5
  <2> DEFINE u == i \ t
  <2>2. \A x \in u, y \in free \ u : RankOf({x, y}) > level
    <3>1. TAKE x \in u, y \in free \ u
    <3>2. CASE y \notin i
      BY <3>2
    <3>3. CASE y \in t
      <4>1. RankOf({y, x}) > level
        BY <1>5, <3>3
      <4>2. {y, x} = {x, y}
        OBVIOUS
      <4> QED
        BY <4>1, <4>2
    <3> QED
      BY <3>2, <3>3
  <2>3. u \in F
    BY <2>1, <2>2
  <2>4. u = i
    BY <1>3, <2>3
  <2> QED
    BY <1>5, <2>4
<1> QED
  BY <1>1, <1>3, <1>4, <1>5

\* "No better than" is transitive.
LEMMA NoWorse ==
  ASSUME NEW n \in Nat, NEW a \in [1..n -> Int], NEW b \in [1..n -> Int], NEW c \in [1..n -> Int],
         ~Precedes(a, b), ~Precedes(b, c)
  PROVE  ~Precedes(a, c)
  BY PrecedesOrder

\* A number appended to three leaves the three as they are ...
LEMMA AppendOne ==
  ASSUME NEW a \in Seq(Int), Len(a) = 3, NEW x \in Int
  PROVE  /\ a \o << x >> \in Seq(Int) /\ Len(a \o << x >>) = 4
         /\ \A j \in 1..3 : (a \o << x >>)[j] = a[j]
<1>1. << x >> \in Seq(Int) /\ Len(<< x >>) = 1
  OBVIOUS
<1>2. ASSUME NEW d \in Seq(Int), Len(d) = 1
      PROVE  /\ a \o d \in Seq(Int) /\ Len(a \o d) = 4
             /\ \A j \in 1..3 : (a \o d)[j] = a[j]
  <2>1. a \o d \in Seq(Int)
    BY ConcatProperties, Zenon
  <2>2. Len(a \o d) = Len(a) + Len(d)
    BY ConcatProperties, Zenon
  <2>3. \A i \in 1 .. Len(a) + Len(d) : (a \o d)[i] = IF i <= Len(a) THEN a[i] ELSE d[i - Len(a)]
    BY ConcatProperties, Zenon
  <2>4. Len(a) + Len(d) = 4
    BY <1>2
  <2>5. ASSUME NEW j \in 1..3 PROVE (a \o d)[j] = a[j]
    <3>1. j \in 1..(Len(a) + Len(d)) /\ j <= Len(a)
      BY <2>4
    <3> QED
      BY <2>3, <3>1, Zenon
  <2> QED
    BY <2>1, <2>2, <2>4, <2>5, Zenon
<1> QED
  BY <1>1, <1>2, Zenon

\* ... and does not change which of two keys precedes.
LEMMA AppendKeepsOrder ==
  ASSUME NEW a \in Seq(Int), NEW b \in Seq(Int), Len(a) = 3, Len(b) = 3,
         NEW x \in Int, NEW y \in Int
  PROVE  /\ a \o << x >> \in [1..4 -> Int]
         /\ Precedes(a, b) => Precedes(a \o << x >>, b \o << y >>)
<1> DEFINE u == a \o << x >>
           v == b \o << y >>
<1>1. /\ u \in Seq(Int) /\ Len(u) = 4 /\ v \in Seq(Int)
      /\ \A j \in 1..3 : u[j] = a[j] /\ v[j] = b[j]
  BY AppendOne, Zenon
<1> HIDE DEF u, v
<1>2. DOMAIN u = 1..4 /\ DOMAIN a = 1..3 /\ u \in [1..4 -> Int]
  BY <1>1, LenProperties
<1>3. ASSUME Precedes(a, b) PROVE Precedes(u, v)
  <2>1. PICK i \in 1..3 : a[i] < b[i] /\ \A j \in 1..(i - 1) : a[j] = b[j]
    BY <1>2, <1>3 DEF Precedes
  <2>2. u[i] < v[i] /\ \A j \in 1..(i - 1) : u[j] = v[j]
    BY <1>1, <2>1
  <2> QED
    BY <1>2, <2>1, <2>2 DEF Precedes
<1> QED
  BY <1>2, <1>3 DEF u, v

\* The search within an island finds a group when the island is wide enough, and the best.
LEMMA WithinBest ==
  ASSUME NEW island \in SUBSET GpuIds, NEW count \in Nat
  PROVE  /\ WithinIsland(island, count) \subseteq kSubset(count, island)
         /\ kSubset(count, island) # {} => WithinIsland(island, count) # {}
         /\ \A s \in WithinIsland(island, count), t \in kSubset(count, island) :
              ~Precedes(Quality(t), Quality(s))
<1> DEFINE S == kSubset(count, island)
           key == [s \in S |-> Quality(s)]
<1>1. WithinIsland(island, count) = BestSets(key)
  BY DEF WithinIsland
<1>2. DOMAIN key = S /\ IsFiniteSet(S) /\ \A s \in S : s \subseteq GpuIds /\ s \in SUBSET island
  <2>1. IsFiniteSet(SUBSET island)
    BY GpuAssumption, FS_Subset, FS_SUBSET
  <2>2. S \subseteq SUBSET island
    BY DEF kSubset
  <2> QED
    BY <2>1, <2>2, FS_Subset
<1>3. \A s \in S : key[s] = Quality(s) /\ key[s] \in [1..3 -> Int]
  BY <1>2, QualityParts
<1> HIDE DEF key, S
<1>4. BestSets(key) \subseteq S
  BY <1>2, BestSetsAmong
<1>5. S # {} => BestSets(key) # {}
  BY <1>2, <1>3, BestSetsExist
<1>6. \A s \in BestSets(key), t \in S : ~Precedes(key[t], key[s])
  <2>1. 3 \in Nat
    OBVIOUS
  <2> QED
    BY <1>2, <1>3, <2>1, BestSetsBest
<1> QED
  BY <1>1, <1>3, <1>4, <1>5, <1>6 DEF S

(***************************************************************************)
(* One level of the climb.  It returns groups of the size asked for, and     *)
(* when some group of that size has no link worse than the level, it returns *)
(* one, and nothing it returns is worse than that group: the group lies in   *)
(* an island, and the best of the island is among the picks.                *)
(***************************************************************************)
LEMMA PickAtBest ==
  ASSUME NEW free \in SUBSET GpuIds, NEW count \in Nat, NEW level \in Nat
  PROVE  /\ PickAt(free, count, level) \subseteq kSubset(count, free)
         /\ \A other \in kSubset(count, free) : other # {} /\ Quality(other)[1] <= level =>
              /\ PickAt(free, count, level) # {}
              /\ \A s \in PickAt(free, count, level) : ~Precedes(Quality(other), Quality(s))
<1> DEFINE roomy == { i \in Islands(free, level) : Cardinality(i) >= count }
           picks == UNION { WithinIsland(i, count) : i \in roomy }
           size(s) == Cardinality(CHOOSE i \in roomy : s \subseteq i)
           key == [s \in picks |-> Quality(s) \o << size(s) >>]
<1>1. PickAt(free, count, level) = BestSets(key) /\ DOMAIN key = picks
  BY DEF PickAt
<1>2. \A i \in roomy : i \in SUBSET free /\ i \in SUBSET GpuIds /\ IsFiniteSet(i)
  BY GpuAssumption, FS_Subset DEF Islands
<1>3. ASSUME NEW s \in picks
      PROVE  /\ s \in kSubset(count, free) /\ s \in SUBSET free /\ s \in SUBSET GpuIds
             /\ size(s) \in Int
  <2>1. PICK i \in roomy : s \in WithinIsland(i, count)
    OBVIOUS
  <2>2. s \in kSubset(count, i)
    BY <1>2, <2>1, WithinBest
  <2>3. s \subseteq i /\ s \in kSubset(count, free)
    BY <1>2, <2>1, <2>2 DEF kSubset
  <2>4. (CHOOSE j \in roomy : s \subseteq j) \in roomy
    BY <2>1, <2>3
  <2>5. size(s) \in Nat
    BY <1>2, <2>4, FS_CardinalityType
  <2> HIDE DEF picks, roomy, size
  <2> QED
    BY <2>3, <2>5 DEF kSubset
<1>4. IsFiniteSet(picks)
  <2>1. IsFiniteSet(SUBSET free)
    BY GpuAssumption, FS_Subset, FS_SUBSET
  <2>2. picks \subseteq SUBSET free
    BY <1>3
  <2> HIDE DEF picks
  <2> QED
    BY <2>1, <2>2, FS_Subset
<1>5. ASSUME NEW other \in kSubset(count, free), other # {}, Quality(other)[1] <= level
      PROVE  \E w \in picks : ~Precedes(Quality(other), Quality(w))
  <2>1. other \in SUBSET free /\ other \in SUBSET GpuIds /\ Cardinality(other) = count
    BY DEF kSubset
  <2>2. \A pair \in kSubset(2, other) : RankOf(pair) <= level
    <3>1. TAKE pair \in kSubset(2, other)
    <3>2. /\ RankOf(pair) <= Quality(other)[1] /\ Quality(other)[1] \in 0..UnknownRank
          /\ RankOf(pair) \in 0..UnknownRank
      BY <2>1, <3>1, QualityParts, PairsKnown
    <3> QED
      BY <1>5, <3>2
  <2>3. PICK i \in Islands(free, level) : other \subseteq i
    BY <1>5, <2>1, <2>2, IslandAround
  <2>4. i \in SUBSET free /\ i \in SUBSET GpuIds /\ IsFiniteSet(i)
    BY <2>3, GpuAssumption, FS_Subset DEF Islands
  <2>5. i \in roomy
    <3>1. Cardinality(other) <= Cardinality(i) /\ Cardinality(i) \in Nat
      BY <2>3, <2>4, FS_Subset, FS_CardinalityType
    <3> QED
      BY <2>1, <3>1
  <2>6. other \in kSubset(count, i)
    BY <2>1, <2>3 DEF kSubset
  <2>7. PICK w \in WithinIsland(i, count) : TRUE
    BY <2>4, <2>6, WithinBest
  <2>8. ~Precedes(Quality(other), Quality(w))
    BY <2>4, <2>6, <2>7, WithinBest
  <2> QED
    BY <2>5, <2>7, <2>8
<1>6. ASSUME NEW s \in picks, NEW w \in picks, Precedes(Quality(w), Quality(s))
      PROVE  Precedes(key[w], key[s])
  <2>1. s \in SUBSET GpuIds /\ w \in SUBSET GpuIds /\ size(s) \in Int /\ size(w) \in Int
    BY <1>3
  <2>2. /\ Quality(s) \in Seq(Int) /\ Len(Quality(s)) = 3
        /\ Quality(w) \in Seq(Int) /\ Len(Quality(w)) = 3
    BY <2>1, QualityParts
  <2>3. key[s] = Quality(s) \o << size(s) >> /\ key[w] = Quality(w) \o << size(w) >>
    OBVIOUS
  <2> HIDE DEF key, size
  <2> QED
    BY <1>6, <2>1, <2>2, <2>3, AppendKeepsOrder
<1>7. \A s \in picks : key[s] \in [1..4 -> Int]
  <2>1. TAKE s \in picks
  <2>2. s \in SUBSET GpuIds /\ size(s) \in Int
    BY <1>3
  <2>3. Quality(s) \in Seq(Int) /\ Len(Quality(s)) = 3
    BY <2>2, QualityParts
  <2>4. key[s] = Quality(s) \o << size(s) >>
    OBVIOUS
  <2> HIDE DEF key, size, picks
  <2> QED
    BY <2>2, <2>3, <2>4, AppendKeepsOrder
<1> HIDE DEF key, picks, roomy
<1>8. BestSets(key) \subseteq picks
  BY <1>1, BestSetsAmong
<1>9. ASSUME NEW other \in kSubset(count, free), other # {}, Quality(other)[1] <= level
      PROVE  /\ BestSets(key) # {}
             /\ \A s \in BestSets(key) : ~Precedes(Quality(other), Quality(s))
  <2>1. PICK w \in picks : ~Precedes(Quality(other), Quality(w))
    BY <1>5, <1>9
  <2>2. 4 \in Nat /\ \A s \in DOMAIN key : s \subseteq GpuIds
    BY <1>1, <1>3
  <2>3. BestSets(key) # {}
    BY <1>1, <1>4, <1>7, <2>1, <2>2, BestSetsExist
  <2>4. ASSUME NEW s \in BestSets(key) PROVE ~Precedes(Quality(other), Quality(s))
    <3>1. s \in picks /\ ~Precedes(key[w], key[s])
      BY <1>1, <1>7, <1>8, <2>2, BestSetsBest
    <3>2. ~Precedes(Quality(w), Quality(s))
      BY <1>6, <3>1
    <3>3. other \in SUBSET GpuIds /\ w \in SUBSET GpuIds /\ s \in SUBSET GpuIds
      BY <1>3, <3>1 DEF kSubset
    <3>4. /\ Quality(other) \in [1..3 -> Int] /\ Quality(w) \in [1..3 -> Int]
          /\ Quality(s) \in [1..3 -> Int] /\ 3 \in Nat
      BY <3>3, QualityParts
    <3> QED
      BY <2>1, <3>2, <3>4, NoWorse
  <2> QED
    BY <2>3, <2>4
<1> QED
  BY <1>1, <1>3, <1>8, <1>9

(***************************************************************************)
(* The climb finds a group whenever there are GPUs enough, and no group of    *)
(* that size is better connected than the one it finds.                     *)
(***************************************************************************)
LEMMA ClosestBest ==
  ASSUME NEW free \in SUBSET GpuIds, NEW count \in Nat \ {0}, count <= Cardinality(free)
  PROVE  /\ ClosestGpus(free, count) # {}
         /\ ClosestGpus(free, count) \subseteq kSubset(count, free)
         /\ \A s \in ClosestGpus(free, count), other \in kSubset(count, free) :
              ~Precedes(Quality(other), Quality(s))
<1>1. IsFiniteSet(free) /\ Cardinality(free) \in Nat /\ \A x \in free : x \in Int
  <2>1. IsFiniteSet(free)
    BY GpuAssumption, FS_Subset
  <2>2. \A x \in free : x \in Int
    BY GpuAssumption
  <2> QED
    BY <2>1, <2>2, FS_CardinalityType
<1>2. CASE count >= Cardinality(free)
  <2>1. ClosestGpus(free, count) = { free } /\ Cardinality(free) = count
    BY <1>1, <1>2 DEF ClosestGpus
  <2>2. \A other \in kSubset(count, free) : other = free
    BY <1>1, <2>1, FS_Subset DEF kSubset
  <2>3. Quality(free) \in [1..3 -> Int] /\ 3 \in Nat
    BY QualityParts
  <2>4. ~Precedes(Quality(free), Quality(free))
    BY <2>3, PrecedesOrder
  <2> QED
    BY <2>1, <2>2, <2>4 DEF kSubset
<1>3. CASE ~(count >= Cardinality(free))
  <2> DEFINE L == { l \in 0..UnknownRank : Delivers(free, count, l) # {} }
             open == { l \in 0..UnknownRank : \A m \in 0..(l - 1) : Delivers(free, count, m) = {} }
  <2>1. ClosestGpus(free, count) = UNION { Delivers(free, count, level) : level \in open }
    BY <1>3 DEF ClosestGpus
  <2>2. \A l \in 0..UnknownRank : Delivers(free, count, l) \subseteq kSubset(count, free)
    BY PickAtBest DEF Delivers
  <2>3. \A s \in kSubset(count, free) : /\ Quality(s) \in [1..3 -> Int]
                                        /\ Quality(s)[1] \in 0..UnknownRank /\ s # {}
    <3>1. TAKE s \in kSubset(count, free)
    <3>2. s \in SUBSET GpuIds /\ Cardinality(s) = count
      BY <3>1 DEF kSubset
    <3> QED
      BY <3>2, QualityParts, FS_EmptySet
  <2>4. kSubset(count, free) # {}
    BY <1>1, LowestOnes
  <2>5. L # {}
    <3>1. PICK other \in kSubset(count, free) : TRUE
      BY <2>4
    <3>2. other # {} /\ Quality(other)[1] <= UnknownRank /\ UnknownRank \in Nat
      BY <2>3 DEF UnknownRank
    <3>3. PICK s \in PickAt(free, count, UnknownRank) : TRUE
      BY <3>2, PickAtBest
    <3>4. s \in kSubset(count, free)
      BY <3>2, PickAtBest
    <3>5. s \in Delivers(free, count, UnknownRank)
      BY <2>3, <3>4 DEF Delivers
    <3> QED
      BY <3>2, <3>5
  <2>6. PICK l \in L : \A m \in L : l <= m
    <3>1. L \subseteq 0..UnknownRank /\ UnknownRank \in Int /\ 0 \in Int
      BY DEF UnknownRank
    <3>2. IsFiniteSet(0..UnknownRank)
      BY <3>1, FS_Interval
    <3>3. IsFiniteSet(L) /\ \A m \in L : m \in Int
      BY <3>1, <3>2, FS_Subset
    <3> HIDE DEF L
    <3> QED
      BY <2>5, <3>3, HasLeast
  <2>7. l \in open
    <3>1. ASSUME NEW m \in 0..(l - 1) PROVE Delivers(free, count, m) = {}
      <4>1. m \in 0..UnknownRank /\ m < l
        BY <2>6 DEF UnknownRank
      <4> QED
        BY <2>6, <4>1
    <3> QED
      BY <2>6, <3>1
  <2>8. ASSUME NEW s \in ClosestGpus(free, count)
        PROVE  /\ s \in kSubset(count, free)
               /\ \A other \in kSubset(count, free) : ~Precedes(Quality(other), Quality(s))
    <3> SUFFICES ASSUME NEW other \in kSubset(count, free)
                 PROVE  /\ s \in kSubset(count, free)
                        /\ ~Precedes(Quality(other), Quality(s))
      BY <2>4
    <3>1. PICK level \in open : s \in Delivers(free, count, level)
      BY <2>1
    <3>2. /\ level \in Nat /\ s \in PickAt(free, count, level) /\ Quality(s)[1] <= level
          /\ s \in kSubset(count, free)
      BY <2>2, <3>1 DEF Delivers
    <3>3. CASE Quality(other)[1] <= level
      BY <2>3, <3>2, <3>3, PickAtBest
    <3>4. CASE ~(Quality(other)[1] <= level)
      <4>1. /\ Quality(s) \in [1..3 -> Int] /\ Quality(other) \in [1..3 -> Int]
            /\ Quality(s)[1] < Quality(other)[1] /\ 3 \in Nat
        BY <2>3, <3>2, <3>4 DEF UnknownRank
      <4>2. Precedes(Quality(s), Quality(other))
        BY <4>1 DEF Precedes
      <4>3. ~Precedes(Quality(other), Quality(s))
        BY <4>1, <4>2, PrecedesOrder
      <4> QED
        BY <3>2, <4>3
    <3> QED
      BY <3>2, <3>3, <3>4
  <2>9. ClosestGpus(free, count) # {}
    <3>1. PICK s \in Delivers(free, count, l) : TRUE
      BY <2>6
    <3> QED
      BY <2>1, <2>7, <3>1
  <2> HIDE DEF L, open
  <2> QED
    BY <2>8, <2>9
<1> QED
  BY <1>2, <1>3

\* A sum of the same number over and over is a product.
LEMMA SumSame ==
  ASSUME NEW f, IsFiniteSet(DOMAIN f), NEW c \in Int, \A x \in DOMAIN f : f[x] = c
  PROVE  SumFunction(f) = c * Cardinality(DOMAIN f)
<1> DEFINE S == DOMAIN f
           g == [x \in S |-> {x}]
           one == [x \in S |-> Cardinality(g[x])]
<1>1. \A x \in S : IsFiniteSet({x}) /\ Cardinality({x}) = 1
  BY FS_Singleton
<1>2. \A x \in S : one[x] = 1 /\ IsFiniteSet(g[x])
  BY <1>1
<1>3. SumFunction(one) = Cardinality(S)
  <2>1. UNION { g[x] : x \in S } = S
    OBVIOUS
  <2>2. DOMAIN g = S /\ \A x, y \in S : x # y => g[x] \cap g[y] = {}
    OBVIOUS
  <2>3. \A x \in S : IsFiniteSet(g[x])
    BY <1>2
  <2> HIDE DEF g, S
  <2> QED
    BY <2>1, <2>2, <2>3, SumOfDisjoint DEF S
<1>4. DOMAIN one = S /\ IsFiniteSet(S) /\ Cardinality(S) \in Int /\ 1 \in Int
  BY FS_CardinalityType
<1> HIDE DEF one, S
<1>5. \A x \in S : f[x] \in Int /\ one[x] \in Int /\ 1 * f[x] <= c * one[x]
                    /\ c * one[x] <= 1 * f[x]
  <2>1. TAKE x \in S
  <2>2. f[x] = c /\ one[x] = 1
    BY <1>2 DEF S
  <2>3. 1 * c <= c * 1 /\ c * 1 <= 1 * c
    OBVIOUS
  <2> QED
    BY <2>2, <2>3
<1>6. 1 * SumFunction(f) <= c * SumFunction(one)
  BY <1>4, <1>5, SumDominated DEF S
<1>7. c * SumFunction(one) <= 1 * SumFunction(f)
  BY <1>4, <1>5, SumDominated DEF S
<1>8. SumFunction(f) \in Int
  BY <1>4, <1>5, SumInt DEF S
<1>9. c * Cardinality(S) \in Int
  BY <1>4
<1> QED
  BY <1>3, <1>6, <1>7, <1>8, <1>9 DEF S

\* As many GPUs have as many links between them.
LEMMA PairsOfSame ==
  ASSUME NEW s \in SUBSET GpuIds, NEW t \in SUBSET GpuIds, Cardinality(s) = Cardinality(t)
  PROVE  Cardinality(kSubset(2, s)) = Cardinality(kSubset(2, t))
<1>1. IsFiniteSet(s) /\ IsFiniteSet(t)
  BY PairsKnown
<1>2. PICK f \in Bijection(s, t) : TRUE
  BY <1>1, FS_SameCardinalityBij DEF ExistsBijection
<1> DEFINE F == [u \in SUBSET s |-> { f[x] : x \in u }]
           P == kSubset(2, s)
           Q == kSubset(2, t)
<1>3. /\ f \in [s -> t] /\ \A x, y \in s : f[x] = f[y] => x = y
      /\ \A y \in t : \E x \in s : f[x] = y
  BY <1>2 DEF Bijection, Injection, Surjection, IsInjective
<1>4. ASSUME NEW u \in SUBSET s
      PROVE  F[u] \in SUBSET t /\ Cardinality(F[u]) = Cardinality(u)
  <2>1. F[u] \in SUBSET t
    BY <1>3
  <2> DEFINE h == [x \in u |-> f[x]]
  <2>2. h \in Bijection(u, F[u])
    BY <1>3 DEF Bijection, Injection, Surjection, IsInjective
  <2>3. IsFiniteSet(u) /\ ExistsBijection(u, F[u])
    BY <1>1, <2>2, FS_Subset DEF ExistsBijection
  <2> QED
    BY <2>1, <2>3, FS_Bijection
<1>5. \A u \in P : F[u] \in Q
  BY <1>4 DEF kSubset
<1>6. ASSUME NEW u \in P, NEW v \in P, F[u] = F[v] PROVE u = v
  <2>1. u \subseteq s /\ v \subseteq s
    BY DEF kSubset
  <2>2. F[u] = { f[x] : x \in u } /\ F[v] = { f[x] : x \in v }
    BY <2>1
  <2> HIDE DEF F
  <2>3. ASSUME NEW x \in u PROVE x \in v
    <3>1. f[x] \in F[u] /\ F[u] = F[v]
      BY <1>6, <2>2
    <3>2. PICK y \in v : f[x] = f[y]
      BY <2>2, <3>1
    <3>3. x \in s /\ y \in s
      BY <2>1
    <3> QED
      BY <1>3, <3>2, <3>3
  <2>4. ASSUME NEW x \in v PROVE x \in u
    <3>1. f[x] \in F[v] /\ F[v] = F[u]
      BY <1>6, <2>2
    <3>2. PICK y \in u : f[x] = f[y]
      BY <2>2, <3>1
    <3>3. x \in s /\ y \in s
      BY <2>1
    <3> QED
      BY <1>3, <3>2, <3>3
  <2> QED
    BY <2>3, <2>4
<1>7. ASSUME NEW v \in Q PROVE \E u \in P : F[u] = v
  <2> DEFINE u == { x \in s : f[x] \in v }
  <2>1. v \subseteq t
    BY DEF kSubset
  <2>2. u \in SUBSET s /\ F[u] = v
    BY <1>3, <2>1
  <2>3. Cardinality(u) = 2
    BY <1>4, <2>2 DEF kSubset
  <2> QED
    BY <2>2, <2>3 DEF kSubset
<1> DEFINE G == [u \in P |-> F[u]]
<1>8. G \in Bijection(P, Q)
  <2> HIDE DEF F
  <2> QED
    BY <1>5, <1>6, <1>7 DEF Bijection, Injection, Surjection, IsInjective
<1>9. ExistsBijection(P, Q) /\ IsFiniteSet(P)
  BY <1>8, PairsKnown DEF ExistsBijection
<1> QED
  BY <1>9, FS_Bijection

\* Where nothing is known of the wiring, groups of one size are equally good.
LEMMA Unwired ==
  ASSUME ~TopologyKnown, NEW s \in SUBSET GpuIds, NEW t \in SUBSET GpuIds,
         Cardinality(s) = Cardinality(t)
  PROVE  Quality(s) = Quality(t)
<1>1. \A pair : RankOf(pair) = UnknownRank /\ LanesOf(pair) = 0
  BY DEF TopologyKnown, RankOf, LanesOf
<1>2. ASSUME NEW u \in SUBSET GpuIds
      PROVE  /\ MapThenSumSet(RankOf, kSubset(2, u)) = UnknownRank * Cardinality(kSubset(2, u))
             /\ MapThenSumSet(LanesOf, kSubset(2, u)) = 0
             /\ { RankOf(p) : p \in kSubset(2, u) }
                   = IF Cardinality(kSubset(2, u)) = 0 THEN {} ELSE {UnknownRank}
  <2> DEFINE pairs == kSubset(2, u)
             f == [pair \in pairs |-> RankOf(pair)]
             g == [pair \in pairs |-> LanesOf(pair)]
  <2>1. IsFiniteSet(pairs) /\ \A pair \in pairs : RankOf(pair) \in Int /\ LanesOf(pair) \in Int
    BY PairsKnown DEF UnknownRank
  <2>2. /\ DOMAIN f = pairs /\ \A pair \in pairs : f[pair] = UnknownRank
        /\ DOMAIN g = pairs /\ \A pair \in pairs : g[pair] = 0
    BY <1>1
  <2>3. { RankOf(p) : p \in pairs } = IF pairs = {} THEN {} ELSE {UnknownRank}
    BY <1>1
  <2> HIDE DEF pairs
  <2>4. MapThenSumSet(RankOf, pairs) = SumFunction(f)
    BY <2>1, RankSum
  <2>5. MapThenSumSet(LanesOf, pairs) = SumFunction(g)
    BY <2>1, LanesSum
  <2>6. Cardinality(pairs) = 0 <=> pairs = {}
    BY <2>1, FS_EmptySet
  <2> HIDE DEF f, g
  <2>7. SumFunction(f) = UnknownRank * Cardinality(pairs)
    BY <2>1, <2>2, SumSame DEF UnknownRank
  <2>8. SumFunction(g) = 0 * Cardinality(pairs) /\ Cardinality(pairs) \in Int
    BY <2>1, <2>2, SumSame, FS_CardinalityType
  <2>9. 0 * Cardinality(pairs) = 0
    BY <2>8
  <2>10. { RankOf(p) : p \in pairs } = IF Cardinality(pairs) = 0 THEN {} ELSE {UnknownRank}
    BY <2>3, <2>6
  <2>11. /\ MapThenSumSet(RankOf, pairs) = UnknownRank * Cardinality(pairs)
         /\ MapThenSumSet(LanesOf, pairs) = 0
    BY <2>4, <2>5, <2>7, <2>8, <2>9
  <2> QED
    BY <2>10, <2>11, Zenon DEF pairs
<1>3. Cardinality(kSubset(2, s)) = Cardinality(kSubset(2, t))
  BY PairsOfSame
<1>4. { RankOf(p) : p \in kSubset(2, s) } = { RankOf(p) : p \in kSubset(2, t) }
  BY <1>2, <1>3
<1>5. /\ MapThenSumSet(RankOf, kSubset(2, s)) = MapThenSumSet(RankOf, kSubset(2, t))
      /\ MapThenSumSet(LanesOf, kSubset(2, s)) = MapThenSumSet(LanesOf, kSubset(2, t))
  BY <1>2, <1>3
<1> QED
  BY <1>4, <1>5, Zenon DEF Quality

-----------------------------------------------------------------------------
(***************************************************************************)
(* When there is a plan: which GPUs, cpus and memory a request finds.       *)
(***************************************************************************)

(***************************************************************************)
(* Whether a request that does not ask for its GPUs on one node finds GPUs:  *)
(* enough of them, and when it names a floor, a group that keeps to it.      *)
(***************************************************************************)
GpusFit(free, r) ==
  /\ r.gpus <= Cardinality(free)
  /\ r.gpus > 0 /\ TopologyKnown /\ r.floor # NoFloor =>
       \E s \in kSubset(r.gpus, free) : Quality(s)[1] <= r.floor

\* GPUs are picked exactly when enough are free that meet the floor.
LEMMA PicksExist ==
  ASSUME NEW p \in Pool, NEW r \in Request, ~r.localGpu, NEW search \in BOOLEAN
  PROVE  PickGpus(p, r, search) # {} <=> GpusFit(p.gpus, r)
<1> DEFINE pools == { s \in GpuPools(p, r) : Cardinality(s) >= r.gpus }
           close == UNION { ClosestGpus(s, r.gpus) : s \in pools }
           key == [s \in close |-> Quality(s)]
<1>1. /\ p.gpus \in SUBSET GpuIds /\ r.gpus \in Nat /\ r.floor \in Int
      /\ IsFiniteSet(p.gpus) /\ Cardinality(p.gpus) \in Nat /\ \A x \in p.gpus : x \in Int
  <2>1. p.gpus \in SUBSET GpuIds /\ r.gpus \in Nat /\ r.floor \in Int
    BY DEF Pool, Request, UnknownRank, NoFloor
  <2>2. IsFiniteSet(p.gpus)
    BY <2>1, GpuAssumption, FS_Subset
  <2>3. GpuIds \subseteq Int
    BY GpuAssumption
  <2> QED
    BY <2>1, <2>2, <2>3, FS_CardinalityType
<1>2. pools = IF r.gpus <= Cardinality(p.gpus) THEN { p.gpus } ELSE {}
  <2>1. GpuPools(p, r) = { p.gpus }
    BY DEF GpuPools
  <2> QED
    BY <1>1, <2>1
<1>3. CASE r.gpus = 0 \/ ~TopologyKnown \/ (~search /\ r.floor = NoFloor)
  <2>1. PickGpus(p, r, search) = UNION { LowestGpus(s, r.gpus) : s \in LowestPool(pools) }
    BY <1>3 DEF PickGpus
  <2>2. GpusFit(p.gpus, r) <=> r.gpus <= Cardinality(p.gpus)
    BY <1>1, <1>3 DEF GpusFit
  <2>3. CASE r.gpus <= Cardinality(p.gpus)
    <3>1. LowestPool(pools) = { p.gpus }
      BY <1>2, <2>3 DEF LowestPool
    <3>2. LowestGpus(p.gpus, r.gpus) # {}
      <4>1. \E s \in kSubset(r.gpus, p.gpus) : \A x \in s, y \in p.gpus \ s : x < y
        BY <1>1, <2>3, LowestOnes
      <4> QED
        BY <4>1 DEF LowestGpus
    <3> QED
      BY <2>1, <2>2, <2>3, <3>1, <3>2
  <2>4. CASE ~(r.gpus <= Cardinality(p.gpus))
    <3>1. LowestPool(pools) = {}
      BY <1>2, <2>4 DEF LowestPool
    <3> QED
      BY <2>1, <2>2, <2>4, <3>1
  <2> QED
    BY <2>3, <2>4
<1>4. CASE ~(r.gpus = 0 \/ ~TopologyKnown \/ (~search /\ r.floor = NoFloor))
  <2>1. PickGpus(p, r, search) =
          { s \in BestSets(key) : r.floor # NoFloor => Quality(s)[1] <= r.floor }
    BY <1>4 DEF PickGpus
  <2>2. CASE ~(r.gpus <= Cardinality(p.gpus))
    <3>1. close = {}
      BY <1>2, <2>2
    <3>2. BestSets(key) = {}
      BY <3>1 DEF BestSets
    <3> QED
      BY <2>1, <2>2, <3>2 DEF GpusFit
  <2>3. CASE r.gpus <= Cardinality(p.gpus)
    <3>1. close = ClosestGpus(p.gpus, r.gpus) /\ r.gpus \in Nat \ {0}
      BY <1>1, <1>2, <1>4, <2>3
    <3>2. /\ close # {} /\ close \subseteq kSubset(r.gpus, p.gpus)
          /\ \A s \in close, other \in kSubset(r.gpus, p.gpus) :
                ~Precedes(Quality(other), Quality(s))
      BY <1>1, <2>3, <3>1, ClosestBest
    <3>3. \A s \in kSubset(r.gpus, p.gpus) :
            s \in SUBSET GpuIds /\ s \in SUBSET p.gpus /\ Quality(s) \in [1..3 -> Int]
            /\ Quality(s)[1] \in Int
      <4>1. TAKE s \in kSubset(r.gpus, p.gpus)
      <4>2. s \in SUBSET GpuIds /\ s \in SUBSET p.gpus
        BY <1>1, <4>1 DEF kSubset
      <4> QED
        BY <4>2, QualityParts DEF UnknownRank
    <3>4. IsFiniteSet(close)
      <4>1. IsFiniteSet(SUBSET p.gpus) /\ close \subseteq SUBSET p.gpus
        BY <1>1, <3>2, <3>3, FS_SUBSET
      <4> QED
        BY <4>1, FS_Subset
    <3>5. BestSets(key) # {} /\ BestSets(key) \subseteq close
      <4>1. /\ DOMAIN key = close /\ \A s \in close : key[s] \in [1..3 -> Int] /\ s \subseteq GpuIds
            /\ 3 \in Nat
        BY <3>2, <3>3
      <4> HIDE DEF key, close
      <4> QED
        BY <3>2, <3>4, <4>1, BestSetsExist, BestSetsAmong
    <3> HIDE DEF key, close
    <3>6. CASE r.floor = NoFloor
      BY <2>1, <2>3, <3>5, <3>6 DEF GpusFit
    <3>7. CASE r.floor # NoFloor
      <4>1. ASSUME NEW s \in PickGpus(p, r, search) PROVE GpusFit(p.gpus, r)
        BY <2>1, <2>3, <3>2, <3>5, <3>7, <4>1 DEF GpusFit
      <4>2. ASSUME GpusFit(p.gpus, r) PROVE PickGpus(p, r, search) # {}
        <5>1. PICK other \in kSubset(r.gpus, p.gpus) : Quality(other)[1] <= r.floor
          BY <1>1, <1>4, <3>7, <4>2 DEF GpusFit
        <5>2. PICK s \in BestSets(key) : s \in kSubset(r.gpus, p.gpus) /\ s \in close
          BY <3>2, <3>5
        <5>3. ~(Quality(other)[1] < Quality(s)[1])
          <6>1. ~Precedes(Quality(other), Quality(s)) /\ DOMAIN Quality(other) = 1..3
            BY <3>2, <3>3, <5>2
          <6> QED
            BY <6>1 DEF Precedes
        <5>4. Quality(s)[1] <= r.floor
          BY <1>1, <3>3, <5>1, <5>2, <5>3
        <5> QED
          BY <2>1, <5>2, <5>4
      <4> QED
        BY <4>1, <4>2
    <3> QED
      BY <3>6, <3>7
  <2> QED
    BY <2>2, <2>3
<1> QED
  BY <1>3, <1>4

(***************************************************************************)
(* The group a request gets: none of its size that it may draw from is       *)
(* better connected, on one node or anywhere.                               *)
(***************************************************************************)
LEMMA PickIsBest ==
  ASSUME NEW p \in Pool, NEW r \in Request, NEW gpus \in PickGpus(p, r, TRUE),
         NEW free \in GpuPools(p, r), NEW other \in kSubset(r.gpus, free)
  PROVE  ~Precedes(Quality(other), Quality(gpus))
<1> DEFINE pools == { s \in GpuPools(p, r) : Cardinality(s) >= r.gpus }
           close == UNION { ClosestGpus(s, r.gpus) : s \in pools }
           key == [s \in close |-> Quality(s)]
<1>1. /\ r.gpus \in Nat
      /\ \A s \in GpuPools(p, r) : s \in SUBSET GpuIds /\ IsFiniteSet(s)
  <2>1. p.gpus \in SUBSET GpuIds /\ r.gpus \in Nat
    BY DEF Pool, Request
  <2>2. \A s \in GpuPools(p, r) : s \in SUBSET GpuIds
    BY <2>1 DEF GpuPools, GpusOn
  <2> QED
    BY <2>1, <2>2, GpuAssumption, FS_Subset
<1>2. other \in SUBSET free /\ other \in SUBSET GpuIds /\ Cardinality(other) = r.gpus
  BY <1>1 DEF kSubset
<1>3. CASE r.gpus = 0 \/ ~TopologyKnown
  <2>1. PICK s \in LowestPool(pools) : gpus \in LowestGpus(s, r.gpus)
    BY <1>3 DEF PickGpus
  <2>2. s \in GpuPools(p, r)
    BY <2>1 DEF LowestPool
  <2>3. gpus \in SUBSET GpuIds /\ Cardinality(gpus) = r.gpus /\ IsFiniteSet(gpus)
    <3>1. gpus \in SUBSET s /\ Cardinality(gpus) = r.gpus
      BY <2>1 DEF LowestGpus, kSubset
    <3> QED
      BY <1>1, <2>2, <3>1, FS_Subset
  <2>4. Quality(other) = Quality(gpus)
    <3>1. CASE r.gpus = 0
      <4>1. other = {} /\ gpus = {}
        BY <1>1, <1>2, <2>3, <3>1, FS_Subset, FS_EmptySet
      <4> QED
        BY <4>1
    <3>2. CASE ~TopologyKnown
      BY <1>2, <2>3, <3>2, Unwired
    <3> QED
      BY <1>3, <3>1, <3>2
  <2>5. Quality(gpus) \in [1..3 -> Int] /\ 3 \in Nat
    BY <2>3, QualityParts
  <2> QED
    BY <2>4, <2>5, PrecedesOrder
<1>4. CASE ~(r.gpus = 0 \/ ~TopologyKnown)
  <2>1. gpus \in BestSets(key)
    BY <1>4 DEF PickGpus
  <2>2. \A s \in pools : ClosestGpus(s, r.gpus) # {}
                         /\ ClosestGpus(s, r.gpus) \subseteq kSubset(r.gpus, s)
    <3>1. TAKE s \in pools
    <3>2. s \in SUBSET GpuIds /\ Cardinality(s) \in Nat /\ r.gpus <= Cardinality(s)
          /\ r.gpus \in Nat \ {0}
      BY <1>1, <1>4, FS_CardinalityType
    <3> QED
      BY <3>2, ClosestBest
  <2>3. \A s \in close : s \in SUBSET GpuIds /\ Quality(s) \in [1..3 -> Int]
    <3>1. TAKE s \in close
    <3>2. PICK t \in pools : s \in ClosestGpus(t, r.gpus)
      OBVIOUS
    <3>3. s \in kSubset(r.gpus, t) /\ t \in SUBSET GpuIds
      BY <1>1, <2>2, <3>2
    <3>4. s \in SUBSET GpuIds
      BY <3>3 DEF kSubset
    <3> QED
      BY <3>4, QualityParts
  <2>4. free \in pools /\ r.gpus \in Nat \ {0} /\ r.gpus <= Cardinality(free)
        /\ free \in SUBSET GpuIds
    <3>1. Cardinality(other) <= Cardinality(free) /\ Cardinality(free) \in Nat
      BY <1>1, <1>2, FS_Subset, FS_CardinalityType
    <3> QED
      BY <1>1, <1>2, <1>4, <3>1
  <2>5. PICK w \in ClosestGpus(free, r.gpus) : TRUE
    BY <2>2, <2>4
  <2>6. ~Precedes(Quality(other), Quality(w)) /\ w \in close
    BY <2>4, <2>5, ClosestBest
  <2>7. /\ DOMAIN key = close /\ \A s \in close : key[s] = Quality(s) /\ key[s] \in [1..3 -> Int]
        /\ 3 \in Nat
    BY <2>3
  <2> HIDE DEF key, close
  <2>8. ~Precedes(key[w], key[gpus]) /\ gpus \in close
    BY <2>1, <2>6, <2>7, BestSetsBest, BestSetsAmong
  <2>9. Quality(other) \in [1..3 -> Int]
    BY <1>2, QualityParts
  <2>10. Quality(w) \in [1..3 -> Int] /\ Quality(gpus) \in [1..3 -> Int]
         /\ ~Precedes(Quality(w), Quality(gpus))
    BY <2>6, <2>7, <2>8
  <2> QED
    BY <2>6, <2>9, <2>10, NoWorse
<1> QED
  BY <1>3, <1>4

\* The machine has finitely many cpus.
LEMMA AllCpusFinite == IsFiniteSet(AllCpus)
<1>1. IsFiniteSet({ NodeCpus[n] : n \in Nodes })
  BY MachineAssumption, FiniteImage DEF Nodes
<1>2. \A s \in { NodeCpus[n] : n \in Nodes } : IsFiniteSet(s)
  BY MachineAssumption
<1> QED
  BY <1>1, <1>2, FS_UNION DEF AllCpus

\* Every cpu is on a node.
LEMMA NodeOfCpu ==
  ASSUME NEW c \in AllCpus
  PROVE  c \in Int /\ NodeOf(c) \in Nodes /\ NodeOf(c) \in Int /\ c \in NodeCpus[NodeOf(c)]
<1>1. \E n \in Nodes : c \in NodeCpus[n]
  BY DEF AllCpus
<1>2. NodeOf(c) \in Nodes /\ c \in NodeCpus[NodeOf(c)]
  BY <1>1 DEF NodeOf
<1>3. Nodes \subseteq Int /\ \A n \in Nodes : NodeCpus[n] \subseteq Int
  BY MachineAssumption
<1> QED
  BY <1>2, <1>3

\* Drawing from the nodes in order finds its cpus exactly when there are enough.
LEMMA FirstCpusExist ==
  ASSUME NEW cpus \in SUBSET AllCpus, NEW k \in Nat
  PROVE  FirstCpus(cpus, k) # {} <=> k <= Cardinality(cpus)
<1>1. IsFiniteSet(cpus) /\ Cardinality(cpus) \in Nat
  BY AllCpusFinite, FS_Subset, FS_CardinalityType
<1>2. ASSUME NEW s \in FirstCpus(cpus, k) PROVE k <= Cardinality(cpus)
  <2>1. s \in SUBSET cpus /\ Cardinality(s) = k
    BY DEF FirstCpus, kSubset
  <2> QED
    BY <1>1, <2>1, FS_Subset
<1>3. ASSUME k <= Cardinality(cpus) PROVE FirstCpus(cpus, k) # {}
  <2> DEFINE Under(a, b) == NodeOf(a) < NodeOf(b) \/ (NodeOf(a) = NodeOf(b) /\ a < b)
             R == { q \in cpus \X cpus : Under(q[1], q[2]) }
  <2>1. \A a, b \in cpus : << a, b >> \in R <=> Under(a, b)
    OBVIOUS
  <2>2. \A a \in cpus : a \in Int /\ NodeOf(a) \in Int
    BY NodeOfCpu
  <2>3. /\ \A a \in cpus : ~Under(a, a)
        /\ \A a, b, c \in cpus : Under(a, b) /\ Under(b, c) => Under(a, c)
        /\ \A a, b \in cpus : a # b => Under(a, b) \/ Under(b, a)
    BY <2>2
  <2>4. \E s \in kSubset(k, cpus) : \A x \in s, y \in cpus \ s : << x, y >> \in R
    <3>1. Orders(R, cpus)
      <4> HIDE DEF R, Under
      <4> QED
        BY <2>1, <2>3 DEF Orders
    <3> HIDE DEF R
    <3> QED
      BY <1>1, <1>3, <3>1, FirstOnes
  <2>5. PICK s \in kSubset(k, cpus) : \A x \in s, y \in cpus \ s : << x, y >> \in R
    BY <2>4
  <2>6. s \subseteq cpus
    BY DEF kSubset
  <2>7. \A a \in s, b \in cpus \ s : Under(a, b)
    <3> HIDE DEF R, Under
    <3> QED
      BY <2>1, <2>5, <2>6
  <2> QED
    BY <2>7 DEF FirstCpus
<1> QED
  BY <1>2, <1>3

\* One of some nodes comes first when their keys differ.
LEMMA ForemostExists ==
  ASSUME NEW key, IsFiniteSet(DOMAIN key), DOMAIN key # {},
         NEW k \in Nat, \A n \in DOMAIN key : key[n] \in [1..k -> Int],
         \A m, n \in DOMAIN key : m # n => key[m] # key[n]
  PROVE  Foremost(key) # {}
<1> DEFINE S == DOMAIN key
           R == { q \in S \X S : Precedes(key[q[1]], key[q[2]]) }
<1>1. \A m, n \in S : << m, n >> \in R <=> Precedes(key[m], key[n])
  OBVIOUS
<1>2. /\ \A n \in S : << n, n >> \notin R
      /\ \A i, m, n \in S : << i, m >> \in R /\ << m, n >> \in R => << i, n >> \in R
  BY <1>1, PrecedesOrder
<1>3. PICK n \in S : \A m \in S : << m, n >> \notin R
  <2> HIDE DEF S, R
  <2> QED
    BY <1>2, HasFirst DEF S
<1>4. ASSUME NEW m \in S \ {n} PROVE Precedes(key[n], key[m])
  <2>1. ~Precedes(key[m], key[n])
    BY <1>1, <1>3
  <2>2. key[m] \in [1..k -> Int] /\ key[n] \in [1..k -> Int] /\ key[m] # key[n]
    OBVIOUS
  <2> QED
    BY <2>1, <2>2, PrecedesOrder
<1> QED
  BY <1>4 DEF Foremost

(***************************************************************************)
(* A home node is found when some node has the cpus, and the memory too when *)
(* the budget must not leave it; and the one found is such a node.           *)
(***************************************************************************)
MayHost(p, n, r) ==
  Cardinality(p.cpus[n]) >= r.cpu /\ (r.localMem => FitsLocally(p, n, r.mem))

\* A home node is found exactly when some node may host the job.
LEMMA HomeExists ==
  ASSUME NEW p \in Pool, NEW r \in Request, NEW candidates \in SUBSET Nodes, NEW near
  PROVE  /\ HomeNode(p, r, candidates, near) # {} <=> \E n \in candidates : MayHost(p, n, r)
         /\ \A n \in HomeNode(p, r, candidates, near) : n \in candidates /\ MayHost(p, n, r)
<1> DEFINE whole == { n \in candidates : Cardinality(p.cpus[n]) >= r.cpu }
           local == { n \in whole : FitsLocally(p, n, r.mem) }
           near1 == [n \in local |-> << IF n \in near THEN 0 ELSE 1, Cardinality(p.cpus[n]),
                                        p.mem[MemKey(n)], n >>]
           rich1 == [n \in whole |-> << -p.mem[MemKey(n)], Cardinality(p.cpus[n]), n >>]
<1>1. HomeNode(p, r, candidates, near) =
        IF local # {} THEN Foremost(near1) ELSE IF r.localMem THEN {} ELSE Foremost(rich1)
  BY DEF HomeNode
<1>2. \A n \in candidates : /\ n \in Int /\ Cardinality(p.cpus[n]) \in Int
                            /\ p.mem[MemKey(n)] \in Int
  <2>1. TAKE n \in candidates
  <2>2. n \in Nodes /\ n \in Int /\ MemKey(n) \in Domains
    BY MachineAssumption DEF MemKey, Domains
  <2>3. p.mem[MemKey(n)] \in Nat /\ p.cpus[n] \in SUBSET AllCpus
    BY <2>2 DEF Pool
  <2>4. Cardinality(p.cpus[n]) \in Nat
    BY <2>3, AllCpusFinite, FS_Subset, FS_CardinalityType
  <2> QED
    BY <2>2, <2>3, <2>4
<1>3. IsFiniteSet(whole) /\ IsFiniteSet(local)
  BY MachineAssumption, FS_Subset
<1>4. local # {} => Foremost(near1) # {}
  <2>1. /\ DOMAIN near1 = local /\ \A n \in local : near1[n] \in [1..4 -> Int] /\ near1[n][4] = n
    BY <1>2
  <2>2. 4 \in Nat /\ \A m, n \in local : m # n => near1[m] # near1[n]
    BY <2>1
  <2> HIDE DEF near1, local
  <2> QED
    BY <1>3, <2>1, <2>2, ForemostExists
<1>5. whole # {} => Foremost(rich1) # {}
  <2>1. /\ DOMAIN rich1 = whole /\ \A n \in whole : rich1[n] \in [1..3 -> Int] /\ rich1[n][3] = n
    BY <1>2
  <2>2. 3 \in Nat /\ \A m, n \in whole : m # n => rich1[m] # rich1[n]
    BY <2>1
  <2> HIDE DEF rich1, whole
  <2> QED
    BY <1>3, <2>1, <2>2, ForemostExists
<1>6. Foremost(near1) \subseteq local /\ Foremost(rich1) \subseteq whole
  BY DEF Foremost
<1> HIDE DEF near1, rich1
<1>7. \A n \in local : n \in candidates /\ MayHost(p, n, r)
  BY DEF MayHost
<1>8. ~r.localMem => \A n \in whole : n \in candidates /\ MayHost(p, n, r)
  BY DEF MayHost
<1>9. \A n \in candidates : MayHost(p, n, r) => n \in whole /\ (r.localMem => n \in local)
  BY DEF MayHost
<1> HIDE DEF whole, local
<1>10. \A n \in HomeNode(p, r, candidates, near) : n \in candidates /\ MayHost(p, n, r)
  BY <1>1, <1>6, <1>7, <1>8
<1>11. (\E n \in candidates : MayHost(p, n, r)) => HomeNode(p, r, candidates, near) # {}
  BY <1>1, <1>4, <1>5, <1>9
<1> QED
  BY <1>10, <1>11

\* The memory domains are finitely many numbers, and every node is charged to one.
LEMMA DomainsKnown ==
  /\ IsFiniteSet(Domains) /\ Domains \subseteq Int
  /\ \A n \in Nodes : MemKey(n) \in Domains
<1>1. IsFiniteSet(Domains)
  BY MachineAssumption, FS_Singleton DEF Domains
<1>2. Domains \subseteq Int /\ \A n \in Nodes : MemKey(n) \in Domains
  BY MachineAssumption DEF Domains, SharedMem, MemKey
<1> QED
  BY <1>1, <1>2

\* A budget draws on the domains in a strict order that leaves no two of them open.
LEMMA DrawOrder ==
  ASSUME NEW home \in Nodes
  PROVE  /\ \A i \in Domains : ~DrawnBefore(i, i, home)
         /\ \A i, j, k \in Domains : DrawnBefore(i, j, home) /\ DrawnBefore(j, k, home)
                                       => DrawnBefore(i, k, home)
         /\ \A i, j \in Domains : i # j => DrawnBefore(i, j, home) \/ DrawnBefore(j, i, home)
<1>1. Domains \subseteq Int /\ MemKey(home) \in Domains
  BY DomainsKnown
<1> DEFINE h == MemKey(home)
<1>2. \A i, j \in Domains :
        DrawnBefore(i, j, home) <=> j # i /\ (i = h \/ (j # h /\ i < j))
  BY DEF DrawnBefore
<1> HIDE DEF h
<1> QED
  BY <1>1, <1>2

(***************************************************************************)
(* The greedy charge.  The first domains that together hold the budget, no   *)
(* fewer would: all of them but the last are drained, and the last gives     *)
(* the rest.                                                               *)
(***************************************************************************)
LEMMA GreedyCharge ==
  ASSUME NEW mem \in [Domains -> Nat], NEW amount \in Nat \ {0}, NEW home \in Nodes,
         amount <= SumFunction(mem)
  PROVE  \E c \in [Domains -> 0..amount] :
           /\ SumFunction(c) = amount
           /\ \A k \in Domains : c[k] <= mem[k]
           /\ \A k \in Domains : c[k] > 0 =>
                \A i \in Domains : DrawnBefore(i, k, home) => c[i] = mem[i]
<1> DEFINE within(S) == [k \in S |-> mem[k]]
           F == { S \in SUBSET Domains :
                    /\ \A k \in S, i \in Domains : DrawnBefore(i, k, home) => i \in S
                    /\ amount <= SumFunction(within(S)) }
<1>1. IsFiniteSet(Domains) /\ DOMAIN mem = Domains
  BY DomainsKnown
<1>2. \A S \in SUBSET Domains :
        /\ IsFiniteSet(S) /\ DOMAIN within(S) = S /\ \A k \in S : within(S)[k] = mem[k]
        /\ \A k \in S : within(S)[k] \in Nat /\ mem[k] \in Nat
  BY <1>1, FS_Subset
<1>3. Domains \in F
  <2>1. within(Domains) = mem
    OBVIOUS
  <2> QED
    BY <2>1
<1>4. PICK S \in F : \A T \in F : T \subseteq S => T = S
  <2>1. \A T \in F : T \subseteq Domains
    OBVIOUS
  <2> HIDE DEF F
  <2> QED
    BY <1>1, <1>3, <2>1, LeastSubset
<1>5. /\ S \in SUBSET Domains /\ IsFiniteSet(S) /\ amount <= SumFunction(within(S))
      /\ \A k \in S, i \in Domains : DrawnBefore(i, k, home) => i \in S
  BY <1>2, <1>4
<1>6. S # {}
  <2>1. ASSUME S = {} PROVE FALSE
    <3>1. SumFunction(within(S)) = 0
      <4>1. DOMAIN within(S) = {}
        BY <2>1
      <4> QED
        BY <4>1, SumEmpty
    <3> QED
      BY <1>5, <3>1
  <2> QED
    BY <2>1
<1>7. PICK l \in S : \A k \in S : ~DrawnBefore(l, k, home)
  <2> DEFINE R == { q \in S \X S : DrawnBefore(q[2], q[1], home) }
  <2>1. \A i, k \in S : << i, k >> \in R <=> DrawnBefore(k, i, home)
    OBVIOUS
  <2>2. /\ \A i \in S : << i, i >> \notin R
        /\ \A i, j, k \in S : << i, j >> \in R /\ << j, k >> \in R => << i, k >> \in R
    BY <1>5, <2>1, DrawOrder
  <2>3. \E i \in S : \A k \in S : << k, i >> \notin R
    <3> HIDE DEF R
    <3> QED
      BY <1>5, <1>6, <2>2, HasFirst
  <2> QED
    BY <2>1, <2>3
<1> DEFINE T == S \ {l}
           rest == SumFunction(within(T))
           c == [k \in Domains |-> IF k \in T THEN mem[k] ELSE IF k = l THEN amount - rest ELSE 0]
<1>8. T \in SUBSET Domains /\ IsFiniteSet(T) /\ rest \in Nat /\ l \in Domains
  <2>1. T \in SUBSET Domains
    BY <1>5
  <2>2. /\ IsFiniteSet(DOMAIN within(T)) /\ \A k \in DOMAIN within(T) : within(T)[k] \in Nat
        /\ IsFiniteSet(T)
    BY <1>2, <2>1
  <2> HIDE DEF within, T
  <2> QED
    BY <1>5, <1>7, <2>1, <2>2, SumNat
<1>9. rest < amount
  <2>1. \A k \in T, i \in Domains : DrawnBefore(i, k, home) => i \in T
    BY <1>5, <1>7
  <2>2. ASSUME amount <= rest PROVE FALSE
    <3>1. T \in F
      BY <1>8, <2>1, <2>2
    <3>2. T = S
      BY <1>4, <3>1
    <3> QED
      BY <1>7, <3>2
  <2> HIDE DEF rest
  <2> QED
    BY <1>8, <2>2
<1>10. SumFunction(within(S)) = mem[l] + rest /\ mem[l] \in Nat
  <2>1. /\ IsFiniteSet(DOMAIN within(S)) /\ l \in DOMAIN within(S)
        /\ \A k \in DOMAIN within(S) : within(S)[k] \in Int
        /\ within(S)[l] = mem[l] /\ mem[l] \in Nat
    BY <1>2, <1>5, <1>7
  <2>2. within(T) = [k \in DOMAIN within(S) \ {l} |-> within(S)[k]]
    OBVIOUS
  <2> HIDE DEF within, T
  <2> QED
    BY <2>1, <2>2, SumPlus
<1>11. \A k \in T : mem[k] \in Nat /\ mem[k] <= rest
  <2>1. TAKE k \in T
  <2>2. /\ IsFiniteSet(DOMAIN within(T)) /\ k \in DOMAIN within(T)
        /\ \A i \in DOMAIN within(T) : within(T)[i] \in Nat
        /\ within(T)[k] = mem[k] /\ mem[k] \in Nat
    BY <1>2, <1>8
  <2> HIDE DEF within, T
  <2> QED
    BY <2>2, SumAtLeast
<1>12. amount - rest \in 0..amount /\ amount - rest <= mem[l]
  <2> HIDE DEF rest, within
  <2> QED
    BY <1>5, <1>8, <1>9, <1>10
<1>13. l \notin T /\ \A k \in Domains : mem[k] \in Nat
  OBVIOUS
<1>14. \A k \in Domains :
         /\ k \in T => c[k] = mem[k]
         /\ k = l => c[k] = amount - rest
         /\ k \notin T /\ k # l => c[k] = 0
  BY <1>13
<1>15. \A k \in Domains : c[k] \in 0..amount /\ c[k] <= mem[k]
  <2> HIDE DEF c, rest, T
  <2> QED
    BY <1>8, <1>9, <1>11, <1>12, <1>13, <1>14
<1>16. \A k \in Domains : c[k] \in Int
  <2> HIDE DEF c
  <2> QED
    BY <1>15
<1>17. SumFunction(c) = amount
  <2> DEFINE cs == [k \in S |-> c[k]]
             ct == [k \in T |-> cs[k]]
  <2>1. /\ DOMAIN c = Domains /\ IsFiniteSet(Domains)
        /\ S \in SUBSET Domains
    BY <1>1, <1>5
  <2>2. \A k \in Domains : c[k] \in Int
    BY <1>16
  <2>3. \A k \in Domains \ S : c[k] = 0
    BY <1>14, <1>7
  <2>4. /\ DOMAIN cs = S /\ l \in S /\ ct = [k \in S \ {l} |-> cs[k]]
        /\ \A k \in S : cs[k] = c[k]
    BY <1>7
  <2>5. ct = within(T)
    BY <1>8, <1>14
  <2> HIDE DEF c
  <2>6. SumFunction(c) = SumFunction(cs)
    BY <2>1, <2>2, <2>3, SumOutside
  <2> HIDE DEF cs, ct, within, T
  <2>7. SumFunction(cs) = cs[l] + SumFunction(ct)
    BY <1>5, <2>1, <2>2, <2>4, SumPlus
  <2>8. cs[l] = amount - rest
    BY <1>8, <1>14, <2>4
  <2> HIDE DEF rest
  <2>9. SumFunction(ct) = rest
    BY <2>5 DEF rest
  <2> QED
    BY <1>8, <2>6, <2>7, <2>8, <2>9
<1>18. ASSUME NEW k \in Domains, c[k] > 0, NEW i \in Domains, DrawnBefore(i, k, home)
       PROVE  c[i] = mem[i]
  <2>1. k \in S
    BY <1>7, <1>14, <1>18
  <2>2. i \in S /\ i # l
    BY <1>5, <1>7, <1>18, <2>1
  <2> QED
    BY <1>14, <2>2
<1>19. c \in [Domains -> 0..amount]
  BY <1>8, <1>15
<1> HIDE DEF c
<1> QED
  BY <1>15, <1>17, <1>18, <1>19

(***************************************************************************)
(* A budget can be charged exactly when the home node's domain holds it, or,  *)
(* unless the job asked to stay local, all domains together.                *)
(***************************************************************************)
LEMMA ChargeExists ==
  ASSUME NEW p \in Pool, NEW r \in Request, NEW home \in Nodes
  PROVE  Charges(p, r, home) # {} <=>
           (TracksMemory => IF r.localMem THEN r.mem <= p.mem[MemKey(home)]
                            ELSE r.mem <= SumFunction(p.mem))
<1>1. /\ r.mem \in Nat /\ p.mem \in [Domains -> Nat] /\ IsFiniteSet(Domains)
      /\ MemKey(home) \in Domains
  BY DomainsKnown DEF Request, Pool
<1>2. CASE ~TracksMemory
  BY <1>2 DEF Charges
<1>3. CASE TracksMemory
  <2> DEFINE h == MemKey(home)
             most == SumFunction(p.mem)
  <2>1. ASSUME NEW c \in Charges(p, r, home)
        PROVE  IF r.localMem THEN r.mem <= p.mem[h] ELSE r.mem <= most
    <3>1. /\ c \in [Domains -> 0..r.mem] /\ SumFunction(c) = r.mem
          /\ \A k \in Domains : c[k] <= p.mem[k]
          /\ r.localMem => \A k \in Domains \ {h} : c[k] = 0
      BY <1>3, <2>1 DEF Charges
    <3>2. CASE r.localMem
      <4>1. /\ IsFiniteSet(DOMAIN c) /\ h \in DOMAIN c /\ c[h] \in Int
            /\ \A k \in DOMAIN c \ {h} : c[k] = 0
        BY <1>1, <3>1, <3>2
      <4> HIDE DEF h
      <4>2. SumFunction(c) = c[h]
        BY <4>1, SumSingle
      <4> QED
        BY <1>1, <3>1, <3>2, <4>1, <4>2 DEF h
    <3>3. CASE ~r.localMem
      <4>1. /\ DOMAIN c = Domains /\ DOMAIN p.mem = Domains /\ 1 \in Int
            /\ \A k \in Domains : /\ c[k] \in Int /\ p.mem[k] \in Int
                                  /\ 1 * c[k] <= 1 * p.mem[k]
        BY <1>1, <3>1
      <4>2. 1 * SumFunction(c) <= 1 * SumFunction(p.mem)
        BY <1>1, <4>1, SumDominated
      <4>3. SumFunction(p.mem) \in Int
        BY <1>1, <4>1, SumInt
      <4> QED
        BY <1>1, <3>1, <3>3, <4>2, <4>3
    <3> QED
      BY <3>2, <3>3
  <2>2. ASSUME r.localMem, r.mem <= p.mem[h] PROVE Charges(p, r, home) # {}
    <3> DEFINE c == [k \in Domains |-> IF k = h THEN r.mem ELSE 0]
    <3>1. /\ c \in [Domains -> 0..r.mem] /\ DOMAIN c = Domains
          /\ \A k \in Domains \ {h} : c[k] = 0
          /\ c[h] = r.mem /\ \A k \in Domains : c[k] <= p.mem[k]
      BY <1>1, <2>2
    <3>2. SumFunction(c) = r.mem
      <4>1. h \in DOMAIN c /\ c[h] \in Int
        BY <1>1, <3>1
      <4> HIDE DEF c, h
      <4> QED
        BY <1>1, <3>1, <4>1, SumSingle
    <3>3. \A k \in Domains : c[k] > 0 => \A i \in Domains : ~DrawnBefore(i, k, home)
      <4>1. \A k \in Domains : c[k] > 0 => k = h
        OBVIOUS
      <4> QED
        BY <4>1 DEF DrawnBefore
    <3> HIDE DEF c
    <3>4. c \in Charges(p, r, home)
      BY <1>3, <3>1, <3>2, <3>3 DEF Charges
    <3> QED
      BY <3>4
  <2>3. ASSUME ~r.localMem, r.mem <= most PROVE Charges(p, r, home) # {}
    <3>1. CASE r.mem = 0
      <4> DEFINE c == [k \in Domains |-> 0]
      <4>1. SumFunction(c) = 0
        <5>1. /\ IsFiniteSet(DOMAIN c) /\ h \in DOMAIN c /\ c[h] = 0
              /\ \A y \in DOMAIN c \ {h} : c[y] = 0
          BY <1>1
        <5> HIDE DEF c, h
        <5> QED
          BY <5>1, SumSingle
      <4>2. /\ c \in [Domains -> 0..r.mem] /\ \A k \in Domains : c[k] <= p.mem[k]
            /\ \A k \in Domains : ~(c[k] > 0)
        BY <1>1, <3>1
      <4> HIDE DEF c
      <4>3. c \in Charges(p, r, home)
        BY <1>3, <2>3, <3>1, <4>1, <4>2 DEF Charges
      <4> QED
        BY <4>3
    <3>2. CASE r.mem # 0
      <4>1. PICK c \in [Domains -> 0..r.mem] :
              /\ SumFunction(c) = r.mem
              /\ \A k \in Domains : c[k] <= p.mem[k]
              /\ \A k \in Domains : c[k] > 0 =>
                   \A i \in Domains : DrawnBefore(i, k, home) => c[i] = p.mem[i]
        BY <1>1, <2>3, <3>2, GreedyCharge
      <4>2. c \in Charges(p, r, home)
        BY <1>3, <2>3, <4>1 DEF Charges
      <4> QED
        BY <4>2
    <3> QED
      BY <3>1, <3>2
  <2> HIDE DEF h, most
  <2>4. Charges(p, r, home) # {} <=> IF r.localMem THEN r.mem <= p.mem[h] ELSE r.mem <= most
    BY <2>1, <2>2, <2>3
  <2> QED
    BY <1>3, <2>4 DEF h, most
<1> QED
  BY <1>2, <1>3

(***************************************************************************)
(* Whether a request that does not ask for its GPUs on one node fits: a      *)
(* condition on what is free, with no choice left in it.                    *)
(***************************************************************************)
FreeCpus(p) == UNION { p.cpus[n] : n \in Nodes }

Fits(p, r) ==
  /\ ~p.exclusive /\ ~(r.exclusive /\ p.active > 0)
  /\ GpusFit(p.gpus, r)
  /\ IF MaxNodes(r) > 1
     THEN r.cpu <= Cardinality(FreeCpus(p))
     ELSE \E n \in Nodes : MayHost(p, n, r)
  /\ TracksMemory => r.localMem \/ r.mem <= SumFunction(p.mem)

\* Cpus are found when a node has them, or all nodes together for a job that may span
\* them; a budget that must not leave its node fits the nodes that are found.
LEMMA CpusExist ==
  ASSUME NEW p \in Pool, NEW r \in Request, NEW near
  PROVE  /\ PickCpus(p, r, Nodes, near) # {} <=>
              IF MaxNodes(r) > 1
              THEN r.cpu <= Cardinality(FreeCpus(p))
              ELSE \E n \in Nodes : MayHost(p, n, r)
         /\ \A pick \in PickCpus(p, r, Nodes, near) :
              /\ pick.nodes \in SUBSET Nodes /\ pick.nodes # {}
              /\ r.localMem => \A n \in pick.nodes : FitsLocally(p, n, r.mem)
<1>1. /\ r.cpu \in Nat /\ r.cpu > 0 /\ r.cpu \in Nat \ {0}
      /\ \A n \in Nodes : p.cpus[n] \in SUBSET AllCpus
  BY DEF Request, Pool
<1>2. FreeCpus(p) \in SUBSET AllCpus
  BY <1>1 DEF FreeCpus
<1>3. CASE MaxNodes(r) > 1
  <2> DEFINE spread(s) == [cpus |-> s, nodes |-> { n \in Nodes : s \cap p.cpus[n] # {} }]
  <2>1. PickCpus(p, r, Nodes, near) = { spread(s) : s \in FirstCpus(FreeCpus(p), r.cpu) }
    BY <1>3 DEF PickCpus, FreeCpus
  <2>2. FirstCpus(FreeCpus(p), r.cpu) # {} <=> r.cpu <= Cardinality(FreeCpus(p))
    BY <1>1, <1>2, FirstCpusExist
  <2>3. ~r.localMem
    BY <1>3 DEF MaxNodes
  <2>4. ASSUME NEW s \in FirstCpus(FreeCpus(p), r.cpu)
        PROVE  { n \in Nodes : s \cap p.cpus[n] # {} } # {}
    <3>1. s \in SUBSET FreeCpus(p) /\ Cardinality(s) = r.cpu
      BY DEF FirstCpus, kSubset
    <3>2. s # {}
      BY <1>1, <3>1, FS_EmptySet
    <3> QED
      BY <3>1, <3>2 DEF FreeCpus
  <2>5. \A pick \in PickCpus(p, r, Nodes, near) :
              /\ pick.nodes \in SUBSET Nodes /\ pick.nodes # {}
              /\ r.localMem => \A n \in pick.nodes : FitsLocally(p, n, r.mem)
    BY <2>1, <2>3, <2>4
  <2>6. PickCpus(p, r, Nodes, near) # {} <=> FirstCpus(FreeCpus(p), r.cpu) # {}
    <3> HIDE DEF spread
    <3> QED
      BY <2>1
  <2> QED
    BY <1>3, <2>2, <2>5, <2>6
<1>4. CASE ~(MaxNodes(r) > 1)
  <2> DEFINE home == HomeNode(p, r, Nodes, near)
             alone(n) == { [cpus |-> s, nodes |-> {n}] : s \in FirstCpus(p.cpus[n], r.cpu) }
  <2>1. PickCpus(p, r, Nodes, near) = UNION { alone(n) : n \in home }
    BY <1>4 DEF PickCpus
  <2>2. /\ home # {} <=> \E n \in Nodes : MayHost(p, n, r)
        /\ \A n \in home : n \in Nodes /\ MayHost(p, n, r)
    BY HomeExists
  <2>3. \A n \in home : alone(n) # {}
    <3>1. TAKE n \in home
    <3>2. n \in Nodes /\ Cardinality(p.cpus[n]) >= r.cpu /\ p.cpus[n] \in SUBSET AllCpus
      BY <1>1, <2>2 DEF MayHost
    <3>3. Cardinality(p.cpus[n]) \in Nat
      BY <3>2, AllCpusFinite, FS_Subset, FS_CardinalityType
    <3>4. FirstCpus(p.cpus[n], r.cpu) # {}
      BY <1>1, <3>2, <3>3, FirstCpusExist
    <3> QED
      BY <3>4
  <2>4. \A pick \in PickCpus(p, r, Nodes, near) : \E n \in home : pick.nodes = {n}
    BY <2>1
  <2>5. \A n \in home : n \in Nodes /\ (r.localMem => FitsLocally(p, n, r.mem))
    BY <2>2 DEF MayHost
  <2> HIDE DEF home, alone
  <2>6. PickCpus(p, r, Nodes, near) # {} <=> home # {}
    BY <2>1, <2>3
  <2>7. \A pick \in PickCpus(p, r, Nodes, near) :
              /\ pick.nodes \in SUBSET Nodes /\ pick.nodes # {}
              /\ r.localMem => \A n \in pick.nodes : FitsLocally(p, n, r.mem)
    BY <2>4, <2>5
  <2> QED
    BY <1>4, <2>2, <2>6, <2>7
<1> QED
  BY <1>3, <1>4

(***************************************************************************)
(* The decision is all or nothing and never gives up early: a request       *)
(* that does not ask for its GPUs on one node is placed exactly when it     *)
(* fits, whether or not close GPUs are searched for (_plan in               *)
(* resources.py).                                                           *)
(***************************************************************************)
THEOREM PlanExists ==
  ASSUME NEW p \in Pool, NEW r \in Request, ~r.localGpu, NEW search \in BOOLEAN
  PROVE  Plan(p, r, search) # {} <=> Fits(p, r)
<1> DEFINE refused == p.exclusive \/ (r.exclusive /\ p.active > 0)
                        \/ r.gpus > Cardinality(p.gpus)
           picks(g) == PickCpus(p, r, Candidates(r, NodesFor(g)), NodesFor(g))
           homes(pick) == { n \in pick.nodes : \A m \in pick.nodes : n <= m }
           memory == TracksMemory => r.localMem \/ r.mem <= SumFunction(p.mem)
           cpus == IF MaxNodes(r) > 1
                   THEN r.cpu <= Cardinality(FreeCpus(p))
                   ELSE \E n \in Nodes : MayHost(p, n, r)
<1>1. \A g : Candidates(r, NodesFor(g)) = Nodes
  BY DEF Candidates
<1>2. \A g : /\ picks(g) # {} <=> cpus
             /\ \A pick \in picks(g) :
                  /\ pick.nodes \in SUBSET Nodes /\ pick.nodes # {}
                  /\ r.localMem => \A n \in pick.nodes : FitsLocally(p, n, r.mem)
  BY <1>1, CpusExist
<1>3. \A pick : pick.nodes \in SUBSET Nodes /\ pick.nodes # {} =>
        homes(pick) # {} /\ homes(pick) \subseteq Nodes
  <2>1. TAKE pick
  <2>2. HAVE pick.nodes \in SUBSET Nodes /\ pick.nodes # {}
  <2>3. IsFiniteSet(pick.nodes) /\ pick.nodes \subseteq Int
    <3>1. pick.nodes \subseteq Nodes /\ IsFiniteSet(Nodes) /\ Nodes \subseteq Int
      BY <2>2, MachineAssumption
    <3> QED
      BY <3>1, FS_Subset
  <2>4. \E n \in pick.nodes : \A m \in pick.nodes : n <= m
    <3> DEFINE S == pick.nodes
    <3>1. IsFiniteSet(S) /\ (\A z \in S : z \in Int) /\ S # {}
      BY <2>2, <2>3
    <3> HIDE DEF S
    <3>2. \E n \in S : \A m \in S : n <= m
      BY <3>1, HasLeast
    <3> QED
      BY <3>2 DEF S
  <2> QED
    BY <2>2, <2>4
<1>4. \A home \in Nodes :
        (r.localMem => FitsLocally(p, home, r.mem)) => (Charges(p, r, home) # {} <=> memory)
  <2>1. TAKE home \in Nodes
  <2>2. Charges(p, r, home) # {} <=>
           (TracksMemory => IF r.localMem THEN r.mem <= p.mem[MemKey(home)]
                            ELSE r.mem <= SumFunction(p.mem))
    BY ChargeExists
  <2> QED
    BY <2>2 DEF FitsLocally
<1>5. \A g : \A pick \in picks(g) :
        /\ homes(pick) # {}
        /\ \A home \in homes(pick) : Charges(p, r, home) # {} <=> memory
  <2>1. TAKE g
  <2>2. TAKE pick \in picks(g)
  <2>3. /\ pick.nodes \in SUBSET Nodes /\ pick.nodes # {}
        /\ r.localMem => \A n \in pick.nodes : FitsLocally(p, n, r.mem)
    BY <1>2
  <2>4. homes(pick) # {} /\ homes(pick) \subseteq Nodes /\ homes(pick) \subseteq pick.nodes
    BY <1>3, <2>3
  <2> HIDE DEF homes, memory, picks
  <2> QED
    BY <1>4, <2>3, <2>4
<1>6. PickGpus(p, r, search) # {} <=> GpusFit(p.gpus, r)
  BY PicksExist
<1>7. GpusFit(p.gpus, r) => ~(r.gpus > Cardinality(p.gpus))
  <2>1. p.gpus \in SUBSET GpuIds /\ r.gpus \in Nat
    BY DEF Pool, Request
  <2>2. Cardinality(p.gpus) \in Nat
    BY <2>1, GpuAssumption, FS_Subset, FS_CardinalityType
  <2> QED
    BY <2>1, <2>2 DEF GpusFit
<1>8. Plan(p, r, search) # {} <=>
        /\ ~refused
        /\ \E gpus \in PickGpus(p, r, search) : \E pick \in picks(gpus) :
             \E home \in homes(pick) : Charges(p, r, home) # {}
  <2> DEFINE made(g, pick, home) ==
               { [ cpus |-> pick.cpus, nodes |-> pick.nodes, home |-> home, gpus |-> g,
                   charge |-> charge, exclusive |-> r.exclusive ] :
                 charge \in Charges(p, r, home) }
  <2>1. Plan(p, r, search) =
          IF refused THEN {}
          ELSE UNION { UNION { UNION { made(gpus, pick, home) : home \in homes(pick) } :
                               pick \in picks(gpus) } : gpus \in PickGpus(p, r, search) }
    BY DEF Plan
  <2>2. \A g, pick, home : made(g, pick, home) # {} <=> Charges(p, r, home) # {}
    OBVIOUS
  <2> HIDE DEF made, homes, picks, refused
  <2> QED
    BY <2>1, <2>2
<1>9. Fits(p, r) <=> /\ ~p.exclusive /\ ~(r.exclusive /\ p.active > 0)
                     /\ GpusFit(p.gpus, r) /\ cpus /\ memory
  BY DEF Fits
<1> HIDE DEF picks, homes, memory, cpus
<1>10. Plan(p, r, search) # {} <=>
         ~refused /\ PickGpus(p, r, search) # {} /\ cpus /\ memory
  BY <1>2, <1>5, <1>8
<1> QED
  BY <1>6, <1>7, <1>9, <1>10

(***************************************************************************)
(* Such a request that fits fits all the more where more is free: what       *)
(* every "release and look again" in scheduling.py relies on.               *)
(***************************************************************************)
THEOREM PlanMonotone ==
  ASSUME NEW b \in Pool, NEW p \in Pool, Within(b, p),
         NEW r \in Request, ~r.localGpu, NEW search \in BOOLEAN, Plan(b, r, search) # {}
  PROVE  Plan(p, r, search) # {}
<1>1. Fits(b, r)
  BY PlanExists
<1>2. /\ b.mem \in [Domains -> Nat] /\ p.mem \in [Domains -> Nat]
      /\ b.active \in Nat /\ p.active \in Nat /\ b.gpus \in SUBSET GpuIds
      /\ p.gpus \in SUBSET GpuIds /\ b.gpus \subseteq p.gpus
      /\ r.cpu \in Nat /\ r.mem \in Nat /\ r.gpus \in Nat
      /\ \A n \in Nodes : p.cpus[n] \in SUBSET AllCpus /\ b.cpus[n] \subseteq p.cpus[n]
      /\ \A k \in Domains : b.mem[k] <= p.mem[k]
  BY DEF Pool, Request, Within
<1>3. ~p.exclusive /\ ~(r.exclusive /\ p.active > 0)
  BY <1>1, <1>2 DEF Fits, Within
<1>4. GpusFit(p.gpus, r)
  <2>1. /\ Cardinality(b.gpus) <= Cardinality(p.gpus)
        /\ Cardinality(b.gpus) \in Nat /\ Cardinality(p.gpus) \in Nat
    BY <1>2, GpuAssumption, FS_Subset, FS_CardinalityType
  <2>2. kSubset(r.gpus, b.gpus) \subseteq kSubset(r.gpus, p.gpus)
    BY <1>2 DEF kSubset
  <2> QED
    BY <1>1, <1>2, <2>1, <2>2 DEF Fits, GpusFit
<1>5. ASSUME NEW s, NEW t \in SUBSET AllCpus, s \subseteq t, r.cpu <= Cardinality(s)
      PROVE  r.cpu <= Cardinality(t)
  <2>1. Cardinality(s) <= Cardinality(t) /\ Cardinality(s) \in Nat /\ Cardinality(t) \in Nat
    BY <1>5, AllCpusFinite, FS_Subset, FS_CardinalityType
  <2> QED
    BY <1>2, <1>5, <2>1
<1>6. ASSUME MaxNodes(r) > 1 PROVE r.cpu <= Cardinality(FreeCpus(p))
  <2>1. FreeCpus(b) \subseteq FreeCpus(p) /\ FreeCpus(p) \in SUBSET AllCpus
    BY <1>2 DEF FreeCpus
  <2>2. r.cpu <= Cardinality(FreeCpus(b))
    BY <1>1, <1>6 DEF Fits
  <2> QED
    BY <1>5, <2>1, <2>2
<1>7. ASSUME ~(MaxNodes(r) > 1) PROVE \E n \in Nodes : MayHost(p, n, r)
  <2>1. PICK n \in Nodes : MayHost(b, n, r)
    BY <1>1, <1>7 DEF Fits
  <2>2. MemKey(n) \in Domains
    BY DomainsKnown
  <2>3. r.localMem => FitsLocally(p, n, r.mem)
    BY <1>2, <2>1, <2>2 DEF MayHost, FitsLocally
  <2>4. Cardinality(b.cpus[n]) \in Nat /\ Cardinality(p.cpus[n]) \in Nat
    BY <1>2, AllCpusFinite, FS_Subset, FS_CardinalityType
  <2>5. r.cpu <= Cardinality(b.cpus[n])
    BY <1>2, <2>1, <2>4 DEF MayHost
  <2>6. r.cpu <= Cardinality(p.cpus[n])
    BY <1>2, <1>5, <2>5
  <2> QED
    BY <1>2, <2>3, <2>4, <2>6 DEF MayHost
<1>8. ASSUME TracksMemory, ~r.localMem PROVE r.mem <= SumFunction(p.mem)
  <2> DEFINE low == b.mem
             high == p.mem
  <2>1. /\ IsFiniteSet(Domains) /\ DOMAIN low = Domains /\ DOMAIN high = Domains /\ 1 \in Int
        /\ \A k \in Domains : low[k] \in Int /\ high[k] \in Int /\ 1 * low[k] <= 1 * high[k]
    BY <1>2, DomainsKnown
  <2> HIDE DEF low, high
  <2>2. 1 * SumFunction(low) <= 1 * SumFunction(high)
    BY <2>1, SumDominated
  <2>3. SumFunction(low) \in Int /\ SumFunction(high) \in Int
    BY <2>1, SumInt
  <2>4. r.mem <= SumFunction(low)
    BY <1>1, <1>8 DEF Fits, low
  <2>5. r.mem <= SumFunction(high)
    BY <1>2, <2>2, <2>3, <2>4
  <2> QED
    BY <2>5 DEF high
<1>9. Fits(p, r)
  BY <1>3, <1>4, <1>6, <1>7, <1>8 DEF Fits
<1> QED
  BY <1>9, PlanExists

\* Where two GPUs are in one island of a level, two of the island are joined at it: an
\* island of more than one GPU would otherwise be closed with any one of them left.
LEMMA IslandJoins ==
  ASSUME NEW free \in SUBSET GpuIds, NEW level \in Int, NEW i \in Islands(free, level),
         Cardinality(i) >= 2
  PROVE  \E a, b \in i : a # b /\ RankOf({a, b}) <= level
<1>1. /\ i \in SUBSET free /\ IsFiniteSet(i)
      /\ \A a \in i, b \in free \ i : RankOf({a, b}) > level
      /\ \A t \in SUBSET free :
           (/\ t # {} /\ \A a \in t, b \in free \ t : RankOf({a, b}) > level
            /\ t \subseteq i) => t = i
  <2>1. i \in SUBSET free
    BY DEF Islands
  <2> QED
    BY <2>1, GpuAssumption, FS_Subset DEF Islands
<1>2. PICK a \in i : TRUE
  BY FS_EmptySet
<1>3. {a} # i
  <2>1. Cardinality({a}) = 1
    BY FS_Singleton
  <2> QED
    BY <2>1
<1>4. PICK b \in free \ {a} : ~(RankOf({a, b}) > level)
  BY <1>1, <1>2, <1>3
<1>5. b \in i
  BY <1>1, <1>4
<1>6. RankOf({a, b}) \in Int
  BY GpuAssumption DEF RankOf, UnknownRank
<1> QED
  BY <1>4, <1>5, <1>6

(***************************************************************************)
(* What validate promises and what it does not.  Each of its conditions is   *)
(* looked at apart, so a request that passes them all fits the idle machine  *)
(* only if the same node has the cpus and the memory of a budget that must   *)
(* stay local, and an island of the floor has a group that keeps to it, which *)
(* it always has for two GPUs (validate in resources.py).                    *)
(***************************************************************************)
THEOREM ValidFits ==
  ASSUME NEW r \in Request, Validate(r), ~r.localGpu, r.floor # NoFloor => r.gpus <= 2,
         r.localMem => \E n \in Nodes : MayHost(EmptyMachine, n, r)
  PROVE  Fits(EmptyMachine, r)
<1>1. /\ EmptyMachine.cpus = NodeCpus /\ EmptyMachine.gpus = GpuIds
      /\ EmptyMachine.mem = Capacity /\ EmptyMachine.active = 0 /\ EmptyMachine.exclusive = FALSE
  BY DEF EmptyMachine
<1>2. /\ r.gpus \in Nat /\ r.cpu \in Nat /\ r.floor \in Int
      /\ r.floor # NoFloor => r.floor \in Nat
  BY DEF Request, NoFloor, UnknownRank
<1>3. GpusFit(GpuIds, r)
  <2>1. r.gpus <= Cardinality(GpuIds)
    BY DEF Validate
  <2>2. ASSUME r.gpus > 0, TopologyKnown, r.floor # NoFloor
        PROVE  \E s \in kSubset(r.gpus, GpuIds) : Quality(s)[1] <= r.floor
    <3>1. CASE r.gpus = 1
      <4>1. PICK a \in GpuIds : TRUE
        BY <2>1, <3>1, FS_EmptySet
      <4>2. IsFiniteSet({a}) /\ Cardinality({a}) = 1
        BY FS_Singleton
      <4>3. {a} \in SUBSET GpuIds /\ {a} \in kSubset(1, GpuIds)
        BY <4>2 DEF kSubset
      <4>4. kSubset(2, {a}) = {}
        <5>1. \A u \in SUBSET {a} : u = {} \/ u = {a}
          OBVIOUS
        <5>2. \A u \in SUBSET {a} : Cardinality(u) # 2
          BY <4>2, <5>1, FS_EmptySet
        <5> QED
          BY <5>2 DEF kSubset
      <4>5. Quality({a})[1] <= r.floor
        BY <1>2, <2>2, <4>3, <4>4, QualityParts
      <4> QED
        BY <3>1, <4>3, <4>5
    <3>2. CASE r.gpus = 2
      <4>1. PICK i \in Islands(GpuIds, r.floor) : 2 <= Cardinality(i)
        BY <2>2, <3>2 DEF Validate
      <4>2. i \in SUBSET GpuIds /\ Cardinality(i) >= 2
        <5>1. i \in SUBSET GpuIds
          BY <4>1 DEF Islands
        <5>2. Cardinality(i) \in Nat
          BY <5>1, GpuAssumption, FS_Subset, FS_CardinalityType
        <5> QED
          BY <4>1, <5>1, <5>2
      <4>3. PICK a \in i, b \in i : a # b /\ RankOf({a, b}) <= r.floor
        BY <1>2, <4>2, IslandJoins
      <4>4. {a, b} \in SUBSET GpuIds /\ {a, b} \in kSubset(2, i)
        BY <4>2, <4>3, PairsKnown
      <4>5. IsFiniteSet({a, b}) /\ Cardinality({a, b}) = 2
        BY <4>2, <4>4, PairsKnown DEF kSubset
      <4>6. \A pair \in kSubset(2, {a, b}) : RankOf(pair) <= r.floor
        <5>1. TAKE pair \in kSubset(2, {a, b})
        <5>2. pair \in SUBSET {a, b} /\ Cardinality(pair) = 2
          BY <5>1 DEF kSubset
        <5>3. pair = {a, b}
          BY <4>5, <5>2, FS_Subset
        <5> QED
          BY <4>3, <5>3
      <4>7. Quality({a, b})[1] <= r.floor
        BY <1>2, <2>2, <4>4, <4>6, QualityParts
      <4>8. {a, b} \in kSubset(2, GpuIds)
        BY <4>4, <4>5 DEF kSubset
      <4> QED
        BY <3>2, <4>7, <4>8
    <3> QED
      BY <1>2, <2>2, <3>1, <3>2
  <2> QED
    BY <2>1, <2>2 DEF GpusFit
<1>4. ASSUME MaxNodes(r) > 1 PROVE r.cpu <= Cardinality(FreeCpus(EmptyMachine))
  <2>1. FreeCpus(EmptyMachine) = AllCpus
    BY <1>1 DEF FreeCpus, AllCpus
  <2> QED
    BY <1>4, <2>1 DEF Validate, TotalCpus
<1>5. ASSUME ~(MaxNodes(r) > 1) PROVE \E n \in Nodes : MayHost(EmptyMachine, n, r)
  <2>1. CASE r.localMem
    BY <2>1
  <2>2. CASE ~r.localMem
    <3>1. PICK n \in Nodes : r.cpu <= Cardinality(NodeCpus[n])
      BY <1>5 DEF Validate
    <3>2. Cardinality(NodeCpus[n]) \in Nat
      BY MachineAssumption, FS_CardinalityType
    <3>3. Cardinality(EmptyMachine.cpus[n]) >= r.cpu
      BY <1>1, <1>2, <3>1, <3>2
    <3> QED
      BY <2>2, <3>3 DEF MayHost
  <2> QED
    BY <2>1, <2>2
<1>6. ASSUME TracksMemory, ~r.localMem PROVE r.mem <= SumFunction(EmptyMachine.mem)
  BY <1>1, <1>6 DEF Validate, TotalMem
<1>7. ~EmptyMachine.exclusive /\ ~(r.exclusive /\ EmptyMachine.active > 0)
  BY <1>1
<1> HIDE DEF EmptyMachine
<1> QED
  BY <1>1, <1>3, <1>4, <1>5, <1>6, <1>7 DEF Fits

-----------------------------------------------------------------------------
(***************************************************************************)
(* Releasing several allocations at once, as _reservation_deadline does to   *)
(* see when the head would fit: how a pool with some of them released moves  *)
(* when one is really released, or reserved, or when one more is counted in. *)
(***************************************************************************)
\* what some allocations charge one domain in all
Total(allocs, k) == SumFunction([a \in allocs |-> a.charge[k]])

\* The fold that adds up what some allocations charge one domain is the sum of a function.
LEMMA ChargesSum ==
  ASSUME NEW A \in SUBSET Allocation, IsFiniteSet(A), NEW k \in Domains
  PROVE  MapThenSumSet(LAMBDA a : ChargeDomains(a)[k], A) = Total(A, k)
<1> DEFINE charge(a) == ChargeDomains(a)[k]
           f == [a \in A |-> charge(a)]
           P(h) == h = [s \in SUBSET A |->
                           IF s = {} THEN 0
                           ELSE charge(CHOOSE x \in s : TRUE) + h[s \ {CHOOSE x \in s : TRUE}]]
           it == CHOOSE h : P(h)
<1>0. MapThenSumSet(LAMBDA a : ChargeDomains(a)[k], A) = it[A]
  BY DEF MapThenSumSet, MapThenFoldSet
<1>7. f = [a \in A |-> a.charge[k]]
  BY ChargeOfOwn
<1> HIDE DEF charge
<1>1. \A h : P(h) <=> Sums(h, f, A)
  <2>1. \A s \in SUBSET A : s # {} => f[CHOOSE x \in s : TRUE] = charge(CHOOSE x \in s : TRUE)
    OBVIOUS
  <2> QED
    BY <2>1 DEF Sums, AnyOf
<1>2. P(it)
  <2>1. PICK h : Sums(h, f, A)
    BY SumsExist
  <2>2. P(h)
    BY <1>1, <2>1
  <2> HIDE DEF P
  <2> QED
    BY <2>2, Zenon
<1>4. DOMAIN f = A
  OBVIOUS
<1>5. Sums(it, f, A)
  BY <1>1, <1>2
<1> HIDE DEF it, f
<1>6. PICK h : Sums(h, f, A) /\ SumFunction(f) = h[A]
  BY <1>4, SumOf
<1>8. h[A] = it[A]
  BY <1>5, <1>6, SumsAgree
<1> QED
  BY <1>0, <1>6, <1>7, <1>8 DEF Total

\* What some allocations charge in all: nothing for none, and one more adds its charge.
LEMMA TotalParts ==
  ASSUME NEW A \in SUBSET Allocation, IsFiniteSet(A), NEW k \in Domains
  PROVE  /\ Total(A, k) \in Nat
         /\ A = {} => Total(A, k) = 0
         /\ \A a \in Allocation \ A : Total(A \cup {a}, k) = a.charge[k] + Total(A, k)
         /\ \A B \in SUBSET A : Total(B, k) <= Total(A, k)
<1> DEFINE f == [a \in A |-> a.charge[k]]
<1>1. \A a \in Allocation : a.charge[k] \in Nat
  BY DEF Allocation
<1>2. DOMAIN f = A /\ \A a \in DOMAIN f : f[a] \in Nat
  BY <1>1
<1>3. Total(A, k) = SumFunction(f)
  BY DEF Total
<1> HIDE DEF f
<1>4. Total(A, k) \in Nat
  BY <1>2, <1>3, SumNat
<1>5. A = {} => Total(A, k) = 0
  BY <1>2, <1>3, SumEmpty
<1>6. ASSUME NEW a \in Allocation \ A PROVE Total(A \cup {a}, k) = a.charge[k] + Total(A, k)
  <2> DEFINE g == [b \in A \cup {a} |-> b.charge[k]]
  <2>1. /\ DOMAIN g = A \cup {a} /\ f = [b \in A |-> g[b]] /\ g[a] = a.charge[k]
        /\ \A b \in A \cup {a} : g[b] \in Int
    BY <1>1 DEF f
  <2>2. Total(A \cup {a}, k) = SumFunction(g)
    BY DEF Total
  <2> HIDE DEF g
  <2>3. SumFunction(g) = g[a] + SumFunction(f)
    BY <2>1, SumWith
  <2> QED
    BY <1>3, <2>1, <2>2, <2>3
<1>7. ASSUME NEW B \in SUBSET A PROVE Total(B, k) <= Total(A, k)
  <2>1. SumFunction([b \in B |-> f[b]]) <= SumFunction(f)
    BY <1>2, SumSubset
  <2>2. [b \in B |-> f[b]] = [b \in B |-> b.charge[k]]
    BY DEF f
  <2> QED
    BY <1>3, <2>1, <2>2 DEF Total
<1> QED
  BY <1>4, <1>5, <1>6, <1>7

\* The memory of a pool with some allocations released.
LEMMA ReleasedMem ==
  ASSUME NEW p \in Pool, NEW A \in SUBSET Allocation, IsFiniteSet(A), NEW k \in Domains
  PROVE  /\ ReleaseAll(p, A).mem[k] = AtMost(p.mem[k] + Total(A, k), Capacity[k])
         /\ p.mem[k] \in Nat /\ Total(A, k) \in Nat /\ Capacity[k] \in Nat
<1>1. p.mem[k] \in Nat /\ Total(A, k) \in Nat /\ Capacity[k] \in Nat
  BY TotalParts, MachineAssumption DEF Pool
<1>2. MapThenSumSet(LAMBDA a : ChargeDomains(a)[k], A) = Total(A, k)
  BY ChargesSum
<1> QED
  BY <1>1, <1>2 DEF ReleaseAll

\* Releasing several allocations leaves a pool.
LEMMA ReleaseAllType ==
  ASSUME NEW p \in Pool, NEW A \in SUBSET Allocation, IsFiniteSet(A)
  PROVE  ReleaseAll(p, A) \in Pool
<1> DEFINE cpus == [n \in Nodes |-> p.cpus[n] \cup
                 UNION { a.cpus \cap NodeCpus[n] : a \in { b \in A : n \in b.nodes } }]
           mem == [k \in Domains |-> AtMost(
                 p.mem[k] + MapThenSumSet(LAMBDA a : ChargeDomains(a)[k], A), Capacity[k])]
<1>1. cpus \in [Nodes -> SUBSET AllCpus]
  BY DEF Pool, Allocation
<1>2. mem \in [Domains -> Nat]
  <2>1. SUFFICES ASSUME NEW k \in Domains PROVE mem[k] \in Nat
    OBVIOUS
  <2>2. mem[k] = ReleaseAll(p, A).mem[k]
    BY DEF ReleaseAll
  <2> HIDE DEF mem
  <2> QED
    BY <2>2, ReleasedMem DEF AtMost
<1>3. p.gpus \cup UNION { a.gpus \cap GpuIds : a \in A } \in SUBSET GpuIds
  BY DEF Pool
<1>4. AtLeast(p.active - Cardinality(A), 0) \in Nat
  BY FS_CardinalityType DEF AtLeast, Pool
<1>5. (p.exclusive /\ \A a \in A : ~a.exclusive) \in BOOLEAN
  OBVIOUS
<1>6. ReleaseAll(p, A).cpus = cpus /\ ReleaseAll(p, A).mem = mem
  BY DEF ReleaseAll
<1> HIDE DEF cpus, mem
<1> QED
  BY <1>1, <1>2, <1>3, <1>4, <1>5, <1>6 DEF ReleaseAll, Pool

\* What is within a pool that is within another is within that.
LEMMA WithinTrans ==
  ASSUME NEW p \in Pool, NEW q \in Pool, NEW u \in Pool, Within(p, q), Within(q, u)
  PROVE  Within(p, u)
<1>1. \A k \in Domains : p.mem[k] \in Nat /\ q.mem[k] \in Nat /\ u.mem[k] \in Nat
  BY DEF Pool
<1>2. p.active \in Nat /\ q.active \in Nat /\ u.active \in Nat
  BY DEF Pool
<1>3. \A k \in Domains : p.mem[k] <= u.mem[k]
  BY <1>1 DEF Within
<1>4. u.active <= p.active
  BY <1>2 DEF Within
<1> QED
  BY <1>3, <1>4 DEF Within

\* Releasing none gives nothing back.
LEMMA ReleaseNone ==
  ASSUME NEW p \in Pool
  PROVE  Within(ReleaseAll(p, {}), p)
<1>1. IsFiniteSet({}) /\ Cardinality({}) = 0
  BY FS_EmptySet
<1>2. \A k \in Domains : ReleaseAll(p, {}).mem[k] <= p.mem[k]
  BY <1>1, ReleasedMem, TotalParts DEF AtMost
<1>3. p.active \in Nat
  BY DEF Pool
<1>4. p.active <= ReleaseAll(p, {}).active
  BY <1>1, <1>3 DEF ReleaseAll, AtLeast
<1>5. \A n \in Nodes : ReleaseAll(p, {}).cpus[n] \subseteq p.cpus[n]
  BY DEF ReleaseAll
<1> QED
  BY <1>2, <1>4, <1>5 DEF Within, ReleaseAll

\* The more are released, the more is free.
LEMMA ReleaseMore ==
  ASSUME NEW p \in Pool, NEW A \in SUBSET Allocation, IsFiniteSet(A), NEW B \in SUBSET A
  PROVE  Within(ReleaseAll(p, B), ReleaseAll(p, A))
<1>1. IsFiniteSet(B) /\ Cardinality(B) <= Cardinality(A)
      /\ Cardinality(A) \in Nat /\ Cardinality(B) \in Nat
  BY FS_Subset, FS_CardinalityType
<1>2. \A k \in Domains : ReleaseAll(p, B).mem[k] <= ReleaseAll(p, A).mem[k]
  BY <1>1, ReleasedMem, TotalParts DEF AtMost
<1>3. p.active \in Nat
  BY DEF Pool
<1>4. ReleaseAll(p, A).active <= ReleaseAll(p, B).active
  BY <1>1, <1>3 DEF ReleaseAll, AtLeast
<1>5. \A n \in Nodes : ReleaseAll(p, B).cpus[n] \subseteq ReleaseAll(p, A).cpus[n]
  BY DEF ReleaseAll
<1>6. ReleaseAll(p, B).gpus \subseteq ReleaseAll(p, A).gpus
  BY DEF ReleaseAll
<1> QED
  BY <1>2, <1>4, <1>5, <1>6 DEF Within, ReleaseAll

\* What has really been released need not be counted in any more.
LEMMA ReleaseOne ==
  ASSUME NEW p \in Pool, NEW a \in Allocation, NEW A \in SUBSET Allocation, IsFiniteSet(A),
         NEW B \in SUBSET Allocation, IsFiniteSet(B), A \subseteq B \cup {a}
  PROVE  Within(ReleaseAll(p, A), ReleaseAll(Release(p, a), B))
<1> DEFINE q == Release(p, a)
<1>1. q \in Pool
  BY ReleaseType
<1>2. /\ IsFiniteSet(B \cup {a}) /\ Cardinality(A) <= Cardinality(B \cup {a})
      /\ Cardinality(B \cup {a}) <= Cardinality(B) + 1
      /\ Cardinality(A) \in Nat /\ Cardinality(B) \in Nat
  <2>1. /\ IsFiniteSet(B \cup {a})
        /\ Cardinality(B \cup {a}) = IF a \in B THEN Cardinality(B) ELSE Cardinality(B) + 1
    BY FS_AddElement
  <2> QED
    BY <2>1, FS_Subset, FS_CardinalityType
<1>3. ASSUME NEW k \in Domains PROVE ReleaseAll(p, A).mem[k] <= ReleaseAll(q, B).mem[k]
  <2>1. q.mem[k] = AtMost(p.mem[k] + a.charge[k], Capacity[k])
    BY ChargeOfOwn DEF Release
  <2>2. a.charge[k] \in Nat
    BY DEF Allocation
  <2>3. Total(A, k) <= a.charge[k] + Total(B, k)
    <3>1. Total(A, k) <= Total(B \cup {a}, k)
      BY <1>2, TotalParts
    <3>2. Total(B \cup {a}, k) <= a.charge[k] + Total(B, k)
      <4>1. CASE a \in B
        <5>1. B \cup {a} = B
          BY <4>1
        <5>2. Total(B, k) \in Nat
          BY TotalParts
        <5>3. Total(B \cup {a}, k) = Total(B, k)
          BY <5>1
        <5> QED
          BY <2>2, <5>2, <5>3
      <4>2. CASE a \notin B
        <5>1. Total(B \cup {a}, k) = a.charge[k] + Total(B, k) /\ Total(B, k) \in Nat
          BY <4>2, TotalParts
        <5> QED
          BY <2>2, <5>1
      <4> QED
        BY <4>1, <4>2
    <3>3. Total(A, k) \in Nat /\ Total(B, k) \in Nat /\ Total(B \cup {a}, k) \in Nat
      BY <1>2, TotalParts
    <3> QED
      BY <2>2, <3>1, <3>2, <3>3
  <2>4. /\ ReleaseAll(p, A).mem[k] = AtMost(p.mem[k] + Total(A, k), Capacity[k])
        /\ p.mem[k] \in Nat /\ Total(A, k) \in Nat /\ Capacity[k] \in Nat
    BY ReleasedMem
  <2>5. /\ ReleaseAll(q, B).mem[k] = AtMost(q.mem[k] + Total(B, k), Capacity[k])
        /\ Total(B, k) \in Nat
    BY <1>1, ReleasedMem
  <2> HIDE DEF q
  <2> QED
    BY <2>1, <2>2, <2>3, <2>4, <2>5 DEF AtMost
<1>4. p.active \in Nat
  BY DEF Pool
<1>5. ReleaseAll(q, B).active <= ReleaseAll(p, A).active
  <2>1. q.active = AtLeast(p.active - 1, 0)
    BY DEF Release
  <2>2. /\ ReleaseAll(q, B).active = AtLeast(q.active - Cardinality(B), 0)
        /\ ReleaseAll(p, A).active = AtLeast(p.active - Cardinality(A), 0)
    BY DEF ReleaseAll
  <2>3. Cardinality(A) <= Cardinality(B) + 1
    <3>1. Cardinality(B \cup {a}) \in Nat
      BY <1>2, FS_CardinalityType
    <3> QED
      BY <1>2, <3>1
  <2> HIDE DEF q
  <2> QED
    BY <1>2, <1>4, <2>1, <2>2, <2>3 DEF AtLeast
<1>6. \A n \in Nodes : ReleaseAll(p, A).cpus[n] \subseteq ReleaseAll(q, B).cpus[n]
  <2>1. TAKE n \in Nodes
  <2>2. SUFFICES ASSUME NEW c \in ReleaseAll(p, A).cpus[n], c \notin p.cpus[n]
                 PROVE  c \in ReleaseAll(q, B).cpus[n]
    BY DEF ReleaseAll, Release
  <2>3. PICK b \in A : n \in b.nodes /\ c \in b.cpus \cap NodeCpus[n]
    BY <2>2 DEF ReleaseAll
  <2>4. CASE b = a
    BY <2>3, <2>4 DEF ReleaseAll, Release
  <2>5. CASE b \in B
    BY <2>3, <2>5 DEF ReleaseAll
  <2> QED
    BY <2>3, <2>4, <2>5
<1>7. ReleaseAll(p, A).gpus \subseteq ReleaseAll(q, B).gpus
  BY DEF ReleaseAll, Release
<1>8. ReleaseAll(q, B).exclusive => ReleaseAll(p, A).exclusive
  BY DEF ReleaseAll, Release
<1> QED
  BY <1>3, <1>5, <1>6, <1>7, <1>8 DEF Within

\* What has been reserved and is counted in again changes nothing, if it was free.
LEMMA ReserveOne ==
  ASSUME NEW p \in Pool, NEW a \in Allocation, NEW A \in SUBSET Allocation, IsFiniteSet(A),
         a \notin A, \A n \in Nodes : p.cpus[n] \subseteq NodeCpus[n],
         a.cpus \subseteq UNION { p.cpus[n] : n \in a.nodes }, a.gpus \subseteq p.gpus,
         \A k \in Domains : a.charge[k] <= p.mem[k], ~p.exclusive
  PROVE  /\ Within(ReleaseAll(p, A), ReleaseAll(Reserve(p, a), A \cup {a}))
         /\ Within(ReleaseAll(Reserve(p, a), A \cup {a}), ReleaseAll(p, A))
<1> DEFINE q == Reserve(p, a)
           B == A \cup {a}
<1>1. q \in Pool
  BY ReserveType
<1>2. /\ IsFiniteSet(B) /\ Cardinality(B) = Cardinality(A) + 1
      /\ Cardinality(A) \in Nat /\ B \in SUBSET Allocation
  BY FS_AddElement, FS_CardinalityType
<1>3. ASSUME NEW k \in Domains PROVE ReleaseAll(p, A).mem[k] = ReleaseAll(q, B).mem[k]
  <2>1. q.mem[k] = AtLeast(p.mem[k] - a.charge[k], 0)
    BY ChargeOfOwn DEF Reserve
  <2>2. a.charge[k] \in Nat /\ a.charge[k] <= p.mem[k]
    BY DEF Allocation
  <2>3. Total(B, k) = a.charge[k] + Total(A, k)
    BY TotalParts
  <2>4. /\ ReleaseAll(p, A).mem[k] = AtMost(p.mem[k] + Total(A, k), Capacity[k])
        /\ p.mem[k] \in Nat /\ Total(A, k) \in Nat /\ Capacity[k] \in Nat
    BY ReleasedMem
  <2>5. ReleaseAll(q, B).mem[k] = AtMost(q.mem[k] + Total(B, k), Capacity[k])
    BY <1>1, <1>2, ReleasedMem
  <2> HIDE DEF q, B
  <2>6. q.mem[k] + Total(B, k) = p.mem[k] + Total(A, k)
    BY <2>1, <2>2, <2>3, <2>4 DEF AtLeast
  <2> QED
    BY <2>4, <2>5, <2>6
<1>4. p.active \in Nat
  BY DEF Pool
<1>5. ReleaseAll(q, B).active = ReleaseAll(p, A).active
  <2>1. q.active = p.active + 1
    BY DEF Reserve
  <2>2. /\ ReleaseAll(q, B).active = AtLeast(q.active - Cardinality(B), 0)
        /\ ReleaseAll(p, A).active = AtLeast(p.active - Cardinality(A), 0)
    BY DEF ReleaseAll
  <2>3. q.active - Cardinality(B) = p.active - Cardinality(A)
    BY <1>2, <1>4, <2>1
  <2> QED
    BY <2>2, <2>3
<1>6. \A n \in Nodes : ReleaseAll(p, A).cpus[n] = ReleaseAll(q, B).cpus[n]
  <2>1. TAKE n \in Nodes
  <2> DEFINE back(s) == UNION { b.cpus \cap NodeCpus[n] : b \in { b \in s : n \in b.nodes } }
  <2>2. /\ ReleaseAll(p, A).cpus[n] = p.cpus[n] \cup back(A)
        /\ ReleaseAll(q, B).cpus[n] = q.cpus[n] \cup back(B)
    BY DEF ReleaseAll
  <2>3. CASE n \notin a.nodes
    <3>1. back(B) = back(A) /\ q.cpus[n] = p.cpus[n]
      BY <2>3 DEF Reserve
    <3> QED
      BY <2>2, <3>1
  <2>4. CASE n \in a.nodes
    <3>1. back(B) = back(A) \cup (a.cpus \cap NodeCpus[n]) /\ q.cpus[n] = p.cpus[n] \ a.cpus
      BY <2>4 DEF Reserve
    <3>2. a.cpus \cap NodeCpus[n] \subseteq p.cpus[n]
      <4>1. SUFFICES ASSUME NEW c \in a.cpus, c \in NodeCpus[n] PROVE c \in p.cpus[n]
        OBVIOUS
      <4>2. PICK m \in a.nodes : c \in p.cpus[m]
        BY <4>1
      <4>3. m \in Nodes
        BY DEF Allocation
      <4>4. m = n
        BY <4>1, <4>2, <4>3, MachineAssumption
      <4> QED
        BY <4>2, <4>4
    <3>3. p.cpus[n] \subseteq NodeCpus[n]
      OBVIOUS
    <3> QED
      BY <2>2, <3>1, <3>2, <3>3
  <2> QED
    BY <2>3, <2>4
<1>7. ReleaseAll(p, A).gpus = ReleaseAll(q, B).gpus
  <2>1. a.gpus \subseteq GpuIds
    BY DEF Allocation
  <2>2. /\ ReleaseAll(q, B).gpus = (p.gpus \ a.gpus) \cup UNION { b.gpus \cap GpuIds : b \in B }
        /\ ReleaseAll(p, A).gpus = p.gpus \cup UNION { b.gpus \cap GpuIds : b \in A }
    BY DEF ReleaseAll, Reserve
  <2>3. UNION { b.gpus \cap GpuIds : b \in B } = a.gpus \cup UNION { b.gpus \cap GpuIds : b \in A }
    BY <2>1
  <2> QED
    BY <2>2, <2>3
<1>8. /\ ReleaseAll(p, A).exclusive = FALSE
      /\ ReleaseAll(q, B).exclusive = FALSE
  BY DEF ReleaseAll, Reserve
<1>9. ReleaseAll(p, A) \in Pool /\ ReleaseAll(q, B) \in Pool
  BY <1>1, <1>2, ReleaseAllType
<1> HIDE DEF q, B
<1>10. /\ \A k \in Domains : ReleaseAll(p, A).mem[k] \in Nat
       /\ ReleaseAll(p, A).active \in Nat
  BY <1>9 DEF Pool
<1>11. /\ \A k \in Domains : /\ ReleaseAll(p, A).mem[k] <= ReleaseAll(q, B).mem[k]
                               /\ ReleaseAll(q, B).mem[k] <= ReleaseAll(p, A).mem[k]
       /\ ReleaseAll(p, A).active <= ReleaseAll(q, B).active
       /\ ReleaseAll(q, B).active <= ReleaseAll(p, A).active
  BY <1>3, <1>5, <1>10
<1>12. Within(ReleaseAll(p, A), ReleaseAll(q, B)) /\ Within(ReleaseAll(q, B), ReleaseAll(p, A))
  BY <1>6, <1>7, <1>8, <1>11 DEF Within
<1> QED
  BY <1>12 DEF q, B

=============================================================================
