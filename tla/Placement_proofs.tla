-------------------------- MODULE Placement_proofs --------------------------
(***************************************************************************)
(* Proofs about module Placement: the books always balance against what the *)
(* jobs hold, and what the placement decision promises holds whatever the   *)
(* machine, the requests and the order in which resources come and go.      *)
(*                                                                         *)
(* The books do not balance by themselves.  Giving an allocation back       *)
(* restores exactly what was taken only if its cpus lie on the nodes it     *)
(* names, and a sum of memory over the holders can be taken apart only if   *)
(* they are finitely many (HeldOK).  What a default budget may count on      *)
(* needs two facts more: an exclusive job runs alone (CountOK), so that when *)
(* it spreads over nodes it finds all of them free and drains the first one  *)
(* before it touches the next (HomeFirst).  And that the machine is closed    *)
(* only while someone holds all of it (AloneOK) is what an idle machine        *)
(* needs to take a job.                                                    *)
(***************************************************************************)
EXTENDS Placement, ResourcePool_proofs

\* what is held lies on the nodes it names, and no domain holds more than the machine
HeldOK ==
  /\ IsFiniteSet(Holders)
  /\ \A j \in Holders : held[j].cpus \subseteq UNION { NodeCpus[n] : n \in held[j].nodes }
  /\ \A k \in Domains : pool.mem[k] <= Capacity[k]

\* the pool counts its holders: `active` decides whether an exclusive job may start
CountOK == pool.active = Cardinality(Holders)

\* a job either stays on its home node or has all of it: home is the first node drawn
\* from, and only an exclusive job, alone on the machine, draws from a second one
HomeFirst ==
  \A j \in Holders : \/ held[j].cpus \subseteq NodeCpus[held[j].home]
                     \/ NodeCpus[held[j].home] \subseteq held[j].cpus

\* the machine is closed to others only while an exclusive job is on it
AloneOK == pool.exclusive => \E j \in Holders : held[j].exclusive

\* the inductive invariant
IInv == TypeOK /\ HeldOK /\ BooksBalance /\ CountOK /\ HomeFirst /\ AloneOK

\* Whoever holds something holds an allocation.
LEMMA HoldersHold ==
  ASSUME TypeOK, NEW j \in Holders
  PROVE  j \in Jobs /\ held[j] \in Allocation /\ held[j].charge \in [Domains -> Nat]
<1>1. j \in Jobs /\ held[j] \in Allocation
  BY DEF TypeOK, Holders
<1> QED
  BY <1>1 DEF Allocation

\* A decision taken apart: its cpus are those of a pick, its home the lowest node of the
\* pick, its charge one of the charges of that home, and no more than is free.
LEMMA DecisionParts ==
  ASSUME TypeOK, NEW r \in Requests, NEW a \in Allocate(pool, r)
  PROVE  /\ r \in Request /\ a \in Allocation /\ a.gpus \in PickGpus(pool, r, TRUE)
         /\ \A k \in Domains : a.charge[k] <= pool.mem[k]
         /\ a.charge \in Charges(pool, r, a.home)
         /\ \E pick \in PickCpus(pool, r, Candidates(r, NodesFor(a.gpus)), NodesFor(a.gpus)) :
               /\ a.cpus = pick.cpus /\ a.home \in pick.nodes
               /\ \A m \in pick.nodes : a.home <= m
         /\ MaxNodes(r) = 1 => a.home \in HomeNode(pool, r, Candidates(r, NodesFor(a.gpus)),
                                                     NodesFor(a.gpus))
<1>1. r \in Request /\ pool \in Pool
  BY PlacementAssumption DEF TypeOK
<1>2. PICK gpus \in PickGpus(pool, r, TRUE) :
        a \in UNION { UNION {
         { [ cpus |-> pick.cpus, nodes |-> pick.nodes, home |-> home, gpus |-> gpus,
             charge |-> charge, exclusive |-> r.exclusive ] :
           charge \in Charges(pool, r, home) } :
           home \in { n \in pick.nodes : \A m \in pick.nodes : n <= m } } :
           pick \in PickCpus(pool, r, Candidates(r, NodesFor(gpus)), NodesFor(gpus)) }
  BY DEF Allocate, Plan
<1>3. PICK pick \in PickCpus(pool, r, Candidates(r, NodesFor(gpus)), NodesFor(gpus)) :
        a \in UNION {
         { [ cpus |-> pick.cpus, nodes |-> pick.nodes, home |-> home, gpus |-> gpus,
             charge |-> charge, exclusive |-> r.exclusive ] :
           charge \in Charges(pool, r, home) } :
           home \in { n \in pick.nodes : \A m \in pick.nodes : n <= m } }
  BY <1>2
<1>4. PICK home \in { n \in pick.nodes : \A m \in pick.nodes : n <= m } :
      \E charge \in Charges(pool, r, home) :
        a = [ cpus |-> pick.cpus, nodes |-> pick.nodes, home |-> home, gpus |-> gpus,
              charge |-> charge, exclusive |-> r.exclusive ]
  BY <1>3
<1>5. /\ a.home = home /\ a.gpus = gpus /\ a.charge \in Charges(pool, r, home)
      /\ a.cpus = pick.cpus
  BY <1>4
<1>6. ASSUME MaxNodes(r) = 1
      PROVE  home \in HomeNode(pool, r, Candidates(r, NodesFor(gpus)), NodesFor(gpus))
  <2>1. PICK n \in HomeNode(pool, r, Candidates(r, NodesFor(gpus)), NodesFor(gpus)) :
          pick \in { [cpus |-> s, nodes |-> {n}] : s \in FirstCpus(pool.cpus[n], r.cpu) }
    BY <1>3, <1>6 DEF PickCpus
  <2>2. pick.nodes = {n}
    BY <2>1
  <2> QED
    BY <1>4, <2>1, <2>2
<1>7. a \in Allocation /\ \A k \in Domains : a.charge[k] <= pool.mem[k]
  BY <1>1, AllocateIsFree
<1>8. \E x \in PickCpus(pool, r, Candidates(r, NodesFor(a.gpus)), NodesFor(a.gpus)) :
        a.cpus = x.cpus /\ a.home \in x.nodes /\ \A m \in x.nodes : a.home <= m
  BY <1>3, <1>4, <1>5
<1> QED
  BY <1>1, <1>5, <1>6, <1>7, <1>8

\* NodeOf finds the node of a cpu.
LEMMA NodeOfIts ==
  ASSUME NEW n \in Nodes, NEW c \in NodeCpus[n]
  PROVE  NodeOf(c) = n
<1>1. \A m \in Nodes : c \in NodeCpus[m] <=> m = n
  BY MachineAssumption
<1> QED
  BY <1>1 DEF NodeOf

\* What allocate decides is on the home node alone or takes all of it: a job of several
\* nodes is exclusive, finds the machine idle, and is given cpus node by node.
LEMMA HomeDrained ==
  ASSUME TypeOK, BooksBalance, CountOK, IsFiniteSet(Holders),
         NEW r \in Requests, NEW a \in Allocate(pool, r)
  PROVE  a.cpus \subseteq NodeCpus[a.home] \/ NodeCpus[a.home] \subseteq a.cpus
<1> DEFINE candidates == Candidates(r, NodesFor(a.gpus))
<1>1. PICK pick \in PickCpus(pool, r, candidates, NodesFor(a.gpus)) :
        /\ a.cpus = pick.cpus /\ a.home \in pick.nodes
        /\ \A m \in pick.nodes : a.home <= m
  BY DecisionParts
<1>2. /\ r \in Request /\ a \in Allocation /\ a.home \in Nodes /\ candidates \subseteq Nodes
      /\ r.exclusive => pool.active = 0
  <2>1. r \in Request /\ pool \in Pool /\ candidates \subseteq Nodes
    BY PlacementAssumption DEF TypeOK, Candidates
  <2> QED
    BY <2>1, AllocateIsFree DEF Allocation
<1>3. \A n \in Nodes : pool.cpus[n] \subseteq NodeCpus[n]
  BY DEF BooksBalance
<1>4. CASE ~(MaxNodes(r) > 1)
  <2>1. PICK n \in HomeNode(pool, r, candidates, NodesFor(a.gpus)) :
          pick \in { [cpus |-> s, nodes |-> {n}] : s \in FirstCpus(pool.cpus[n], r.cpu) }
    BY <1>1, <1>4 DEF PickCpus
  <2>2. a.home = n /\ a.cpus \in FirstCpus(pool.cpus[n], r.cpu)
    BY <1>1, <2>1
  <2>3. a.cpus \subseteq pool.cpus[a.home]
    BY <2>2 DEF FirstCpus, kSubset
  <2> QED
    BY <1>2, <1>3, <2>3
<1>5. CASE MaxNodes(r) > 1
  <2> DEFINE free == UNION { pool.cpus[n] : n \in candidates }
  <2>1. r.exclusive
    BY <1>5 DEF MaxNodes
  <2>2. Holders = {}
    BY <1>2, <2>1, FS_EmptySet DEF CountOK
  <2>3. \A n \in Nodes : pool.cpus[n] = NodeCpus[n]
    <3>1. UNION { held[j].cpus : j \in Holders } = {}
      BY <2>2
    <3>2. \A n \in Nodes : pool.cpus[n] = NodeCpus[n] \ UNION { held[j].cpus : j \in Holders }
      BY DEF BooksBalance
    <3> QED
      BY <3>1, <3>2
  <2>4. /\ a.cpus \in FirstCpus(free, r.cpu)
        /\ pick.nodes = { n \in Nodes : a.cpus \cap pool.cpus[n] # {} }
    BY <1>1, <1>5 DEF PickCpus
  <2>5. /\ a.cpus \subseteq free
        /\ \A x \in a.cpus, y \in free \ a.cpus :
              NodeOf(x) < NodeOf(y) \/ (NodeOf(x) = NodeOf(y) /\ x < y)
    BY <2>4 DEF FirstCpus, kSubset
  <2>6. a.home \in candidates
    <3>1. PICK c \in a.cpus : c \in NodeCpus[a.home]
      BY <1>1, <1>2, <2>3, <2>4
    <3>2. PICK n \in candidates : c \in NodeCpus[n]
      BY <1>2, <2>3, <2>5, <3>1
    <3> QED
      BY <1>2, <3>1, <3>2, MachineAssumption
  <2>7. ASSUME NEW x \in a.cpus, x \notin NodeCpus[a.home],
               NEW y \in NodeCpus[a.home], y \notin a.cpus
        PROVE  FALSE
    <3>1. PICK m \in candidates : x \in NodeCpus[m]
      BY <1>2, <2>3, <2>5
    <3>2. m \in Nodes /\ m # a.home /\ m \in pick.nodes
      BY <1>2, <2>3, <2>4, <2>7, <3>1
    <3>3. m \in Int /\ a.home \in Int /\ a.home <= m
      <4>1. Nodes \subseteq Int
        BY MachineAssumption
      <4>2. a.home <= m
        BY <1>1, <3>2
      <4> QED
        BY <1>2, <3>2, <4>1, <4>2
    <3>4. y \in free
      BY <1>2, <2>3, <2>6
    <3>5. NodeOf(x) = m /\ NodeOf(y) = a.home
      BY <1>2, <3>1, <3>2, NodeOfIts
    <3>6. NodeOf(x) < NodeOf(y) \/ NodeOf(x) = NodeOf(y)
      BY <2>5, <2>7, <3>4
    <3> QED
      BY <3>2, <3>3, <3>5, <3>6
  <2> QED
    BY <2>7
<1> QED
  BY <1>4, <1>5

\* The idle machine: nobody holds anything.
LEMMA InitInvariant == Init => IInv
<1> SUFFICES ASSUME Init PROVE IInv
  OBVIOUS
<1>1. Holders = {}
  BY DEF Init, Holders
<1>2. TypeOK
  BY EmptyMachineType DEF Init, TypeOK
<1>3. HeldOK
  BY <1>1, FS_EmptySet, MachineAssumption DEF Init, HeldOK, EmptyMachine
<1>4. BooksBalance
  <2>1. \A k \in Domains :
          pool.mem[k] + SumFunction([j \in Holders |-> held[j].charge[k]]) = Capacity[k]
    <3>1. TAKE k \in Domains
    <3>2. SumFunction([j \in Holders |-> held[j].charge[k]]) = 0
      BY <1>1, SumEmpty
    <3>3. pool.mem[k] = Capacity[k] /\ Capacity[k] \in Nat
      BY MachineAssumption DEF Init, EmptyMachine
    <3> QED
      BY <3>2, <3>3
  <2> QED
    BY <1>1, <2>1 DEF BooksBalance, Init, EmptyMachine
<1>5. CountOK /\ HomeFirst /\ AloneOK
  BY <1>1, FS_EmptySet DEF Init, CountOK, HomeFirst, AloneOK, EmptyMachine
<1> QED
  BY <1>2, <1>3, <1>4, <1>5 DEF IInv

\* Taking what allocate decides keeps the books: it is free, and taken once.
LEMMA TakeKeeps ==
  ASSUME IInv, NEW j \in Jobs, Take(j)
  PROVE  IInv'
<1>1. held[j] = None /\ held \in [Jobs -> Allocation \cup {None}] /\ pool \in Pool
  BY DEF Take, IInv, TypeOK
<1>2. PICK r \in Requests : \E a \in Allocate(pool, r) :
        pool' = Reserve(pool, a) /\ held' = [held EXCEPT ![j] = a]
  BY DEF Take
<1>3. PICK a \in Allocate(pool, r) : pool' = Reserve(pool, a) /\ held' = [held EXCEPT ![j] = a]
  BY <1>2
<1>4. /\ a \in Allocation
      /\ a.cpus \subseteq UNION { pool.cpus[n] : n \in a.nodes }
      /\ a.gpus \subseteq pool.gpus
      /\ \A k \in Domains : a.charge[k] <= pool.mem[k]
  BY <1>1, PlacementAssumption, PlanIsFree DEF Allocate
<1>5. a # None /\ a.nodes \subseteq Nodes /\ a.charge \in [Domains -> Nat]
      /\ pool.mem \in [Domains -> Nat]
  BY <1>1, <1>4, PlacementAssumption DEF Allocation, Pool
<1>6. /\ Holders' = Holders \cup {j} /\ j \notin Holders
      /\ held'[j] = a /\ \A i \in Holders : held'[i] = held[i]
  BY <1>1, <1>3, <1>5 DEF Holders
<1>7. TypeOK'
  BY <1>1, <1>3, <1>4, ReserveType DEF TypeOK
<1>8. \A n \in Nodes : pool.cpus[n] = NodeCpus[n] \ UNION { held[i].cpus : i \in Holders }
  BY DEF IInv, BooksBalance
<1>9. a.cpus \subseteq UNION { NodeCpus[n] : n \in a.nodes }
  BY <1>4, <1>5, <1>8
<1>10. \A k \in Domains : pool'.mem[k] = pool.mem[k] - a.charge[k]
  BY <1>3, <1>4, <1>5, ChargeOfOwn DEF Reserve, AtLeast
<1>11. HeldOK'
  <2>1. IsFiniteSet(Holders')
    BY <1>6, FS_AddElement DEF IInv, HeldOK
  <2>2. \A i \in Holders' : held'[i].cpus \subseteq UNION { NodeCpus[n] : n \in held'[i].nodes }
    BY <1>6, <1>9 DEF IInv, HeldOK
  <2>3. \A k \in Domains : pool'.mem[k] <= Capacity[k]
    BY <1>5, <1>10, MachineAssumption DEF IInv, HeldOK
  <2> QED
    BY <2>1, <2>2, <2>3 DEF HeldOK
<1>12. BooksBalance'
  <2>1. ASSUME NEW n \in Nodes
        PROVE  pool'.cpus[n] = NodeCpus[n] \ UNION { held'[i].cpus : i \in Holders' }
    <3>1. pool'.cpus[n] = pool.cpus[n] \ a.cpus
      BY <1>1, <1>3, <1>4, <1>8, <1>9, ReserveTakes
    <3>2. UNION { held'[i].cpus : i \in Holders' }
            = a.cpus \cup UNION { held[i].cpus : i \in Holders }
      BY <1>6
    <3> QED
      BY <1>8, <3>1, <3>2
  <2>2. pool'.gpus = GpuIds \ UNION { held'[i].gpus : i \in Holders' }
    <3>1. UNION { held'[i].gpus : i \in Holders' }
            = a.gpus \cup UNION { held[i].gpus : i \in Holders }
      BY <1>6
    <3>2. pool'.gpus = pool.gpus \ a.gpus
      BY <1>3 DEF Reserve
    <3> QED
      BY <3>1, <3>2 DEF IInv, BooksBalance
  <2>3. ASSUME NEW k \in Domains
        PROVE  pool'.mem[k] + SumFunction([i \in Holders' |-> held'[i].charge[k]]) = Capacity[k]
    <3> DEFINE f == [i \in Holders |-> held[i].charge[k]]
               g == [i \in Holders' |-> held'[i].charge[k]]
    <3>1. \A i \in Holders : f[i] \in Nat
      BY HoldersHold DEF IInv
    <3>2. /\ IsFiniteSet(Holders) /\ j \notin Holders /\ DOMAIN g = Holders \cup {j}
          /\ f = [i \in Holders |-> g[i]] /\ \A i \in Holders \cup {j} : g[i] \in Int
      BY <1>5, <1>6, <3>1 DEF IInv, HeldOK
    <3>3. g[j] = a.charge[k]
      BY <1>6
    <3>4. pool.mem[k] + SumFunction(f) = Capacity[k]
      BY DEF IInv, BooksBalance
    <3>5. SumFunction(f) \in Nat
      <4>1. DOMAIN f = Holders
        OBVIOUS
      <4> HIDE DEF f
      <4> QED
        BY <3>1, <3>2, <4>1, SumNat
    <3> HIDE DEF f, g
    <3>6. SumFunction(g) = g[j] + SumFunction(f)
      BY <3>2, SumWith
    <3>7. pool'.mem[k] + SumFunction(g) = Capacity[k]
      BY <1>5, <1>10, <3>3, <3>4, <3>5, <3>6
    <3> QED
      BY <3>7 DEF g
  <2>4. ASSUME NEW i \in Holders
        PROVE  a.cpus \cap held[i].cpus = {} /\ a.gpus \cap held[i].gpus = {}
    <3>1. a.cpus \cap held[i].cpus = {}
      BY <1>4, <1>5, <1>8
    <3>2. a.gpus \cap held[i].gpus = {}
      BY <1>4 DEF IInv, BooksBalance
    <3> QED
      BY <3>1, <3>2
  <2>5. \A x, y \in Holders' : x # y => /\ held'[x].cpus \cap held'[y].cpus = {}
                                        /\ held'[x].gpus \cap held'[y].gpus = {}
    BY <1>6, <2>4 DEF IInv, BooksBalance
  <2> QED
    BY <2>1, <2>2, <2>3, <2>5 DEF BooksBalance
<1>13. CountOK'
  <2>1. pool'.active = pool.active + 1
    BY <1>3 DEF Reserve
  <2>2. Cardinality(Holders') = Cardinality(Holders) + 1
    BY <1>6, FS_AddElement DEF IInv, HeldOK
  <2> QED
    BY <2>1, <2>2 DEF IInv, CountOK
<1>14. HomeFirst'
  <2>1. a.cpus \subseteq NodeCpus[a.home] \/ NodeCpus[a.home] \subseteq a.cpus
    BY HomeDrained DEF IInv, HeldOK
  <2> QED
    BY <1>6, <2>1 DEF IInv, HomeFirst
<1>15. AloneOK'
  <2>1. pool'.exclusive = (pool.exclusive \/ a.exclusive)
    BY <1>3 DEF Reserve
  <2>2. j \in Holders' /\ held'[j].exclusive = a.exclusive /\ Holders \subseteq Holders'
    BY <1>6
  <2> QED
    BY <1>6, <2>1, <2>2 DEF IInv, AloneOK
<1> QED
  BY <1>7, <1>11, <1>12, <1>13, <1>14, <1>15 DEF IInv

\* Giving back restores what was taken: the clamps of Release (not above capacity, not
\* below zero) never bite, because the books balanced.
LEMMA GiveKeeps ==
  ASSUME IInv, NEW j \in Jobs, Give(j)
  PROVE  IInv'
<1> DEFINE a == held[j]
<1>1. /\ j \in Holders /\ held \in [Jobs -> Allocation \cup {None}] /\ pool \in Pool
      /\ pool' = Release(pool, a) /\ held' = [held EXCEPT ![j] = None]
  BY DEF Give, IInv, TypeOK, Holders
<1>2. a \in Allocation /\ a.charge \in [Domains -> Nat] /\ pool.mem \in [Domains -> Nat]
  BY <1>1, HoldersHold DEF IInv, Pool
<1>3. /\ Holders' = Holders \ {j} /\ \A i \in Holders' : held'[i] = held[i]
  BY <1>1 DEF Holders
<1>4. TypeOK'
  BY <1>1, <1>2, ReleaseType DEF TypeOK
<1>5. a.cpus \subseteq UNION { NodeCpus[n] : n \in a.nodes }
  BY <1>1 DEF IInv, HeldOK
<1>6. \A n \in Nodes : pool.cpus[n] = NodeCpus[n] \ UNION { held[i].cpus : i \in Holders }
  BY DEF IInv, BooksBalance
<1>7. \A i \in Holders' : a.cpus \cap held[i].cpus = {} /\ a.gpus \cap held[i].gpus = {}
  BY <1>1, <1>3 DEF IInv, BooksBalance
<1>8. ASSUME NEW k \in Domains
      PROVE  /\ pool'.mem[k] + SumFunction([i \in Holders' |-> held'[i].charge[k]]) = Capacity[k]
             /\ pool'.mem[k] <= Capacity[k]
  <2> DEFINE f == [i \in Holders |-> held[i].charge[k]]
             g == [i \in Holders' |-> held'[i].charge[k]]
  <2>1. \A i \in Holders : f[i] \in Nat
    BY HoldersHold DEF IInv
  <2>2. /\ DOMAIN f = Holders /\ DOMAIN g = Holders \ {j} /\ j \in Holders
        /\ g = [i \in Holders \ {j} |-> f[i]] /\ \A i \in DOMAIN g : g[i] \in Nat
    BY <1>1, <1>3, <2>1
  <2>3. f[j] = a.charge[k]
    BY <1>1
  <2>4. pool.mem[k] + SumFunction(f) = Capacity[k]
    BY DEF IInv, BooksBalance
  <2>5. pool'.mem[k] = AtMost(pool.mem[k] + a.charge[k], Capacity[k])
    BY <1>1, <1>2, ChargeOfOwn DEF Release
  <2> HIDE DEF f, g, a
  <2>6. IsFiniteSet(Holders) /\ IsFiniteSet(DOMAIN g)
    BY <2>2, FS_Subset DEF IInv, HeldOK
  <2>7. SumFunction(f) = f[j] + SumFunction(g)
    BY <2>1, <2>2, <2>6, SumPlus
  <2>8. SumFunction(g) \in Nat
    BY <2>2, <2>6, SumNat
  <2>9. Capacity[k] \in Nat /\ a.charge[k] \in Nat /\ pool.mem[k] \in Nat
    BY <1>2, MachineAssumption
  <2>10. pool'.mem[k] + SumFunction(g) = Capacity[k] /\ pool'.mem[k] <= Capacity[k]
    BY <2>3, <2>4, <2>5, <2>7, <2>8, <2>9 DEF AtMost
  <2> QED
    BY <2>10 DEF g
<1>9. HeldOK'
  <2>1. IsFiniteSet(Holders')
    BY <1>3, FS_Subset DEF IInv, HeldOK
  <2> QED
    BY <1>3, <1>8, <2>1 DEF IInv, HeldOK
<1>10. BooksBalance'
  <2>1. ASSUME NEW n \in Nodes
        PROVE  pool'.cpus[n] = NodeCpus[n] \ UNION { held'[i].cpus : i \in Holders' }
    <3>1. pool'.cpus[n] = pool.cpus[n] \cup (a.cpus \cap NodeCpus[n])
      BY <1>1, <1>2, <1>5, ReleaseGives
    <3>2. UNION { held[i].cpus : i \in Holders }
            = a.cpus \cup UNION { held'[i].cpus : i \in Holders' }
      BY <1>1, <1>3
    <3>3. a.cpus \cap UNION { held'[i].cpus : i \in Holders' } = {}
      BY <1>3, <1>7
    <3> QED
      BY <1>6, <3>1, <3>2, <3>3
  <2>2. pool'.gpus = GpuIds \ UNION { held'[i].gpus : i \in Holders' }
    <3>1. pool'.gpus = pool.gpus \cup (a.gpus \cap GpuIds)
      BY <1>1 DEF Release
    <3>2. UNION { held[i].gpus : i \in Holders }
            = a.gpus \cup UNION { held'[i].gpus : i \in Holders' }
      BY <1>1, <1>3
    <3>3. a.gpus \cap UNION { held'[i].gpus : i \in Holders' } = {}
      BY <1>3, <1>7
    <3> QED
      BY <3>1, <3>2, <3>3 DEF IInv, BooksBalance
  <2>3. \A x, y \in Holders' : x # y => /\ held'[x].cpus \cap held'[y].cpus = {}
                                        /\ held'[x].gpus \cap held'[y].gpus = {}
    BY <1>3 DEF IInv, BooksBalance
  <2> QED
    BY <1>8, <2>1, <2>2, <2>3 DEF BooksBalance
<1>11. CountOK'
  <2>1. pool'.active = AtLeast(pool.active - 1, 0)
    BY <1>1 DEF Release
  <2>2. Cardinality(Holders') = Cardinality(Holders) - 1 /\ Cardinality(Holders') \in Nat
    <3>1. IsFiniteSet(Holders) /\ IsFiniteSet(Holders')
      BY <1>3, FS_Subset DEF IInv, HeldOK
    <3> QED
      BY <1>1, <1>3, <3>1, FS_RemoveElement, FS_CardinalityType
  <2>3. Cardinality(Holders) = pool.active /\ pool.active \in Nat
    BY <1>1 DEF IInv, CountOK, Pool
  <2> QED
    BY <2>1, <2>2, <2>3 DEF CountOK, AtLeast
<1>12. HomeFirst'
  BY <1>3 DEF IInv, HomeFirst
<1>13. AloneOK'
  <2>1. pool'.exclusive => pool.exclusive /\ ~a.exclusive
    BY <1>1 DEF Release
  <2> QED
    BY <1>3, <2>1 DEF IInv, AloneOK
<1> QED
  BY <1>4, <1>9, <1>10, <1>11, <1>12, <1>13 DEF IInv

(***************************************************************************)
(* The invariant holds in every reachable state.                           *)
(***************************************************************************)
THEOREM Invariance == Spec => []IInv
<1>1. Init => IInv
  BY InitInvariant
<1>2. IInv /\ [Next]_vars => IInv'
  <2> SUFFICES ASSUME IInv, [Next]_vars PROVE IInv'
    OBVIOUS
  <2>1. ASSUME NEW j \in Jobs, Take(j) PROVE IInv'
    BY <2>1, TakeKeeps
  <2>2. ASSUME NEW j \in Jobs, Give(j) PROVE IInv'
    BY <2>2, GiveKeeps
  <2>3. CASE UNCHANGED vars
    BY <2>3 DEF vars, IInv, TypeOK, HeldOK, BooksBalance, CountOK, HomeFirst, AloneOK, Holders
  <2> QED
    BY <2>1, <2>2, <2>3 DEF Next
<1> QED
  BY <1>1, <1>2, PTL DEF Spec

\* A charge empties every domain it is drawn from before the one it ends in: two domains
\* that are charged and left with memory would each have to precede the other.
LEMMA OneLeftOpen == TypeOK => OneDomainLeftOpen
<1> SUFFICES ASSUME TypeOK, NEW r \in Requests, NEW a \in Allocate(pool, r)
             PROVE  Cardinality({ k \in Domains : a.charge[k] > 0
                                                   /\ Reserve(pool, a).mem[k] > 0 }) <= 1
  BY DEF OneDomainLeftOpen
<1> DEFINE open == { k \in Domains : a.charge[k] > 0 /\ Reserve(pool, a).mem[k] > 0 }
<1>1. /\ r \in Request /\ a \in Allocation /\ a.charge \in Charges(pool, r, a.home)
      /\ \A k \in Domains : a.charge[k] <= pool.mem[k]
  BY DecisionParts
<1>2. a.charge \in [Domains -> Nat] /\ pool.mem \in [Domains -> Nat] /\ a.home \in Nodes
  BY <1>1 DEF Allocation, TypeOK, Pool
<1>3. ASSUME NEW k \in open PROVE a.charge[k] # pool.mem[k]
  BY <1>1, <1>2, ChargeOfOwn DEF Reserve, AtLeast
<1>4. ASSUME NEW i \in open, NEW k \in open, i # k PROVE FALSE
  <2>1. TracksMemory
    BY <1>1, <1>2 DEF Charges
  <2>2. ASSUME NEW x \in open, NEW y \in open, DrawnBefore(x, y, a.home) PROVE FALSE
    BY <1>1, <1>3, <2>1, <2>2 DEF Charges
  <2>3. DrawnBefore(i, k, a.home) \/ DrawnBefore(k, i, a.home)
    <3>1. i \in Int /\ k \in Int /\ i # k
      BY <1>4, DomainsKnown
    <3> QED
      BY <3>1 DEF DrawnBefore
  <2> QED
    BY <2>2, <2>3
<1>5. CASE open = {}
  BY <1>5, FS_EmptySet
<1>6. CASE open # {}
  <2>1. PICK k \in open : TRUE
    BY <1>6
  <2>2. open = {k}
    BY <1>4, <2>1
  <2>3. Cardinality({k}) = 1
    BY FS_Singleton
  <2> QED
    BY <2>2, <2>3
<1> QED
  BY <1>5, <1>6

\* When a node with the cpus also holds the budget, HomeNode takes such a node, and the
\* home node, drawn from first, then covers the budget alone.
LEMMA SpansLast == TypeOK => SpansOnlyWhenItMust
<1> SUFFICES ASSUME TypeOK, NEW r \in Requests, NEW a \in Allocate(pool, r), MaxNodes(r) = 1,
                    NEW k \in Domains \ {MemKey(a.home)}, a.charge[k] > 0,
                    NEW n \in Candidates(r, NodesFor(a.gpus)), Cardinality(pool.cpus[n]) >= r.cpu
             PROVE  r.mem > pool.mem[MemKey(n)]
  BY DEF SpansOnlyWhenItMust
<1> DEFINE near == NodesFor(a.gpus)
           whole == { m \in Candidates(r, near) : Cardinality(pool.cpus[m]) >= r.cpu }
           local == { m \in whole : FitsLocally(pool, m, r.mem) }
           own == MemKey(a.home)
<1>1. /\ r \in Request /\ a \in Allocation /\ a.charge \in Charges(pool, r, a.home)
      /\ a.home \in HomeNode(pool, r, Candidates(r, near), near)
  BY DecisionParts
<1>2. /\ a.charge \in [Domains -> Nat] /\ pool.mem \in [Domains -> Nat] /\ a.home \in Nodes
      /\ own \in Domains /\ r.mem \in Nat
  BY <1>1, DomainsKnown DEF Allocation, TypeOK, Pool, Request
<1>3. TracksMemory /\ SumFunction(a.charge) = r.mem
  BY <1>1, <1>2 DEF Charges
<1>4. a.charge[own] = pool.mem[own]
  <2>1. DrawnBefore(own, k, a.home)
    BY DEF DrawnBefore
  <2> QED
    BY <1>1, <1>2, <1>3, <2>1 DEF Charges
<1>5. a.charge[own] + a.charge[k] <= r.mem
  <2>1. DOMAIN a.charge = Domains /\ \A i \in DOMAIN a.charge : a.charge[i] \in Nat
    BY <1>2
  <2> QED
    BY <1>2, <1>3, <2>1, DomainsKnown, SumAtLeastTwo
<1>6. ~FitsLocally(pool, a.home, r.mem)
  BY <1>2, <1>3, <1>4, <1>5 DEF FitsLocally
<1>7. local = {}
  <2>1. ASSUME local # {} PROVE a.home \in local
    BY <1>1, <2>1 DEF HomeNode, Foremost
  <2> QED
    BY <1>6, <2>1
<1>8. n \in whole /\ n \in Nodes
  BY DEF Candidates
<1>9. ~FitsLocally(pool, n, r.mem) /\ MemKey(n) \in Domains
  BY <1>7, <1>8, DomainsKnown
<1> QED
  BY <1>2, <1>3, <1>9 DEF FitsLocally

-----------------------------------------------------------------------------
\* the cpus that share memory domain k
CpusOf(k) == IF Confined THEN NodeCpus[k] ELSE AllCpus

\* The cpus of a domain are cpus of the machine, and include those of its nodes.
LEMMA CpusOfKnown ==
  /\ \A k \in Domains : IsFiniteSet(CpusOf(k)) /\ Cardinality(CpusOf(k)) \in Nat
  /\ \A n \in Nodes : NodeCpus[n] \subseteq CpusOf(MemKey(n))
<1>1. IsFiniteSet(AllCpus)
  BY AllCpusFinite
<1>2. \A n \in Nodes : IsFiniteSet(NodeCpus[n])
  BY MachineAssumption
<1>3. \A k \in Domains : IsFiniteSet(CpusOf(k))
  BY <1>1, <1>2 DEF CpusOf, Domains
<1>4. \A n \in Nodes : NodeCpus[n] \subseteq CpusOf(MemKey(n))
  BY DEF CpusOf, MemKey, AllCpus
<1> QED
  BY <1>3, <1>4, FS_CardinalityType

\* what c cpus of domain k are worth, rounded down
Worth(k, c) ==
  (Capacity[k] * AtMost(c, Cardinality(CpusOf(k)))) \div Cardinality(CpusOf(k))

\* ProportionalShare chooses among what the cpus are worth in each domain that has any.
LEMMA SharesAre ==
  ASSUME NEW c \in Nat
  PROVE  Shares(c) = { Worth(k, c) : k \in { i \in Domains : CpusOf(i) # {} } }
<1>1. CASE Confined
  BY <1>1 DEF Shares, Worth, CpusOf, Domains
<1>2. CASE ~Confined
  <2>1. Domains = {SharedMem} /\ CpusOf(SharedMem) = AllCpus
    BY <1>2 DEF Domains, CpusOf
  <2>2. TotalCpus = 0 <=> AllCpus = {}
    <3>1. IsFiniteSet(AllCpus)
      BY <2>1, CpusOfKnown
    <3> QED
      BY <3>1, FS_EmptySet DEF TotalCpus
  <2>3. Worth(SharedMem, c) = (Capacity[SharedMem] * AtMost(c, TotalCpus)) \div TotalCpus
    BY <2>1 DEF Worth, TotalCpus
  <2>4. CASE AllCpus = {}
    BY <1>2, <2>1, <2>2, <2>4 DEF Shares
  <2>5. CASE AllCpus # {}
    BY <1>2, <2>1, <2>2, <2>3, <2>5 DEF Shares
  <2> QED
    BY <2>4, <2>5
<1> QED
  BY <1>1, <1>2

\* What c cpus are worth is at most their part of the domain, and grows with c.
LEMMA WorthBound ==
  ASSUME NEW k \in Domains, CpusOf(k) # {}, NEW c \in Nat
  PROVE  /\ Cardinality(CpusOf(k)) \in Nat \ {0}
         /\ Worth(k, c) \in Nat
         /\ Cardinality(CpusOf(k)) * Worth(k, c)
              <= Capacity[k] * AtMost(c, Cardinality(CpusOf(k)))
         /\ \A d \in Nat : c <= d => Worth(k, c) <= Worth(k, d)
<1> DEFINE N == Cardinality(CpusOf(k))
           x(d) == Capacity[k] * AtMost(d, N)
<1>1. N \in Nat \ {0}
  BY CpusOfKnown, FS_EmptySet
<1>2. Capacity[k] \in Nat
  BY MachineAssumption
<1>3. ASSUME NEW d \in Nat PROVE AtMost(d, N) \in Nat
  BY <1>1 DEF AtMost
<1> HIDE DEF N
<1>4. ASSUME NEW d \in Nat PROVE x(d) \in Nat
  BY <1>2, <1>3
<1>5. \A d \in Nat : Worth(k, d) = x(d) \div N
  BY DEF Worth, N
<1>6. Worth(k, c) \in Nat /\ N * Worth(k, c) <= x(c)
  <2> HIDE DEF x
  <2> QED
    BY <1>1, <1>4, <1>5, DivBound
<1>7. ASSUME NEW d \in Nat, c <= d PROVE Worth(k, c) <= Worth(k, d)
  <2>1. AtMost(c, N) <= AtMost(d, N)
    BY <1>1, <1>7 DEF AtMost
  <2>2. \A i, j, m \in Nat : i <= j => m * i <= m * j
    OBVIOUS
  <2>3. x(c) <= x(d)
    BY <1>2, <1>3, <2>1, <2>2
  <2> HIDE DEF x
  <2> QED
    BY <1>1, <1>4, <1>5, <2>3, DivMono
<1> QED
  BY <1>1, <1>6, <1>7 DEF N

\* So is the proportional share, the least of these, on the scale of every domain:
\* cpus * share <= capacity * c, without the rounding of the division.
LEMMA ShareBound ==
  ASSUME NEW k \in Domains, CpusOf(k) # {}, NEW c \in Nat
  PROVE  /\ ProportionalShare(c) \in Nat
         /\ Cardinality(CpusOf(k)) * ProportionalShare(c)
              <= Capacity[k] * AtMost(c, Cardinality(CpusOf(k)))
         /\ \A d \in Nat : c <= d => ProportionalShare(c) <= ProportionalShare(d)
<1> DEFINE Counting == { i \in Domains : CpusOf(i) # {} }
<1>1. IsFiniteSet(Counting) /\ k \in Counting
  BY DomainsKnown, FS_Subset
<1>2. ASSUME NEW d \in Nat
      PROVE  /\ \E i \in Counting : ProportionalShare(d) = Worth(i, d)
             /\ \A i \in Counting : ProportionalShare(d) <= Worth(i, d)
             /\ ProportionalShare(d) \in Nat
  <2> DEFINE f == [i \in Counting |-> Worth(i, d)]
  <2>1. Shares(d) = { f[i] : i \in Counting }
    BY SharesAre
  <2>2. IsFiniteSet({ f[i] : i \in Counting })
    <3>1. DOMAIN f = Counting
      OBVIOUS
    <3> HIDE DEF f, Counting
    <3> QED
      BY <1>1, <3>1, FiniteImage
  <2>3. \A i \in Counting : f[i] = Worth(i, d) /\ Worth(i, d) \in Nat
    BY WorthBound
  <2> HIDE DEF f, Counting
  <2>4. IsFiniteSet(Shares(d)) /\ Shares(d) # {} /\ \A x \in Shares(d) : x \in Int
    BY <1>1, <2>1, <2>2, <2>3
  <2>5. \E x \in Shares(d) : \A y \in Shares(d) : x <= y
    BY <2>4, HasLeast
  <2>6. /\ ProportionalShare(d) \in Shares(d)
        /\ \A y \in Shares(d) : ProportionalShare(d) <= y
    BY <2>4, <2>5 DEF ProportionalShare, Least
  <2> QED
    BY <2>1, <2>3, <2>6
<1>3. ProportionalShare(c) \in Nat /\ ProportionalShare(c) <= Worth(k, c)
  BY <1>1, <1>2
<1>4. Cardinality(CpusOf(k)) * ProportionalShare(c)
        <= Capacity[k] * AtMost(c, Cardinality(CpusOf(k)))
  <2>1. /\ Cardinality(CpusOf(k)) \in Nat \ {0} /\ Worth(k, c) \in Nat
        /\ Cardinality(CpusOf(k)) * Worth(k, c)
             <= Capacity[k] * AtMost(c, Cardinality(CpusOf(k)))
    BY WorthBound
  <2>2. Capacity[k] * AtMost(c, Cardinality(CpusOf(k))) \in Int
    BY <2>1, MachineAssumption DEF AtMost
  <2>3. \A n, p, q \in Nat : \A z \in Int : p <= q /\ n * q <= z => n * p <= z
    OBVIOUS
  <2> QED
    BY <1>3, <2>1, <2>2, <2>3
<1>5. ASSUME NEW d \in Nat, c <= d PROVE ProportionalShare(c) <= ProportionalShare(d)
  <2>1. PICK i \in Counting : ProportionalShare(d) = Worth(i, d)
    BY <1>2
  <2>2. ProportionalShare(c) <= Worth(i, c) /\ Worth(i, c) <= Worth(i, d)
        /\ Worth(i, c) \in Nat /\ Worth(i, d) \in Nat
    BY <1>2, <1>5, WorthBound
  <2> QED
    BY <1>3, <2>1, <2>2
<1> QED
  BY <1>3, <1>4, <1>5

\* A job within its share costs a domain no more than the part its cpus there stand for.
\* HomeFirst is what makes this true of a job that also has cpus elsewhere.
LEMMA WithinItsCpus ==
  ASSUME IInv, NEW j \in Holders, WithinShare(j), NEW k \in Domains, CpusOf(k) # {}
  PROVE  Cardinality(CpusOf(k)) * held[j].charge[k]
           <= Capacity[k] * Cardinality(held[j].cpus \cap CpusOf(k))
<1> DEFINE N == Cardinality(CpusOf(k))
           cpus == held[j].cpus
           own == Cardinality(cpus \cap CpusOf(k))
           charge == held[j].charge
<1>1. /\ held[j] \in Allocation /\ charge \in [Domains -> Nat] /\ held[j].home \in Nodes
      /\ cpus \subseteq AllCpus
  BY HoldersHold DEF IInv, Allocation
<1>2. /\ N \in Nat /\ own \in Nat /\ IsFiniteSet(CpusOf(k)) /\ Capacity[k] \in Nat
      /\ Capacity[k] * own \in Nat
  <2>1. N \in Nat /\ IsFiniteSet(CpusOf(k))
    BY CpusOfKnown
  <2>2. own \in Nat
    BY <2>1, FS_Subset, FS_CardinalityType
  <2>3. Capacity[k] \in Nat
    BY MachineAssumption
  <2> QED
    BY <2>1, <2>2, <2>3
<1>3. CASE k # MemKey(held[j].home)
  <2>1. charge[k] = 0
    BY <1>3 DEF WithinShare
  <2> HIDE DEF N, own, charge
  <2>2. N * charge[k] = 0
    BY <1>2, <2>1
  <2> QED
    BY <1>2, <2>2 DEF N, own, charge
<1>4. CASE k = MemKey(held[j].home)
  <2> DEFINE c == Cardinality(cpus)
             share == ProportionalShare(c)
  <2>1. IsFiniteSet(cpus) /\ c \in Nat
    <3>1. IsFiniteSet(AllCpus)
      BY AllCpusFinite
    <3> QED
      BY <1>1, <3>1, FS_Subset, FS_CardinalityType
  <2>2. share \in Nat /\ N * share <= Capacity[k] * AtMost(c, N)
    BY <2>1, ShareBound
  <2>3. charge[k] <= share /\ charge[k] \in Nat
    <3>1. charge[k] <= SumFunction(charge) /\ SumFunction(charge) \in Nat
      <4>1. DOMAIN charge = Domains /\ \A x \in DOMAIN charge : charge[x] \in Nat
        BY <1>1
      <4> HIDE DEF charge
      <4> QED
        BY <4>1, DomainsKnown, SumAtLeast, SumNat
    <3>2. SumFunction(charge) <= share
      BY DEF WithinShare
    <3>3. share \in Nat
      BY <2>2
    <3>4. charge[k] \in Nat
      BY <1>1
    <3> QED
      BY <3>1, <3>2, <3>3, <3>4
  <2>4. AtMost(c, N) <= own /\ AtMost(c, N) \in Nat
    <3>1. AtMost(c, N) <= c /\ AtMost(c, N) <= N /\ AtMost(c, N) \in Nat
      BY <1>2, <2>1 DEF AtMost
    <3>2. cpus \subseteq CpusOf(k) \/ CpusOf(k) \subseteq cpus
      <4>1. CASE Confined
        BY <1>4, <4>1 DEF IInv, HomeFirst, CpusOf, MemKey
      <4>2. CASE ~Confined
        BY <1>1, <4>2 DEF CpusOf
      <4> QED
        BY <4>1, <4>2
    <3>3. CASE cpus \subseteq CpusOf(k)
      <4>1. cpus \cap CpusOf(k) = cpus
        BY <3>3
      <4> QED
        BY <3>1, <4>1
    <3>4. CASE CpusOf(k) \subseteq cpus
      <4>1. cpus \cap CpusOf(k) = CpusOf(k)
        BY <3>4
      <4> QED
        BY <3>1, <4>1
    <3> QED
      BY <3>2, <3>3, <3>4
  <2>5. \A n, p, q, x, y, z \in Nat :
          p <= q /\ n * q <= x * y /\ y <= z => n * p <= x * z
    <3>1. \A n, p, q \in Nat : p <= q => n * p <= n * q
      OBVIOUS
    <3>2. \A n, p, q \in Nat : n * p \in Nat
      OBVIOUS
    <3>3. \A a, b, d, e \in Nat : a <= b /\ b <= d /\ d <= e => a <= e
      OBVIOUS
    <3> QED
      BY <3>1, <3>2, <3>3
  <2> HIDE DEF N, own, charge, share, c
  <2>6. N * charge[k] <= Capacity[k] * own
    BY <1>2, <2>2, <2>3, <2>4, <2>5
  <2> QED
    BY <2>6 DEF N, own, charge
<1> QED
  BY <1>3, <1>4

\* Summed over the holders, whose cpus are disjoint: the memory left in the domain of a
\* node is at least the part that its free cpus stand for.
LEMMA MemoryForFreeCpus ==
  ASSUME IInv, \A j \in Holders : WithinShare(j), NEW n \in Nodes, pool.cpus[n] # {}
  PROVE  LET k == MemKey(n)
         IN  Capacity[k] * Cardinality(pool.cpus[n])
               <= Cardinality(CpusOf(k)) * pool.mem[k]
<1> DEFINE k == MemKey(n)
           N == Cardinality(CpusOf(k))
           free == Cardinality(pool.cpus[n])
           f == [j \in Holders |-> held[j].charge[k]]
           taken == [j \in Holders |-> held[j].cpus \cap CpusOf(k)]
           g == [j \in Holders |-> Cardinality(taken[j])]
<1>1. k \in Domains /\ IsFiniteSet(CpusOf(k)) /\ N \in Nat /\ NodeCpus[n] \subseteq CpusOf(k)
  BY DomainsKnown, CpusOfKnown
<1>2. pool.cpus[n] = NodeCpus[n] \ UNION { held[j].cpus : j \in Holders }
  BY DEF IInv, BooksBalance
<1>3. CpusOf(k) # {}
  BY <1>1, <1>2
<1>4. IsFiniteSet(Holders)
  BY DEF IInv, HeldOK
<1>5. ASSUME NEW j \in Holders
      PROVE  /\ f[j] \in Nat /\ IsFiniteSet(taken[j]) /\ g[j] \in Nat
             /\ N * f[j] <= Capacity[k] * g[j]
  <2>2. held[j].charge \in [Domains -> Nat]
    BY HoldersHold DEF IInv
  <2>3. IsFiniteSet(taken[j])
    BY <1>1, FS_Subset
  <2>4. N * held[j].charge[k] <= Capacity[k] * Cardinality(held[j].cpus \cap CpusOf(k))
    BY <1>1, <1>3, WithinItsCpus
  <2> QED
    BY <1>1, <2>2, <2>3, <2>4, FS_CardinalityType
<1>6. /\ DOMAIN f = Holders /\ DOMAIN g = Holders /\ DOMAIN taken = Holders
      /\ \A x, y \in Holders : x # y => taken[x] \cap taken[y] = {}
  BY DEF IInv, BooksBalance
<1>7. SumFunction(g) = Cardinality(UNION { taken[j] : j \in Holders })
  <2> HIDE DEF taken
  <2> QED
    BY <1>4, <1>5, <1>6, SumOfDisjoint
<1>8. SumFunction(g) + free <= N /\ SumFunction(g) \in Nat /\ free \in Nat
  <2> DEFINE used == UNION { taken[j] : j \in Holders }
  <2>1. used \subseteq CpusOf(k) /\ pool.cpus[n] \subseteq CpusOf(k)
    BY <1>1, <1>2
  <2>2. used \cap pool.cpus[n] = {}
    BY <1>2
  <2> HIDE DEF used, g
  <2>3. IsFiniteSet(used) /\ IsFiniteSet(pool.cpus[n])
    BY <1>1, <2>1, FS_Subset
  <2>4. Cardinality(used \cup pool.cpus[n]) = Cardinality(used) + Cardinality(pool.cpus[n])
    BY <2>2, <2>3, DisjointUnion
  <2>5. used \cup pool.cpus[n] \subseteq CpusOf(k)
    BY <2>1
  <2>6. Cardinality(used \cup pool.cpus[n]) <= N
    BY <1>1, <2>5, FS_Subset
  <2>7. Cardinality(used) \in Nat /\ free \in Nat
    BY <2>3, FS_CardinalityType
  <2> QED
    BY <1>7, <2>4, <2>6, <2>7 DEF used
<1>9. Capacity[k] \in Nat /\ pool.mem[k] \in Nat /\ pool.mem[k] + SumFunction(f) = Capacity[k]
  BY <1>1, MachineAssumption DEF IInv, TypeOK, Pool, BooksBalance
<1> HIDE DEF k, N, free, f, g, taken
<1>10. N * SumFunction(f) <= Capacity[k] * SumFunction(g) /\ SumFunction(f) \in Nat
  <2>1. /\ IsFiniteSet(Holders) /\ DOMAIN f = Holders /\ DOMAIN g = Holders
        /\ \A j \in Holders : f[j] \in Int /\ g[j] \in Int
        /\ \A j \in DOMAIN f : f[j] \in Nat
        /\ \A j \in Holders : N * f[j] <= Capacity[k] * g[j]
    BY <1>4, <1>5, <1>6
  <2>2. N \in Int /\ Capacity[k] \in Int
    BY <1>1, <1>9
  <2> DEFINE cap == Capacity[k]
  <2>3. N * SumFunction(f) <= cap * SumFunction(g)
    <3>1. cap \in Int /\ \A j \in Holders : N * f[j] <= cap * g[j]
      BY <2>1, <2>2
    <3> HIDE DEF cap
    <3> QED
      BY <2>1, <2>2, <3>1, SumDominated
  <2>4. SumFunction(f) \in Nat
    BY <2>1, SumNat
  <2> QED
    BY <2>3, <2>4
<1>11. Capacity[k] * free <= N * pool.mem[k]
  <2>1. \A n1, c, s, t, m, x \in Nat :
          /\ m + s = c /\ n1 * s <= c * t /\ t + x <= n1 => c * x <= n1 * m
    <3>1. SUFFICES ASSUME NEW n1 \in Nat, NEW c \in Nat, NEW s \in Nat, NEW t \in Nat,
                          NEW m \in Nat, NEW x \in Nat,
                          m + s = c, n1 * s <= c * t, t + x <= n1
                   PROVE  c * x <= n1 * m
      OBVIOUS
    <3>2. n1 * c = n1 * m + n1 * s
      BY <3>1
    <3>3. c * (t + x) <= c * n1
      BY <3>1
    <3>4. c * (t + x) = c * t + c * x
      OBVIOUS
    <3>5. /\ n1 * c \in Int /\ n1 * m \in Int /\ n1 * s \in Int /\ c * t \in Int
          /\ c * x \in Int /\ c * n1 = n1 * c
      OBVIOUS
    <3> QED
      BY <3>1, <3>2, <3>3, <3>4, <3>5
  <2> QED
    BY <1>1, <1>8, <1>9, <1>10, <2>1
<1> QED
  BY <1>11 DEF k, N, free

\* Hence the default budget of any cpus a node has free fits into what its domain has left.
LEMMA RoomLeft == IInv => DefaultsLeaveRoom
<1> SUFFICES ASSUME IInv, MinJobMem <= ProportionalShare(1), \A j \in Holders : WithinShare(j),
                    NEW n \in Nodes, NEW cpu \in 1..Cardinality(pool.cpus[n])
             PROVE  DefaultMem(cpu, FALSE, MinJobMem) <= pool.mem[MemKey(n)]
  BY DEF DefaultsLeaveRoom
<1> DEFINE k == MemKey(n)
           N == Cardinality(CpusOf(k))
           free == Cardinality(pool.cpus[n])
           share == ProportionalShare(cpu)
           budget == DefaultMem(cpu, FALSE, MinJobMem)
<1>1. k \in Domains /\ pool.cpus[n] \subseteq CpusOf(k) /\ IsFiniteSet(CpusOf(k)) /\ N \in Nat
  BY DomainsKnown, CpusOfKnown DEF IInv, BooksBalance
<1>2. free \in Nat /\ free <= N /\ cpu \in Nat /\ 1 <= cpu /\ cpu <= free
  BY <1>1, FS_Subset, FS_CardinalityType
<1>3. pool.cpus[n] # {} /\ CpusOf(k) # {}
  BY <1>1, <1>2, FS_EmptySet
<1>4. Capacity[k] * free <= N * pool.mem[k]
  BY <1>3, MemoryForFreeCpus
<1>5. /\ share \in Nat /\ N * share <= Capacity[k] * AtMost(cpu, N)
      /\ ProportionalShare(1) \in Nat /\ ProportionalShare(1) <= share
  BY <1>1, <1>2, <1>3, ShareBound
<1>6. AtMost(cpu, N) = cpu
  BY <1>1, <1>2 DEF AtMost
<1>7. Capacity[k] \in Nat /\ pool.mem[k] \in Nat /\ N > 0
  <2>1. N # 0
    BY <1>1, <1>3, FS_EmptySet
  <2> QED
    BY <1>1, <2>1, MachineAssumption DEF IInv, TypeOK, Pool
<1>8. share <= pool.mem[k]
  <2> HIDE DEF k, N, free, share
  <2>1. Capacity[k] * cpu <= Capacity[k] * free
    BY <1>2, <1>7
  <2>2. N * share <= N * pool.mem[k]
    <3>1. \A a, b, c, d \in Int : a <= b /\ b <= c /\ c <= d => a <= d
      OBVIOUS
    <3>2. /\ N * share \in Int /\ Capacity[k] * cpu \in Int
          /\ Capacity[k] * free \in Int /\ N * pool.mem[k] \in Int
      BY <1>1, <1>2, <1>5, <1>7
    <3> QED
      BY <1>4, <1>5, <1>6, <2>1, <3>1, <3>2
  <2>3. N * share < N * pool.mem[k] + N
    <3>1. \A a, b, c \in Int : a <= b /\ c > 0 => a < b + c
      OBVIOUS
    <3>2. N * share \in Int /\ N * pool.mem[k] \in Int
      BY <1>1, <1>5, <1>7
    <3> QED
      BY <1>1, <1>7, <2>2, <3>1, <3>2
  <2> QED
    BY <1>1, <1>5, <1>7, <2>3, ScaleLess
<1>9. budget <= share /\ budget \in Int
  <2> DEFINE most == Greatest({ Capacity[i] : i \in Domains })
  <2>1. most \in Int
    <3>1. DOMAIN Capacity = Domains /\ \A i \in Domains : Capacity[i] \in Int
      BY MachineAssumption
    <3>2. IsFiniteSet({ Capacity[i] : i \in Domains })
      BY <3>1, DomainsKnown, FiniteImage
    <3>3. { Capacity[i] : i \in Domains } # {}
      BY <1>1
    <3>4. \E x \in { Capacity[i] : i \in Domains } : \A y \in { Capacity[i] : i \in Domains } :
            y <= x
      BY <3>1, <3>2, <3>3, HasGreatest
    <3>5. \E x \in { Capacity[i] : i \in Domains } : \A y \in { Capacity[i] : i \in Domains } :
            x >= y
      BY <3>1, <3>4
    <3> QED
      BY <3>1, <3>5 DEF Greatest
  <2> HIDE DEF most
  <2>2. AtLeast(share, MinJobMem) <= share /\ AtLeast(share, MinJobMem) \in Int
    <3>1. MinJobMem \in Nat /\ MinJobMem <= share
      BY <1>5, PlacementAssumption
    <3> HIDE DEF share
    <3> QED
      BY <1>5, <3>1 DEF AtLeast
  <2>3. budget = AtMost(AtLeast(share, MinJobMem), most)
    BY DEF DefaultMem, most
  <2> HIDE DEF share, budget
  <2> QED
    BY <1>5, <2>1, <2>2, <2>3 DEF AtMost
<1> HIDE DEF share, budget, N
<1>10. budget <= pool.mem[k]
  BY <1>5, <1>7, <1>8, <1>9
<1> QED
  BY <1>10 DEF budget

(***************************************************************************)
(* Pool and holdings are always well formed.                               *)
(***************************************************************************)
THEOREM TypeCorrect == Spec => []TypeOK
<1>1. IInv => TypeOK
  BY DEF IInv
<1> QED
  BY <1>1, Invariance, PTL

(***************************************************************************)
(* Nothing is handed out twice and nothing is lost, on every machine and    *)
(* for every set of requests (reserve and release in resources.py).         *)
(***************************************************************************)
THEOREM BooksCorrect == Spec => []BooksBalance
<1>1. IInv => BooksBalance
  BY DEF IInv
<1> QED
  BY <1>1, Invariance, PTL

(***************************************************************************)
(* A placement drains every domain it charges but one (_charge_plan).       *)
(***************************************************************************)
THEOREM OneOpen == Spec => []OneDomainLeftOpen
<1>1. IInv => OneDomainLeftOpen
  BY OneLeftOpen DEF IInv
<1> QED
  BY <1>1, Invariance, PTL

(***************************************************************************)
(* A budget spans nodes only when no node with the cpus could hold it       *)
(* (_cpu_node_order and _charge_plan).                                     *)
(***************************************************************************)
THEOREM RemoteLast == Spec => []SpansOnlyWhenItMust
<1>1. IInv => SpansOnlyWhenItMust
  BY SpansLast DEF IInv
<1> QED
  BY <1>1, Invariance, PTL

(***************************************************************************)
(* Default budgets never strand a free cpu while the jobs keep to their     *)
(* share (proportional_share in resources.py, _default_mem_gb in daemon.py). *)
(***************************************************************************)
THEOREM RoomForDefaults == Spec => []DefaultsLeaveRoom
<1>1. IInv => DefaultsLeaveRoom
  BY RoomLeft
<1> QED
  BY <1>1, Invariance, PTL

(***************************************************************************)
(* The GPUs a job gets are a best connected group of those it may draw on,   *)
(* whatever the wiring: the climb through the islands misses none            *)
(* (_closest_gpus and _pick_at_level in resources.py).                      *)
(***************************************************************************)
THEOREM GpusClosest == Spec => []ClosestIsBest
<1>1. TypeOK => ClosestIsBest
  <2> SUFFICES ASSUME TypeOK, NEW r \in Requests, NEW a \in Allocate(pool, r),
                      NEW s \in GpuPools(pool, r), NEW other \in kSubset(r.gpus, s)
               PROVE  ~Precedes(Quality(other), Quality(a.gpus))
    BY DEF ClosestIsBest
  <2>1. r \in Request /\ a.gpus \in PickGpus(pool, r, TRUE) /\ pool \in Pool
    BY DecisionParts DEF TypeOK
  <2> QED
    BY <2>1, PickIsBest
<1> QED
  BY <1>1, TypeCorrect, PTL

(***************************************************************************)
(* The cheap question is as good as the search, for requests that do not     *)
(* ask for their GPUs on one node (would_fit and allocate).  For those that  *)
(* do, it is not: the GPUs decide where the cpus have to be.                 *)
(***************************************************************************)
THEOREM QuestionsOne ==
  ASSUME \A r \in Requests : ~r.localGpu
  PROVE  Spec => []FitIsAllocatable
<1>1. TypeOK => FitIsAllocatable
  <2> SUFFICES ASSUME TypeOK, NEW r \in Requests
               PROVE  WouldFit(pool, r) <=> Allocate(pool, r) # {}
    BY DEF FitIsAllocatable
  <2>1. r \in Request /\ ~r.localGpu /\ pool \in Pool
    BY PlacementAssumption DEF TypeOK
  <2> QED
    BY <2>1, PlanExists DEF WouldFit, Allocate
<1> QED
  BY <1>1, TypeCorrect, PTL

(***************************************************************************)
(* What is given back stops nobody (release in resources.py), for the same   *)
(* requests.  One that wants its GPUs on one node can be stopped: a GPU that *)
(* is freed may draw it to a node without cpus.                             *)
(***************************************************************************)
THEOREM ReleasesHelp ==
  ASSUME \A r \in Requests : ~r.localGpu
  PROVE  Spec => ReleaseNeverHurts
<1> DEFINE Helps == Cardinality(Holders') < Cardinality(Holders) =>
                      \A r \in Requests : WouldFit(pool, r) => WouldFit(pool', r)
<1>1. ASSUME IInv, NEW j \in Jobs, Give(j) PROVE Helps
  <2>1. /\ pool \in Pool /\ held[j] \in Allocation /\ pool' = Release(pool, held[j])
    BY <1>1, HoldersHold DEF Give, IInv, TypeOK, Holders
  <2>2. Within(pool, pool)
    BY <2>1 DEF Within, Pool
  <2>3. Within(pool, pool') /\ pool' \in Pool
    BY <1>1, <2>1, <2>2, ReleaseGrows, ReleaseType DEF IInv, HeldOK
  <2>4. ASSUME NEW r \in Requests, WouldFit(pool, r) PROVE WouldFit(pool', r)
    <3>1. r \in Request /\ ~r.localGpu
      BY PlacementAssumption
    <3> QED
      BY <2>1, <2>3, <2>4, <3>1, PlanMonotone DEF WouldFit
  <2> QED
    BY <2>4
<1>2. ASSUME IInv, NEW j \in Jobs, Take(j) PROVE Helps
  <2>1. IInv'
    BY <1>2, TakeKeeps
  <2>2. pool'.active = pool.active + 1 /\ pool.active \in Nat
    BY <1>2 DEF Take, Reserve, IInv, TypeOK, Pool
  <2> QED
    BY <1>2, <2>1, <2>2 DEF IInv, CountOK
<1>3. ASSUME UNCHANGED vars PROVE Helps
  BY <1>3 DEF vars
<1>4. IInv /\ [Next]_vars => [Helps]_vars
  BY <1>1, <1>2, <1>3 DEF Next
<1> QED
  BY <1>4, Invariance, PTL DEF Spec, ReleaseNeverHurts

(***************************************************************************)
(* A request that validate accepts can be placed once nobody holds anything, *)
(* so it waits for no other reason than the jobs that run: provided that it  *)
(* does not ask for its GPUs on one node, that the node of a local budget     *)
(* has the cpus too, and that a floor is for two GPUs at most.  These are    *)
(* the combinations that validate does not look at together.                *)
(***************************************************************************)
THEOREM IdleServes ==
  ASSUME \A r \in Requests :
           /\ ~r.localGpu /\ (r.floor # NoFloor => r.gpus <= 2)
           /\ r.localMem => \E n \in Nodes : MayHost(EmptyMachine, n, r)
  PROVE  Spec => []IdleMachineServes
<1>1. IInv => IdleMachineServes
  <2> SUFFICES ASSUME IInv, Holders = {}, NEW r \in Requests, Validate(r)
               PROVE  Allocate(pool, r) # {}
    BY DEF IdleMachineServes
  <2>1. pool \in Pool
    BY DEF IInv, TypeOK
  <2>2. pool.active = 0 /\ pool.exclusive = FALSE
    BY <2>1, FS_EmptySet DEF IInv, CountOK, AloneOK, Pool
  <2>3. pool.gpus = GpuIds
    <3>1. pool.gpus = GpuIds \ UNION { held[j].gpus : j \in Holders }
      BY DEF IInv, BooksBalance
    <3> QED
      BY <3>1
  <2>4. pool.cpus = NodeCpus
    <3>1. \A n \in Nodes : pool.cpus[n] = NodeCpus[n]
      <4>1. SUFFICES ASSUME NEW n \in Nodes PROVE pool.cpus[n] = NodeCpus[n]
        OBVIOUS
      <4>2. pool.cpus[n] = NodeCpus[n] \ UNION { held[j].cpus : j \in Holders }
        BY DEF IInv, BooksBalance
      <4>3. UNION { held[j].cpus : j \in Holders } = {}
        OBVIOUS
      <4> QED
        BY <4>2, <4>3
    <3>2. pool.cpus \in [Nodes -> SUBSET AllCpus] /\ NodeCpus \in [Nodes -> SUBSET Nat]
      BY <2>1, MachineAssumption DEF Pool
    <3> QED
      BY <3>1, <3>2
  <2>5. pool.mem = Capacity
    <3>1. ASSUME NEW k \in Domains PROVE pool.mem[k] = Capacity[k]
      <4>1. SumFunction([j \in Holders |-> held[j].charge[k]]) = 0
        BY SumEmpty
      <4>2. pool.mem[k] + SumFunction([j \in Holders |-> held[j].charge[k]]) = Capacity[k]
        BY DEF IInv, BooksBalance
      <4> QED
        BY <2>1, <4>1, <4>2 DEF Pool
    <3> QED
      BY <2>1, <3>1, MachineAssumption DEF Pool
  <2>6. pool = EmptyMachine
    BY <2>1, <2>2, <2>3, <2>4, <2>5 DEF Pool, EmptyMachine
  <2>7. r \in Request /\ Fits(EmptyMachine, r) /\ ~r.localGpu
    BY PlacementAssumption, ValidFits
  <2> QED
    BY <2>1, <2>6, <2>7, PlanExists DEF Allocate
<1> QED
  BY <1>1, Invariance, PTL

=============================================================================
