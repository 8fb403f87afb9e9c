----------------------------- MODULE Placement -----------------------------
(***************************************************************************)
(* The pool on its own: jobs are given what the pool decides and give it    *)
(* back, in every order.  It explores the free-lists a scheduler can find    *)
(* and states what the placement decision promises in each of them.         *)
(***************************************************************************)
EXTENDS ResourcePool

CONSTANTS
  Jobs,      \* holders of resources
  Requests,  \* what they ask for
  MinJobMem, \* --min-job-mem
  None       \* holds nothing

ASSUME PlacementAssumption ==
  /\ None \notin Allocation
  /\ Requests \subseteq Request
  /\ MinJobMem \in Nat

VARIABLES
  pool,      \* the books
  held       \* job |-> what it was given

vars == << pool, held >>

Holders == { j \in Jobs : held[j] # None }

Init ==
  /\ pool = EmptyMachine
  /\ held = [j \in Jobs |-> None]

\* ResourcePool.allocate on behalf of a job
Take(j) ==
  /\ held[j] = None
  /\ \E r \in Requests : \E a \in Allocate(pool, r) :
        /\ pool' = Reserve(pool, a)
        /\ held' = [held EXCEPT ![j] = a]

\* ResourcePool.release of what the job holds
Give(j) ==
  /\ held[j] # None
  /\ pool' = Release(pool, held[j])
  /\ held' = [held EXCEPT ![j] = None]

Next == \E j \in Jobs : Take(j) \/ Give(j)

Spec == Init /\ [][Next]_vars

-----------------------------------------------------------------------------
TypeOK ==
  /\ pool \in Pool
  /\ held \in [Jobs -> Allocation \cup {None}]

(***************************************************************************)
(* Nothing is handed out twice and nothing is lost: the books are the        *)
(* machine less what the jobs hold, memory domain by memory domain          *)
(* (reserve and release are inverse on whatever allocate decides).          *)
(***************************************************************************)
BooksBalance ==
  /\ \A n \in Nodes : pool.cpus[n] = NodeCpus[n] \ UNION { held[j].cpus : j \in Holders }
  /\ pool.gpus = GpuIds \ UNION { held[j].gpus : j \in Holders }
  /\ \A k \in Domains :
        pool.mem[k] + SumFunction([j \in Holders |-> held[j].charge[k]]) = Capacity[k]
  /\ \A i, j \in Holders : i # j => held[i].cpus \cap held[j].cpus = {}
                                    /\ held[i].gpus \cap held[j].gpus = {}

(***************************************************************************)
(* A request that passed validate can be placed once the machine is idle:   *)
(* "a request that fits the biggest node is accepted" and queues, so it      *)
(* has to fit some day (validate, _max_nodes).                             *)
(***************************************************************************)
IdleMachineServes ==
  Holders = {} => \A r \in Requests : Validate(r) => Allocate(pool, r) # {}

(***************************************************************************)
(* The cheap question and the real one have the same answer: would_fit       *)
(* skips the search for close GPUs because which GPUs a job gets never       *)
(* decides whether it fits (_plan).                                        *)
(***************************************************************************)
FitIsAllocatable ==
  \A r \in Requests : WouldFit(pool, r) <=> Allocate(pool, r) # {}

(***************************************************************************)
(* The climb through the islands finds what scoring every combination would  *)
(* find: no other set of free GPUs the job may draw from is better          *)
(* connected than the one it gets (_closest_gpus).                          *)
(***************************************************************************)
ClosestIsBest ==
  \A r \in Requests : \A a \in Allocate(pool, r) : \A s \in GpuPools(pool, r) :
    \A other \in kSubset(r.gpus, s) : ~Precedes(Quality(other), Quality(a.gpus))

(***************************************************************************)
(* Remote memory is a last resort: a budget spans nodes only when no node   *)
(* that may host the job has both the cpus and the memory for it             *)
(* (_cpu_node_order before _charge_plan).                                   *)
(***************************************************************************)
SpansOnlyWhenItMust ==
  \A r \in Requests : \A a \in Allocate(pool, r) :
    (MaxNodes(r) = 1 /\ \E k \in Domains \ {MemKey(a.home)} : a.charge[k] > 0) =>
      \A n \in Candidates(r, NodesFor(a.gpus)) :
        Cardinality(pool.cpus[n]) >= r.cpu => r.mem > pool.mem[MemKey(n)]

(***************************************************************************)
(* A charged domain is drained before the next is touched, so a job whose    *)
(* budget spans nodes leaves nobody anything on all its nodes but one: it    *)
(* cannot quietly grow past its charge there (_charge_plan).                *)
(***************************************************************************)
OneDomainLeftOpen ==
  \A r \in Requests : \A a \in Allocate(pool, r) :
    Cardinality({ k \in Domains : a.charge[k] > 0
                                  /\ Reserve(pool, a).mem[k] > 0 }) <= 1

(***************************************************************************)
(* "Without --max-mem that is the share of a node its cores represent": as    *)
(* long as nobody holds more than that share, or memory away from home, no    *)
(* free cpu is stranded for want of memory.  A job that names no budget gets  *)
(* one that the node of any cpus it can have holds, whoever else runs and    *)
(* however the shares add up (proportional_share, _default_mem_gb).          *)
(***************************************************************************)
WithinShare(j) ==
  /\ SumFunction(held[j].charge) <= ProportionalShare(Cardinality(held[j].cpus))
  /\ \A k \in Domains \ {MemKey(held[j].home)} : held[j].charge[k] = 0

DefaultsLeaveRoom ==
  (MinJobMem <= ProportionalShare(1) /\ \A j \in Holders : WithinShare(j)) =>
    \A n \in Nodes : \A cpu \in 1..Cardinality(pool.cpus[n]) :
      DefaultMem(cpu, FALSE, MinJobMem) <= pool.mem[MemKey(n)]

(***************************************************************************)
(* A job giving back what it holds never makes another request stop fitting: *)
(* what every "release and look again" in scheduling.py relies on.          *)
(***************************************************************************)
ReleaseNeverHurts ==
  [][ Cardinality(Holders') < Cardinality(Holders) =>
        \A r \in Requests : WouldFit(pool, r) => WouldFit(pool', r) ]_vars

=============================================================================
