-------------------------- MODULE Scheduler_proofs --------------------------
(***************************************************************************)
(* The safety of the queue and the pool, for every machine, every workload   *)
(* and every choice of policies.                                           *)
(*                                                                         *)
(* Sharing, the books and the budget hold each other up: a job gets cpus     *)
(* that are free, they are free because the books say what is so, and what   *)
(* backfill takes out of the budget is free because the budget is within the *)
(* pool.  So one invariant, IInv, holds them all, with what they need to     *)
(* know about the pass in progress (PassOK), the order of the queue           *)
(* (QueueOK) and what is held (HeldOK).  The memory is accounted for domain   *)
(* by domain on top of that (MemoryOK), and what the head of easy-backfill is *)
(* owed has an invariant of its own (HeadOK), as has the guaranteed start of  *)
(* the head of strict-backfill (HorizonOK).                                 *)
(***************************************************************************)
EXTENDS Scheduler, ResourcePool_proofs

(***************************************************************************)
(* Which jobs the pass in progress has before it, and what it may rely on.   *)
(***************************************************************************)
PassOK ==
  /\ phase \in {"idle", "plan"} => rest = {} /\ toStart = {}
  /\ phase \in {"reap", "adopt"} => rest \subseteq Running /\ toStart = {}
  /\ phase = "adopt" => reservation = None
  /\ phase = "fill" => rest = Queued \ toStart
  /\ phase = "backfill" =>
       /\ policy # FifoStrict
       /\ policy = EasyBackfill <=> reservation # None
       /\ rest \subseteq Queued \ toStart
  /\ phase = "spawn" => rest = {}
  /\ toStart \subseteq Queued
  /\ Holders = Running \cup toStart

\* only queued jobs are ahead of a job
QueueOK == \A j \in Jobs : ahead[j] \subseteq Queued

\* what is held lies on the nodes it says, and no domain is overfull
HeldOK ==
  /\ \A j \in Holders : held[j].cpus \subseteq UNION { NodeCpus[n] : n \in held[j].nodes }
  /\ \A k \in Domains : pool.mem[k] <= Capacity[k]

(***************************************************************************)
(* The charges of some jobs in one domain, added up; and what a daemon that  *)
(* comes back may rely on before it has booked any of them.                 *)
(***************************************************************************)
Charged(set, k) == SumFunction([j \in set |-> held[j].charge[k]])

ChargesFit == phase = "adopt" => \A k \in Domains : Charged(Holders, k) <= Capacity[k]

MemoryOK == MemoryBooked /\ ChargesFit

\* the inductive invariant
IInv ==
  /\ TypeOK /\ PassOK /\ QueueOK /\ HeldOK
  /\ NoSharing /\ HoldersBooked /\ MemoryOK /\ BudgetWithinPool /\ NothingJumps

-----------------------------------------------------------------------------
(***************************************************************************)
(* Every step keeps every variable within its type: what Reserve and         *)
(* Release are given is an allocation, because the pass looks only at jobs   *)
(* that hold one, and what the policies pick is one (AllocateIsFree).        *)
(***************************************************************************)
LEMMA PickType ==
  ASSUME TypeOK, PassOK, NEW j \in Jobs, phase = "backfill", NEW a \in MayPass(j)
  PROVE  a \in Allocation
<1>1. Ask[j] \in Request /\ pool \in Pool
  BY SchedulerAssumption DEF TypeOK
<1>2. CASE policy = EasyBackfill
  <2>1. Budget \in Pool
    BY <1>2 DEF TypeOK, PassOK, Reservation, Budget
  <2>2. a \in Allocate(Budget, Ask[j])
    BY <1>2 DEF MayPass
  <2> QED
    BY <1>1, <2>1, <2>2, AllocateIsFree
<1>3. CASE policy # EasyBackfill
  <2>1. a \in Allocate(pool, Ask[j])
    BY <1>3 DEF MayPass
  <2> QED
    BY <1>1, <2>1, AllocateIsFree
<1> QED
  BY <1>2, <1>3

\* Whoever holds something holds an allocation.
LEMMA HoldersHold ==
  ASSUME TypeOK, NEW j \in Holders
  PROVE  j \in Jobs /\ held[j] \in Allocation
  BY DEF TypeOK, Holders

\* The step of TypeOK, action by action.
LEMMA TypeStep ==
  ASSUME TypeOK, PassOK, [Next]_vars
  PROVE  TypeOK'
<1> USE SchedulerAssumption DEF TypeOK, jobVars, poolVars, passVars
<1>1. ASSUME NEW j \in Jobs, Submit(j) PROVE TypeOK'
  BY <1>1 DEF Submit, Queued, Phases
<1>2. ASSUME NEW j \in Jobs, Kill(j) PROVE TypeOK'
  BY <1>2 DEF Kill, Without
<1>3. ASSUME NEW j \in Jobs, ModifyLimit(j) PROVE TypeOK'
  <2>1. PICK new \in NewLimits :
          /\ limit' = [limit EXCEPT ![j] = new]
          /\ left' = IF state[j] = "running"
                     THEN [left EXCEPT ![j] = @ + (new - limit[j])] ELSE left
    BY <1>3 DEF ModifyLimit
  <2>2. new \in Nat \ {0}
    OBVIOUS
  <2>3. limit' \in [Jobs -> Nat \ {0}]
    BY <2>1, <2>2
  <2>4. left' \in [Jobs -> Int]
    BY <2>1, <2>2
  <2> QED
    BY <1>3, <2>3, <2>4 DEF ModifyLimit
<1>4. ASSUME NEW j \in Jobs, Reap(j) PROVE TypeOK'
  <2>1. held[j] \in Allocation
    BY <1>4, HoldersHold DEF Reap, PassOK
  <2>2. pool' \in Pool
    BY <1>4, <2>1, ReleaseType DEF Reap
  <2>3. limit' \in [Jobs -> Nat \ {0}] /\ left' \in [Jobs -> Int]
    BY <1>4 DEF Reap
  <2> QED
    BY <1>4, <2>2, <2>3 DEF Reap
<1>5. ASSUME NEW j \in Jobs, Adopt(j) PROVE TypeOK'
  <2>1. held[j] \in Allocation
    BY <1>5, HoldersHold DEF Adopt, PassOK
  <2>2. pool' \in Pool
    BY <1>5, <2>1, ReserveType DEF Adopt
  <2> QED
    BY <1>5, <2>2 DEF Adopt
<1>6. ASSUME NEW j \in Jobs, FindLost(j) PROVE TypeOK'
  <2>1. limit' \in [Jobs -> Nat \ {0}] /\ left' \in [Jobs -> Int]
    BY <1>6 DEF FindLost
  <2> QED
    BY <1>6, <2>1 DEF FindLost
<1>7. ASSUME NEW j \in Jobs, Fill(j) PROVE TypeOK'
  <2>1. PICK a \in Allocate(pool, Ask[j]) :
          pool' = Reserve(pool, a) /\ held' = [held EXCEPT ![j] = a]
    BY <1>7 DEF Fill
  <2>2. a \in Allocation
    BY AllocateIsFree
  <2>3. pool' \in Pool
    BY <2>1, <2>2, ReserveType
  <2>4. held' \in [Jobs -> Allocation \cup {None}]
    BY <2>1, <2>2
  <2> QED
    BY <1>7, <2>3, <2>4 DEF Fill
<1>8. ASSUME NEW j \in Jobs, BlockFifo(j) PROVE TypeOK'
  BY <1>8 DEF BlockFifo, Phases
<1>9. ASSUME NEW j \in Jobs, BlockEasy(j) PROVE TypeOK'
  <2>1. reservation' \in Reservation
    BY <1>9 DEF BlockEasy, Reservation
  <2> QED
    BY <1>9, <2>1 DEF BlockEasy, Phases
<1>10. ASSUME NEW j \in Jobs, BlockStrict(j) PROVE TypeOK'
  <2>1. \A i \in Jobs : Deadline(i) \in Int
    BY DEF Deadline
  <2>2. GuaranteedStart(j) \in Int \cup {None}
    BY <2>1 DEF GuaranteedStart, Running
  <2> QED
    BY <1>10, <2>2 DEF BlockStrict, Phases
<1>11. ASSUME NEW j \in Jobs, Backfill(j) PROVE TypeOK'
  <2>1. PICK a \in MayPass(j) :
          /\ pool' = Reserve(pool, a)
          /\ held' = [held EXCEPT ![j] = a]
          /\ reservation' = IF policy = EasyBackfill
                            THEN [reservation EXCEPT !.budget = Reserve(Budget, a)]
                            ELSE reservation
    BY <1>11 DEF Backfill
  <2>2. a \in Allocation
    BY <1>11, PickType DEF Backfill
  <2>3. pool' \in Pool
    BY <2>1, <2>2, ReserveType
  <2>4. held' \in [Jobs -> Allocation \cup {None}]
    BY <2>1, <2>2
  <2>5. reservation' \in Reservation \cup {None}
    <3>1. CASE policy = EasyBackfill
      <4>1. reservation \in Reservation
        BY <1>11, <3>1 DEF Backfill, PassOK
      <4>2. Reserve(Budget, a) \in Pool
        BY <2>2, <4>1, ReserveType DEF Reservation, Budget
      <4> QED
        BY <2>1, <3>1, <4>1, <4>2 DEF Reservation
    <3>2. CASE policy # EasyBackfill
      BY <2>1, <3>2
    <3> QED
      BY <3>1, <3>2
  <2> QED
    BY <1>11, <2>3, <2>4, <2>5 DEF Backfill
<1>12. ASSUME NEW j \in Jobs, Skip(j) PROVE TypeOK'
  BY <1>12 DEF Skip
<1>13. ASSUME NEW j \in Jobs, Spawn(j) PROVE TypeOK'
  BY <1>13 DEF Spawn, Without
<1>14. ASSUME NEW j \in Jobs, SpawnFails(j) PROVE TypeOK'
  <2>1. held[j] \in Allocation
    BY <1>14, HoldersHold DEF SpawnFails, PassOK, IsFirst
  <2>2. pool' \in Pool
    BY <1>14, <2>1, ReleaseType DEF SpawnFails
  <2>3. limit' \in [Jobs -> Nat \ {0}]
    BY <1>14 DEF SpawnFails
  <2> QED
    BY <1>14, <2>2, <2>3 DEF SpawnFails, Without
<1>15. CASE Tick
  <2>1. left' \in [Jobs -> Int]
    BY <1>15 DEF Tick
  <2> QED
    BY <1>15, <2>1 DEF Tick, Running, Phases
<1>16. CASE Restart
  <2>1. restarts' \in 0..MaxRestarts
    BY <1>16 DEF Restart
  <2> QED
    BY <1>16, <2>1, EmptyMachineType DEF Restart, Running, Phases
<1>17. CASE Handled
  BY <1>17 DEF Handled, Phases
<1>18. CASE ResumeBackfill
  BY <1>18 DEF ResumeBackfill, Queued, Phases
<1>19. CASE BeginFill
  BY <1>19 DEF BeginFill, Queued, Phases
<1>20. CASE AllFit
  BY <1>20 DEF AllFit, Phases
<1>21. CASE Backfilled
  BY <1>21 DEF Backfilled, Phases
<1>22. CASE PassEnds
  BY <1>22 DEF PassEnds, Phases
<1>23. CASE UNCHANGED vars
  BY <1>23 DEF vars
<1> QED
  BY <1>1, <1>2, <1>3, <1>4, <1>5, <1>6, <1>7, <1>8, <1>9, <1>10, <1>11, <1>12, <1>13,
     <1>14, <1>15, <1>16, <1>17, <1>18, <1>19, <1>20, <1>21, <1>22, <1>23
  DEF Next, Pass, Step

(***************************************************************************)
(* Every step keeps the pass consistent: the handlers begin with nothing     *)
(* left over, a job is reserved for exactly once, and a job that is reserved *)
(* for is still queued.                                                     *)
(***************************************************************************)
LEMMA PassStep ==
  ASSUME TypeOK, PassOK, [Next]_vars
  PROVE  PassOK'
<1> USE SchedulerAssumption DEF TypeOK, PassOK, Queued, Running, Holders, jobVars, poolVars
<1>1. ASSUME NEW j \in Jobs, Submit(j) PROVE PassOK'
  BY <1>1 DEF Submit, passVars
<1>2. ASSUME NEW j \in Jobs, Kill(j) PROVE PassOK'
  BY <1>2 DEF Kill, passVars, Without
<1>3. ASSUME NEW j \in Jobs, ModifyLimit(j) PROVE PassOK'
  BY <1>3 DEF ModifyLimit, passVars
<1>4. ASSUME NEW j \in Jobs, Reap(j) PROVE PassOK'
  BY <1>4 DEF Reap, passVars
<1>5. ASSUME NEW j \in Jobs, Adopt(j) PROVE PassOK'
  BY <1>5 DEF Adopt, passVars
<1>6. ASSUME NEW j \in Jobs, FindLost(j) PROVE PassOK'
  BY <1>6 DEF FindLost, passVars
<1>7. ASSUME NEW j \in Jobs, Fill(j) PROVE PassOK'
  <2>1. PICK a \in Allocate(pool, Ask[j]) : held' = [held EXCEPT ![j] = a]
    BY <1>7 DEF Fill
  <2>2. a # None
    BY AllocateIsFree
  <2>3. Holders' = Holders \cup {j}
    BY <2>1, <2>2
  <2> QED
    BY <1>7, <2>3 DEF Fill, IsFirst, passVars
<1>8. ASSUME NEW j \in Jobs, BlockFifo(j) PROVE PassOK'
  BY <1>8 DEF BlockFifo, passVars, Blocked, IsFirst
<1>9. ASSUME NEW j \in Jobs, BlockEasy(j) PROVE PassOK'
  <2>1. reservation' \in Reservation
    BY <1>9 DEF BlockEasy, Reservation, Blocked, IsFirst
  <2>2. reservation' # None
    BY <2>1
  <2> QED
    BY <1>9, <2>2 DEF BlockEasy, passVars, Blocked, IsFirst, FifoStrict, EasyBackfill
<1>10. ASSUME NEW j \in Jobs, BlockStrict(j) PROVE PassOK'
  BY <1>10 DEF BlockStrict, passVars, Blocked, IsFirst, FifoStrict, EasyBackfill, StrictBackfill
<1>11. ASSUME NEW j \in Jobs, Backfill(j) PROVE PassOK'
  <2>1. PICK a \in MayPass(j) :
          /\ held' = [held EXCEPT ![j] = a]
          /\ reservation' = IF policy = EasyBackfill
                            THEN [reservation EXCEPT !.budget = Reserve(Budget, a)]
                            ELSE reservation
    BY <1>11 DEF Backfill
  <2>2. a # None
    BY <1>11, PickType DEF Backfill
  <2>3. Holders' = Holders \cup {j}
    BY <2>1, <2>2
  <2>4. (policy = EasyBackfill <=> reservation # None)'
    <3>1. ASSUME policy = EasyBackfill PROVE reservation' # None
      <4>1. reservation \in Reservation
        BY <1>11, <3>1 DEF Backfill
      <4>2. Reserve(Budget, a) \in Pool
        BY <1>11, <4>1, PickType, ReserveType DEF Backfill, Budget, Reservation
      <4>3. reservation' \in Reservation
        BY <2>1, <3>1, <4>1, <4>2 DEF Reservation
      <4> QED
        BY <4>3
    <3> QED
      BY <1>11, <3>1 DEF Backfill
  <2> QED
    BY <1>11, <2>3, <2>4 DEF Backfill, IsFirst, passVars
<1>12. ASSUME NEW j \in Jobs, Skip(j) PROVE PassOK'
  BY <1>12 DEF Skip, passVars, IsFirst
<1>13. ASSUME NEW j \in Jobs, Spawn(j) PROVE PassOK'
  BY <1>13 DEF Spawn, passVars, IsFirst
<1>14. ASSUME NEW j \in Jobs, SpawnFails(j) PROVE PassOK'
  BY <1>14 DEF SpawnFails, passVars, IsFirst
<1>15. CASE Tick
  BY <1>15 DEF Tick, passVars
<1>16. CASE Restart
  BY <1>16 DEF Restart, passVars
<1>17. CASE Handled
  BY <1>17 DEF Handled, passVars
<1>18. CASE ResumeBackfill
  BY <1>18 DEF ResumeBackfill, passVars, HeadStillBlocked, FifoStrict, EasyBackfill
<1>19. CASE BeginFill
  BY <1>19 DEF BeginFill, passVars
<1>20. CASE AllFit
  BY <1>20 DEF AllFit, passVars
<1>21. CASE Backfilled
  BY <1>21 DEF Backfilled, passVars
<1>22. CASE PassEnds
  BY <1>22 DEF PassEnds, passVars
<1>23. CASE UNCHANGED vars
  BY <1>23 DEF vars, passVars
<1> QED
  BY <1>1, <1>2, <1>3, <1>4, <1>5, <1>6, <1>7, <1>8, <1>9, <1>10, <1>11, <1>12, <1>13,
     <1>14, <1>15, <1>16, <1>17, <1>18, <1>19, <1>20, <1>21, <1>22, <1>23
  DEF Next, Pass, Step

-----------------------------------------------------------------------------
(***************************************************************************)
(* The books.  Reserving for one more job an allocation of free resources    *)
(* keeps them right and shares nothing; so does releasing what a job held.   *)
(***************************************************************************)
BooksOK == NoSharing /\ HoldersBooked /\ HeldOK

\* The booked jobs are finitely many.
LEMMA BookedFinite == Booked \subseteq Jobs /\ IsFiniteSet(Booked) /\ Cardinality(Booked) \in Nat
<1>1. Booked \subseteq Jobs
  BY DEF Booked, Holders
<1> QED
  BY <1>1, SchedulerAssumption, FS_Subset, FS_CardinalityType

\* Reserving what is free for one more job keeps the books.
LEMMA ReservedBooks ==
  ASSUME TypeOK, BooksOK, PassOK',
         NEW j \in Jobs \ Holders, NEW a \in Allocation,
         phase \notin {"adopt"}, phase' = phase,
         held' = [held EXCEPT ![j] = a], pool' = Reserve(pool, a),
         a.cpus \subseteq UNION { pool.cpus[n] : n \in a.nodes }, a.gpus \subseteq pool.gpus,
         ~pool.exclusive, a.exclusive => pool.active = 0
  PROVE  BooksOK'
<1> USE DEF TypeOK, Holders
<1>1. a # None /\ held \in [Jobs -> Allocation \cup {None}] /\ pool \in Pool
  BY SchedulerAssumption
<1>2. Holders' = Holders \cup {j} /\ held'[j] = a /\ \A i \in Holders : held'[i] = held[i]
  BY <1>1
<1>3. Booked = Holders /\ Booked' = Holders \cup {j}
  BY <1>2 DEF Booked
<1>4. \A n \in Nodes : pool.cpus[n] = NodeCpus[n] \ UNION { held[i].cpus : i \in Holders }
  BY <1>3 DEF BooksOK, HoldersBooked
<1>5. a.nodes \subseteq Nodes
  BY DEF Allocation
<1>6. a.cpus \subseteq UNION { NodeCpus[n] : n \in a.nodes }
  BY <1>4, <1>5
<1>7. \A i \in Holders : a.cpus \cap held[i].cpus = {} /\ a.gpus \cap held[i].gpus = {}
  <2>1. \A i \in Holders : a.cpus \cap held[i].cpus = {}
    BY <1>4, <1>5
  <2>2. \A i \in Holders : a.gpus \cap held[i].gpus = {}
    BY <1>3 DEF BooksOK, HoldersBooked
  <2> QED
    BY <2>1, <2>2
<1>8. \A i \in Holders : ~held[i].exclusive
  BY <1>3 DEF BooksOK, HoldersBooked
<1>9. a.exclusive => Holders = {}
  BY <1>3, BookedFinite, FS_EmptySet DEF BooksOK, HoldersBooked
<1>10. NoSharing'
  BY <1>2, <1>7, <1>8, <1>9 DEF BooksOK, NoSharing
<1>11. HoldersBooked'
  <2>1. (Holders = Running \cup toStart)'
    BY DEF PassOK
  <2>2. \A n \in Nodes :
          pool'.cpus[n] = NodeCpus[n] \ UNION { held'[i].cpus : i \in Booked' }
    <3>1. TAKE n \in Nodes
    <3>2. pool'.cpus[n] = pool.cpus[n] \ a.cpus
      BY <1>1, <1>4, <1>6, ReserveTakes
    <3>3. UNION { held'[i].cpus : i \in Booked' }
            = a.cpus \cup UNION { held[i].cpus : i \in Holders }
      BY <1>2, <1>3
    <3> QED
      BY <1>4, <3>2, <3>3
  <2>3. pool'.gpus = GpuIds \ UNION { held'[i].gpus : i \in Booked' }
    <3>1. UNION { held'[i].gpus : i \in Booked' }
            = a.gpus \cup UNION { held[i].gpus : i \in Holders }
      BY <1>2, <1>3
    <3>2. pool'.gpus = pool.gpus \ a.gpus
      BY DEF Reserve
    <3> QED
      BY <1>3, <3>1, <3>2 DEF BooksOK, HoldersBooked
  <2>4. pool'.active = Cardinality(Booked')
    <3>1. pool'.active = pool.active + 1
      BY DEF Reserve
    <3>2. Cardinality(Holders \cup {j}) = Cardinality(Holders) + 1
      BY <1>3, BookedFinite, FS_AddElement
    <3> QED
      BY <1>3, <3>1, <3>2 DEF BooksOK, HoldersBooked
  <2>5. pool'.exclusive <=> \E i \in Booked' : held'[i].exclusive
    <3>1. pool'.exclusive = (pool.exclusive \/ a.exclusive)
      BY DEF Reserve
    <3> QED
      BY <1>2, <1>3, <1>8, <3>1
  <2> QED
    BY <2>1, <2>2, <2>3, <2>4, <2>5 DEF HoldersBooked
<1>12. HeldOK'
  <2>1. \A i \in Holders' :
          held'[i].cpus \subseteq UNION { NodeCpus[n] : n \in held'[i].nodes }
    BY <1>2, <1>6 DEF BooksOK, HeldOK
  <2>2. \A k \in Domains : pool'.mem[k] <= Capacity[k]
    <3>1. ChargeDomains(a) \in [Domains -> Nat]
      BY ChargeOfOwn DEF Allocation
    <3> QED
      BY <1>1, <3>1, MachineAssumption DEF BooksOK, HeldOK, Reserve, AtLeast, Pool
  <2> QED
    BY <2>1, <2>2 DEF HeldOK
<1> QED
  BY <1>10, <1>11, <1>12 DEF BooksOK

\* So does releasing what a booked job holds.
LEMMA ReleasedBooks ==
  ASSUME TypeOK, BooksOK, PassOK', NEW j \in Holders,
         phase \notin {"adopt"}, phase' = phase,
         held' = [held EXCEPT ![j] = None], pool' = Release(pool, held[j])
  PROVE  BooksOK'
<1> USE DEF TypeOK, Holders
<1> DEFINE a == held[j]
<1>1. a \in Allocation /\ a # None /\ pool \in Pool /\ j \in Jobs
  BY SchedulerAssumption
<1>2. Holders' = Holders \ {j} /\ \A i \in Holders' : held'[i] = held[i]
  BY <1>1
<1>3. Booked = Holders /\ Booked' = Holders \ {j}
  BY <1>2 DEF Booked
<1>4. a.cpus \subseteq UNION { NodeCpus[n] : n \in a.nodes }
  BY DEF BooksOK, HeldOK
<1>5. \A i \in Holders \ {j} :
        /\ a.cpus \cap held[i].cpus = {} /\ a.gpus \cap held[i].gpus = {}
        /\ ~a.exclusive /\ ~held[i].exclusive
  BY DEF BooksOK, NoSharing
<1>6. NoSharing'
  BY <1>2 DEF BooksOK, NoSharing
<1>7. HoldersBooked'
  <2>1. (Holders = Running \cup toStart)'
    BY DEF PassOK
  <2>2. \A n \in Nodes :
          pool'.cpus[n] = NodeCpus[n] \ UNION { held'[i].cpus : i \in Booked' }
    <3>1. TAKE n \in Nodes
    <3>2. pool'.cpus[n] = pool.cpus[n] \cup (a.cpus \cap NodeCpus[n])
      BY <1>1, <1>4, ReleaseGives
    <3>3. UNION { held[i].cpus : i \in Booked }
            = a.cpus \cup UNION { held'[i].cpus : i \in Booked' }
      BY <1>2, <1>3
    <3>4. a.cpus \cap UNION { held'[i].cpus : i \in Booked' } = {}
      BY <1>2, <1>3, <1>5
    <3> QED
      BY <3>2, <3>3, <3>4 DEF BooksOK, HoldersBooked
  <2>3. pool'.gpus = GpuIds \ UNION { held'[i].gpus : i \in Booked' }
    <3>1. pool'.gpus = pool.gpus \cup (a.gpus \cap GpuIds)
      BY DEF Release
    <3>2. UNION { held[i].gpus : i \in Booked }
            = a.gpus \cup UNION { held'[i].gpus : i \in Booked' }
      BY <1>2, <1>3
    <3>3. a.gpus \cap UNION { held'[i].gpus : i \in Booked' } = {}
      BY <1>2, <1>3, <1>5
    <3> QED
      BY <3>1, <3>2, <3>3 DEF BooksOK, HoldersBooked
  <2>4. pool'.active = Cardinality(Booked')
    <3>1. pool'.active = AtLeast(pool.active - 1, 0)
      BY DEF Release
    <3>2. Cardinality(Holders \ {j}) = Cardinality(Holders) - 1
      BY <1>3, BookedFinite, FS_RemoveElement
    <3>3. Cardinality(Booked') \in Nat /\ Cardinality(Booked) \in Nat
      BY <1>3, BookedFinite, FS_RemoveElement, FS_CardinalityType
    <3>4. pool.active = Cardinality(Booked)
      BY DEF BooksOK, HoldersBooked
    <3> QED
      BY <1>3, <3>1, <3>2, <3>3, <3>4 DEF AtLeast
  <2>5. pool'.exclusive <=> \E i \in Booked' : held'[i].exclusive
    <3>1. pool'.exclusive = (pool.exclusive /\ ~a.exclusive)
      BY DEF Release
    <3>2. pool.exclusive <=> \E i \in Holders : held[i].exclusive
      BY <1>3 DEF BooksOK, HoldersBooked
    <3> QED
      BY <1>2, <1>3, <1>5, <3>1, <3>2
  <2> QED
    BY <2>1, <2>2, <2>3, <2>4, <2>5 DEF HoldersBooked
<1>8. HeldOK'
  <2>1. \A i \in Holders' :
          held'[i].cpus \subseteq UNION { NodeCpus[n] : n \in held'[i].nodes }
    BY <1>2 DEF BooksOK, HeldOK
  <2>2. \A k \in Domains : pool'.mem[k] <= Capacity[k]
    <3>1. ChargeDomains(a) \in [Domains -> Nat]
      BY <1>1, ChargeOfOwn DEF Allocation
    <3> QED
      BY <1>1, <3>1, MachineAssumption DEF Release, AtMost, Pool
  <2> QED
    BY <2>1, <2>2 DEF HeldOK
<1> QED
  BY <1>6, <1>7, <1>8 DEF BooksOK

(***************************************************************************)
(* A daemon that comes back builds its books job by job.                    *)
(***************************************************************************)
LEMMA AdoptBooks ==
  ASSUME TypeOK, PassOK, BooksOK, PassOK', NEW j \in Jobs, Adopt(j)
  PROVE  BooksOK'
<1> USE DEF TypeOK, Holders
<1> DEFINE a == held[j]
<1>1. /\ phase = "adopt" /\ phase' = "adopt" /\ j \in rest /\ rest' = rest \ {j}
      /\ pool' = Reserve(pool, a) /\ held' = held
  BY DEF Adopt
<1>2. j \in Holders /\ a \in Allocation /\ pool \in Pool
  BY <1>1, SchedulerAssumption DEF PassOK
<1>3. Holders' = Holders /\ Booked = Holders \ rest /\ Booked' = Booked \cup {j} /\ j \notin Booked
  BY <1>1, <1>2 DEF Booked
<1>4. a.cpus \subseteq UNION { NodeCpus[n] : n \in a.nodes }
  BY <1>2 DEF BooksOK, HeldOK
<1>5. NoSharing'
  BY <1>1, <1>3 DEF BooksOK, NoSharing
<1>6. HoldersBooked'
  <2>1. (Holders = Running \cup toStart)'
    BY DEF PassOK
  <2>2. \A n \in Nodes :
          pool'.cpus[n] = NodeCpus[n] \ UNION { held'[i].cpus : i \in Booked' }
    <3>1. TAKE n \in Nodes
    <3>2. pool.cpus[n] = NodeCpus[n] \ UNION { held[i].cpus : i \in Booked }
      BY DEF BooksOK, HoldersBooked
    <3>3. pool'.cpus[n] = pool.cpus[n] \ a.cpus
      BY <1>1, <1>2, <1>4, <3>2, ReserveTakes
    <3>4. UNION { held'[i].cpus : i \in Booked' }
            = a.cpus \cup UNION { held[i].cpus : i \in Booked }
      BY <1>1, <1>3
    <3> QED
      BY <3>2, <3>3, <3>4
  <2>3. pool'.gpus = GpuIds \ UNION { held'[i].gpus : i \in Booked' }
    <3>1. UNION { held'[i].gpus : i \in Booked' }
            = a.gpus \cup UNION { held[i].gpus : i \in Booked }
      BY <1>1, <1>3
    <3>2. pool'.gpus = pool.gpus \ a.gpus
      BY <1>1 DEF Reserve
    <3> QED
      BY <3>1, <3>2 DEF BooksOK, HoldersBooked
  <2>4. pool'.active = Cardinality(Booked')
    <3>1. pool'.active = pool.active + 1
      BY <1>1 DEF Reserve
    <3>2. Cardinality(Booked \cup {j}) = Cardinality(Booked) + 1
      BY <1>3, BookedFinite, FS_AddElement
    <3> QED
      BY <1>3, <3>1, <3>2 DEF BooksOK, HoldersBooked
  <2>5. pool'.exclusive <=> \E i \in Booked' : held'[i].exclusive
    <3>1. pool'.exclusive = (pool.exclusive \/ a.exclusive)
      BY <1>1 DEF Reserve
    <3>2. pool.exclusive <=> \E i \in Booked : held[i].exclusive
      BY DEF BooksOK, HoldersBooked
    <3> QED
      BY <1>1, <1>3, <3>1, <3>2
  <2> QED
    BY <2>1, <2>2, <2>3, <2>4, <2>5 DEF HoldersBooked
<1>7. HeldOK'
  <2>1. ChargeDomains(a) \in [Domains -> Nat]
    BY <1>2, ChargeOfOwn DEF Allocation
  <2>2. \A k \in Domains : pool'.mem[k] <= Capacity[k]
    BY <1>1, <1>2, <2>1, MachineAssumption DEF BooksOK, HeldOK, Reserve, AtLeast, Pool
  <2> QED
    BY <1>1, <1>3, <2>2 DEF BooksOK, HeldOK
<1> QED
  BY <1>5, <1>6, <1>7 DEF BooksOK

\* A lost job gives up what it held without ever having been booked again.
LEMMA FindLostBooks ==
  ASSUME TypeOK, PassOK, BooksOK, PassOK', NEW j \in Jobs, FindLost(j)
  PROVE  BooksOK'
<1> USE DEF TypeOK, Holders
<1>1. /\ phase = "adopt" /\ phase' = "adopt" /\ j \in rest /\ rest' = rest \ {j}
      /\ pool' = pool /\ held' = [held EXCEPT ![j] = None]
  BY DEF FindLost
<1>2. Holders' = Holders \ {j} /\ \A i \in Holders' : held'[i] = held[i]
  BY <1>1
<1>3. Booked' = Booked /\ \A i \in Booked : held'[i] = held[i]
  BY <1>1, <1>2 DEF Booked
<1>4. NoSharing'
  BY <1>2 DEF BooksOK, NoSharing
<1>5. HoldersBooked'
  <2>1. (Holders = Running \cup toStart)'
    BY DEF PassOK
  <2>2. \A n \in Nodes :
          pool'.cpus[n] = NodeCpus[n] \ UNION { held'[i].cpus : i \in Booked' }
    BY <1>1, <1>3 DEF BooksOK, HoldersBooked
  <2>3. pool'.gpus = GpuIds \ UNION { held'[i].gpus : i \in Booked' }
    BY <1>1, <1>3 DEF BooksOK, HoldersBooked
  <2>4. pool'.active = Cardinality(Booked')
    BY <1>1, <1>3 DEF BooksOK, HoldersBooked
  <2>5. pool'.exclusive <=> \E i \in Booked' : held'[i].exclusive
    BY <1>1, <1>3 DEF BooksOK, HoldersBooked
  <2> QED
    BY <2>1, <2>2, <2>3, <2>4, <2>5 DEF HoldersBooked
<1>6. HeldOK'
  BY <1>1, <1>2 DEF BooksOK, HeldOK
<1> QED
  BY <1>4, <1>5, <1>6 DEF BooksOK

\* The books of the empty machine are right when nobody is booked.
LEMMA EmptyBooks ==
  ASSUME TypeOK, PassOK', BooksOK,
         pool' = EmptyMachine, held' = held, Booked' = {}
  PROVE  BooksOK'
<1>1. NoSharing'
  BY DEF BooksOK, NoSharing, Holders
<1>2. HoldersBooked'
  BY FS_EmptySet DEF HoldersBooked, EmptyMachine, PassOK
<1>3. HeldOK'
  BY MachineAssumption DEF BooksOK, HeldOK, Holders, EmptyMachine
<1> QED
  BY <1>1, <1>2, <1>3 DEF BooksOK

\* a step that moves neither the pool nor what is held
LEMMA SameBooks ==
  ASSUME BooksOK, PassOK', pool' = pool, held' = held, Booked' = Booked
  PROVE  BooksOK'
<1>1. NoSharing'
  BY DEF BooksOK, NoSharing, Holders
<1>2. HoldersBooked'
  BY DEF BooksOK, HoldersBooked, PassOK
<1>3. HeldOK'
  BY DEF BooksOK, HeldOK, Holders
<1> QED
  BY <1>1, <1>2, <1>3 DEF BooksOK

(***************************************************************************)
(* What backfill picks is free in the pool, from whichever of the two books  *)
(* it was picked, because the budget is within the pool.                    *)
(***************************************************************************)
LEMMA PickIsFree ==
  ASSUME TypeOK, PassOK, BudgetWithinPool, phase = "backfill",
         NEW j \in Jobs, NEW a \in MayPass(j)
  PROVE  /\ a \in Allocation
         /\ a.cpus \subseteq UNION { pool.cpus[n] : n \in a.nodes }
         /\ a.gpus \subseteq pool.gpus
         /\ \A k \in Domains : a.charge[k] <= pool.mem[k]
         /\ ~pool.exclusive
         /\ a.exclusive => pool.active = 0
<1>1. Ask[j] \in Request /\ pool \in Pool
  BY SchedulerAssumption DEF TypeOK
<1>2. CASE policy = EasyBackfill
  <2>1. reservation # None /\ Budget \in Pool
    BY <1>2 DEF TypeOK, PassOK, Reservation, Budget
  <2>2. a \in Allocate(Budget, Ask[j])
    BY <1>2 DEF MayPass
  <2>3. Within(Budget, pool)
    BY <2>1 DEF BudgetWithinPool, Within
  <2>4. /\ a \in Allocation
        /\ a.cpus \subseteq UNION { Budget.cpus[n] : n \in a.nodes }
        /\ a.gpus \subseteq Budget.gpus
        /\ \A k \in Domains : a.charge[k] <= Budget.mem[k]
        /\ a.exclusive = Ask[j].exclusive
        /\ ~Budget.exclusive
        /\ Ask[j].exclusive => Budget.active = 0
    BY <1>1, <2>1, <2>2, AllocateIsFree
  <2>5. a.cpus \subseteq UNION { pool.cpus[n] : n \in a.nodes }
    BY <2>3, <2>4 DEF Within, Allocation
  <2>6. a.exclusive => pool.active = 0
    BY <1>1, <2>3, <2>4 DEF Within, Pool
  <2>7. \A k \in Domains : a.charge[k] <= pool.mem[k]
    <3>1. TAKE k \in Domains
    <3>2. a.charge[k] \in Nat /\ Budget.mem[k] \in Nat /\ pool.mem[k] \in Nat
      BY <1>1, <2>1, <2>4 DEF Allocation, Pool
    <3>3. a.charge[k] <= Budget.mem[k] /\ Budget.mem[k] <= pool.mem[k]
      BY <2>3, <2>4 DEF Within
    <3> QED
      BY <3>2, <3>3
  <2> QED
    BY <2>3, <2>4, <2>5, <2>6, <2>7 DEF Within
<1>3. CASE policy # EasyBackfill
  <2>1. a \in Allocate(pool, Ask[j])
    BY <1>3 DEF MayPass
  <2> QED
    BY <1>1, <2>1, AllocateIsFree
<1> QED
  BY <1>2, <1>3

\* Every step keeps the books.
LEMMA BooksStep ==
  ASSUME TypeOK, PassOK, BooksOK, BudgetWithinPool, PassOK', [Next]_vars
  PROVE  BooksOK'
<1> USE DEF jobVars, poolVars, passVars
<1>1. ASSUME NEW j \in Jobs, Reap(j) PROVE BooksOK'
  BY <1>1, ReleasedBooks DEF Reap, PassOK
<1>2. ASSUME NEW j \in Jobs, SpawnFails(j) PROVE BooksOK'
  BY <1>2, ReleasedBooks DEF SpawnFails, IsFirst, PassOK
<1>3. ASSUME NEW j \in Jobs, Adopt(j) PROVE BooksOK'
  BY <1>3, AdoptBooks
<1>4. ASSUME NEW j \in Jobs, FindLost(j) PROVE BooksOK'
  BY <1>4, FindLostBooks
<1>5. ASSUME NEW j \in Jobs, Fill(j) PROVE BooksOK'
  <2>1. PICK a \in Allocate(pool, Ask[j]) :
          pool' = Reserve(pool, a) /\ held' = [held EXCEPT ![j] = a]
    BY <1>5 DEF Fill
  <2>2. /\ a \in Allocation
        /\ a.cpus \subseteq UNION { pool.cpus[n] : n \in a.nodes }
        /\ a.gpus \subseteq pool.gpus
        /\ ~pool.exclusive
        /\ a.exclusive => pool.active = 0
    BY SchedulerAssumption, AllocateIsFree DEF TypeOK
  <2>3. j \in Jobs \ Holders /\ phase = "fill" /\ phase' = "fill"
    BY <1>5 DEF Fill, IsFirst, PassOK, Queued, Running
  <2> QED
    BY <2>1, <2>2, <2>3, ReservedBooks
<1>6. ASSUME NEW j \in Jobs, Backfill(j) PROVE BooksOK'
  <2>1. PICK a \in MayPass(j) :
          pool' = Reserve(pool, a) /\ held' = [held EXCEPT ![j] = a]
    BY <1>6 DEF Backfill
  <2>2. j \in Jobs \ Holders /\ phase = "backfill" /\ phase' = "backfill"
    BY <1>6 DEF Backfill, IsFirst, PassOK, Queued, Running
  <2> QED
    BY <2>1, <2>2, PickIsFree, ReservedBooks
<1>7. CASE Restart
  <2>1. Booked' = {}
    BY <1>7 DEF Restart, Booked, Holders, PassOK
  <2> QED
    BY <1>7, <2>1, EmptyBooks DEF Restart
<1>8. ASSUME pool' = pool, held' = held, phase # "adopt", phase' # "adopt" PROVE BooksOK'
  BY <1>8, SameBooks DEF Booked, Holders
<1>9. CASE Handled
  BY <1>9, SameBooks DEF Handled, Booked, Holders
<1>10. ASSUME NEW j \in Jobs, Submit(j) \/ Kill(j) \/ ModifyLimit(j) PROVE BooksOK'
  BY <1>8, <1>10 DEF Submit, Kill, ModifyLimit
<1>11. ASSUME NEW j \in Jobs,
              BlockFifo(j) \/ BlockEasy(j) \/ BlockStrict(j) \/ Skip(j) \/ Spawn(j)
       PROVE BooksOK'
  BY <1>8, <1>11 DEF BlockFifo, BlockEasy, BlockStrict, Blocked, Skip, Spawn
<1>12. CASE Tick \/ ResumeBackfill \/ BeginFill \/ AllFit \/ Backfilled \/ PassEnds
  BY <1>8, <1>12 DEF Tick, ResumeBackfill, BeginFill, AllFit, Backfilled, PassEnds
<1>13. CASE UNCHANGED vars
  BY <1>13, SameBooks DEF vars, Booked, Holders
<1> QED
  BY <1>1, <1>2, <1>3, <1>4, <1>5, <1>6, <1>7, <1>9, <1>10, <1>11, <1>12, <1>13
  DEF Next, Pass, Step

-----------------------------------------------------------------------------
(***************************************************************************)
(* The memory.  No charge is clamped when it is reserved, so what is free    *)
(* and what is charged go on making up each domain.  A daemon that comes     *)
(* back finds that to hold for what the jobs hold already (ChargesFit),      *)
(* which is why each can be adopted in turn.                                *)
(***************************************************************************)
\* charges are natural numbers, and so are sums of them
LEMMA ChargedType ==
  ASSUME TypeOK, NEW set \in SUBSET Holders, NEW k \in Domains
  PROVE  /\ IsFiniteSet(set)
         /\ \A j \in set : held[j].charge[k] \in Nat
         /\ Charged(set, k) \in Nat
<1> DEFINE f == [j \in set |-> held[j].charge[k]]
<1>1. set \subseteq Jobs
  BY DEF Holders
<1>2. IsFiniteSet(set)
  BY <1>1, SchedulerAssumption, FS_Subset
<1>3. \A j \in set : held[j].charge[k] \in Nat
  BY HoldersHold DEF Allocation
<1>4. DOMAIN f = set /\ \A j \in set : f[j] \in Nat
  BY <1>3
<1> HIDE DEF f
<1>5. SumFunction(f) \in Nat
  BY <1>2, <1>4, SumNat
<1> QED
  BY <1>2, <1>3, <1>5 DEF f, Charged

\* One more job is booked: its charge moves from what is free to what is charged.
LEMMA MemoryTaken ==
  ASSUME TypeOK, TypeOK', MemoryBooked, Booked' \subseteq Holders',
         NEW j, j \notin Booked, Booked' = Booked \cup {j},
         \A i \in Booked : held'[i] = held[i],
         pool' = Reserve(pool, held'[j]),
         \A k \in Domains : held'[j].charge[k] <= pool.mem[k]
  PROVE  MemoryBooked'
<1>1. SUFFICES ASSUME NEW k \in Domains
               PROVE  pool'.mem[k] + Charged(Booked, k)' = Capacity[k]
  BY DEF MemoryBooked, Charged
<1> DEFINE f == [i \in Booked |-> held[i].charge[k]]
           g == [i \in Booked' |-> held'[i].charge[k]]
<1>2. held'[j] \in Allocation
  BY DEF TypeOK, Holders
<1>3. /\ IsFiniteSet(Booked) /\ \A i \in Booked : held[i].charge[k] \in Nat
      /\ SumFunction(f) \in Nat
  <2>1. Booked \in SUBSET Holders
    BY DEF Booked
  <2> QED
    BY <2>1, ChargedType DEF Charged
<1>4. held'[j].charge \in [Domains -> Nat] /\ pool.mem \in [Domains -> Nat]
  BY <1>2 DEF Allocation, TypeOK, Pool
<1>5. /\ DOMAIN g = Booked \cup {j} /\ f = [i \in Booked |-> g[i]]
      /\ g[j] = held'[j].charge[k] /\ IsFiniteSet(Booked) /\ j \notin Booked
      /\ \A i \in Booked \cup {j} : g[i] \in Int
  BY <1>3, <1>4
<1>6. pool.mem[k] + SumFunction(f) = Capacity[k]
  BY DEF MemoryBooked
<1>7. pool'.mem[k] = pool.mem[k] - held'[j].charge[k]
  BY <1>2, <1>4, ChargeOfOwn DEF Reserve, AtLeast
<1> HIDE DEF f, g
<1>8. SumFunction(g) = g[j] + SumFunction(f)
  <2>1. IsFiniteSet(DOMAIN g) /\ j \in DOMAIN g /\ \A i \in DOMAIN g : g[i] \in Int
    BY <1>5, FS_AddElement
  <2>2. f = [i \in DOMAIN g \ {j} |-> g[i]]
    BY <1>5
  <2> QED
    BY <2>1, <2>2, SumPlus
<1>9. pool'.mem[k] + SumFunction(g) = Capacity[k]
  BY <1>3, <1>4, <1>5, <1>6, <1>7, <1>8
<1> QED
  BY <1>9 DEF g, Charged

\* One job less: its charge moves back, and the clamp at capacity does not bite.
LEMMA MemoryGiven ==
  ASSUME TypeOK, MemoryBooked, NEW j \in Booked, Booked' = Booked \ {j},
         \A i \in Booked' : held'[i] = held[i], pool' = Release(pool, held[j])
  PROVE  MemoryBooked'
<1>1. SUFFICES ASSUME NEW k \in Domains
               PROVE  pool'.mem[k] + Charged(Booked, k)' = Capacity[k]
  BY DEF MemoryBooked, Charged
<1> DEFINE f == [i \in Booked |-> held[i].charge[k]]
           g == [i \in Booked' |-> held'[i].charge[k]]
<1>2. held[j] \in Allocation
  BY HoldersHold DEF Booked
<1>3. IsFiniteSet(Booked) /\ \A i \in Booked : held[i].charge[k] \in Nat
  <2>1. Booked \in SUBSET Holders
    BY DEF Booked
  <2> QED
    BY <2>1, ChargedType DEF Charged
<1>4. /\ held[j].charge \in [Domains -> Nat] /\ pool.mem \in [Domains -> Nat]
      /\ Capacity[k] \in Nat
  BY <1>2, MachineAssumption DEF Allocation, TypeOK, Pool
<1>5. /\ DOMAIN f = Booked /\ DOMAIN g = Booked \ {j} /\ g = [i \in Booked \ {j} |-> f[i]]
      /\ \A i \in Booked : f[i] \in Nat /\ f[j] = held[j].charge[k]
  BY <1>3
<1>6. pool.mem[k] + SumFunction(f) = Capacity[k]
  BY DEF MemoryBooked
<1>7. pool'.mem[k] = AtMost(pool.mem[k] + held[j].charge[k], Capacity[k])
  BY <1>2, <1>4, ChargeOfOwn DEF Release
<1>8. IsFiniteSet(DOMAIN g) /\ \A i \in DOMAIN g : g[i] \in Nat
  BY <1>3, <1>5, FS_Subset
<1> HIDE DEF f, g
<1>9. SumFunction(f) = f[j] + SumFunction(g) /\ SumFunction(g) \in Nat
  BY <1>3, <1>5, <1>8, SumPlus, SumNat
<1>10. pool'.mem[k] + SumFunction(g) = Capacity[k]
  BY <1>4, <1>5, <1>6, <1>7, <1>9 DEF AtMost
<1> QED
  BY <1>10 DEF g, Charged

\* a step that moves no booked charge
LEMMA MemorySame ==
  ASSUME MemoryBooked, pool' = pool, Booked' = Booked, \A i \in Booked : held'[i] = held[i]
  PROVE  MemoryBooked'
<1>1. \A k \in Domains :
        [j \in Booked' |-> held'[j].charge[k]] = [j \in Booked |-> held[j].charge[k]]
  OBVIOUS
<1> QED
  BY <1>1 DEF MemoryBooked

\* A restart finds charges that fit, because the books balanced before it; a lost job and
\* one that ended meanwhile only lower them.
LEMMA FitStep ==
  ASSUME TypeOK, PassOK, MemoryOK, [Next]_vars
  PROVE  ChargesFit'
<1>1. CASE phase' # "adopt"
  BY <1>1 DEF ChargesFit
<1>2. CASE Restart
  <2>1. Booked = Holders /\ held' = held
    BY <1>2 DEF Restart, Booked
  <2>2. ASSUME NEW k \in Domains PROVE Charged(Holders, k)' <= Capacity[k]
    <3>1. Charged(Holders, k)' = Charged(Holders, k)
      BY <2>1 DEF Charged, Holders
    <3>2. Charged(Holders, k) \in Nat /\ pool.mem[k] \in Nat
      BY ChargedType DEF TypeOK, Pool
    <3>3. pool.mem[k] + Charged(Holders, k) = Capacity[k]
      BY <2>1 DEF MemoryOK, MemoryBooked, Charged
    <3> QED
      BY <3>1, <3>2, <3>3
  <2> QED
    BY <2>2 DEF ChargesFit
<1>3. ASSUME phase = "adopt", NEW gone, Holders' = Holders \ gone,
             \A i \in Holders' : held'[i] = held[i]
      PROVE  ChargesFit'
  <2>1. ASSUME NEW k \in Domains PROVE Charged(Holders, k)' <= Capacity[k]
    <3> DEFINE f == [j \in Holders |-> held[j].charge[k]]
    <3>1. /\ IsFiniteSet(Holders) /\ DOMAIN f = Holders /\ \A j \in Holders : f[j] \in Nat
          /\ SumFunction(f) \in Nat /\ Capacity[k] \in Nat
      BY ChargedType, MachineAssumption DEF Charged
    <3>2. /\ [j \in Holders' |-> held'[j].charge[k]] = [j \in Holders' |-> f[j]]
          /\ Holders' \in SUBSET DOMAIN f
      BY <1>3
    <3>3. SumFunction(f) <= Capacity[k]
      BY <1>3 DEF MemoryOK, ChargesFit, Charged
    <3>4. \A j \in Holders' : f[j] \in Nat
      BY <3>1, <3>2
    <3> HIDE DEF f
    <3>5. SumFunction([j \in Holders' |-> f[j]]) <= SumFunction(f)
      BY <3>1, <3>2, SumSubset
    <3>6. SumFunction([j \in Holders' |-> f[j]]) \in Nat
      <4>1. IsFiniteSet(Holders')
        BY <1>3, <3>1, FS_Subset
      <4> DEFINE g == [j \in Holders' |-> f[j]]
      <4>2. DOMAIN g = Holders' /\ \A j \in DOMAIN g : g[j] \in Nat
        BY <3>4
      <4> HIDE DEF g
      <4>3. SumFunction(g) \in Nat
        BY <4>1, <4>2, SumNat
      <4> QED
        BY <4>3 DEF g
    <3> QED
      BY <3>1, <3>2, <3>3, <3>5, <3>6 DEF Charged
  <2> QED
    BY <2>1 DEF ChargesFit
<1>4. ASSUME NEW j \in Jobs, Adopt(j) PROVE ChargesFit'
  <2>1. phase = "adopt" /\ held' = held /\ Holders' = Holders \ {}
    BY <1>4 DEF Adopt, Holders
  <2> QED
    BY <1>3, <2>1
<1>5. ASSUME NEW j \in Jobs, FindLost(j) PROVE ChargesFit'
  <2>1. /\ phase = "adopt" /\ Holders' = Holders \ {j}
        /\ \A i \in Holders' : held'[i] = held[i]
    BY <1>5 DEF FindLost, Holders, TypeOK
  <2> QED
    BY <1>3, <2>1
<1>6. CASE UNCHANGED vars
  <2>1. CASE phase = "adopt"
    <3>1. Holders' = Holders \ {} /\ held' = held
      BY <1>6 DEF vars, poolVars, Holders
    <3> QED
      BY <1>3, <2>1, <3>1
  <2>2. CASE phase # "adopt"
    BY <1>1, <1>6, <2>2 DEF vars, passVars
  <2> QED
    BY <2>1, <2>2
<1>7. ASSUME NEW j \in Jobs,
             Submit(j) \/ Kill(j) \/ ModifyLimit(j) \/ Reap(j) \/ Fill(j) \/ BlockFifo(j)
             \/ BlockEasy(j) \/ BlockStrict(j) \/ Backfill(j) \/ Skip(j) \/ Spawn(j)
             \/ SpawnFails(j)
      PROVE  phase' # "adopt"
  BY <1>7 DEF Submit, Kill, ModifyLimit, Reap, Fill, Blocked, BlockFifo, BlockEasy, BlockStrict,
              Backfill, Skip, Spawn, SpawnFails, passVars
<1>8. ASSUME Tick \/ Handled \/ ResumeBackfill \/ BeginFill \/ AllFit \/ Backfilled \/ PassEnds
      PROVE  phase' # "adopt"
  BY <1>8 DEF Tick, Handled, ResumeBackfill, BeginFill, AllFit, Backfilled, PassEnds
<1> QED
  BY <1>1, <1>2, <1>4, <1>5, <1>6, <1>7, <1>8 DEF Next, Pass, Step

\* Every step keeps the memory accounted for.
LEMMA MemoryStep ==
  ASSUME TypeOK, PassOK, BooksOK, MemoryOK, BudgetWithinPool, TypeOK', PassOK', [Next]_vars
  PROVE  MemoryOK'
<1> USE DEF jobVars, poolVars, passVars
<1> SUFFICES MemoryBooked'
  BY FitStep DEF MemoryOK
<1>1. ASSUME NEW j \in Jobs \ Holders, NEW a \in Allocation, phase # "adopt", phase' # "adopt",
             held' = [held EXCEPT ![j] = a], pool' = Reserve(pool, a),
             \A k \in Domains : a.charge[k] <= pool.mem[k]
      PROVE  MemoryBooked'
  <2>1. a # None /\ held'[j] = a /\ \A i \in Holders : held'[i] = held[i]
    BY <1>1, SchedulerAssumption DEF TypeOK, Holders
  <2>2. Booked = Holders /\ Booked' = Holders \cup {j} /\ Booked' \subseteq Holders'
    BY <1>1, <2>1 DEF TypeOK, Holders, Booked
  <2> QED
    BY <1>1, <2>1, <2>2, MemoryTaken DEF MemoryOK
<1>2. ASSUME NEW j \in Holders, phase # "adopt", phase' # "adopt",
             held' = [held EXCEPT ![j] = None], pool' = Release(pool, held[j])
      PROVE  MemoryBooked'
  <2>1. Holders' = Holders \ {j} /\ \A i \in Holders \ {j} : held'[i] = held[i]
    BY <1>2 DEF TypeOK, Holders
  <2>2. Booked = Holders /\ Booked' = Holders \ {j}
    BY <1>2, <2>1 DEF Booked
  <2> QED
    BY <1>2, <2>1, <2>2, MemoryGiven DEF MemoryOK
<1>3. ASSUME NEW j \in Jobs, Adopt(j) PROVE MemoryBooked'
  <2>1. /\ phase = "adopt" /\ phase' = "adopt" /\ j \in rest /\ rest' = rest \ {j}
        /\ held' = held /\ pool' = Reserve(pool, held[j])
    BY <1>3 DEF Adopt
  <2>2. j \in Holders /\ j \notin Booked
    BY <2>1 DEF PassOK, Booked
  <2>3. Holders' = Holders /\ Booked' = Booked \cup {j} /\ Booked' \subseteq Holders'
    BY <2>1, <2>2 DEF Holders, Booked
  <2>4. ASSUME NEW k \in Domains PROVE held[j].charge[k] <= pool.mem[k]
    <3> DEFINE f == [i \in Holders |-> held[i].charge[k]]
               g == [i \in Booked' |-> held[i].charge[k]]
    <3>1. /\ IsFiniteSet(Holders) /\ DOMAIN f = Holders /\ \A i \in Holders : f[i] \in Nat
          /\ Charged(Booked, k) \in Nat /\ pool.mem[k] \in Nat /\ Capacity[k] \in Nat
          /\ held[j].charge[k] \in Nat /\ Charged(Holders, k) \in Nat
      BY <2>2, ChargedType, MachineAssumption DEF Booked, TypeOK, Pool
    <3>2. /\ DOMAIN g = Booked' /\ j \in Booked' /\ g[j] = held[j].charge[k]
          /\ g = [i \in Booked' |-> f[i]] /\ \A i \in Booked' : g[i] \in Nat
          /\ [i \in Booked' \ {j} |-> g[i]] = [i \in Booked |-> held[i].charge[k]]
      BY <2>2, <2>3, <3>1
    <3>3. pool.mem[k] + Charged(Booked, k) = Capacity[k] /\ Charged(Holders, k) <= Capacity[k]
      BY <2>1 DEF MemoryOK, MemoryBooked, ChargesFit, Charged
    <3>4. SumFunction(f) = Charged(Holders, k)
      BY DEF Charged
    <3>5. Booked' \in SUBSET DOMAIN f
      BY <2>3, <3>1
    <3>6. IsFiniteSet(Booked')
      BY <3>1, <3>5, FS_Subset
    <3> HIDE DEF f, g
    <3>7. SumFunction(g) = g[j] + SumFunction([i \in Booked' \ {j} |-> g[i]])
      <4>1. IsFiniteSet(DOMAIN g) /\ j \in DOMAIN g /\ \A i \in DOMAIN g : g[i] \in Int
        BY <3>2, <3>6
      <4>2. SumFunction(g) = g[j] + SumFunction([i \in DOMAIN g \ {j} |-> g[i]])
        BY <4>1, SumPlus
      <4> QED
        BY <3>2, <4>2
    <3>8. SumFunction(g) = held[j].charge[k] + Charged(Booked, k)
      BY <3>2, <3>7 DEF Charged
    <3>9. SumFunction(g) <= Charged(Holders, k)
      BY <3>1, <3>2, <3>4, <3>5, SumSubset
    <3> QED
      BY <3>1, <3>3, <3>8, <3>9
  <2> QED
    BY <2>1, <2>2, <2>3, <2>4, MemoryTaken DEF MemoryOK
<1>4. ASSUME pool' = pool, held' = held, Booked' = Booked PROVE MemoryBooked'
  BY <1>4, MemorySame DEF MemoryOK
<1>5. ASSUME NEW j \in Jobs, FindLost(j) PROVE MemoryBooked'
  <2>1. pool' = pool /\ Booked' = Booked /\ \A i \in Booked : held'[i] = held[i]
    BY <1>5 DEF FindLost, Booked, Holders, TypeOK
  <2> QED
    BY <2>1, MemorySame DEF MemoryOK
<1>6. CASE Restart
  <2>1. Booked' = {}
    BY <1>6 DEF Restart, Booked, Holders, PassOK
  <2>2. ASSUME NEW k \in Domains
        PROVE  pool'.mem[k] + SumFunction([j \in Booked |-> held[j].charge[k]])' = Capacity[k]
    <3>1. SumFunction([j \in Booked |-> held[j].charge[k]])' = 0
      BY <2>1, SumEmpty
    <3>2. pool'.mem[k] = Capacity[k] /\ Capacity[k] \in Nat
      BY <1>6, MachineAssumption DEF Restart, EmptyMachine
    <3> QED
      BY <3>1, <3>2
  <2> QED
    BY <2>2 DEF MemoryBooked
<1>7. ASSUME NEW j \in Jobs, Reap(j) PROVE MemoryBooked'
  BY <1>2, <1>7 DEF Reap, PassOK
<1>8. ASSUME NEW j \in Jobs, SpawnFails(j) PROVE MemoryBooked'
  BY <1>2, <1>8 DEF SpawnFails, IsFirst, PassOK
<1>9. ASSUME NEW j \in Jobs, Fill(j) PROVE MemoryBooked'
  <2>1. PICK a \in Allocate(pool, Ask[j]) :
          pool' = Reserve(pool, a) /\ held' = [held EXCEPT ![j] = a]
    BY <1>9 DEF Fill
  <2>2. a \in Allocation /\ \A k \in Domains : a.charge[k] <= pool.mem[k]
    BY SchedulerAssumption, AllocateIsFree DEF TypeOK
  <2>3. j \in Jobs \ Holders /\ phase = "fill" /\ phase' = "fill"
    BY <1>9 DEF Fill, IsFirst, PassOK, Queued, Running
  <2> QED
    BY <1>1, <2>1, <2>2, <2>3
<1>10. ASSUME NEW j \in Jobs, Backfill(j) PROVE MemoryBooked'
  <2>1. PICK a \in MayPass(j) :
          pool' = Reserve(pool, a) /\ held' = [held EXCEPT ![j] = a]
    BY <1>10 DEF Backfill
  <2>2. j \in Jobs \ Holders /\ phase = "backfill" /\ phase' = "backfill"
    BY <1>10 DEF Backfill, IsFirst, PassOK, Queued, Running
  <2>3. a \in Allocation /\ \A k \in Domains : a.charge[k] <= pool.mem[k]
    BY <2>2, PickIsFree
  <2> QED
    BY <1>1, <2>1, <2>2, <2>3
<1>11. ASSUME pool' = pool, held' = held, phase # "adopt", phase' # "adopt" PROVE MemoryBooked'
  BY <1>4, <1>11 DEF Booked, Holders
<1>12. CASE Handled
  BY <1>4, <1>12 DEF Handled, Booked, Holders
<1>13. ASSUME NEW j \in Jobs, Submit(j) \/ Kill(j) \/ ModifyLimit(j) PROVE MemoryBooked'
  BY <1>11, <1>13 DEF Submit, Kill, ModifyLimit
<1>14. ASSUME NEW j \in Jobs,
              BlockFifo(j) \/ BlockEasy(j) \/ BlockStrict(j) \/ Skip(j) \/ Spawn(j)
       PROVE MemoryBooked'
  BY <1>11, <1>14 DEF BlockFifo, BlockEasy, BlockStrict, Blocked, Skip, Spawn
<1>15. CASE Tick \/ ResumeBackfill \/ BeginFill \/ AllFit \/ Backfilled \/ PassEnds
  BY <1>11, <1>15 DEF Tick, ResumeBackfill, BeginFill, AllFit, Backfilled, PassEnds
<1>16. CASE UNCHANGED vars
  BY <1>4, <1>16 DEF vars, Booked, Holders
<1> QED
  BY <1>3, <1>5, <1>6, <1>7, <1>8, <1>9, <1>10, <1>12, <1>13, <1>14, <1>15, <1>16
  DEF Next, Pass, Step

-----------------------------------------------------------------------------
(***************************************************************************)
(* The budget stays within the pool: backfill draws both down by the same    *)
(* allocation, and everything else that moves the pool meanwhile adds to it. *)
(***************************************************************************)
LEMMA BudgetStep ==
  ASSUME TypeOK, PassOK, BooksOK, BudgetWithinPool, [Next]_vars
  PROVE  BudgetWithinPool'
<1> USE DEF jobVars, poolVars, passVars, Budget
<1>1. ASSUME reservation # None, phase # "fill", reservation' = reservation,
             NEW j \in Holders, pool' = Release(pool, held[j])
      PROVE  BudgetWithinPool'
  <2>1. Budget \in Pool /\ pool \in Pool
    BY <1>1 DEF TypeOK, Reservation
  <2>2. held[j] \in Allocation
    BY HoldersHold
  <2>3. Within(Budget, pool)
    BY <1>1 DEF BudgetWithinPool, Within
  <2>4. Within(Budget, pool')
    BY <1>1, <2>1, <2>2, <2>3, ReleaseGrows DEF BooksOK, HeldOK
  <2> QED
    BY <1>1, <2>4 DEF BudgetWithinPool, Within
<1>2. ASSUME NEW j \in Jobs, Reap(j) PROVE BudgetWithinPool'
  BY <1>1, <1>2 DEF Reap, PassOK, BudgetWithinPool
<1>3. ASSUME NEW j \in Jobs, SpawnFails(j) PROVE BudgetWithinPool'
  BY <1>1, <1>3 DEF SpawnFails, IsFirst, PassOK, BudgetWithinPool
<1>4. ASSUME NEW j \in Jobs, Adopt(j) PROVE BudgetWithinPool'
  BY <1>4 DEF Adopt, PassOK, BudgetWithinPool
<1>5. ASSUME NEW j \in Jobs, Fill(j) PROVE BudgetWithinPool'
  BY <1>5 DEF Fill, BudgetWithinPool
<1>6. ASSUME NEW j \in Jobs, Backfill(j), policy = EasyBackfill PROVE BudgetWithinPool'
  <2>1. PICK a \in MayPass(j) :
          /\ pool' = Reserve(pool, a)
          /\ reservation' = [reservation EXCEPT !.budget = Reserve(Budget, a)]
    BY <1>6 DEF Backfill
  <2>2. reservation \in Reservation /\ phase = "backfill" /\ reservation # None
    BY <1>6 DEF Backfill, TypeOK, PassOK
  <2>3. Within(Budget, pool) /\ Budget \in Pool /\ pool \in Pool
    BY <2>2 DEF BudgetWithinPool, Within, TypeOK, Reservation
  <2>4. Within(Reserve(Budget, a), pool')
    BY <2>1, <2>2, <2>3, PickIsFree, ReserveMonotone
  <2>5. Budget' = Reserve(Budget, a)
    BY <2>1, <2>2 DEF Reservation
  <2> QED
    BY <2>4, <2>5 DEF BudgetWithinPool, Within
<1>7. ASSUME NEW j \in Jobs, BlockEasy(j) PROVE BudgetWithinPool'
  <2>1. Budget' = pool /\ pool' = pool
    BY <1>7 DEF BlockEasy
  <2> QED
    BY <2>1 DEF BudgetWithinPool, TypeOK, Pool
<1>8. CASE Restart
  BY <1>8 DEF Restart, BudgetWithinPool
<1>9. ASSUME pool' = pool, phase # "fill", reservation' = reservation
      PROVE  BudgetWithinPool'
  BY <1>9 DEF BudgetWithinPool
<1>10. ASSUME NEW j \in Jobs, Backfill(j), policy # EasyBackfill PROVE BudgetWithinPool'
  BY <1>10 DEF Backfill, PassOK, BudgetWithinPool
<1>11. ASSUME reservation' = None PROVE BudgetWithinPool'
  BY <1>11 DEF BudgetWithinPool
<1>12. ASSUME NEW j \in Jobs, Submit(j) \/ Kill(j) \/ ModifyLimit(j) PROVE BudgetWithinPool'
  BY <1>9, <1>11, <1>12 DEF Submit, Kill, ModifyLimit
<1>13. ASSUME NEW j \in Jobs, FindLost(j) \/ Skip(j) \/ Spawn(j) PROVE BudgetWithinPool'
  BY <1>9, <1>13 DEF FindLost, Skip, Spawn
<1>14. ASSUME NEW j \in Jobs, BlockFifo(j) \/ BlockStrict(j) PROVE BudgetWithinPool'
  BY <1>11, <1>14 DEF BlockFifo, BlockStrict
<1>15. CASE Tick \/ Handled \/ ResumeBackfill \/ BeginFill \/ Backfilled \/ PassEnds
  BY <1>9, <1>15 DEF Tick, Handled, ResumeBackfill, BeginFill, Backfilled, PassEnds
<1>16. CASE AllFit
  BY <1>11, <1>16 DEF AllFit
<1>17. CASE UNCHANGED vars
  BY <1>17 DEF vars, BudgetWithinPool
<1> QED
  BY <1>2, <1>3, <1>4, <1>5, <1>6, <1>7, <1>8, <1>10, <1>12, <1>13, <1>14, <1>15, <1>16, <1>17
  DEF Next, Pass, Step

-----------------------------------------------------------------------------
(***************************************************************************)
(* The order of the queue, and fifo-strict: the jobs a pass starts are the   *)
(* first of the queue, because it goes through the queue in that order and   *)
(* stops at the first that does not fit.                                    *)
(***************************************************************************)
LEMMA QueueStep ==
  ASSUME TypeOK, PassOK, QueueOK, [Next]_vars
  PROVE  QueueOK'
<1> USE DEF TypeOK, QueueOK, Queued, jobVars
<1>1. ASSUME NEW j \in Jobs, Submit(j) PROVE QueueOK'
  BY <1>1 DEF Submit
<1>2. ASSUME NEW j \in Jobs, Kill(j) \/ Spawn(j) \/ SpawnFails(j) PROVE QueueOK'
  BY <1>2 DEF Kill, Spawn, SpawnFails, Without
<1>3. ASSUME NEW j \in Jobs, Reap(j) \/ FindLost(j) PROVE QueueOK'
  BY <1>3 DEF Reap, FindLost, PassOK, Running
<1>4. ASSUME state' = state, ahead' = ahead PROVE QueueOK'
  BY <1>4
<1>5. ASSUME NEW j \in Jobs, ModifyLimit(j) \/ Adopt(j) \/ Fill(j) \/ Backfill(j) \/ Skip(j)
      PROVE  QueueOK'
  BY <1>4, <1>5 DEF ModifyLimit, Adopt, Fill, Backfill, Skip
<1>6. ASSUME NEW j \in Jobs, BlockFifo(j) \/ BlockEasy(j) \/ BlockStrict(j) PROVE QueueOK'
  BY <1>4, <1>6 DEF BlockFifo, BlockEasy, BlockStrict
<1>7. CASE Tick \/ Restart \/ Handled \/ ResumeBackfill \/ BeginFill
  BY <1>4, <1>7 DEF Tick, Restart, Handled, ResumeBackfill, BeginFill
<1>8. CASE AllFit \/ Backfilled \/ PassEnds
  BY <1>4, <1>8 DEF AllFit, Backfilled, PassEnds
<1>9. CASE UNCHANGED vars
  BY <1>4, <1>9 DEF vars
<1> QED
  BY <1>1, <1>2, <1>3, <1>5, <1>6, <1>7, <1>8, <1>9 DEF Next, Pass, Step

\* The pass under fifo-strict leaves no job ahead of one it starts.
LEMMA JumpStep ==
  ASSUME TypeOK, PassOK, QueueOK, NothingJumps, PassOK', [Next]_vars
  PROVE  NothingJumps'
<1> USE DEF TypeOK, NothingJumps, jobVars, passVars
<1>1. ASSUME NEW j \in Jobs, Fill(j) PROVE NothingJumps'
  <2>1. ahead[j] \subseteq toStart
    BY <1>1 DEF Fill, IsFirst, PassOK, QueueOK
  <2> QED
    BY <1>1, <2>1 DEF Fill
<1>2. ASSUME NEW j \in Jobs, Backfill(j) PROVE NothingJumps'
  BY <1>2 DEF Backfill, PassOK
<1>3. ASSUME NEW j \in Jobs, Spawn(j) \/ SpawnFails(j) PROVE NothingJumps'
  BY <1>3 DEF Spawn, SpawnFails, Without
<1>4. ASSUME toStart' = {} PROVE NothingJumps'
  BY <1>4
<1>5. ASSUME NEW j \in Jobs, Submit(j) \/ Kill(j) \/ ModifyLimit(j) PROVE NothingJumps'
  BY <1>4, <1>5 DEF Submit, Kill, ModifyLimit, PassOK
<1>6. ASSUME NEW j \in Jobs, Reap(j) \/ Adopt(j) \/ FindLost(j) PROVE NothingJumps'
  BY <1>4, <1>6 DEF Reap, Adopt, FindLost, PassOK
<1>7. CASE Tick \/ Restart \/ Handled \/ ResumeBackfill \/ BeginFill
  BY <1>4, <1>7 DEF Tick, Restart, Handled, ResumeBackfill, BeginFill, PassOK
<1>8. ASSUME policy' = policy, ahead' = ahead, toStart' = toStart PROVE NothingJumps'
  BY <1>8
<1>9. ASSUME NEW j \in Jobs, BlockFifo(j) \/ BlockEasy(j) \/ BlockStrict(j) \/ Skip(j)
      PROVE  NothingJumps'
  BY <1>8, <1>9 DEF BlockFifo, BlockEasy, BlockStrict, Skip
<1>10. CASE AllFit \/ Backfilled \/ PassEnds
  BY <1>8, <1>10 DEF AllFit, Backfilled, PassEnds
<1>11. CASE UNCHANGED vars
  BY <1>8, <1>11 DEF vars
<1> QED
  BY <1>1, <1>2, <1>3, <1>5, <1>6, <1>7, <1>9, <1>10, <1>11 DEF Next, Pass, Step

-----------------------------------------------------------------------------
\* A daemon that starts with no jobs satisfies the invariant.
LEMMA InitInv == Init => IInv
<1> SUFFICES ASSUME Init PROVE IInv
  OBVIOUS
<1> USE DEF Init
<1>1. Queued = {} /\ Running = {} /\ Holders = {} /\ Booked = {}
  BY DEF Queued, Running, Holders, Booked
<1>2. TypeOK
  BY SchedulerAssumption, EmptyMachineType DEF TypeOK, Phases
<1>3. PassOK /\ QueueOK /\ NoSharing /\ BudgetWithinPool /\ NothingJumps
  BY <1>1 DEF PassOK, QueueOK, NoSharing, BudgetWithinPool, NothingJumps
<1>4. HeldOK
  BY <1>1, MachineAssumption DEF HeldOK, EmptyMachine
<1>5. HoldersBooked
  BY <1>1, FS_EmptySet DEF HoldersBooked, EmptyMachine
<1>6. MemoryOK
  <2>1. ASSUME NEW k \in Domains
        PROVE  pool.mem[k] + SumFunction([j \in Booked |-> held[j].charge[k]]) = Capacity[k]
    <3>1. SumFunction([j \in Booked |-> held[j].charge[k]]) = 0
      BY <1>1, SumEmpty
    <3>2. pool.mem[k] = Capacity[k] /\ Capacity[k] \in Nat
      BY MachineAssumption DEF EmptyMachine
    <3> QED
      BY <3>1, <3>2
  <2> QED
    BY <2>1 DEF MemoryOK, MemoryBooked, ChargesFit
<1> QED
  BY <1>2, <1>3, <1>4, <1>5, <1>6 DEF IInv

(***************************************************************************)
(* IInv is an invariant.                                                   *)
(***************************************************************************)
THEOREM Invariance == Spec => []IInv
<1>1. IInv /\ [Next]_vars => IInv'
  BY TypeStep, PassStep, QueueStep, BooksStep, MemoryStep, BudgetStep, JumpStep DEF IInv, BooksOK
<1> QED
  BY InitInv, <1>1, PTL DEF Spec

(***************************************************************************)
(* Every variable of the scheduler keeps its type: no decision is made, and   *)
(* no allocation held, that is not one of this machine's.                   *)
(***************************************************************************)
THEOREM TypeCorrect == Spec => []TypeOK
  BY Invariance, PTL DEF IInv

(***************************************************************************)
(* No cpu and no GPU is ever given to two jobs, and an exclusive job is       *)
(* alone: for any machine, workload, policies, failures and restarts.        *)
(***************************************************************************)
THEOREM SharingFree == Spec => []NoSharing
  BY Invariance, PTL DEF IInv

(***************************************************************************)
(* The pool is the machine less what the booked jobs hold, and they are the  *)
(* jobs that run or are about to.                                          *)
(***************************************************************************)
THEOREM BooksCorrect == Spec => []HoldersBooked
  BY Invariance, PTL DEF IInv

(***************************************************************************)
(* Memory is neither lost nor handed out twice: in every domain what is free *)
(* and what the booked jobs are charged make up what the machine has.        *)
(***************************************************************************)
THEOREM MemoryCorrect == Spec => []MemoryBooked
  BY Invariance, PTL DEF IInv, MemoryOK

(***************************************************************************)
(* What easy-backfill allocates out of its budget is free in the pool.       *)
(***************************************************************************)
THEOREM BudgetSound == Spec => []BudgetWithinPool
  BY Invariance, PTL DEF IInv

(***************************************************************************)
(* Under fifo-strict a job starts only with everyone ahead of it.            *)
(***************************************************************************)
THEOREM StrictOrder == Spec => []NothingJumps
  BY Invariance, PTL DEF IInv

-----------------------------------------------------------------------------
(***************************************************************************)
(* The head of easy-backfill.  The queue is a total order (QueueTotal), so   *)
(* the first of it is one job, and a reservation names that job for as long  *)
(* as it stands (HeadOK).  A fill that finds the reservation in place was    *)
(* begun because the head fits, and places it before anyone else.            *)
(***************************************************************************)
QueueTotal == \A i, j \in Queued : i # j => i \in ahead[j] \/ j \in ahead[i]

HeadOK ==
  reservation # None =>
    /\ policy = EasyBackfill
    /\ reservation.head \in Queued
    /\ ahead[reservation.head] \subseteq toStart
    /\ phase = "fill" => reservation.head \in toStart \/ WouldFit(pool, Ask[reservation.head])
    /\ phase # "fill" => reservation.head \notin toStart
    /\ phase = "backfill" => reservation.head \notin rest

\* A job joins the queue behind everyone in it, so the order stays total.
LEMMA TotalStep ==
  ASSUME TypeOK, PassOK, QueueTotal, [Next]_vars
  PROVE  QueueTotal'
<1> USE DEF TypeOK, QueueTotal, Queued, jobVars
<1>1. ASSUME NEW j \in Jobs, Submit(j) PROVE QueueTotal'
  BY <1>1 DEF Submit
<1>2. ASSUME NEW j \in Jobs, Kill(j) \/ Spawn(j) \/ SpawnFails(j) PROVE QueueTotal'
  BY <1>2 DEF Kill, Spawn, SpawnFails, Without
<1>3. ASSUME NEW j \in Jobs, Reap(j) \/ FindLost(j) PROVE QueueTotal'
  BY <1>3 DEF Reap, FindLost, PassOK, Running
<1>4. ASSUME state' = state, ahead' = ahead PROVE QueueTotal'
  BY <1>4
<1>5. ASSUME NEW j \in Jobs, ModifyLimit(j) \/ Adopt(j) \/ Fill(j) \/ Backfill(j) \/ Skip(j)
      PROVE  QueueTotal'
  BY <1>4, <1>5 DEF ModifyLimit, Adopt, Fill, Backfill, Skip
<1>6. ASSUME NEW j \in Jobs, BlockFifo(j) \/ BlockEasy(j) \/ BlockStrict(j) PROVE QueueTotal'
  BY <1>4, <1>6 DEF BlockFifo, BlockEasy, BlockStrict
<1>7. CASE Tick \/ Restart \/ Handled \/ ResumeBackfill \/ BeginFill
  BY <1>4, <1>7 DEF Tick, Restart, Handled, ResumeBackfill, BeginFill
<1>8. CASE AllFit \/ Backfilled \/ PassEnds
  BY <1>4, <1>8 DEF AllFit, Backfilled, PassEnds
<1>9. CASE UNCHANGED vars
  BY <1>4, <1>9 DEF vars
<1> QED
  BY <1>1, <1>2, <1>3, <1>5, <1>6, <1>7, <1>8, <1>9 DEF Next, Pass, Step

\* a fill places the head of a standing reservation first
LEMMA HeadFirst ==
  ASSUME PassOK, QueueTotal, HeadOK, phase = "fill", reservation # None,
         reservation.head \notin toStart, NEW j \in Jobs, IsFirst(j, rest)
  PROVE  j = reservation.head
<1>1. rest = Queued \ toStart /\ j \in rest /\ ahead[j] \cap rest = {}
  BY DEF PassOK, IsFirst
<1>2. reservation.head \in rest /\ ahead[reservation.head] \cap rest = {}
  BY <1>1 DEF HeadOK
<1> QED
  BY <1>1, <1>2 DEF QueueTotal

\* A reservation stands for as long as its head is blocked: every step that starts the
\* head, kills it or restarts the daemon drops the reservation.
LEMMA HeadStep ==
  ASSUME TypeOK, PassOK, QueueOK, QueueTotal, HeadOK, [Next]_vars
  PROVE  HeadOK'
<1> USE DEF jobVars, poolVars, passVars
<1>1. ASSUME reservation' = None PROVE HeadOK'
  BY <1>1 DEF HeadOK
<1>2. ASSUME NEW j \in Jobs, Submit(j) PROVE HeadOK'
  BY <1>2 DEF Submit, HeadOK, TypeOK, Queued, Reservation
<1>3. ASSUME NEW j \in Jobs, Kill(j), reservation' = reservation PROVE HeadOK'
  BY <1>3 DEF Kill, HeadOK, TypeOK, Queued, Without, PassOK
<1>4. ASSUME NEW j \in Jobs, Kill(j) PROVE HeadOK'
  BY <1>1, <1>3, <1>4 DEF Kill
<1>5. ASSUME NEW j \in Jobs, ModifyLimit(j) PROVE HeadOK'
  BY <1>5 DEF ModifyLimit, HeadOK, Queued
<1>6. ASSUME NEW j \in Jobs, Reap(j) PROVE HeadOK'
  BY <1>6 DEF Reap, HeadOK, TypeOK, Queued, PassOK, Running
<1>7. ASSUME NEW j \in Jobs, Adopt(j) \/ FindLost(j) PROVE HeadOK'
  BY <1>1, <1>7 DEF Adopt, FindLost, PassOK
<1>8. ASSUME NEW j \in Jobs, Fill(j) PROVE HeadOK'
  <2>1. SUFFICES ASSUME reservation # None PROVE HeadOK'
    BY <1>1, <1>8 DEF Fill
  <2>2. phase = "fill" /\ IsFirst(j, rest) /\ toStart' = toStart \cup {j}
    BY <1>8 DEF Fill
  <2>3. reservation.head \in toStart'
    BY <2>1, <2>2, HeadFirst
  <2> QED
    BY <1>8, <2>1, <2>2, <2>3 DEF Fill, HeadOK, Queued
<1>9. ASSUME NEW j \in Jobs, BlockFifo(j) \/ BlockStrict(j) PROVE HeadOK'
  BY <1>1, <1>9 DEF BlockFifo, BlockStrict
<1>10. ASSUME NEW j \in Jobs, BlockEasy(j) PROVE HeadOK'
  <2>1. /\ phase = "fill" /\ j \in rest /\ ahead[j] \cap rest = {} /\ rest = Queued \ toStart
        /\ policy = EasyBackfill
    BY <1>10 DEF BlockEasy, Blocked, IsFirst, PassOK
  <2>2. ahead[j] \subseteq toStart
    BY <2>1 DEF QueueOK
  <2>3. /\ reservation'.head = j /\ phase' = "backfill" /\ rest' = rest \ {j}
        /\ policy' = policy /\ state' = state /\ ahead' = ahead /\ toStart' = toStart
    BY <1>10 DEF BlockEasy
  <2> QED
    BY <2>1, <2>2, <2>3 DEF HeadOK, Queued
<1>11. ASSUME NEW j \in Jobs, Backfill(j) PROVE HeadOK'
  <2>1. SUFFICES ASSUME reservation # None PROVE HeadOK'
    BY <1>1, <1>11 DEF Backfill, PassOK
  <2>2. reservation \in Reservation /\ policy = EasyBackfill
    BY <2>1 DEF TypeOK, HeadOK
  <2>3. reservation'.head = reservation.head
    BY <1>11, <2>2 DEF Backfill, Reservation
  <2>4. /\ phase = "backfill" /\ phase' = "backfill" /\ j \in rest /\ rest' = rest \ {j}
        /\ toStart' = toStart \cup {j} /\ policy' = policy /\ state' = state /\ ahead' = ahead
    BY <1>11 DEF Backfill, IsFirst
  <2> QED
    BY <2>1, <2>3, <2>4 DEF HeadOK, Queued
<1>12. ASSUME NEW j \in Jobs, Skip(j) PROVE HeadOK'
  BY <1>12 DEF Skip, HeadOK, Queued
<1>13. ASSUME NEW j \in Jobs, Spawn(j) \/ SpawnFails(j) PROVE HeadOK'
  <2>1. /\ phase = "spawn" /\ phase' = "spawn" /\ j \in toStart /\ toStart' = toStart \ {j}
        /\ policy' = policy /\ reservation' = reservation /\ ahead' = Without({j})
        /\ \A i \in Jobs \ {j} : state'[i] = state[i]
    BY <1>13 DEF Spawn, SpawnFails, IsFirst, TypeOK
  <2> QED
    BY <2>1 DEF HeadOK, Queued, Without
<1>14. CASE Tick \/ Handled \/ Backfilled \/ PassEnds
  BY <1>14 DEF Tick, Handled, Backfilled, PassEnds, HeadOK, Queued, PassOK
<1>15. CASE Restart \/ AllFit
  BY <1>1, <1>15 DEF Restart, AllFit
<1>16. CASE ResumeBackfill
  BY <1>16 DEF ResumeBackfill, HeadOK, Queued, PassOK
<1>17. CASE BeginFill
  <2>1. SUFFICES ASSUME reservation # None PROVE HeadOK'
    BY <1>1, <1>17 DEF BeginFill
  <2>2. phase = "plan" /\ toStart = {} /\ ~HeadStillBlocked
    BY <1>17 DEF BeginFill, PassOK
  <2>3. WouldFit(pool, Ask[reservation.head])
    BY <2>1, <2>2 DEF HeadOK, HeadStillBlocked, IsFirst
  <2> QED
    BY <1>17, <2>1, <2>2, <2>3 DEF BeginFill, HeadOK, Queued
<1>18. CASE UNCHANGED vars
  BY <1>18 DEF vars, HeadOK, Queued
<1> QED
  BY <1>2, <1>4, <1>5, <1>6, <1>7, <1>8, <1>9, <1>10, <1>11, <1>12, <1>13, <1>14, <1>15, <1>16,
     <1>17, <1>18
  DEF Next, Pass, Step

(***************************************************************************)
(* Whether the two questions asked of the pool agree for the jobs at hand.   *)
(***************************************************************************)
QuestionsAgree == \A p \in Pool, j \in Jobs : WouldFit(p, Ask[j]) => Allocate(p, Ask[j]) # {}

\* They agree unless a job wants GPUs on one node and has them searched for: jobs for which
\* no search is made are asked one and the same question, and for the others which GPUs
\* they get does not decide whether they fit (PlanExists).
LEMMA AgreeMostly ==
  ASSUME \A j \in Jobs :
           Ask[j].localGpu => Ask[j].gpus = 0 \/ ~TopologyKnown \/ Ask[j].floor # NoFloor
  PROVE  QuestionsAgree
<1>1. SUFFICES ASSUME NEW p \in Pool, NEW j \in Jobs, Plan(p, Ask[j], FALSE) # {}
               PROVE  Plan(p, Ask[j], TRUE) # {}
  BY DEF QuestionsAgree, WouldFit, Allocate
<1>2. CASE Ask[j].gpus = 0 \/ ~TopologyKnown \/ Ask[j].floor # NoFloor
  <2>1. PickGpus(p, Ask[j], FALSE) = PickGpus(p, Ask[j], TRUE)
    BY <1>2 DEF PickGpus
  <2>2. Plan(p, Ask[j], FALSE) = Plan(p, Ask[j], TRUE)
    BY <2>1 DEF Plan
  <2> QED
    BY <1>1, <2>2
<1>3. CASE ~Ask[j].localGpu
  <2>1. Ask[j] \in Request
    BY SchedulerAssumption
  <2> QED
    BY <1>1, <1>3, <2>1, PlanExists
<1> QED
  BY <1>2, <1>3

\* what FreedAccruesToHead says of a step
Accrues ==
  /\ \A n \in Nodes : pool.cpus[n] \ Budget.cpus[n] \subseteq (pool.cpus[n] \ Budget.cpus[n])'
  /\ pool.gpus \ Budget.gpus \subseteq (pool.gpus \ Budget.gpus)'
  /\ \A k \in Domains : pool.mem[k] - Budget.mem[k] <= (pool.mem[k] - Budget.mem[k])'

\* Step by step: what the pool gains beyond the budget is never given to anyone but the
\* head, because a backfill takes from both alike and a fill serves the head first.
LEMMA AccrueStep ==
  ASSUME QuestionsAgree, IInv, HeadOK, QueueTotal, [Next]_vars,
         reservation # None, reservation' # None, reservation.head = reservation'.head,
         IsHead(reservation.head), IsHead(reservation.head)'
  PROVE  Accrues
<1> USE DEF jobVars, poolVars, passVars
<1>1. /\ pool \in Pool /\ reservation \in Reservation /\ Budget \in Pool /\ TypeOK /\ PassOK
  BY DEF IInv, TypeOK, Reservation, Budget
<1>2. ASSUME pool' = pool, reservation' = reservation PROVE Accrues
  BY <1>1, <1>2 DEF Accrues, Budget, Pool
<1>3. ASSUME NEW j \in Holders, pool' = Release(pool, held[j]), reservation' = reservation
      PROVE  Accrues
  <2>1. held[j] \in Allocation
    BY <1>1, HoldersHold
  <2>2. Within(pool, pool)
    BY <1>1 DEF Within, Pool
  <2>3. Within(pool, pool') /\ pool' \in Pool
    BY <1>1, <1>3, <2>1, <2>2, ReleaseGrows, ReleaseType DEF IInv, HeldOK
  <2> QED
    BY <1>1, <1>3, <2>3 DEF Within, Accrues, Budget, Pool
<1>4. ASSUME NEW j \in Jobs, Reap(j) PROVE Accrues
  BY <1>1, <1>3, <1>4 DEF Reap, PassOK
<1>5. ASSUME NEW j \in Jobs, SpawnFails(j) PROVE Accrues
  BY <1>1, <1>3, <1>5 DEF SpawnFails, IsFirst, PassOK
<1>6. ASSUME NEW j \in Jobs, Adopt(j) \/ FindLost(j) PROVE Accrues
  BY <1>1, <1>6 DEF Adopt, FindLost, PassOK
<1>7. ASSUME NEW j \in Jobs, Fill(j) PROVE Accrues
  <2>1. phase = "fill" /\ IsFirst(j, rest) /\ toStart' = toStart \cup {j}
    BY <1>7 DEF Fill
  <2>2. reservation.head \notin toStart /\ reservation'.head \notin toStart'
    BY DEF IsHead, IsFirst
  <2>3. j = reservation.head
    BY <1>1, <2>1, <2>2, HeadFirst
  <2> QED
    BY <2>1, <2>2, <2>3
<1>8. ASSUME NEW j \in Jobs, BlockFifo(j) \/ BlockStrict(j) PROVE Accrues
  BY <1>8 DEF BlockFifo, BlockStrict
<1>9. ASSUME NEW j \in Jobs, BlockEasy(j) PROVE Accrues
  <2>1. phase = "fill" /\ Allocate(pool, Ask[j]) = {} /\ reservation'.head = j
    BY <1>9 DEF BlockEasy, Blocked
  <2>2. reservation.head \notin toStart
    BY DEF IsHead, IsFirst
  <2>3. WouldFit(pool, Ask[j])
    BY <2>1, <2>2 DEF HeadOK
  <2> QED
    BY <1>1, <2>1, <2>3 DEF QuestionsAgree
<1>10. ASSUME NEW j \in Jobs, Backfill(j) PROVE Accrues
  <2>1. policy = EasyBackfill /\ phase = "backfill"
    BY <1>10 DEF HeadOK, Backfill
  <2>2. PICK a \in MayPass(j) :
          /\ pool' = Reserve(pool, a)
          /\ reservation' = [reservation EXCEPT !.budget = Reserve(Budget, a)]
    BY <1>10, <2>1 DEF Backfill
  <2>3. /\ a \in Allocation /\ a.cpus \subseteq UNION { Budget.cpus[n] : n \in a.nodes }
        /\ a.gpus \subseteq Budget.gpus /\ \A k \in Domains : a.charge[k] <= Budget.mem[k]
    <3>1. a \in Allocate(Budget, Ask[j]) /\ Ask[j] \in Request
      BY <2>1, <2>2, SchedulerAssumption DEF MayPass
    <3> QED
      BY <1>1, <3>1, AllocateIsFree
  <2>4. Budget' = Reserve(Budget, a)
    BY <1>1, <2>2 DEF Reservation, Budget
  <2>5. Within(Budget, pool)
    BY <2>1 DEF IInv, BudgetWithinPool, Within
  <2>6. ASSUME NEW n \in Nodes
        PROVE  pool.cpus[n] \ Budget.cpus[n] \subseteq pool'.cpus[n] \ Budget'.cpus[n]
    <3>1. ASSUME NEW c \in pool.cpus[n], c \notin Budget.cpus[n] PROVE c \in pool'.cpus[n]
      <4>1. CASE n \notin a.nodes
        BY <2>2, <3>1, <4>1 DEF Reserve
      <4>2. CASE n \in a.nodes
        <5>1. ASSUME c \in a.cpus PROVE FALSE
          <6>1. PICK m \in a.nodes : c \in Budget.cpus[m]
            BY <2>3, <5>1
          <6>2. m \in Nodes /\ c \in pool.cpus[m]
            BY <2>3, <2>5, <6>1 DEF Allocation, Within
          <6>3. c \in NodeCpus[m] /\ c \in NodeCpus[n]
            BY <3>1, <6>2 DEF IInv, HoldersBooked
          <6>4. m = n
            BY <6>2, <6>3, MachineAssumption
          <6> QED
            BY <3>1, <6>1, <6>4
        <5> QED
          BY <2>2, <3>1, <4>2, <5>1 DEF Reserve
      <4> QED
        BY <4>1, <4>2
    <3>2. Budget'.cpus[n] \subseteq Budget.cpus[n]
      BY <2>4 DEF Reserve
    <3> QED
      BY <3>1, <3>2
  <2>7. pool.gpus \ Budget.gpus \subseteq pool'.gpus \ Budget'.gpus
    BY <2>2, <2>3, <2>4 DEF Reserve
  <2>8. ASSUME NEW k \in Domains
        PROVE  pool.mem[k] - Budget.mem[k] <= pool'.mem[k] - Budget'.mem[k]
    <3>1. /\ a.charge[k] \in Nat /\ pool.mem[k] \in Nat /\ Budget.mem[k] \in Nat
          /\ a.charge[k] <= Budget.mem[k] /\ Budget.mem[k] <= pool.mem[k]
      BY <1>1, <2>3, <2>5 DEF Allocation, Pool, Within
    <3>2. /\ pool'.mem[k] = AtLeast(pool.mem[k] - a.charge[k], 0)
          /\ Budget'.mem[k] = AtLeast(Budget.mem[k] - a.charge[k], 0)
      BY <2>2, <2>3, <2>4, ChargeOfOwn DEF Reserve
    <3> QED
      BY <3>1, <3>2 DEF AtLeast
  <2> QED
    BY <2>6, <2>7, <2>8 DEF Accrues
<1>11. ASSUME NEW j \in Jobs, Submit(j) \/ Kill(j) \/ ModifyLimit(j) PROVE Accrues
  BY <1>2, <1>11 DEF Submit, Kill, ModifyLimit
<1>12. ASSUME NEW j \in Jobs, Skip(j) \/ Spawn(j) PROVE Accrues
  BY <1>2, <1>12 DEF Skip, Spawn
<1>13. CASE Tick \/ Handled \/ ResumeBackfill \/ BeginFill \/ Backfilled \/ PassEnds
  BY <1>2, <1>13 DEF Tick, Handled, ResumeBackfill, BeginFill, Backfilled, PassEnds
<1>14. CASE Restart \/ AllFit
  BY <1>14 DEF Restart, AllFit
<1>15. CASE UNCHANGED vars
  BY <1>2, <1>15 DEF vars
<1> QED
  BY <1>4, <1>5, <1>6, <1>7, <1>8, <1>9, <1>10, <1>11, <1>12, <1>13, <1>14, <1>15
  DEF Next, Pass, Step

(***************************************************************************)
(* While the same head is blocked, what is freed accrues to it, provided     *)
(* that the pool gives one answer to both questions; the run                 *)
(* budget_replenished shows what happens when it does not.                  *)
(***************************************************************************)
THEOREM HeadGathers ==
  ASSUME QuestionsAgree
  PROVE  Spec => FreedAccruesToHead
<1>1. Init => HeadOK /\ QueueTotal
  BY DEF Init, HeadOK, QueueTotal, Queued
<1>2. IInv /\ HeadOK /\ QueueTotal /\ [Next]_vars => HeadOK' /\ QueueTotal'
  BY HeadStep, TotalStep DEF IInv
<1>3. IInv /\ HeadOK /\ QueueTotal /\ [Next]_vars =>
        [ (/\ reservation # None /\ reservation' # None
           /\ reservation.head = reservation'.head
           /\ IsHead(reservation.head) /\ IsHead(reservation.head)') => Accrues ]_vars
  BY AccrueStep
<1> QED
  BY <1>1, <1>2, <1>3, Invariance, PTL DEF Spec, FreedAccruesToHead, Accrues

-----------------------------------------------------------------------------
(***************************************************************************)
(* strict-backfill.  GuaranteedStart again, of any pool, finishers,          *)
(* deadlines and holdings; and what is free once all is given back whose     *)
(* deadline is not after some instant.                                      *)
(***************************************************************************)
Start(p, finishers, deadline, holds, r) ==
  LET before(due) == { j \in finishers : deadline[j] < due }
      upto(due)   == { j \in finishers : deadline[j] <= due }
      dues == { due \in { deadline[j] : j \in finishers } :
                  \E gone \in SUBSET upto(due) :
                    /\ before(due) \subseteq gone /\ gone # before(due)
                    /\ WouldFit(ReleaseAll(p, { holds[j] : j \in gone }), r) }
  IN  IF dues = {} THEN None ELSE CHOOSE due \in dues : \A x \in dues : due <= x

Given(finishers, deadline, holds, due) ==
  { holds[j] : j \in { i \in finishers : deadline[i] <= due } }

FitsBy(p, finishers, deadline, holds, r, due) ==
  WouldFit(ReleaseAll(p, Given(finishers, deadline, holds, due)), r)

Deadlines == [i \in Jobs |-> Deadline(i)]

StartsSame ==
  \A j \in Jobs : GuaranteedStart(j) = Start(pool, Running \cup toStart, Deadlines, held, Ask[j])

\* GuaranteedStart is Start of the scheduler's own variables.
LEMMA StartOf == TypeOK => StartsSame
<1> SUFFICES ASSUME TypeOK, NEW j \in Jobs
             PROVE  GuaranteedStart(j) =
                      Start(pool, Running \cup toStart, Deadlines, held, Ask[j])
  BY DEF StartsSame
<1> DEFINE F == Running \cup toStart
           d == Deadlines
           upto(due) == { i \in F : d[i] <= due }
           before(due) == { i \in F : d[i] < due }
           E(due) == \E gone \in SUBSET upto(due) :
                       /\ before(due) \subseteq gone /\ gone # before(due)
                       /\ WouldFit(ReleaseAll(pool, { held[i] : i \in gone }), Ask[j])
           dues == { due \in { d[i] : i \in F } : E(due) }
           dues2 == { due \in { Deadline(i) : i \in F } : FitsAt(j, due) }
<1>1. F \subseteq Jobs
  BY DEF TypeOK, Running
<1>2. \A i \in F : d[i] = Deadline(i)
  BY <1>1 DEF Deadlines
<1>3. \A due : E(due) <=> FitsAt(j, due)
  <2>1. TAKE due
  <2>2. /\ upto(due) = { i \in F : Deadline(i) <= due }
        /\ before(due) = { i \in F : Deadline(i) < due }
    BY <1>2
  <2> QED
    BY <2>2 DEF FitsAt
<1>4. { d[i] : i \in F } = { Deadline(i) : i \in F }
  BY <1>2
<1>5. dues = dues2
  <2> HIDE DEF E, d, F
  <2> QED
    BY <1>3, <1>4
<1>6. GuaranteedStart(j) =
        IF dues2 = {} THEN None ELSE CHOOSE due \in dues2 : \A x \in dues2 : due <= x
  BY DEF GuaranteedStart
<1>7. Start(pool, F, d, held, Ask[j]) =
        IF dues = {} THEN None ELSE CHOOSE due \in dues : \A x \in dues : due <= x
  BY DEF Start
<1> HIDE DEF dues, dues2
<1> QED
  BY <1>5, <1>6, <1>7

\* What is given back are allocations, finitely many.
LEMMA GivenType ==
  ASSUME NEW F, IsFiniteSet(F), NEW d, NEW holds, \A j \in F : holds[j] \in Allocation, NEW x
  PROVE  Given(F, d, holds, x) \in SUBSET Allocation /\ IsFiniteSet(Given(F, d, holds, x))
<1> DEFINE s == { j \in F : d[j] <= x }
           f == [j \in s |-> holds[j]]
<1>1. Given(F, d, holds, x) = { f[j] : j \in s } /\ DOMAIN f = s
  BY DEF Given
<1>2. IsFiniteSet(s)
  BY FS_Subset
<1>3. \A j \in s : f[j] \in Allocation
  OBVIOUS
<1> HIDE DEF f, s
<1>4. IsFiniteSet({ f[j] : j \in s })
  BY <1>1, <1>2, FiniteImage
<1> QED
  BY <1>1, <1>3, <1>4

\* The head is guaranteed to start at the first instant by which enough is given back.
LEMMA StartIsFirst ==
  ASSUME NEW p \in Pool, NEW F, IsFiniteSet(F), NEW d, \A j \in F : d[j] \in Int,
         NEW holds, \A j \in F : holds[j] \in Allocation,
         NEW r \in Request, ~r.localGpu, ~WouldFit(p, r)
  PROVE  /\ Start(p, F, d, holds, r) # None =>
              /\ Start(p, F, d, holds, r) \in Int
              /\ FitsBy(p, F, d, holds, r, Start(p, F, d, holds, r))
         /\ \A x \in Int : FitsBy(p, F, d, holds, r, x) =>
              Start(p, F, d, holds, r) \in Int /\ Start(p, F, d, holds, r) <= x
<1> DEFINE upto(due) == { j \in F : d[j] <= due }
           before(due) == { j \in F : d[j] < due }
           of(s) == { holds[j] : j \in s }
           E(due) == \E gone \in SUBSET upto(due) :
                       /\ before(due) \subseteq gone /\ gone # before(due)
                       /\ WouldFit(ReleaseAll(p, of(gone)), r)
           all == { d[j] : j \in F }
           dues == { due \in all : E(due) }
           first == Start(p, F, d, holds, r)
<1>1. \A s \in SUBSET F : of(s) \in SUBSET Allocation /\ IsFiniteSet(of(s)) /\ IsFiniteSet(s)
  <2>1. TAKE s \in SUBSET F
  <2>2. IsFiniteSet(s)
    BY FS_Subset
  <2> DEFINE f == [j \in s |-> holds[j]]
  <2>3. DOMAIN f = s /\ of(s) = { f[j] : j \in s }
    OBVIOUS
  <2> HIDE DEF f
  <2>4. IsFiniteSet({ f[j] : j \in s })
    BY <2>2, <2>3, FiniteImage
  <2> QED
    BY <2>2, <2>3, <2>4
<1>2. \A due : Given(F, d, holds, due) = of(upto(due))
  BY DEF Given
<1>3. \A s \in SUBSET F : \A t \in SUBSET s :
        WouldFit(ReleaseAll(p, of(t)), r) => WouldFit(ReleaseAll(p, of(s)), r)
  <2>1. SUFFICES ASSUME NEW s \in SUBSET F, NEW t \in SUBSET s, WouldFit(ReleaseAll(p, of(t)), r)
                 PROVE  WouldFit(ReleaseAll(p, of(s)), r)
    OBVIOUS
  <2>2. /\ of(s) \in SUBSET Allocation /\ IsFiniteSet(of(s))
        /\ of(t) \in SUBSET Allocation /\ IsFiniteSet(of(t)) /\ of(t) \in SUBSET of(s)
    BY <1>1
  <2> HIDE DEF of
  <2>3. Within(ReleaseAll(p, of(t)), ReleaseAll(p, of(s)))
    BY <2>2, ReleaseMore
  <2>4. ReleaseAll(p, of(t)) \in Pool /\ ReleaseAll(p, of(s)) \in Pool
    BY <2>2, ReleaseAllType
  <2> QED
    BY <2>1, <2>3, <2>4, PlanMonotone DEF WouldFit
<1>4. \A due \in all : E(due) <=> FitsBy(p, F, d, holds, r, due)
  <2>1. TAKE due \in all
  <2>2. upto(due) \in SUBSET F
    OBVIOUS
  <2>3. ASSUME E(due) PROVE WouldFit(ReleaseAll(p, of(upto(due))), r)
    <3>1. PICK gone \in SUBSET upto(due) : WouldFit(ReleaseAll(p, of(gone)), r)
      BY <2>3
    <3> HIDE DEF of, upto
    <3> QED
      BY <1>3, <2>2, <3>1
  <2>4. ASSUME WouldFit(ReleaseAll(p, of(upto(due))), r) PROVE E(due)
    <3>1. PICK j \in F : d[j] = due
      OBVIOUS
    <3>2. j \in upto(due) /\ j \notin before(due) /\ before(due) \subseteq upto(due)
      BY <3>1
    <3>3. upto(due) # before(due)
      BY <3>2
    <3> HIDE DEF of, upto, before
    <3> QED
      BY <2>4, <3>2, <3>3
  <2> QED
    BY <1>2, <2>3, <2>4 DEF FitsBy
<1>5. first = IF dues = {} THEN None ELSE CHOOSE due \in dues : \A x \in dues : due <= x
  BY DEF Start
<1>6. \A x \in all : x \in Int
  OBVIOUS
<1>7. dues # {} => first \in dues /\ \A x \in dues : first <= x
  <2>1. SUFFICES ASSUME dues # {} PROVE first \in dues /\ \A x \in dues : first <= x
    OBVIOUS
  <2>2. IsFiniteSet(all)
    <3> DEFINE f == [j \in F |-> d[j]]
    <3>1. DOMAIN f = F /\ all = { f[j] : j \in F }
      OBVIOUS
    <3> HIDE DEF f
    <3>2. IsFiniteSet({ f[j] : j \in F })
      BY <3>1, FiniteImage
    <3> QED
      BY <3>1, <3>2
  <2>3. dues \subseteq all
    OBVIOUS
  <2> HIDE DEF dues, all, first
  <2>4. IsFiniteSet(dues)
    BY <2>2, <2>3, FS_Subset
  <2>5. \A x \in dues : x \in Int
    BY <1>6, <2>3
  <2>6. \E x \in dues : \A y \in dues : x <= y
    BY <2>1, <2>4, <2>5, HasLeast
  <2> QED
    BY <1>5, <2>1, <2>6
<1>8. ASSUME first # None PROVE first \in Int /\ FitsBy(p, F, d, holds, r, first)
  <2>1. first \in dues
    BY <1>5, <1>7, <1>8
  <2>2. first \in all /\ E(first)
    BY <2>1
  <2> HIDE DEF E, first, all, dues
  <2> QED
    BY <1>4, <1>6, <2>2
<1>9. ASSUME NEW x \in Int, FitsBy(p, F, d, holds, r, x) PROVE first \in Int /\ first <= x
  <2>1. upto(x) # {}
    <3>1. SUFFICES ASSUME upto(x) = {} PROVE FALSE
      OBVIOUS
    <3>2. Given(F, d, holds, x) = {}
      BY <1>2, <3>1
    <3>3. WouldFit(ReleaseAll(p, {}), r)
      BY <1>9, <3>2 DEF FitsBy
    <3>4. Within(ReleaseAll(p, {}), p) /\ ReleaseAll(p, {}) \in Pool
      BY ReleaseNone, ReleaseAllType, FS_EmptySet
    <3> QED
      BY <3>3, <3>4, PlanMonotone DEF WouldFit
  <2> DEFINE ds == { d[j] : j \in upto(x) }
  <2>2. IsFiniteSet(ds)
    <3>1. IsFiniteSet(upto(x))
      BY FS_Subset
    <3> DEFINE f == [j \in upto(x) |-> d[j]]
    <3>2. DOMAIN f = upto(x) /\ ds = { f[j] : j \in upto(x) }
      OBVIOUS
    <3> HIDE DEF f, upto
    <3>3. IsFiniteSet({ f[j] : j \in upto(x) })
      BY <3>1, <3>2, FiniteImage
    <3> QED
      BY <3>2, <3>3
  <2>3. ds # {} /\ \A y \in ds : y \in Int
    BY <2>1
  <2> HIDE DEF ds
  <2>4. PICK due \in ds : \A y \in ds : y <= due
    BY <2>2, <2>3, HasGreatest
  <2>5. due \in all /\ due \in Int /\ due <= x
    BY <2>3, <2>4 DEF ds
  <2>6. upto(due) = upto(x)
    <3>1. \A j \in F : d[j] <= x => d[j] <= due
      BY <2>4 DEF ds
    <3> QED
      BY <2>5, <3>1
  <2>7. FitsBy(p, F, d, holds, r, due)
    BY <1>2, <1>9, <2>6 DEF FitsBy
  <2>8. due \in dues
    BY <1>4, <2>5, <2>7
  <2>9. first <= due /\ first \in dues
    BY <1>7, <2>8
  <2>10. first \in Int
    BY <1>6, <2>9
  <2> HIDE DEF first
  <2> QED
    BY <2>5, <2>9, <2>10
<1> QED
  BY <1>8, <1>9

\* Where at least as much is given back by the instant at which the head is guaranteed to
\* start, it is guaranteed to start no later.
LEMMA StartMoves ==
  ASSUME NEW r \in Request, ~r.localGpu,
         NEW p \in Pool, NEW F, IsFiniteSet(F), NEW d, \A j \in F : d[j] \in Int,
         NEW holds, \A j \in F : holds[j] \in Allocation, ~WouldFit(p, r),
         NEW q \in Pool, NEW G, IsFiniteSet(G), NEW e, \A j \in G : e[j] \in Int,
         NEW keeps, \A j \in G : keeps[j] \in Allocation, ~WouldFit(q, r),
         Start(p, F, d, holds, r) # None,
         \A x \in Int : x = Start(p, F, d, holds, r) =>
           Within(ReleaseAll(p, Given(F, d, holds, x)), ReleaseAll(q, Given(G, e, keeps, x)))
  PROVE  /\ Start(p, F, d, holds, r) \in Int
         /\ Start(q, G, e, keeps, r) \in Int
         /\ Start(q, G, e, keeps, r) <= Start(p, F, d, holds, r)
<1> DEFINE x == Start(p, F, d, holds, r)
<1>1. x \in Int /\ FitsBy(p, F, d, holds, r, x)
  BY StartIsFirst
<1>2. /\ Given(F, d, holds, x) \in SUBSET Allocation /\ IsFiniteSet(Given(F, d, holds, x))
      /\ Given(G, e, keeps, x) \in SUBSET Allocation /\ IsFiniteSet(Given(G, e, keeps, x))
  <2> HIDE DEF x
  <2> QED
    BY GivenType
<1>3. /\ ReleaseAll(p, Given(F, d, holds, x)) \in Pool
      /\ ReleaseAll(q, Given(G, e, keeps, x)) \in Pool
  BY <1>2, ReleaseAllType
<1>4. Within(ReleaseAll(p, Given(F, d, holds, x)), ReleaseAll(q, Given(G, e, keeps, x)))
  BY <1>1
<1> HIDE DEF x
<1>5. FitsBy(q, G, e, keeps, r, x)
  BY <1>1, <1>3, <1>4, PlanMonotone DEF FitsBy, WouldFit
<1>6. Start(q, G, e, keeps, r) \in Int /\ Start(q, G, e, keeps, r) <= x
  BY <1>1, <1>5, StartIsFirst
<1> QED
  BY <1>1, <1>6 DEF x

\* at the head of the queue is one job
LEMMA HeadIsOne ==
  ASSUME QueueTotal, NEW i \in Jobs, NEW j \in Jobs, IsHead(i), IsHead(j)
  PROVE  i = j
  BY DEF QueueTotal, IsHead, IsFirst

\* What StartIsFirst asks of the finishers.
Finishing ==
  /\ pool \in Pool /\ IsFiniteSet(Running \cup toStart) /\ Running \cup toStart \subseteq Jobs
  /\ \A j \in Running \cup toStart : held[j] \in Allocation
  /\ \A j \in Jobs : Deadlines[j] \in Int /\ Deadlines[j] = Deadline(j)

\* It is so in every state: a finisher holds an allocation, and has a deadline.
LEMMA FinishersHold == TypeOK /\ PassOK => Finishing
<1> SUFFICES ASSUME TypeOK, PassOK PROVE Finishing
  OBVIOUS
<1>1. pool \in Pool /\ Running \cup toStart \subseteq Jobs /\ Running \cup toStart = Holders
  BY DEF TypeOK, PassOK, Running
<1>2. IsFiniteSet(Running \cup toStart)
  BY <1>1, SchedulerAssumption, FS_Subset
<1>3. \A j \in Running \cup toStart : held[j] \in Allocation
  BY <1>1, HoldersHold
<1>4. \A j \in Jobs : Deadlines[j] \in Int /\ Deadlines[j] = Deadline(j)
  BY DEF TypeOK, Deadlines, Deadline
<1> QED
  BY <1>1, <1>2, <1>3, <1>4 DEF Finishing

\* who has the whole of his deadline, and what he holds, as before
LEMMA SameGiven ==
  ASSUME Finishing, Finishing', NEW x \in Int,
         \A j \in Running \cup toStart :
           /\ j \in (Running \cup toStart)'
           /\ held'[j] = held[j] /\ Deadline(j)' <= Deadline(j)
  PROVE  Given(Running \cup toStart, Deadlines, held, x)
           \subseteq Given((Running \cup toStart)', Deadlines', held', x)
<1>1. \A j \in Running \cup toStart :
        Deadlines[j] \in Int /\ Deadlines'[j] \in Int /\ Deadlines'[j] <= Deadlines[j]
  BY DEF Finishing
<1>2. \A j \in Running \cup toStart : Deadlines[j] <= x => Deadlines'[j] <= x
  BY <1>1
<1> QED
  BY <1>2 DEF Given

\* While jobs pass a head, the horizon is still its guaranteed start.
HorizonOK ==
  phase = "backfill" /\ policy = StrictBackfill =>
    \E h \in Jobs :
      /\ IsHead(h) /\ h \notin rest /\ ~WouldFit(pool, Ask[h])
      /\ horizon = GuaranteedStart(h) /\ horizon # None

\* What HeadNeverDelayed says of a step, for one job.
NotDelayed(j) ==
  \/ WouldFit(pool, Ask[j])'
  \/ /\ ~WouldFit(pool, Ask[j])
     /\ GuaranteedStart(j) = None
        \/ (GuaranteedStart(j)' # None /\ GuaranteedStart(j)' <= GuaranteedStart(j))

\* Backfill: the job ends before the head is guaranteed to start, so by then all it took is
\* given back.
LEMMA BackfillWaits ==
  ASSUME \A i \in Jobs : ~Ask[i].localGpu, IInv, IInv', QueueTotal, HorizonOK,
         policy = StrictBackfill, NEW i \in Jobs, Backfill(i)
  PROVE  \E h \in Jobs :
           /\ IsHead(h) /\ IsHead(h)' /\ h \notin rest'
           /\ ~WouldFit(pool, Ask[h]) /\ ~WouldFit(pool, Ask[h])'
           /\ GuaranteedStart(h) = horizon /\ GuaranteedStart(h)' = horizon /\ horizon # None
<1> DEFINE F == Running \cup toStart
<1>1. /\ TypeOK /\ PassOK /\ BudgetWithinPool /\ NoSharing /\ HoldersBooked
      /\ TypeOK' /\ PassOK' /\ NoSharing'
  BY DEF IInv
<1>2. Finishing /\ Finishing' /\ StartsSame /\ StartsSame'
  BY <1>1, FinishersHold, StartOf, PTL
<1>3. /\ phase = "backfill" /\ i \in rest /\ rest' = rest \ {i} /\ toStart' = toStart \cup {i}
      /\ policy' = policy /\ state' = state /\ ahead' = ahead /\ limit' = limit /\ left' = left
      /\ horizon' = horizon /\ phase' = phase
  BY DEF Backfill, IsFirst, jobVars
<1>4. PICK a \in MayPass(i) : pool' = Reserve(pool, a) /\ held' = [held EXCEPT ![i] = a]
  BY DEF Backfill
<1>5. PICK h \in Jobs : /\ IsHead(h) /\ h \notin rest /\ ~WouldFit(pool, Ask[h])
                        /\ horizon = GuaranteedStart(h) /\ horizon # None
  BY <1>3 DEF HorizonOK
<1>6. IsHead(h)' /\ h # i /\ h \notin rest'
  BY <1>3, <1>5 DEF IsHead, IsFirst, Queued
<1>7. /\ a \in Allocation /\ a.cpus # {}
      /\ a.cpus \subseteq UNION { pool.cpus[n] : n \in a.nodes } /\ a.gpus \subseteq pool.gpus
      /\ \A k \in Domains : a.charge[k] <= pool.mem[k]
      /\ ~pool.exclusive
      /\ limit[i] <= horizon
  <2>1. a \in Allocate(pool, Ask[i]) /\ limit[i] <= horizon
    BY <1>4 DEF MayPass, StrictBackfill, EasyBackfill
  <2>2. Ask[i] \in Request /\ pool \in Pool
    BY <1>2, SchedulerAssumption DEF Finishing
  <2> QED
    BY <2>1, <2>2, AllocateIsFree
<1>8. Ask[h] \in Request /\ ~Ask[h].localGpu
  BY SchedulerAssumption
<1>9. ~WouldFit(pool', Ask[h])
  <2>1. Within(pool', pool)
    <3>1. /\ \A n \in Nodes : pool'.cpus[n] \subseteq pool.cpus[n]
          /\ pool'.gpus \subseteq pool.gpus /\ (pool.exclusive => pool'.exclusive)
      BY <1>4 DEF Reserve
    <3>2. \A k \in Domains : pool'.mem[k] <= pool.mem[k]
      BY <1>2, <1>4, <1>7, ChargeOfOwn DEF Reserve, AtLeast, Pool, Allocation, Finishing
    <3>3. pool.active <= pool'.active
      BY <1>2, <1>4 DEF Reserve, Pool, Finishing
    <3> QED
      BY <3>1, <3>2, <3>3 DEF Within
  <2> QED
    BY <1>2, <1>5, <1>8, <2>1, PlanMonotone DEF Finishing, WouldFit
<1>10. /\ i \notin F /\ F' = F \cup {i} /\ held'[i] = a
       /\ \A f \in F : held'[f] = held[f] /\ Deadlines'[f] = Deadlines[f]
       /\ Deadlines'[i] = limit[i]
  <2>1. state[i] = "queued" /\ i \notin toStart
    BY <1>1, <1>3 DEF PassOK, Queued
  <2>2. Running' = Running /\ i \notin Running
    BY <1>3, <2>1 DEF Running
  <2>3. \A f \in Jobs : Deadline(f)' = Deadline(f)
    BY <1>3, <2>2 DEF Deadline
  <2>4. Deadline(i) = limit[i]
    BY <2>2 DEF Deadline
  <2> QED
    BY <1>1, <1>2, <1>3, <1>4, <2>1, <2>2, <2>3, <2>4 DEF Finishing, TypeOK
<1>11. \A x : Given(F', Deadlines', held', x) =
                IF limit[i] <= x THEN Given(F, Deadlines, held, x) \cup {a}
                ELSE Given(F, Deadlines, held, x)
  <2>1. TAKE x
  <2>2. \A f \in F' : Deadlines'[f] <= x <=> IF f = i THEN limit[i] <= x ELSE Deadlines[f] <= x
    BY <1>10
  <2> HIDE DEF F
  <2> QED
    BY <1>10, <2>2 DEF Given
<1>12. \A x : a \notin Given(F, Deadlines, held, x)
  <2>1. SUFFICES ASSUME NEW f \in F, held[f] = a PROVE FALSE
    BY DEF Given
  <2>2. f \in Holders /\ f \in Booked
    BY <1>1, <1>3, <2>1 DEF PassOK, Booked
  <2>3. PICK c \in a.cpus : TRUE
    BY <1>7
  <2>4. PICK n \in a.nodes : c \in pool.cpus[n]
    BY <1>7, <2>3
  <2>5. n \in Nodes
    BY <1>7, <2>4 DEF Allocation
  <2> QED
    BY <1>1, <2>1, <2>2, <2>3, <2>4, <2>5 DEF HoldersBooked
<1>13. /\ pool' \in Pool /\ pool \in Pool /\ IsFiniteSet(F) /\ IsFiniteSet(F')
       /\ \A f \in F : held[f] \in Allocation /\ Deadlines[f] \in Int
       /\ \A f \in F' : held'[f] \in Allocation /\ Deadlines'[f] \in Int
       /\ limit[i] \in Int
       /\ \A n \in Nodes : pool.cpus[n] \subseteq NodeCpus[n]
       /\ GuaranteedStart(h) = Start(pool, F, Deadlines, held, Ask[h])
       /\ GuaranteedStart(h)' = Start(pool', F', Deadlines', held', Ask[h])
  <2>1. limit[i] \in Int
    BY <1>1 DEF TypeOK
  <2>2. \A n \in Nodes : pool.cpus[n] \subseteq NodeCpus[n]
    BY <1>1 DEF HoldersBooked
  <2>3. /\ GuaranteedStart(h) = Start(pool, F, Deadlines, held, Ask[h])
        /\ GuaranteedStart(h)' = Start(pool', F', Deadlines', held', Ask[h])
    BY <1>2 DEF StartsSame
  <2>4. /\ pool' \in Pool /\ pool \in Pool /\ IsFiniteSet(F) /\ IsFiniteSet(F')
        /\ F \subseteq Jobs /\ F' \subseteq Jobs
        /\ \A f \in F : held[f] \in Allocation
        /\ \A f \in F' : held'[f] \in Allocation
        /\ \A f \in Jobs : Deadlines[f] \in Int /\ Deadlines'[f] \in Int
    BY <1>2 DEF Finishing
  <2> HIDE DEF F
  <2> QED
    BY <2>1, <2>2, <2>3, <2>4
<1> HIDE DEF F
<1>14. \A x : /\ Given(F, Deadlines, held, x) \in SUBSET Allocation
              /\ IsFiniteSet(Given(F, Deadlines, held, x))
              /\ Given(F', Deadlines', held', x) \in SUBSET Allocation
              /\ IsFiniteSet(Given(F', Deadlines', held', x))
  BY <1>13, GivenType
<1>15. \A x : /\ Within(ReleaseAll(pool, Given(F, Deadlines, held, x)),
                        ReleaseAll(pool', Given(F, Deadlines, held, x) \cup {a}))
              /\ Within(ReleaseAll(pool', Given(F, Deadlines, held, x) \cup {a}),
                        ReleaseAll(pool, Given(F, Deadlines, held, x)))
  BY <1>4, <1>7, <1>12, <1>13, <1>14, ReserveOne
<1>16. \A x \in Int : Within(ReleaseAll(pool', Given(F', Deadlines', held', x)),
                             ReleaseAll(pool, Given(F, Deadlines, held, x)))
  <2>1. TAKE x \in Int
  <2>2. CASE limit[i] <= x
    BY <1>11, <1>15, <2>2
  <2>3. CASE ~(limit[i] <= x)
    <3> DEFINE A == Given(F, Deadlines, held, x)
    <3>1. Given(F', Deadlines', held', x) = A
      BY <1>11, <2>3
    <3>2. A \in SUBSET Allocation /\ IsFiniteSet(A) /\ A \cup {a} \in SUBSET Allocation
          /\ IsFiniteSet(A \cup {a})
      BY <1>7, <1>14, FS_AddElement
    <3>3. Within(ReleaseAll(pool', A \cup {a}), ReleaseAll(pool, A))
      BY <1>15
    <3> HIDE DEF A
    <3>4. Within(ReleaseAll(pool', A), ReleaseAll(pool', A \cup {a}))
      BY <1>13, <3>2, ReleaseMore
    <3>5. /\ ReleaseAll(pool', A) \in Pool /\ ReleaseAll(pool', A \cup {a}) \in Pool
          /\ ReleaseAll(pool, A) \in Pool
      BY <1>13, <3>2, ReleaseAllType
    <3>6. Within(ReleaseAll(pool', A), ReleaseAll(pool, A))
      BY <3>3, <3>4, <3>5, WithinTrans
    <3> QED
      BY <3>1, <3>6 DEF A
  <2> QED
    BY <2>2, <2>3
<1>17. \A x \in Int : x = Start(pool, F, Deadlines, held, Ask[h]) =>
         Within(ReleaseAll(pool, Given(F, Deadlines, held, x)),
                ReleaseAll(pool', Given(F', Deadlines', held', x)))
  BY <1>5, <1>7, <1>11, <1>13, <1>15
<1>18. /\ Start(pool, F, Deadlines, held, Ask[h]) \in Int
       /\ Start(pool', F', Deadlines', held', Ask[h]) \in Int
       /\ Start(pool', F', Deadlines', held', Ask[h]) <= Start(pool, F, Deadlines, held, Ask[h])
  BY <1>5, <1>8, <1>9, <1>13, <1>17, StartMoves
<1>19. Start(pool, F, Deadlines, held, Ask[h]) <= Start(pool', F', Deadlines', held', Ask[h])
  <2>1. Start(pool', F', Deadlines', held', Ask[h]) # None
    BY <1>18, SchedulerAssumption
  <2> QED
    BY <1>5, <1>8, <1>9, <1>13, <1>16, <2>1, StartMoves
<1>20. GuaranteedStart(h)' = horizon
  BY <1>5, <1>13, <1>18, <1>19
<1> QED
  BY <1>5, <1>6, <1>9, <1>20

\* While a head is passed, its guaranteed start is the one that was computed for it.
LEMMA HorizonStep ==
  ASSUME \A i \in Jobs : ~Ask[i].localGpu, IInv, IInv', QueueTotal, HorizonOK, [Next]_vars
  PROVE  HorizonOK'
<1> USE DEF jobVars, poolVars, passVars
<1>1. /\ TypeOK /\ PassOK /\ TypeOK' /\ PassOK' /\ StartsSame /\ StartsSame'
  BY StartOf, PTL DEF IInv
<1>2. ASSUME phase' # "backfill" \/ policy' # StrictBackfill PROVE HorizonOK'
  BY <1>2 DEF HorizonOK
<1>3. ASSUME state' = state, limit' = limit, left' = left, pool' = pool, held' = held,
             toStart' = toStart
      PROVE  \A h \in Jobs : GuaranteedStart(h)' = GuaranteedStart(h)
  <2>1. Running' = Running /\ Deadlines' = Deadlines
    BY <1>3 DEF Running, Deadlines, Deadline
  <2> QED
    BY <1>1, <1>3, <2>1 DEF StartsSame
<1>4. ASSUME NEW j \in Jobs, Submit(j) \/ Kill(j) \/ ModifyLimit(j) PROVE HorizonOK'
  BY <1>2, <1>4 DEF Submit, Kill, ModifyLimit
<1>5. ASSUME NEW j \in Jobs, Reap(j) \/ Adopt(j) \/ FindLost(j) \/ Fill(j) PROVE HorizonOK'
  BY <1>2, <1>5 DEF Reap, Adopt, FindLost, Fill
<1>6. ASSUME NEW j \in Jobs, BlockFifo(j) \/ BlockEasy(j) PROVE HorizonOK'
  BY <1>2, <1>6 DEF BlockFifo, BlockEasy, EasyBackfill, StrictBackfill
<1>7. ASSUME NEW j \in Jobs, BlockStrict(j), phase' = "backfill" PROVE HorizonOK'
  <2>1. /\ phase = "fill" /\ IsFirst(j, rest) /\ rest = Queued \ toStart
        /\ Allocate(pool, Ask[j]) = {}
    BY <1>1, <1>7 DEF BlockStrict, Blocked, PassOK
  <2>2. /\ horizon' = GuaranteedStart(j) /\ horizon' # None /\ rest' = rest \ {j}
        /\ state' = state /\ ahead' = ahead /\ limit' = limit /\ left' = left
        /\ pool' = pool /\ held' = held /\ toStart' = toStart
    BY <1>7 DEF BlockStrict
  <2>3. IsHead(j)' /\ j \notin rest'
    BY <2>1, <2>2 DEF IsHead, IsFirst, Queued
  <2>4. ~WouldFit(pool, Ask[j])
    <3>1. Ask[j] \in Request /\ pool \in Pool /\ ~Ask[j].localGpu
      BY <1>1, SchedulerAssumption DEF TypeOK
    <3> QED
      BY <2>1, <3>1, PlanExists DEF Allocate, WouldFit
  <2>5. GuaranteedStart(j)' = GuaranteedStart(j)
    BY <1>3, <2>2
  <2> QED
    BY <2>2, <2>3, <2>4, <2>5 DEF HorizonOK
<1>8. ASSUME NEW j \in Jobs, BlockStrict(j) PROVE HorizonOK'
  BY <1>2, <1>7, <1>8
<1>9. ASSUME NEW j \in Jobs, Backfill(j), policy = StrictBackfill PROVE HorizonOK'
  <2>1. horizon' = horizon
    BY <1>9 DEF Backfill
  <2> QED
    BY <1>9, <2>1, BackfillWaits DEF HorizonOK
<1>10. ASSUME NEW j \in Jobs, Backfill(j) PROVE HorizonOK'
  BY <1>2, <1>9, <1>10 DEF Backfill
<1>11. ASSUME state' = state, ahead' = ahead, limit' = limit, left' = left, pool' = pool,
              held' = held, toStart' = toStart, horizon' = horizon, policy' = policy,
              phase' = phase, rest' \subseteq rest
       PROVE  HorizonOK'
  <2>1. SUFFICES ASSUME phase = "backfill" /\ policy = StrictBackfill PROVE HorizonOK'
    BY <1>11 DEF HorizonOK
  <2>2. PICK h \in Jobs : /\ IsHead(h) /\ h \notin rest /\ ~WouldFit(pool, Ask[h])
                          /\ horizon = GuaranteedStart(h) /\ horizon # None
    BY <2>1 DEF HorizonOK
  <2>3. GuaranteedStart(h)' = GuaranteedStart(h)
    BY <1>3, <1>11
  <2>4. IsHead(h)'
    BY <1>11, <2>2 DEF IsHead, IsFirst, Queued
  <2> QED
    BY <1>11, <2>2, <2>3, <2>4 DEF HorizonOK
<1>12. ASSUME NEW j \in Jobs, Skip(j) PROVE HorizonOK'
  BY <1>11, <1>12 DEF Skip
<1>13. ASSUME NEW j \in Jobs, Spawn(j) \/ SpawnFails(j) PROVE HorizonOK'
  BY <1>2, <1>13 DEF Spawn, SpawnFails
<1>14. CASE Tick \/ Restart \/ Handled \/ BeginFill \/ AllFit \/ Backfilled \/ PassEnds
  BY <1>2, <1>14 DEF Tick, Restart, Handled, BeginFill, AllFit, Backfilled, PassEnds
<1>15. CASE ResumeBackfill
  BY <1>2, <1>15 DEF ResumeBackfill, HeadStillBlocked, EasyBackfill, StrictBackfill
<1>16. CASE UNCHANGED vars
  BY <1>11, <1>16 DEF vars
<1> QED
  BY <1>4, <1>5, <1>6, <1>8, <1>10, <1>12, <1>13, <1>14, <1>15, <1>16 DEF Next, Pass, Step

\* Step by step: what is given back by the guaranteed start of the head only grows.
LEMMA DelayStep ==
  ASSUME \A i \in Jobs : ~Ask[i].localGpu, IInv, IInv', QueueTotal, HorizonOK, [Next]_vars,
         policy = StrictBackfill, policy' = StrictBackfill, limit' = limit,
         "adopt" \notin {phase, phase'}, NEW j \in Jobs, IsHead(j), IsHead(j)'
  PROVE  NotDelayed(j)
<1> USE DEF jobVars, poolVars, passVars
<1> DEFINE F == Running \cup toStart
           r == Ask[j]
<1>1. /\ TypeOK /\ PassOK /\ TypeOK' /\ PassOK' /\ StartsSame /\ StartsSame'
      /\ Finishing /\ Finishing'
  BY FinishersHold, StartOf, PTL DEF IInv
<1>2. r \in Request /\ ~r.localGpu
  BY SchedulerAssumption
<1>3. /\ pool' \in Pool /\ pool \in Pool /\ IsFiniteSet(F) /\ IsFiniteSet(F')
      /\ F \subseteq Jobs /\ F' \subseteq Jobs
      /\ \A f \in F : held[f] \in Allocation
      /\ \A f \in F' : held'[f] \in Allocation
      /\ \A f \in Jobs : /\ Deadlines[f] \in Int /\ Deadlines'[f] \in Int
                         /\ Deadlines[f] = Deadline(f) /\ Deadlines'[f] = Deadline(f)'
  BY <1>1 DEF Finishing
<1>4. /\ GuaranteedStart(j) = Start(pool, F, Deadlines, held, r)
      /\ GuaranteedStart(j)' = Start(pool', F', Deadlines', held', r)
  BY <1>1 DEF StartsSame
<1>5. /\ \A x : Given(F, Deadlines, held, x) \in SUBSET Allocation
      /\ \A x : IsFiniteSet(Given(F, Deadlines, held, x))
      /\ \A x : Given(F', Deadlines', held', x) \in SUBSET Allocation
      /\ \A x : IsFiniteSet(Given(F', Deadlines', held', x))
  <2> HIDE DEF F
  <2> QED
    BY <1>3, GivenType
<1>6. ASSUME Within(pool, pool'),
             \A x \in Int : Within(ReleaseAll(pool, Given(F, Deadlines, held, x)),
                                   ReleaseAll(pool', Given(F', Deadlines', held', x)))
      PROVE  NotDelayed(j)
  <2>1. SUFFICES ASSUME ~WouldFit(pool', r) PROVE NotDelayed(j)
    BY DEF NotDelayed
  <2>2. ~WouldFit(pool, r)
    BY <1>2, <1>3, <1>6, <2>1, PlanMonotone DEF WouldFit
  <2>3. SUFFICES ASSUME Start(pool, F, Deadlines, held, r) # None PROVE NotDelayed(j)
    BY <1>4, <2>2 DEF NotDelayed
  <2> HIDE DEF F
  <2>4. /\ Start(pool, F, Deadlines, held, r) \in Int
        /\ Start(pool', F', Deadlines', held', r) \in Int
        /\ Start(pool', F', Deadlines', held', r) <= Start(pool, F, Deadlines, held, r)
    BY <1>2, <1>3, <1>6, <2>1, <2>2, <2>3, StartMoves
  <2> QED
    BY <1>4, <2>2, <2>4, SchedulerAssumption DEF NotDelayed
<1>7. Within(pool, pool)
  BY <1>3 DEF Within, Pool
<1>8. ASSUME pool' = pool,
             \A f \in F : f \in F' /\ held'[f] = held[f] /\ Deadline(f)' <= Deadline(f)
      PROVE  NotDelayed(j)
  <2>1. ASSUME NEW x \in Int
        PROVE  Within(ReleaseAll(pool, Given(F, Deadlines, held, x)),
                      ReleaseAll(pool', Given(F', Deadlines', held', x)))
    <3>1. Given(F, Deadlines, held, x) \subseteq Given(F', Deadlines', held', x)
      BY <1>1, <1>8, SameGiven
    <3> HIDE DEF F
    <3> QED
      BY <1>3, <1>5, <1>8, <3>1, ReleaseMore
  <2> QED
    BY <1>6, <1>7, <1>8, <2>1
<1>9. ASSUME NEW i \in F, pool' = Release(pool, held[i]),
             \A f \in F \ {i} : f \in F' /\ held'[f] = held[f] /\ Deadline(f)' = Deadline(f)
      PROVE  NotDelayed(j)
  <2>1. held[i] \in Allocation
    BY <1>3
  <2>2. Within(pool, pool')
    BY <1>3, <1>7, <1>9, <2>1, ReleaseGrows DEF IInv, HeldOK
  <2>3. ASSUME NEW x \in Int
        PROVE  Within(ReleaseAll(pool, Given(F, Deadlines, held, x)),
                      ReleaseAll(pool', Given(F', Deadlines', held', x)))
    <3>1. Given(F, Deadlines, held, x) \subseteq Given(F', Deadlines', held', x) \cup {held[i]}
      <4>1. SUFFICES ASSUME NEW f \in F, Deadlines[f] <= x, f # i
                     PROVE  held[f] \in Given(F', Deadlines', held', x)
        BY DEF Given
      <4>2. f \in F' /\ held'[f] = held[f] /\ Deadlines'[f] = Deadlines[f]
        BY <1>3, <1>9, <4>1
      <4> HIDE DEF F
      <4> QED
        BY <4>1, <4>2 DEF Given
    <3> HIDE DEF F
    <3> QED
      BY <1>3, <1>5, <1>9, <2>1, <3>1, ReleaseOne
  <2> QED
    BY <1>6, <2>2, <2>3
<1>10. ASSUME pool' = pool, held' = held, state' = state, left' = left, toStart' = toStart
       PROVE  NotDelayed(j)
  <2>1. F' = F /\ \A f \in F : Deadline(f)' = Deadline(f) /\ Deadline(f) \in Int
    BY <1>3, <1>10 DEF Running, Deadline
  <2>2. \A f \in F : f \in F' /\ held'[f] = held[f] /\ Deadline(f)' <= Deadline(f)
    BY <1>10, <2>1
  <2> QED
    BY <1>8, <1>10, <2>2
<1>11. ASSUME NEW i \in Jobs, Submit(i) \/ Kill(i) PROVE NotDelayed(j)
  <2>1. /\ pool' = pool /\ held' = held /\ left' = left /\ toStart = {} /\ toStart' = {}
        /\ Running' = Running
    BY <1>1, <1>11 DEF Submit, Kill, PassOK, TypeOK, Running
  <2>2. \A f \in F : Deadline(f)' = Deadline(f) /\ Deadline(f) \in Int /\ f \in F'
    BY <1>3, <2>1 DEF Deadline
  <2>3. \A f \in F : f \in F' /\ held'[f] = held[f] /\ Deadline(f)' <= Deadline(f)
    BY <2>1, <2>2
  <2> QED
    BY <1>8, <2>1, <2>3
<1>12. ASSUME NEW i \in Jobs, ModifyLimit(i) PROVE NotDelayed(j)
  <2>1. PICK new \in NewLimits :
          /\ limit' = [limit EXCEPT ![i] = new]
          /\ left' = IF state[i] = "running"
                     THEN [left EXCEPT ![i] = @ + (new - limit[i])] ELSE left
    BY <1>12 DEF ModifyLimit
  <2>2. new = limit[i] /\ limit[i] \in Int /\ left \in [Jobs -> Int]
    BY <1>1, <2>1 DEF TypeOK
  <2>3. left' = left
    BY <2>1, <2>2
  <2> QED
    BY <1>10, <1>12, <2>3 DEF ModifyLimit
<1>13. CASE Tick
  <2>1. /\ pool' = pool /\ held' = held /\ toStart = {} /\ toStart' = {} /\ state' = state
        /\ left' = [f \in Jobs |-> IF f \in Running THEN left[f] - 1 ELSE left[f]]
        /\ left \in [Jobs -> Int]
    BY <1>1, <1>13 DEF Tick, PassOK, TypeOK
  <2>2. F' = F /\ F = Running
    BY <2>1 DEF Running
  <2>3. \A f \in F : Deadline(f)' = left[f] - 1 /\ Deadline(f) = left[f] /\ left[f] \in Int
    BY <1>3, <2>1 DEF Deadline, Running
  <2>4. \A f \in F : f \in F' /\ held'[f] = held[f] /\ Deadline(f)' <= Deadline(f)
    BY <2>1, <2>2, <2>3
  <2> QED
    BY <1>8, <2>1, <2>4
<1>14. ASSUME NEW i \in Jobs, Reap(i) PROVE NotDelayed(j)
  <2>1. /\ i \in Running /\ i \in F /\ pool' = Release(pool, held[i])
        /\ held' = [held EXCEPT ![i] = None] /\ state' = [state EXCEPT ![i] = "absent"]
        /\ left' = [left EXCEPT ![i] = 0] /\ toStart' = toStart
    BY <1>1, <1>14 DEF Reap, PassOK
  <2>2. Running' = Running \ {i}
    BY <1>1, <2>1 DEF Running, TypeOK
  <2>3. \A f \in Jobs \ {i} : held'[f] = held[f] /\ left'[f] = left[f]
    BY <1>1, <2>1 DEF TypeOK
  <2>4. \A f \in F \ {i} : f \in F' /\ held'[f] = held[f] /\ Deadline(f)' = Deadline(f)
    BY <1>3, <2>1, <2>2, <2>3 DEF Deadline
  <2> QED
    BY <1>9, <2>1, <2>4
<1>15. ASSUME NEW i \in Jobs, SpawnFails(i) PROVE NotDelayed(j)
  <2>1. /\ i \in toStart /\ i \in F /\ pool' = Release(pool, held[i])
        /\ held' = [held EXCEPT ![i] = None] /\ state' = [state EXCEPT ![i] = "absent"]
        /\ left' = left /\ toStart' = toStart \ {i} /\ i \in Queued
    BY <1>1, <1>15 DEF SpawnFails, IsFirst, PassOK
  <2>2. Running' = Running
    BY <1>1, <2>1 DEF Running, TypeOK, Queued
  <2>3. \A f \in Jobs \ {i} : held'[f] = held[f] /\ left'[f] = left[f]
    BY <1>1, <2>1 DEF TypeOK
  <2>4. \A f \in F \ {i} : f \in F' /\ held'[f] = held[f] /\ Deadline(f)' = Deadline(f)
    BY <1>3, <2>1, <2>2, <2>3 DEF Deadline
  <2> QED
    BY <1>9, <2>1, <2>4
<1>16. ASSUME NEW i \in Jobs, Spawn(i) PROVE NotDelayed(j)
  <2>1. /\ i \in toStart /\ i \in F /\ pool' = pool /\ held' = held
        /\ state' = [state EXCEPT ![i] = "running"] /\ toStart' = toStart \ {i} /\ i \in Queued
        /\ left' = [left EXCEPT ![i] = limit[i]]
    BY <1>1, <1>16 DEF Spawn, IsFirst, PassOK
  <2>2. Running' = Running \cup {i} /\ i \notin Running
    BY <1>1, <2>1 DEF Running, TypeOK, Queued
  <2>3. /\ \A f \in Jobs \ {i} : left'[f] = left[f]
        /\ left'[i] = limit[i]
    BY <1>1, <2>1 DEF TypeOK
  <2>4. \A f \in F : f \in F' /\ held'[f] = held[f] /\ Deadline(f)' = Deadline(f)
                     /\ Deadline(f) \in Int
    BY <1>3, <2>1, <2>2, <2>3 DEF Deadline
  <2>5. \A f \in F : f \in F' /\ held'[f] = held[f] /\ Deadline(f)' <= Deadline(f)
    BY <2>4
  <2> QED
    BY <1>8, <2>1, <2>5
<1>17. ASSUME NEW i \in Jobs, Fill(i) PROVE NotDelayed(j)
  <2>1. /\ phase = "fill" /\ IsFirst(i, rest) /\ rest = Queued \ toStart
        /\ toStart' = toStart \cup {i}
    BY <1>1, <1>17 DEF Fill, PassOK
  <2>2. IsHead(i)
    BY <2>1 DEF IsHead
  <2>3. i = j
    BY <2>2, HeadIsOne
  <2> QED
    BY <2>1, <2>3 DEF IsHead, IsFirst
<1>18. ASSUME NEW i \in Jobs, Backfill(i) PROVE NotDelayed(j)
  <2>1. PICK h \in Jobs :
           /\ IsHead(h) /\ IsHead(h)'
           /\ ~WouldFit(pool, Ask[h]) /\ ~WouldFit(pool, Ask[h])'
           /\ GuaranteedStart(h) = horizon /\ GuaranteedStart(h)' = horizon /\ horizon # None
    BY <1>18, BackfillWaits
  <2>2. h = j
    BY <2>1, HeadIsOne
  <2>3. horizon \in Int
    BY <1>1, <2>1 DEF TypeOK
  <2> QED
    BY <2>1, <2>2, <2>3 DEF NotDelayed
<1>19. ASSUME NEW i \in Jobs, Adopt(i) \/ FindLost(i) PROVE NotDelayed(j)
  BY <1>19 DEF Adopt, FindLost
<1>20. ASSUME NEW i \in Jobs, BlockFifo(i) \/ BlockEasy(i) \/ BlockStrict(i) \/ Skip(i)
       PROVE  NotDelayed(j)
  BY <1>10, <1>20 DEF BlockFifo, BlockEasy, BlockStrict, Skip
<1>21. CASE Restart
  BY <1>21 DEF Restart
<1>22. CASE Handled \/ ResumeBackfill \/ BeginFill \/ AllFit \/ Backfilled \/ PassEnds
  BY <1>10, <1>22 DEF Handled, ResumeBackfill, BeginFill, AllFit, Backfilled, PassEnds
<1>23. CASE UNCHANGED vars
  BY <1>10, <1>23 DEF vars
<1> QED
  BY <1>11, <1>12, <1>13, <1>14, <1>15, <1>16, <1>17, <1>18, <1>19, <1>20, <1>21, <1>22, <1>23
  DEF Next, Pass, Step

\* ... and for all jobs.
DelaysNone ==
  \A j \in Jobs :
    ( /\ policy = StrictBackfill /\ policy' = StrictBackfill /\ limit' = limit
      /\ "adopt" \notin {phase, phase'}
      /\ IsHead(j) /\ IsHead(j)' ) => NotDelayed(j)

(***************************************************************************)
(* Under strict-backfill the instant at which the head is sure to fit never  *)
(* moves away, whoever passes it, ends early, fails to start or overruns,    *)
(* for any machine and workload, provided that no job asks for its GPUs on   *)
(* one node: such a request may fit less where more is free, and then a job  *)
(* that ends early can put the head off.                                   *)
(***************************************************************************)
THEOREM HeadWaitsNoLonger ==
  ASSUME \A j \in Jobs : ~Ask[j].localGpu
  PROVE  Spec => HeadNeverDelayed
<1>1. Init => HorizonOK /\ QueueTotal
  BY DEF Init, HorizonOK, QueueTotal, Queued
<1>2. IInv /\ IInv' /\ HorizonOK /\ QueueTotal /\ [Next]_vars => HorizonOK' /\ QueueTotal'
  BY HorizonStep, TotalStep DEF IInv
<1>3. IInv /\ IInv' /\ HorizonOK /\ QueueTotal /\ [Next]_vars => [DelaysNone]_vars
  BY DelayStep DEF DelaysNone
<1>4. HeadNeverDelayed <=> [][DelaysNone]_vars
  BY DEF HeadNeverDelayed, DelaysNone, NotDelayed
<1>5. Spec => [][DelaysNone]_vars
  BY <1>1, <1>2, <1>3, Invariance, PTL DEF Spec
<1> QED
  BY <1>4, <1>5

=============================================================================
