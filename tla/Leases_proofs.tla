----------------------------- MODULE Leases_proofs -----------------------------
(***************************************************************************)
(* The scheduler implements Leases, for every machine and every workload.    *)
(*                                                                         *)
(* Each step is mapped by what it does to held and state.  That a new lease  *)
(* shares nothing with the others is NoSharing after the step, which IInv    *)
(* gives; that it goes to a queued job that held nothing, and comes back from *)
(* one that held something, is PassOK before it.                            *)
(***************************************************************************)
EXTENDS Scheduler_proofs

\* a job has a lease exactly when it holds an allocation
LEMMA LeaseType ==
  ASSUME TypeOK, NEW j \in Jobs
  PROVE  /\ held[j] = None => LeaseOf[j] = None
         /\ held[j] # None => LeaseOf[j] \in Abstract!Lease /\ LeaseOf[j] # None
<1>1. CASE held[j] = None
  BY <1>1 DEF LeaseOf
<1>2. CASE held[j] # None
  <2>1. held[j] \in Allocation
    BY <1>2 DEF TypeOK
  <2>2. LeaseOf[j] = [ cpus |-> held[j].cpus, gpus |-> held[j].gpus,
                       exclusive |-> held[j].exclusive ]
    BY <1>2 DEF LeaseOf
  <2>3. LeaseOf[j] \in Lease
    BY <2>1, <2>2 DEF Lease, Allocation
  <2> QED
    BY <1>2, <2>3, SchedulerAssumption DEF Lease, Abstract!Lease
<1> QED
  BY <1>1, <1>2

(***************************************************************************)
(* A fill or a backfill is a grant: of a lease that shares nothing with the   *)
(* others, because the holdings after the step share nothing.               *)
(***************************************************************************)
LEMMA GrantStep ==
  ASSUME TypeOK, TypeOK', NoSharing', NEW j \in Jobs,
         state[j] = "queued", held[j] = None, state' = state,
         NEW a \in Allocation, held' = [held EXCEPT ![j] = a]
  PROVE  Abstract!Grant(j)
<1> DEFINE l == LeaseOf'[j]
<1>1. a # None /\ held \in [Jobs -> Allocation \cup {None}]
  BY SchedulerAssumption DEF TypeOK
<1>2. held'[j] = a /\ \A i \in Jobs \ {j} : held'[i] = held[i]
  BY <1>1
<1>3. l = [cpus |-> a.cpus, gpus |-> a.gpus, exclusive |-> a.exclusive]
  BY <1>1, <1>2 DEF LeaseOf
<1>4. l \in Abstract!Lease
  BY <1>3 DEF Abstract!Lease, Allocation
<1>5. LeaseOf' = [LeaseOf EXCEPT ![j] = l]
  BY <1>2, <1>3 DEF LeaseOf
<1>6. ASSUME NEW i \in Jobs \ {j}, LeaseOf[i] # None
      PROVE  Abstract!MayShareWith(l, LeaseOf[i])
  <2>1. held[i] # None
    BY <1>6, LeaseType
  <2>2. LeaseOf[i] = [ cpus |-> held[i].cpus, gpus |-> held[i].gpus,
                       exclusive |-> held[i].exclusive ]
    BY <2>1 DEF LeaseOf
  <2>3. i \in Holders' /\ j \in Holders'
    BY <1>1, <1>2, <2>1 DEF Holders
  <2>4. /\ held'[j].cpus \cap held'[i].cpus = {} /\ held'[j].gpus \cap held'[i].gpus = {}
        /\ ~held'[j].exclusive /\ ~held'[i].exclusive
    BY <2>3 DEF NoSharing
  <2> QED
    BY <1>2, <1>3, <2>2, <2>4 DEF Abstract!MayShareWith
<1>7. LeaseOf[j] = None
  BY LeaseType
<1> QED
  BY <1>4, <1>5, <1>6, <1>7 DEF Abstract!Grant

(***************************************************************************)
(* The end of a running job, its loss found at start-up, and a start that    *)
(* fails are returns.                                                      *)
(***************************************************************************)
LEMMA ReturnStep ==
  ASSUME TypeOK, NEW j \in Holders,
         state' = [state EXCEPT ![j] = "absent"], held' = [held EXCEPT ![j] = None]
  PROVE  Abstract!Return(j)
<1>1. j \in Jobs /\ held[j] # None /\ held \in [Jobs -> Allocation \cup {None}]
  BY DEF Holders, TypeOK
<1>2. LeaseOf[j] # None
  BY <1>1, LeaseType
<1>3. LeaseOf' = [LeaseOf EXCEPT ![j] = None]
  BY <1>1 DEF LeaseOf
<1> QED
  BY <1>2, <1>3 DEF Abstract!Return

\* a step that moves neither is nothing to the users
LEMMA SameLeases ==
  ASSUME state' = state, held' = held
  PROVE  UNCHANGED << state, LeaseOf >>
  BY DEF LeaseOf

\* Every step of the scheduler is a step of Leases or none.
LEMMA RefinementStep ==
  ASSUME IInv, IInv', [Next]_vars
  PROVE  [Abstract!Next]_<< state, LeaseOf >>
<1> USE DEF IInv
<1> DEFINE Same == UNCHANGED << state, LeaseOf >>
<1>1. ASSUME NEW j \in Jobs, Submit(j) PROVE Abstract!Next
  <2>1. Abstract!Apply(j)
    BY <1>1 DEF Submit, Abstract!Apply, poolVars, LeaseOf
  <2> QED
    BY <2>1 DEF Abstract!Next
<1>2. ASSUME NEW j \in Jobs, Kill(j) PROVE Abstract!Next
  <2>1. held[j] = None
    BY <1>2 DEF Kill, PassOK, Holders, Running
  <2>2. Abstract!Withdraw(j)
    BY <1>2, <2>1, LeaseType DEF Kill, Abstract!Withdraw, poolVars, LeaseOf
  <2> QED
    BY <2>2 DEF Abstract!Next
<1>3. ASSUME NEW j \in Jobs, ModifyLimit(j) PROVE Same
  BY <1>3, SameLeases DEF ModifyLimit, poolVars
<1>4. ASSUME NEW j \in Jobs, Reap(j) PROVE Abstract!Next
  <2>1. j \in Holders
    BY <1>4 DEF Reap, PassOK
  <2>2. Abstract!Return(j)
    BY <1>4, <2>1, ReturnStep DEF Reap
  <2> QED
    BY <1>4, <2>2 DEF Abstract!Next
<1>5. ASSUME NEW j \in Jobs, Adopt(j) PROVE Same
  BY <1>5, SameLeases DEF Adopt, jobVars
<1>6. ASSUME NEW j \in Jobs, FindLost(j) PROVE Abstract!Next
  <2>1. j \in Holders
    BY <1>6 DEF FindLost, PassOK
  <2>2. Abstract!Return(j)
    BY <1>6, <2>1, ReturnStep DEF FindLost
  <2> QED
    BY <1>6, <2>2 DEF Abstract!Next
<1>7. ASSUME NEW j \in Jobs, Fill(j) PROVE Abstract!Next
  <2>1. PICK a \in Allocate(pool, Ask[j]) : held' = [held EXCEPT ![j] = a]
    BY <1>7 DEF Fill
  <2>2. a \in Allocation
    BY AllocateIsFree, SchedulerAssumption DEF TypeOK
  <2>3. state[j] = "queued" /\ held[j] = None
    BY <1>7 DEF Fill, IsFirst, PassOK, Queued, Running, Holders
  <2>4. Abstract!Grant(j)
    BY <1>7, <2>1, <2>2, <2>3, GrantStep DEF Fill, jobVars
  <2> QED
    BY <2>4 DEF Abstract!Next
<1>8. ASSUME NEW j \in Jobs, BlockFifo(j) \/ BlockEasy(j) PROVE Same
  BY <1>8, SameLeases DEF BlockFifo, BlockEasy, jobVars, poolVars
<1>9. ASSUME NEW j \in Jobs, BlockStrict(j) \/ Skip(j) PROVE Same
  BY <1>9, SameLeases DEF BlockStrict, Skip, jobVars, poolVars
<1>10. ASSUME NEW j \in Jobs, Backfill(j) PROVE Abstract!Next
  <2>1. PICK a \in MayPass(j) : held' = [held EXCEPT ![j] = a]
    BY <1>10 DEF Backfill
  <2>2. a \in Allocation
    BY <1>10, PickType DEF Backfill
  <2>3. state[j] = "queued" /\ held[j] = None
    BY <1>10 DEF Backfill, IsFirst, PassOK, Queued, Running, Holders
  <2>4. Abstract!Grant(j)
    BY <1>10, <2>1, <2>2, <2>3, GrantStep DEF Backfill, jobVars
  <2> QED
    BY <2>4 DEF Abstract!Next
<1>11. ASSUME NEW j \in Jobs, Spawn(j) PROVE Abstract!Next
  <2>1. state[j] = "queued" /\ held[j] # None
    BY <1>11 DEF Spawn, IsFirst, PassOK, Queued, Holders
  <2>2. Abstract!Begin(j)
    BY <1>11, <2>1, LeaseType DEF Spawn, Abstract!Begin, poolVars, LeaseOf
  <2> QED
    BY <2>2 DEF Abstract!Next
<1>12. ASSUME NEW j \in Jobs, SpawnFails(j) PROVE Abstract!Next
  <2>1. j \in Holders
    BY <1>12 DEF SpawnFails, IsFirst, PassOK
  <2>2. Abstract!Return(j)
    BY <1>12, <2>1, ReturnStep DEF SpawnFails
  <2> QED
    BY <1>12, <2>2 DEF Abstract!Next
<1>13. CASE Tick \/ Restart
  BY <1>13, SameLeases DEF Tick, Restart, jobVars, poolVars
<1>14. CASE Handled \/ ResumeBackfill \/ BeginFill \/ AllFit \/ Backfilled \/ PassEnds
  BY <1>14, SameLeases
  DEF Handled, ResumeBackfill, BeginFill, AllFit, Backfilled, PassEnds, jobVars, poolVars
<1>15. CASE UNCHANGED vars
  BY <1>15, SameLeases DEF vars, jobVars, poolVars
<1> QED
  BY <1>1, <1>2, <1>3, <1>4, <1>5, <1>6, <1>7, <1>8, <1>9, <1>10, <1>11, <1>12, <1>13,
     <1>14, <1>15
  DEF Next, Pass, Step

(***************************************************************************)
(* Whatever the policies, the machine, the workload and the faults, what     *)
(* the users of the scheduler see is a behaviour of Leases.                  *)
(***************************************************************************)
THEOREM Implementation == Spec => LeasesKept
<1>1. Init => Abstract!Init
  BY DEF Init, Abstract!Init, LeaseOf
<1>2. IInv /\ IInv' /\ [Next]_vars => [Abstract!Next]_<< state, LeaseOf >>
  BY RefinementStep
<1> QED
  BY <1>1, <1>2, Invariance, PTL DEF Spec, LeasesKept, Abstract!Spec

=============================================================================
