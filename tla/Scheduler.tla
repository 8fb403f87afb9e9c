----------------------------- MODULE Scheduler -----------------------------
(***************************************************************************)
(* The queue of the daemon and the three policies that start jobs from it   *)
(* (src/hpc_batch/scheduling.py, and Daemon._submit, _tick, _schedule,       *)
(* _try_start, _h_kill, _load_state of src/hpc_batch/daemon.py as far as      *)
(* they move the queue and the pool).                                      *)
(*                                                                         *)
(* The daemon is one thread and a scheduling pass never awaits, so a pass    *)
(* excludes every other handler; it is cut into steps here (phase), one per  *)
(* job looked at and one per job spawned, and the handlers wait for "idle".  *)
(*                                                                         *)
(* A job of this module is a slot: when its job is over a new one may be     *)
(* submitted in it, so behaviours are endless and a policy that lets a       *)
(* stream of small jobs starve a big one is found out.  Only the order of    *)
(* the ids of queued jobs matters to the code, and ahead keeps that order.   *)
(* Time is counted in ticks, and only as what a running job has left.       *)
(***************************************************************************)
EXTENDS ResourcePool

CONSTANTS
  Jobs,        \* slots
  None,        \* no allocation, no reservation, no deadline
  Ask,         \* slot |-> the request of its jobs
  Limit,       \* slot |-> max_time its jobs are submitted with, in ticks
  NewLimits,   \* what an admin may change the max_time of a job to
  Policies,    \* the --schedule values the daemon may be started with
  MaxOverrun,  \* ticks a job may outlive its limit (until TERM and KILL took it)
  MaxRestarts  \* how often the daemon is reloaded or restarted

FifoStrict     == "fifo-strict"
EasyBackfill   == "easy-backfill"
StrictBackfill == "strict-backfill"

\* Reservation: a blocked head and what was idle when it blocked
Reservation == [head : Jobs, budget : Pool]

\* what the holder of an allocation sees of it
Lease == [cpus : SUBSET AllCpus, gpus : SUBSET GpuIds, exclusive : BOOLEAN]

ASSUME SchedulerAssumption ==
  /\ Jobs # {} /\ IsFiniteSet(Jobs)
  /\ None \notin Allocation \cup Reservation \cup Lease \cup Int
  /\ Ask \in [Jobs -> Request] /\ \A j \in Jobs : Validate(Ask[j])
  /\ Limit \in [Jobs -> Nat \ {0}] /\ NewLimits \subseteq Nat \ {0}
  /\ Policies # {} /\ Policies \subseteq {FifoStrict, EasyBackfill, StrictBackfill}
  /\ MaxOverrun \in Nat /\ MaxRestarts \in Nat

VARIABLES
  policy,       \* the --schedule in force
  state,        \* job |-> "absent", "queued" or "running" (Job.state; done is absent)
  ahead,        \* job |-> the queued jobs with a smaller id, for a queued job
  held,         \* job |-> what the pool reserved for it
  limit,        \* job |-> Job.max_time_s (Limit again once the job is gone)
  left,         \* job |-> ticks until its deadline, negative when overdue
  pool,         \* Daemon.pool
  reservation,  \* Daemon._reservation: easy-backfill's budget for its head
  phase,        \* what the pass is doing; "idle" between passes
  rest,         \* the jobs the pass has not looked at yet
  toStart,      \* the jobs it has reserved resources for
  horizon,      \* strict-backfill's guaranteed start of the head, in ticks from now
  restarts

jobVars  == << state, ahead, limit, left >>
poolVars == << pool, held >>
passVars == << phase, rest, toStart, horizon >>
vars == << policy, jobVars, poolVars, reservation, passVars, restarts >>

Queued  == { j \in Jobs : state[j] = "queued" }
Running == { j \in Jobs : state[j] = "running" }
Holders == { j \in Jobs : held[j] # None }

\* the first in submission order of some queued jobs
IsFirst(j, set) == j \in set /\ ahead[j] \cap set = {}

\* the queue without the jobs that left it
Without(gone) == [j \in Jobs |-> IF j \in gone THEN {} ELSE ahead[j] \ gone]

Init ==
  /\ policy \in Policies
  /\ state = [j \in Jobs |-> "absent"]
  /\ ahead = [j \in Jobs |-> {}]
  /\ held = [j \in Jobs |-> None]
  /\ limit = Limit
  /\ left = [j \in Jobs |-> 0]
  /\ pool = EmptyMachine
  /\ reservation = None
  /\ phase = "idle" /\ rest = {} /\ toStart = {} /\ horizon = None
  /\ restarts = 0

-----------------------------------------------------------------------------
(***************************************************************************)
(* The handlers that move the queue; each but Kill ends in a pass.          *)
(***************************************************************************)
\* Daemon._submit of a request that validate accepts
Submit(j) ==
  /\ phase = "idle" /\ state[j] = "absent"
  /\ state' = [state EXCEPT ![j] = "queued"]
  /\ ahead' = [ahead EXCEPT ![j] = Queued]
  /\ phase' = "plan"
  /\ UNCHANGED << policy, limit, left, poolVars, reservation, rest, toStart, horizon, restarts >>

(***************************************************************************)
(* Daemon._h_kill of a queued job: finalized without a pass.  A reservation  *)
(* made for it stays behind in the code and never matches again, because     *)
(* ids are not reused; slots are, so it is dropped here.                    *)
(***************************************************************************)
Kill(j) ==
  /\ phase = "idle" /\ state[j] = "queued"
  /\ state' = [state EXCEPT ![j] = "absent"]
  /\ ahead' = Without({j})
  /\ limit' = [limit EXCEPT ![j] = Limit[j]]
  /\ reservation' = IF reservation # None /\ reservation.head = j THEN None ELSE reservation
  /\ UNCHANGED << policy, left, poolVars, passVars, restarts >>

(***************************************************************************)
(* Daemon._h_job, 'max-time set' or 'add': an admin changes the limit of a    *)
(* job that is not done.  Its deadline moves if it runs; no pass follows.    *)
(***************************************************************************)
ModifyLimit(j) ==
  /\ phase = "idle" /\ state[j] # "absent"
  /\ \E new \in NewLimits :
        /\ limit' = [limit EXCEPT ![j] = new]
        /\ left' = IF state[j] = "running"
                   THEN [left EXCEPT ![j] = @ + (new - limit[j])] ELSE left
  /\ UNCHANGED << policy, state, ahead, poolVars, reservation, passVars, restarts >>

(***************************************************************************)
(* Daemon._tick: the running jobs found dead are finalized one after the    *)
(* other, giving back what they hold, and then a pass starts.  A job dies    *)
(* when it likes, and MaxOverrun past its limit at the latest.              *)
(***************************************************************************)
Overdue == { j \in Running : left[j] - 1 <= -MaxOverrun }

Tick ==
  /\ phase = "idle"
  /\ phase' = "reap"
  /\ rest' \in { dead \in SUBSET Running : Overdue \subseteq dead }
  /\ left' = [j \in Jobs |-> IF j \in Running THEN left[j] - 1 ELSE left[j]]
  /\ UNCHANGED << policy, state, ahead, limit, poolVars, reservation, toStart, horizon, restarts >>

Reap(j) ==
  /\ phase = "reap" /\ j \in rest
  /\ rest' = rest \ {j}
  /\ state' = [state EXCEPT ![j] = "absent"]
  /\ limit' = [limit EXCEPT ![j] = Limit[j]]
  /\ left' = [left EXCEPT ![j] = 0]
  /\ pool' = Release(pool, held[j])
  /\ held' = [held EXCEPT ![j] = None]
  /\ UNCHANGED << policy, ahead, reservation, phase, toStart, horizon, restarts >>

(***************************************************************************)
(* A reload or a restart, possibly with another --schedule: the new daemon   *)
(* builds an empty pool, forgets the reservation (it is not in the state     *)
(* file) and reserves again for each job that is still alive               *)
(* (Daemon._load_state); the first pass follows.                            *)
(***************************************************************************)
Restart ==
  /\ phase = "idle" /\ restarts < MaxRestarts
  /\ restarts' = restarts + 1
  /\ policy' \in Policies
  /\ pool' = EmptyMachine
  /\ reservation' = None
  /\ phase' = "adopt" /\ rest' = Running
  /\ UNCHANGED << jobVars, held, toStart, horizon >>

\* fault: an adopted job is not reserved for
AdoptUnreserved(j) ==
  /\ phase = "adopt" /\ j \in rest
  /\ rest' = rest \ {j}
  /\ UNCHANGED << policy, jobVars, poolVars, reservation, phase, toStart, horizon, restarts >>

Adopt(j) ==
  /\ phase = "adopt" /\ j \in rest
  /\ rest' = rest \ {j}
  /\ pool' = Reserve(pool, held[j])
  /\ UNCHANGED << policy, jobVars, held, reservation, phase, toStart, horizon, restarts >>

\* dead when the daemon came back: finalized, and the new pool never held it
FindLost(j) ==
  /\ phase = "adopt" /\ j \in rest
  /\ rest' = rest \ {j}
  /\ state' = [state EXCEPT ![j] = "absent"]
  /\ limit' = [limit EXCEPT ![j] = Limit[j]]
  /\ left' = [left EXCEPT ![j] = 0]
  /\ held' = [held EXCEPT ![j] = None]
  /\ UNCHANGED << policy, ahead, pool, reservation, phase, toStart, horizon, restarts >>

Handled ==
  /\ phase \in {"reap", "adopt"} /\ rest = {}
  /\ phase' = "plan"
  /\ UNCHANGED << policy, jobVars, poolVars, reservation, rest, toStart, horizon, restarts >>

-----------------------------------------------------------------------------
(***************************************************************************)
(* plan: the decision of a pass.  It fills the machine in submission order   *)
(* until a job does not fit, and what happens then is the policy's.          *)
(***************************************************************************)
HeadStillBlocked ==
  /\ policy = EasyBackfill /\ reservation # None
  /\ IsFirst(reservation.head, Queued)
  /\ ~WouldFit(pool, Ask[reservation.head])

\* fault: the budget is taken afresh on every pass
ResumeBackfillAfresh ==
  /\ phase = "plan" /\ HeadStillBlocked
  /\ phase' = "backfill" /\ rest' = Queued \ {reservation.head}
  /\ reservation' = [reservation EXCEPT !.budget = pool]
  /\ UNCHANGED << policy, jobVars, poolVars, toStart, horizon, restarts >>

\* _plan_easy: the head of an earlier pass still cannot run
ResumeBackfill ==
  /\ phase = "plan" /\ HeadStillBlocked
  /\ phase' = "backfill" /\ rest' = Queued \ {reservation.head}
  /\ UNCHANGED << policy, jobVars, poolVars, reservation, toStart, horizon, restarts >>

BeginFill ==
  /\ phase = "plan" /\ ~HeadStillBlocked
  /\ phase' = "fill" /\ rest' = Queued
  /\ UNCHANGED << policy, jobVars, poolVars, reservation, toStart, horizon, restarts >>

Fill(j) ==
  /\ phase = "fill" /\ IsFirst(j, rest)
  /\ \E a \in Allocate(pool, Ask[j]) :
        /\ pool' = Reserve(pool, a)
        /\ held' = [held EXCEPT ![j] = a]
  /\ rest' = rest \ {j} /\ toStart' = toStart \cup {j}
  /\ UNCHANGED << policy, jobVars, reservation, phase, horizon, restarts >>

Blocked(j) == phase = "fill" /\ IsFirst(j, rest) /\ Allocate(pool, Ask[j]) = {}

\* fault: the job that does not fit is passed over
BlockFifoSkips(j) ==
  /\ Blocked(j) /\ policy = FifoStrict
  /\ rest' = rest \ {j}
  /\ UNCHANGED << policy, jobVars, poolVars, reservation, phase, toStart, horizon, restarts >>

BlockFifo(j) ==
  /\ Blocked(j) /\ policy = FifoStrict
  /\ reservation' = None
  /\ phase' = "spawn" /\ rest' = {}
  /\ UNCHANGED << policy, jobVars, poolVars, toStart, horizon, restarts >>

\* what is idle now is the budget of the jobs behind the head
BlockEasy(j) ==
  /\ Blocked(j) /\ policy = EasyBackfill
  /\ reservation' = [head |-> j, budget |-> pool]
  /\ phase' = "backfill" /\ rest' = rest \ {j}
  /\ UNCHANGED << policy, jobVars, poolVars, toStart, horizon, restarts >>

(***************************************************************************)
(* _reservation_deadline: the earliest time the head is guaranteed to fit if *)
(* every job gives back what it holds at its deadline, None if that is not   *)
(* guaranteed.  Jobs of one deadline are released in some order.            *)
(***************************************************************************)
Deadline(j) == IF j \in Running THEN left[j] ELSE limit[j]

FitsAt(head, due) ==
  LET finishers == Running \cup toStart
      before == { j \in finishers : Deadline(j) < due }
      upto   == { j \in finishers : Deadline(j) <= due }
  IN  \E gone \in SUBSET upto :
        /\ before \subseteq gone /\ gone # before
        /\ WouldFit(ReleaseAll(pool, { held[j] : j \in gone }), Ask[head])

GuaranteedStart(head) ==
  LET dues == { due \in { Deadline(j) : j \in Running \cup toStart } : FitsAt(head, due) }
  IN  IF dues = {} THEN None ELSE CHOOSE due \in dues : \A d \in dues : due <= d

BlockStrict(j) ==
  /\ Blocked(j) /\ policy = StrictBackfill
  /\ reservation' = None
  /\ horizon' = GuaranteedStart(j)
  /\ IF horizon' = None
     THEN phase' = "spawn" /\ rest' = {}
     ELSE phase' = "backfill" /\ rest' = rest \ {j}
  /\ UNCHANGED << policy, jobVars, poolVars, toStart, restarts >>

AllFit ==
  /\ phase = "fill" /\ rest = {}
  /\ reservation' = None
  /\ phase' = "spawn"
  /\ UNCHANGED << policy, jobVars, poolVars, rest, toStart, horizon, restarts >>

-----------------------------------------------------------------------------
(***************************************************************************)
(* Past the blocked head.  Easy-backfill allocates out of the budget and     *)
(* reserves the same allocation in the pool; strict-backfill allocates out   *)
(* of the pool for a job whose limit ends before the head's reserved start.  *)
(***************************************************************************)
Budget == reservation.budget

\* fault: strict-backfill forgets to look at the limit
MayPassUntimed(j) ==
  IF policy = EasyBackfill THEN Allocate(Budget, Ask[j]) ELSE Allocate(pool, Ask[j])

MayPass(j) ==
  IF policy = EasyBackfill
  THEN Allocate(Budget, Ask[j])
  ELSE IF limit[j] <= horizon THEN Allocate(pool, Ask[j]) ELSE {}

\* fault: backfill does not draw the budget down
BackfillUndrawn(j) ==
  /\ phase = "backfill" /\ IsFirst(j, rest)
  /\ \E a \in MayPass(j) :
        /\ pool' = Reserve(pool, a)
        /\ held' = [held EXCEPT ![j] = a]
  /\ rest' = rest \ {j} /\ toStart' = toStart \cup {j}
  /\ UNCHANGED << policy, jobVars, reservation, phase, horizon, restarts >>

Backfill(j) ==
  /\ phase = "backfill" /\ IsFirst(j, rest)
  /\ \E a \in MayPass(j) :
        /\ pool' = Reserve(pool, a)
        /\ held' = [held EXCEPT ![j] = a]
        /\ reservation' = IF policy = EasyBackfill
                          THEN [reservation EXCEPT !.budget = Reserve(Budget, a)]
                          ELSE reservation
  /\ rest' = rest \ {j} /\ toStart' = toStart \cup {j}
  /\ UNCHANGED << policy, jobVars, phase, horizon, restarts >>

Skip(j) ==
  /\ phase = "backfill" /\ IsFirst(j, rest) /\ MayPass(j) = {}
  /\ rest' = rest \ {j}
  /\ UNCHANGED << policy, jobVars, poolVars, reservation, phase, toStart, horizon, restarts >>

Backfilled ==
  /\ phase = "backfill" /\ rest = {}
  /\ phase' = "spawn"
  /\ UNCHANGED << policy, jobVars, poolVars, reservation, rest, toStart, horizon, restarts >>

-----------------------------------------------------------------------------
(***************************************************************************)
(* Daemon._schedule then spawns what plan picked, in the order it picked     *)
(* them.  A spawn that fails gives the resources back and ends the job.      *)
(***************************************************************************)
Spawn(j) ==
  /\ phase = "spawn" /\ IsFirst(j, toStart)
  /\ toStart' = toStart \ {j}
  /\ state' = [state EXCEPT ![j] = "running"]
  /\ ahead' = Without({j})
  /\ left' = [left EXCEPT ![j] = limit[j]]
  /\ UNCHANGED << policy, limit, poolVars, reservation, phase, rest, horizon, restarts >>

\* fault: a failed spawn keeps its resources
SpawnFailsLeaks(j) ==
  /\ phase = "spawn" /\ IsFirst(j, toStart)
  /\ toStart' = toStart \ {j}
  /\ state' = [state EXCEPT ![j] = "absent"]
  /\ ahead' = Without({j})
  /\ limit' = [limit EXCEPT ![j] = Limit[j]]
  /\ held' = [held EXCEPT ![j] = None]
  /\ UNCHANGED << policy, pool, left, reservation, phase, rest, horizon, restarts >>

SpawnFails(j) ==
  /\ phase = "spawn" /\ IsFirst(j, toStart)
  /\ toStart' = toStart \ {j}
  /\ state' = [state EXCEPT ![j] = "absent"]
  /\ ahead' = Without({j})
  /\ limit' = [limit EXCEPT ![j] = Limit[j]]
  /\ pool' = Release(pool, held[j])
  /\ held' = [held EXCEPT ![j] = None]
  /\ UNCHANGED << policy, left, reservation, phase, rest, horizon, restarts >>

PassEnds ==
  /\ phase = "spawn" /\ toStart = {}
  /\ phase' = "idle" /\ horizon' = None
  /\ UNCHANGED << policy, jobVars, poolVars, reservation, rest, toStart, restarts >>

-----------------------------------------------------------------------------
Step(j) ==
  \/ Reap(j) \/ Adopt(j) \/ FindLost(j)
  \/ Fill(j) \/ BlockFifo(j) \/ BlockEasy(j) \/ BlockStrict(j)
  \/ Backfill(j) \/ Skip(j) \/ Spawn(j) \/ SpawnFails(j)

\* what the daemon does once a handler has begun, without awaiting anything
Pass ==
  \/ \E j \in Jobs : Step(j)
  \/ Handled \/ ResumeBackfill \/ BeginFill \/ AllFit \/ Backfilled \/ PassEnds

Next ==
  \/ \E j \in Jobs : Submit(j) \/ Kill(j) \/ ModifyLimit(j)
  \/ Tick \/ Restart
  \/ Pass

Spec == Init /\ [][Next]_vars

(***************************************************************************)
(* A handler that has begun runs to its end.  The timer of the event loop    *)
(* fires again and again however many clients connect: Tick is enabled only  *)
(* between the passes their requests start, hence strong fairness.          *)
(***************************************************************************)
FairSpec == Spec /\ WF_vars(Pass) /\ SF_vars(Tick)

-----------------------------------------------------------------------------
Phases == {"idle", "reap", "adopt", "plan", "fill", "backfill", "spawn"}

TypeOK ==
  /\ policy \in Policies
  /\ state \in [Jobs -> {"absent", "queued", "running"}]
  /\ ahead \in [Jobs -> SUBSET Jobs]
  /\ held \in [Jobs -> Allocation \cup {None}]
  /\ limit \in [Jobs -> Nat \ {0}] /\ left \in [Jobs -> Int]
  /\ pool \in Pool
  /\ reservation \in Reservation \cup {None}
  /\ phase \in Phases
  /\ rest \in SUBSET Jobs /\ toStart \in SUBSET Jobs
  /\ horizon \in Int \cup {None}
  /\ restarts \in 0..MaxRestarts

\* the jobs the pool knows of: all that hold something, once a new daemon has adopted them
Booked == IF phase = "adopt" THEN Holders \ rest ELSE Holders

(***************************************************************************)
(* No cpu and no GPU belongs to two jobs, across passes, backfill out of a   *)
(* budget, failed spawns and restarts, and an exclusive job has the machine  *)
(* to itself ("the invariant the whole design rests on").                   *)
(***************************************************************************)
NoSharing ==
  \A i, j \in Holders : i # j =>
    /\ held[i].cpus \cap held[j].cpus = {}
    /\ held[i].gpus \cap held[j].gpus = {}
    /\ ~held[i].exclusive

(***************************************************************************)
(* The books say what is so: exactly the jobs that run or are about to hold  *)
(* something, and the pool is the machine less what the booked ones hold.    *)
(* A release that is forgotten or done twice shows here.                    *)
(***************************************************************************)
HoldersBooked ==
  /\ Holders = Running \cup toStart
  /\ \A n \in Nodes : pool.cpus[n] = NodeCpus[n] \ UNION { held[j].cpus : j \in Booked }
  /\ pool.gpus = GpuIds \ UNION { held[j].gpus : j \in Booked }
  /\ pool.active = Cardinality(Booked)
  /\ pool.exclusive <=> \E j \in Booked : held[j].exclusive

\* the memory of the booked jobs and the free memory make up each domain
MemoryBooked ==
  \A k \in Domains :
    pool.mem[k] + SumFunction([j \in Booked |-> held[j].charge[k]]) = Capacity[k]

(***************************************************************************)
(* "The budget is a frozen subset of the pool", so what backfill allocates   *)
(* out of the budget may be reserved in the pool without another look        *)
(* (_backfill).  Not during a fill, which replaces the reservation.         *)
(***************************************************************************)
BudgetWithinPool ==
  (reservation # None /\ phase # "fill") =>
    /\ \A n \in Nodes : Budget.cpus[n] \subseteq pool.cpus[n]
    /\ Budget.gpus \subseteq pool.gpus
    /\ \A k \in Domains : Budget.mem[k] <= pool.mem[k]
    /\ pool.active <= Budget.active
    /\ pool.exclusive => Budget.exclusive

\* the job at the front of the queue that the pass has not started
IsHead(j) == IsFirst(j, Queued \ toStart)

(***************************************************************************)
(* fifo-strict: "nothing ever jumps the queue".  Whoever is about to start   *)
(* has nobody ahead of it who is not.                                      *)
(***************************************************************************)
NothingJumps ==
  policy = FifoStrict => \A j \in toStart : ahead[j] \subseteq toStart

(***************************************************************************)
(* easy-backfill: the budget is never replenished, "so freed resources       *)
(* accrue to the head instead".  While one head is blocked, what is free     *)
(* beyond the budget only grows, whatever ends, starts or fails meanwhile.   *)
(***************************************************************************)
FreedAccruesToHead ==
  [][ (/\ reservation # None /\ reservation' # None
       /\ reservation.head = reservation'.head
       /\ IsHead(reservation.head) /\ IsHead(reservation.head)') =>
      /\ \A n \in Nodes : pool.cpus[n] \ Budget.cpus[n] \subseteq (pool.cpus[n] \ Budget.cpus[n])'
      /\ pool.gpus \ Budget.gpus \subseteq (pool.gpus \ Budget.gpus)'
      /\ \A k \in Domains : pool.mem[k] - Budget.mem[k] <= (pool.mem[k] - Budget.mem[k])' ]_vars

(***************************************************************************)
(* strict-backfill: a job that passes the head "can never delay the head".   *)
(* The instant at which the head is sure to fit, if every job holds on to    *)
(* its resources until its deadline, never moves away, pass after pass,      *)
(* unless an admin moves a deadline.                                        *)
(***************************************************************************)
HeadNeverDelayed ==
  [][ \A j \in Jobs :
        ( /\ policy = StrictBackfill /\ policy' = StrictBackfill /\ limit' = limit
          /\ "adopt" \notin {phase, phase'}
          /\ IsHead(j) /\ IsHead(j)' ) =>
        \/ WouldFit(pool, Ask[j])'
        \/ /\ ~WouldFit(pool, Ask[j])
           /\ GuaranteedStart(j) = None
              \/ (GuaranteedStart(j)' # None /\ GuaranteedStart(j)' <= GuaranteedStart(j)) ]_vars

(***************************************************************************)
(* The scheduler implements Leases: every fill, backfill, spawn, end,        *)
(* restart and adoption is the grant, the beginning or the return of one     *)
(* whole lease, or nothing to the users.                                    *)
(***************************************************************************)
LeaseOf ==
  [j \in Jobs |-> IF held[j] = None
                  THEN None
                  ELSE [ cpus |-> held[j].cpus, gpus |-> held[j].gpus,
                         exclusive |-> held[j].exclusive ]]

Abstract == INSTANCE Leases WITH
  Tenants <- Jobs, Cpus <- AllCpus, Gpus <- GpuIds, NoLease <- None,
  stage <- state, lease <- LeaseOf

LeasesKept == Abstract!Spec

(***************************************************************************)
(* Nobody starves: every queued job is started or killed, although jobs are  *)
(* submitted, and small ones pass big ones, for ever ("this prevents a       *)
(* stream of small jobs from starving a big one").                          *)
(***************************************************************************)
NoStarvation == \A j \in Jobs : state[j] = "queued" ~> state[j] # "queued"

=============================================================================
