# hpc-batch: models and proofs

hpc-batch queues commands on one NUMA/GPU machine and runs each as the user who
submitted it, in a cgroup of its own, with cpus, GPUs and memory that no other
job has. One daemon (`hpc-batchd`) does it; `dispatch` is its command-line
client. This directory holds TLA+ modules of the daemon, the TLC runs that check
them, and proofs that TLAPS checks. Paths below are under `src/hpc_batch/` unless
they say otherwise.

    tlc -workers 2 -config scheduler.cfg MCScheduler     (any .cfg with its MC module)
    tlapm Scheduler_proofs.tla

`PROJECT.json` lists components, runs, hazards, findings and theorems, and maps each
definition to the lines it stands for.

## 1. The system

The daemon is one process with one thread. An asyncio loop runs two things: a
timer (`_tick`, every second) and one coroutine per client connection (`_client`,
one request, one answer). All handlers but `attach` run from the request they have
read to the answer without an `await`, so they exclude one another and the tick;
`attach` awaits between any two chunks. A connection may be silent before its request
and unread after the answer, for any time, and is served on while the daemon shuts down.
Concurrency comes from outside: the processes of the jobs, the kernel, the file
system, the administrator (reload, stop, limits), and the daemon's own death at any
instruction.

| component | state | operations | correct when |
|---|---|---|---|
| GPU topology (`resources.py` `GpuTopology`) | link class and width per pair; constant | `quality`, `islands`, the climb in `_closest_gpus` | the set that is picked is a closest one among the free ones, although NVLink is a mesh and its islands are not cliques |
| resource pool (`ResourcePool`) | free cpus per node, free GPUs, free memory per domain, running jobs, exclusive flag | `validate`, `allocate`, `would_fit`, `reserve`, `release` | capacity = free + held at every moment; what fits can be allocated; what is accepted can run on an idle machine; memory spans nodes only when it must |
| policies (`scheduling.py`) | `Reservation` (head and budget) from pass to pass | `plan`: fifo-strict, easy-backfill, strict-backfill | nothing is given out twice; no job passes a strict head; backfill takes nothing that was freed for the head; strict-backfill never delays it; nobody starves |
| queue and job table (`daemon.py`, `jobs.py`, `modify.py`) | `jobs`, `next_id`, `_reserved`, `_reservation` | `_submit`, `_h_kill`, `_h_job`, `_tick`, `_schedule`, `_try_start` | jobs that run are exactly the ones that hold resources, on every path of a failed start, a kill, a restart |
| job lifecycle (`daemon.py`, `cgroup.py`) | state, reason, exit code, term time; processes; cgroups; output buffer and its copy | `_start_job`, `_probe`, `_request_kill`, `_hard_kill`, `_finalize`, `_retire_output`, `_trim_finished` | every job ends and leaves no process; its exit code is collected; its output is delivered or kept and reported |
| state file and restarts (`daemon.py`) | `state.json` | `_persist`, `_load_state`, reload, stop, crash | what a client was told survives; a job that was started is not started again |
| attach and shutdown (`daemon.py`) | open connections, a handler's locals, the buffer | `_client`, `_h_attach`, `run`'s finally | a client sees all the output, and the end of it; a shutdown ends, and what holds it up is known |
| budgets at start-up | cpus and memory per node | `apply_reserve`, `proportional_share`, `_default_mem_gb` | a default budget is accepted by `validate` |
| installer (`install.py`) | virtualenv and record, entry points, unit, PATH entry, what systemd loaded | `install` (also the upgrade), `uninstall`, `purge` | an install is never split over two layouts; what says it is done is done |
| discovery, GPU masking, client, wire protocol | files, device nodes, none | parsing, ioctls, formatting | see section 7 |

How they interact: `_submit` asks the pool to `validate`, puts the job in the
table and makes a pass; `_tick` finalizes dead jobs (which releases to the pool),
escalates overdue ones, and makes a pass; a pass (`plan`) allocates and reserves in
the pool and returns what to start; `_try_start` spawns, or releases and finalizes.
A handler that changed something writes the whole table to the state file before it
answers. On start the table is read back; jobs that are alive reserve what they
recorded, the others are finalized.

What is hard here, and the hazards listed in `PROJECT.json`: two questions asked of
the pool (`would_fit`, `allocate`) that must agree; a backfill snapshot that outlives
the pool it was taken from; clamps that make wrong books look right; a pool that is
empty after a restart; a release in two places; an answer that must follow a write; a
copy and an unlink with a crash in between; pids that are no longer children;
exceptions half-way through a handler whose state is saved all the same; a reader of a
file that is unlinked under it; waits without a time limit, for a client or for a
destination; an installer whose record is a file among those it
installs; and three policies whose promises are about all future passes.

## 2. Modules

| module | models | over |
|---|---|---|
| `GpuTopology` | link ranks, quality of a group, islands, `_closest_gpus` | constants only |
| `ResourcePool` | requests, allocations, the pool as a value, every decision and every change of it | `GpuTopology` |
| `Placement` | the pool under any sequence of allocate and release; properties of the pool | `ResourcePool` |
| `Scheduler` | queue, policies, pass by pass, spawning, restart and adoption | `ResourcePool` |
| `Leases` | what the scheduler promises, without nodes, queues, passes or restarts | constants only; `Scheduler` implements it |
| `Daemon` | the life of a job, the state file, crashes and failing system calls | none: one slot stands for an allocation |
| `Attach` | the handlers of attached clients, and shutdown | none: when jobs start and end is open |
| `Installer` | install, uninstall and purge, and the machine they work on | none |
| `SetFacts` | lemmas on finite sets, least and greatest elements, sums, division | constants only |
| `ResourcePool_proofs` | lemmas and theorems on what the pool decides and keeps | `ResourcePool`, `SetFacts` |
| `Placement_proofs`, `Scheduler_proofs` | theorems | the module of that name, `ResourcePool_proofs` |
| `Leases_proofs` | the refinement | `Scheduler_proofs` |
| `Daemon_proofs`, `Attach_proofs`, `Installer_proofs` | theorems | the module of that name |
| `MCPlacement`, `MCScheduler`, `MCDaemon`, `MCAttach`, `MCInstaller` | machines and workloads for TLC | |

**GpuTopology, ResourcePool.** Pure operators. `Plan(p, r, closest)` is `_plan`: the
home node by `_cpu_node_order`'s keys (`HomeNode`), GPUs from the pools that
`_gpu_pools` offers, cpus, then `Charges`, which draws the budget domain by domain and
leaves at most one of the domains it uses with something left. `WouldFit` and
`Allocate` are the two callers and differ as in the code: `would_fit` takes GPUs in
index order. `Reserve` and `Release` clamp at zero and at capacity as the code does, so
a wrong book stays a legal value here too. GPU sets are chosen with `CHOOSE` among the
best where the code's order of ties does not matter to any property. Memory is in
whole GiB, so that the code's epsilon has no part in it. Before it was used the model
of `allocate` was compared with the Python method on 344 states of the placement
machine, without a difference. The start-up arithmetic is here too: `CpusAfterReserve`
and `MemAfterReserve` (`apply_reserve`), by which the machines of the placement runs are
made, `ProportionalShare` and `DefaultMem` (`_default_mem_gb`).

**Scheduler.** A pass is cut into steps, guarded by `phase`: one per job the policy
looks at, one per spawn. That is only a presentation, since nothing else may move then
(a pass never awaits); it keeps each policy's loop visible: `Fill` and `Blocked*`
(`_fill_fifo`), `ResumeBackfill`, `Backfill`, `Skip` (`_plan_easy`, `_plan_strict`),
`Spawn` and `SpawnFails` (`_try_start`). `Tick`, `Submit`, `Kill`, `ModifyLimit`,
`Restart` are the handlers; `Adopt` and `FindLost` are `_load_state`. A job is a slot
that is used again when the job is over, so that behaviours never end and starvation
means something; `ahead` keeps the order of submission, which is all of an id that the
policies read. Deadlines are kept as ticks left. The reservation of a head that is
killed while queued is dropped in the model, because slots come back and ids do not.

**Leases.** Five actions (`Apply`, `Withdraw`, `Grant`, `Begin`, `Return`) over a stage
and a lease per tenant. `Scheduler` implements it (`LeasesKept`) under a mapping that
forgets nodes, charges and everything but a job's cpus, GPUs and exclusivity: reserving
in the middle of a pass is `Grant`, spawning `Begin`, `_finalize` and a failed start
`Return`. What it adds to `NoSharing` is time: no allocation is changed while a job has
it, none is dropped before the job is over, a restart included, and no job runs without.

**Daemon.** Variables come in groups: what the daemon is doing (`phase`, `cause`,
`look`, `picks`, `cur`, `back`), its memory (`table`, `nextId`, `dirty`, `free`,
`reserved`, `doomed`), files (`disk`, `buf`, `copy`), the kernel (`cgroup`, `leader`,
`jobOf`, `child`, `age`, `stray`), and what users were told (`acked`, `told`). A
handler is cut wherever the world may move or the daemon may die with a difference:
each spawn (`Start`), each probe (`LookOn`, `TimeOut`, `HardKill`, `FindDead`), the
opening and the end of the copy (`OpenCopy`, `CopyDone`), the unlink (`Retire`), the
write (`Save`). `_finalize` is reached from four places (tick, load, kill of a queued
job, failed start), and `back` is where it returns to. `cause` is the handler, and
`Abort` says what an exception does in it: `_client` answers and goes on, the tick
ends the daemon by way of `run`'s finally, which still saves, and during start-up the
daemon just dies. `Down` is the loss of memory; a reload keeps the children, a stop or
a crash does not. A leader is `alive`, `dying` (it has SIGKILL), `zombie`, `gone`, or
`reused` (its pid belongs to another process). Every job takes one of `Slots` and the
queue is fifo: which resources and whose turn are `Scheduler`'s.

**Attach.** A connection begins with the await of its request (`asking`), which may
last; then it is attached (`Attach`), or answered (`Answer`: any other request or a
refused one, with the submissions and kills among them doing what they do to the jobs,
also while the daemon waits to go down) and closed. A handler is a record of where it
awaits and of its locals (`f`, its position, the snapshot `done`); a step is what it
does from one await to the next, so `Poll` is a turn of the loop of `_h_attach`:
snapshot, open, read. Between steps the tick finalizes (the buffer is unlinked, or kept
when the copy fails), retention forgets the job with its directory (`Turnover`), and
clients stall or leave. `Down` waits for all connections if `waits`, which stands for
Python 3.12 and later: `pyproject.toml` admits both kinds. Output is counted in chunks;
a job's process writes at any time while it lives.

**Installer.** One action per step of `install`, `uninstall` and `purge`, each a write,
a link, an unlink or a call of systemctl, and `CutShort`, which ends a run at any of
them with a file half written, a tree half made or half removed. Between runs the
machine is rebooted, and the administrator starts the unit. `record` is `install.json`,
absent when unreadable, as `read_record` has it. `strays` is an account of the
specification and not state of the code: the layouts that are in use somewhere and on
no record. It grows only at the steps that are known to lose sight of one (section 3),
so `Managed` says that there are no others.

## 3. Runs

| run | module | question | states |
|---|---|---|---|
| `placement` | MCPlacement | every decision of the pool in every state three jobs can bring it to | 272 |
| `scheduler` | MCScheduler | queue, pool, policies: safety, refinement of `Leases`, nobody starves | 93 084 |
| `daemon` | MCDaemon | slots, processes, exit codes, output, with two mishaps among reload, stop, failed start, failed copy | 828 026 |
| `recovery` | MCDaemon | what the state file promises, with two mishaps among crash, failed write, reload | 1 705 870 |
| `lifetime` | MCDaemon | every job ends and leaves nothing, with one crash or failed fork, if copies end | 156 425 |
| `attach` | MCAttach | streams are whole and end, and so do shutdowns, for two clients, two stops, two chunks | 382 096 |
| `installer` | MCInstaller | what four runs, cut short anywhere, leave on the machine | 2 193 373 |
| `stranded_by_reserve`, `cpu_only_numa_local`, `budget_replenished`, `kill_postponed`, `output_unrecorded` | | disagreements, section 6 | |

Bounds, and why they are enough.
`placement`: two uneven nodes, four GPUs, NVLink wired 1-2 and 2-3 but not 1-3 (an
island that is no clique), eight kinds of request that include a budget that spans
nodes, one that must stay local, a floor on the link and an exclusive job; three jobs fill
the machine in every combination. `scheduler`: four slots with a small, a GPU, a wide
and a whole-machine job; four is what it takes for a head, someone who passes it,
someone who must not, and someone who runs. Limits of one and two ticks make every
order of deadlines happen; one restart, since a second starts from the same states.
`MaxOverrun = 0` in the run because strict-backfill promises only what deadlines
promise. Nothing ends a behaviour: the small jobs are submitted again and again and can
keep the machine busy between them while one waits that needs all of it. `daemon`,
`recovery`, `lifetime`: two jobs on one slot, so that one waits for the other and retention of one (`Keep = 1`) pushes out the first;
the first wants its output. `MaxRuns` is what two mishaps can at most make of two jobs,
and the deadlock check would report it if it were not. `MaxTime = 0` in two of them
is the shortest limit the daemon accepts, one second: the next tick finds it exceeded;
`daemon` has the longer one. `Grace = 0` or `1` ticks: that it may be re-armed matters,
not its length. `attach`: two chunks make a position that is neither the start nor the
end; two clients, so that one may hold up a shutdown for the other; two stops, so that a
client comes back after a reload, to the state one left behind. Jobs share nothing in
`Attach`. `installer`: two directories and two groups make every disagreement with the
record and with the defaults; four runs, so that a run that was cut short can be followed
by an upgrade, an uninstall and an install elsewhere.

What the properties say is with their definitions. In short:
* the pool: `BooksBalance` (capacity = free + held, per domain), `IdleMachineServes`
  (what `validate` accepts fits an idle machine), `FitIsAllocatable` (`would_fit` yes
  means `allocate` succeeds), `ClosestIsBest`, `SpansOnlyWhenItMust`,
  `OneDomainLeftOpen`, `DefaultsLeaveRoom` (while jobs stay within their share, a default
  budget finds memory wherever it finds cores), `ReleaseNeverHurts`;
* the scheduler: `NoSharing`, `HoldersBooked`, `MemoryBooked`, `BudgetWithinPool`,
  `NothingJumps`, `FreedAccruesToHead`, `HeadNeverDelayed`, `LeasesKept`, `NoStarvation`;
* the daemon: `BooksMatch`, `NoOrphan`, `ExitCollected`, `OutputKept`, `DoneIsOver`,
  `AckedSurvive`, `KillsStick`, `StartedOnce`, `EveryJobEnds`, `StragglersDie`,
  `CgroupsGo`;
* attached clients: `StreamWhole` (a stream that was ended is whole, or nothing when the
  client came before there was a buffer), `StreamEnds`, `ShutdownEnds`;
* the installer: `Managed`, `DoneIsDone`.

`StreamWhole` and `ShutdownEnds` name what the code does not do. A client that attaches
to a queued job which then starts, ends and is delivered within one poll (0.3 s against
a tick of 1 s, so only if the handler is late or the start fails) sees nothing. From
Python 3.12 on a reload or stop waits for every connection (`HeldUp`): for a client that
sends no request, since `read_json` has no time limit; for one that does not read what
it is sent; and for one attached to a job that was not finalized before the ticks
stopped, even if the job ends meanwhile. `ShutdownEnds` says that it ends unless there
is such a client from some time on for good; without any one of the three cases in
`HeldUp` TLC finds it violated. `Managed` names the strays: a first install cut short
before its record, a record cut short while it is rewritten (`write_text` truncates), a
daemon that did not stop for an uninstall, and a unit that systemd still has because
that uninstall was cut short.

The placement machine of the passing run has no numa-local-gpu request, and the
workload of `scheduler` none whose wiring decides; with them the three findings of
section 6 appear. `NoOrphan` is checked without crashes: a crash between spawning a
job and writing the state file does make an orphan (hazard at `daemon.py:709`), and
`StartedOnce` says that nothing but that window does. `EveryJobEnds` and `CgroupsGo` are
checked where copies end (section 4) and no job is killed that is being killed already;
the other two cases are in section 6.

Definitions marked `fault:` stand for a plausible mistake in the definition after
them. No run uses them; put in place of it, each is found by the property that
`PROJECT.json` pairs it with.

## 4. Fairness

`Scheduler`: weak fairness of the steps of a pass, since a handler that has begun runs
to its end; strong fairness of `Tick`, since requests start passes of their own and
disable the tick while they last, but asyncio runs a timer that is due before it polls
for ever more requests. Submissions, kills and limit changes are not fair. That jobs end
comes from `MaxOverrun`, the time limit with its escalation, which `lifetime`
justifies where copies end.

`Attach`: weak fairness of each handler, of the tick and of the return of `wait_closed`:
the event loop serves every callback that is due. Nothing is assumed of jobs, which need
not end, nor of clients, which need neither send a request, nor read, nor leave. A tick
ends, so copies do (see below).

`Daemon`: weak fairness of `Work`, the daemon's own steps and its being started again
(`Restart=on-failure` in the unit, or the administrator); strong fairness of `Tick`;
weak fairness of the end of a process that has been sent SIGKILL. A job that was not
killed need never end, and SIGTERM need not do anything. Nor need the child that copies a
job's output end (`CopyDone` is a step of the outside world): it opens and writes a path
the user chose, which may take for ever, and `run_as_user` waits for it without a time
limit. `lifetime` assumes that copies end, as `CopiesEnd`, a conjunct of `FairCopiesSpec`
that the code does not enforce; `FairSpec` is without it. All other system calls of the
daemon are taken to return, the look at the destination's directory at submission
included.

## 5. Proofs

Every invariant and every action property that a passing run checks is a theorem too,
for every machine, workload and number of mishaps; what is left to TLC is at the end.

Assumptions: `MachineAssumption`, `GpuAssumption`, `PlacementAssumption`,
`SchedulerAssumption`, `DaemonAssumption`, `AttachAssumption` and `InstallerAssumption`
on the constants (finite sets of nodes, cpus and GPUs; cpus of different nodes are
different; what is submitted is valid; `None` is nothing else), which TLC evaluates in
every run, and the hypotheses that single theorems name. Those are the cases in which
the code does not keep the promise; each is explained below, and what goes wrong without
it is a run of section 6 or a hazard in `PROJECT.json`.

**SetFacts.** The provers cannot do induction over data. `LeastSubset` takes its place
(of some subsets of a finite set one has no other within it): the set of the
counterexamples has a least one, and that is led to a contradiction. A sum is known by
what it does: a table of the sums over all subsets (`Sums`) exists by the same argument,
and the folds of the community modules are its entries. From there come monotony,
splitting off an element, and sums of sums.

**ResourcePool_proofs.** What is decided:
* `PlanIsFree`, `AllocateIsFree`: whatever `Plan` returns is an allocation of free
  resources (`PickedGpusAreFree`, `PickedCpusAreFree`, `ChargesAreFree`).
* `ClosestBest`: the climb through the islands finds a group whenever there are GPUs
  enough, and none of that size is better connected, although islands are no cliques.
  A group of quality L lies in one island of level L, so the first level that delivers is
  the best there is.
* `PlanExists`: for a request that is not numa-local-gpu, there is an allocation exactly
  if `Fits`, a condition on what is free with no choice in it. Hence `would_fit` and
  `allocate`, which take different GPUs, give the same answer, and hence
  `PlanMonotone`: what fits still fits where more is free. Both are false with a
  numa-local-gpu request: a GPU that is given back can draw the job to a node that has
  no cpus for it.
* `ValidFits`: what `validate` accepts fits an idle machine if, besides, a floor is asked
  for two GPUs at most and a node with the cpus can hold a budget that must stay local.
  Without: an island of three GPUs at the floor need not be a clique at the floor, as the
  comment at `resources.py:559-562` admits, and `validate` looks at the cpus of one node
  and the memory of another.

What is kept: `Reserve` and `Release` keep the types; `ReserveMonotone` and
`ReleaseGrows` say how two pools, one within the other, stay so. `ReleaseAll`, a release
of a set of jobs, is the pool plus what they hold (`ReleasedMem`: plus the sum of their
charges), whatever the order (`ReleaseMore`, `ReleaseOne`).

**Placement_proofs.** `IInv` is `TypeOK` and `BooksBalance` with `HeldOK` (a job's cpus
are on the nodes it names), `CountOK` (`active` counts the holders), `HomeFirst` (a job
that leaves its home node has all of it) and `AloneOK` (only an exclusive job closes the
machine). From it follow `BooksCorrect`, `OneOpen` (`OneDomainLeftOpen`) and `RemoteLast`
(`SpansOnlyWhenItMust`); `GpusClosest` (`ClosestIsBest`) from `ClosestBest`;
`QuestionsOne` (`FitIsAllocatable`) and `ReleasesHelp` (`ReleaseNeverHurts`) for requests
that are not numa-local-gpu, from `PlanExists` and `PlanMonotone`; and `IdleServes`
(`IdleMachineServes`) under the conditions of `ValidFits`.
`RoomForDefaults` (`DefaultsLeaveRoom`) is arithmetic: a holder that keeps to its share
is charged no more than `cpus * Cap / N` on its node of `N` cpus, the cpu sets of the
holders are disjoint and disjoint from the free ones, so the charges sum to less than
what is left for the share of the free ones, whatever was rounded. To keep to one's share
includes being charged nothing away from home (`WithinShare`): TLC found that a budget
that spans nodes takes the memory of cores that stay free, which the docstring of
`proportional_share` ("this way it can always be placed") does not mention.

**Scheduler_proofs.** `TypeCorrect`, `SharingFree` (`NoSharing`), `BooksCorrect`
(`HoldersBooked`), `MemoryCorrect` (`MemoryBooked`), `BudgetSound` (`BudgetWithinPool`),
`StrictOrder` (`NothingJumps`), for any machine, any workload, any policies, any number
of restarts. None is inductive alone. `IInv` adds
* `PassOK`: in each phase, what the rest of the pass and its picks may be: a job picked
  is queued and has resources, one still to be looked at does not;
* `QueueOK`: `ahead` names queued jobs only, so a job that leaves leaves no gap;
* `HeldOK`: what a job holds is an allocation with the types `Release` needs.

The argument: a job gets what `Plan` found free in the pool (or, backfilled, in the
budget, which `BudgetWithinPool` puts inside the pool), and the pool is the machine less
what is held (`HoldersBooked`), so nothing it gets is held by anyone else (`NoSharing`).
`BudgetWithinPool` itself survives because reserves hit budget and pool alike
(`ReserveMonotone`) and releases only the pool (`ReleaseGrows`). Memory is the same
domain by domain (`MemoryOK`), where adoption needs that the jobs still to be adopted fit
what is free (`ChargesFit`). Each of `TypeStep`, `PassStep`, `BooksStep`, `MemoryStep`,
`BudgetStep`, `QueueStep`, `JumpStep` has one step per action.

Two action properties are about the head of the queue, which is one job because the
queue is a total order (`QueueTotal`).
* `HeadGathers` (`FreedAccruesToHead`): `HeadOK` says that a reservation names the head
  for as long as it stands, and that a fill which finds it standing was begun because the
  head fits, so it places the head first. That is so if the pool answers both questions
  alike (`QuestionsAgree`); `AgreeMostly` proves that it does unless a job is
  numa-local-gpu and has its GPUs searched for, and `budget_replenished` is what happens
  with one.
* `HeadWaitsNoLonger` (`HeadNeverDelayed`): the guaranteed start of the head is the first
  deadline by which enough is given back (`StartIsFirst`, by `PlanMonotone`), and
  `HorizonOK` says that the horizon of a pass still is that start when a job is backfilled
  against it. A job that ends or whose start fails takes nothing from what is given back
  by then, an overdue one counts as ending now, and one that is backfilled has given
  everything back before then (`BackfillWaits`). The hypothesis is that of `PlanMonotone`,
  no numa-local-gpu requests.

**Leases_proofs.** `Implementation`, that `Spec => LeasesKept`. `NoSharing` and
`HoldersBooked` of the state after a step give what `Grant` asks; each action of
`Scheduler` is shown to be one action of `Leases` or a stutter.

**Daemon_proofs.** `IInv` is `TypeOK` and, by name: `ControlOK`, where the control is and
what `cur`, `look`, `picks` and `back` name there; `Sound`, that an entry of the table, and
of the state file, says of its process what is the case or was when it was written (who
is done has no live process, who has an exit code was collected); `Faithful`, that both
hold what clients were told, jobs and kills; `Precedes`, that the table is never behind
the state file. It carries `TypeCorrect`, `CodesCollected` (`ExitCollected`), `DoneOver`
(`DoneIsOver`), `AcknowledgedSurvive` (`AckedSurvive`), `KillsHold` (`KillsStick`) and
`NeverRespawned` (`StartedOnce`), with any mishaps in any number. Three more build on it
and exclude the mishaps that break them:
* `BooksAgree` (`BooksMatch`, by `BooksOK`): not a failed start together with a failed
  fork, since the exception out of the clean-up ends the pass and the slots of the other
  picks are lost (`daemon.py:675`).
* `NoneOrphaned` (`NoOrphan`, by `OwnersOK`): besides, no crash and no failed write, which
  forget a spawn (`daemon.py:709`).
* `OutputIsKept` (`OutputKept`, by `AheadOK` and `OutputOK`): no failed fork
  (`daemon.py:874`), and no failed copy together with a crash or a failed write: the
  directory with the output that was kept is dropped by retention before the
  state file says so (`daemon.py:917`), so that a crash brings back the job without it.
  This takes a third job; it was found in the proof, and neither `daemon` nor `recovery`
  has that pair of mishaps.

**Attach_proofs.** `StreamsWhole` and `AttachTypeCorrect`. The invariant adds to the
types that a process belongs to a running job and a running job has a buffer (`JobsOK`),
and for a handler of an attached client that it has read no more than was written, that
its snapshot is true for good once it says done, that one told the job runs opened the
buffer at once, and that one that ends has read everything since (`HandlerOK`). The
argument is the order of the loop: a job that is over writes no more, so what is read
after the snapshot is the rest. `TurnoverOK` and `JobsMove` are the step of the jobs,
`OneHandler` that of a client.

**Installer_proofs.** `InstallsManaged`, `RunsDone` and `InstallerTypeCorrect`, for any
directories, groups, entry points and number of runs. The invariant says what each step
may rely on: `InstallOK`, that a run settled on the layout on record if there is one and
that what it has done so far is in place; `UninstallOK`, that what has been taken stays
gone, and that the record outlives every link that only it leads to; `LoadedOK`, that
systemd has a forgotten layout only until the uninstall that forgot it reloads it.

Checked by TLC only: every liveness property (`NoStarvation`, `EveryJobEnds`,
`StragglersDie`, `CgroupsGo`, `StreamEnds`, `ShutdownEnds`), since they need fairness and
ENABLED; and, in the cases that hypotheses of theorems exclude, what their properties say
of the workloads of the runs. The five counterexamples are TLC's.

## 6. Where code and documentation disagree

Each is a run that ends in a counterexample; quotations and lines are in
`PROJECT.json`.
* `stranded_by_reserve`: `validate` accepts a numa-local-gpu job by the largest node;
  `_plan` may insist on a smaller one, for ever.
* `cpu_only_numa_local`: on a machine without GPUs `--numa-local` makes a job that never
  fits, and the head of a strict queue.
* `budget_replenished`: `would_fit` yes, `allocate` no, and easy-backfill takes its
  budget afresh from what was freed for the head.
* `kill_postponed`: a kill that is repeated within the grace period puts SIGKILL off.
* `output_unrecorded`: no process for the copy: job done on disk, output neither
  delivered nor reported. Reproduced with the Python code and a failing `os.fork`.

One more has no run of its own: with `SPECIFICATION FairSpec` in `lifetime.cfg`, without
the assumption that copies end, TLC finds `EveryJobEnds` violated. A destination that
cannot be opened for the time being, a fifo without a reader for one, or a file on a
server that is down, stops the daemon in `run_as_user`: that no tick comes means that no
end and no time limit is acted on any more, of any job, while `README.md:162-163` of the
repository has every job's lifetime bounded.

## 7. Not modelled

* Discovery (sysfs, /proc, `nvidia-smi`): parsing without state; its result is the
  machine in the constants. The fallback of `_within_island` for islands too large to
  enumerate.
* GPU masking (`devices.py`): system calls of the child between fork and exec.
* Client and wire protocol: one line each way, formatting; no state.
* Adoption under another memory layout (`_charge_domains`): a charge folded onto a node
  that has less is clamped, and what is cut off is handed out again. No property of it
  holds that the code or its documentation promises; the hazard is listed.
* That a default budget of an exclusive `--numa-local-mem` job exceeds a node and is
  refused by `validate`: an answer to the user, and no state.
* `--no-cgroups`, the reason `oom`, several users (retention is per user and users do
  not interact), info files and `/dev` entries (best effort, never read back), a job
  directory that cannot be made, a corrupt state file.
* In `Daemon`, that the table is filled job by job on start (`Boot` loads it whole, the
  jobs are then looked at one by one), and that `_probe` asks `waitpid` first, so that the
  pid of a job, given to another child of the daemon, would be taken for the job.
* In `Attach`, output that a job's background processes write after its leader has ended
  and before its cgroup is killed.
* In `Installer`, that a purge also removes the `/dev` directory and the socket.
* Scheduling resolution below a tick; downtime takes no time (jobs end during it, but
  their limits do not advance).

## 8. Plan

Done: all modules of section 2, a theorem for every invariant and action property the
passing runs check, and the refinement of `Leases`. What would say more, in this order:
1. Weaker hypotheses: numa-local-gpu requests on machines where every node with GPUs has
   the cpus for them, for `QuestionsOne`, `HeadGathers` and `HeadWaitsNoLonger`.
2. `AgreeMostly` and `ValidFits` for floors above two GPUs, where islands at the floor are
   cliques (NVSwitch).
3. `Daemon` as a refinement of an abstract job life (queued, running, done, each once per
   id as the state file has it), of which `KillsStick`, `StartedOnce` and `DoneIsOver` are
   parts.
