------------------------------- MODULE Daemon -------------------------------
(***************************************************************************)
(* The life of a job in the daemon (daemon.py, with jobs.py and cgroup.py): *)
(* submission, spawning, probing, time limit and escalation, finalizing,    *)
(* delivery of the output, retention; the state file, and what a crash, a    *)
(* stop, a reload and a failing system call leave behind.                   *)
(*                                                                         *)
(* The daemon is one thread, so a handler runs to its end before the next   *)
(* begins; it is cut into the steps between which the outside world may move *)
(* or the daemon may die: spawning, copying, unlinking, writing the state    *)
(* file.  Which job a pass picks is the business of Scheduler and of         *)
(* ResourcePool; here every job takes one of Slots and the queue is          *)
(* fifo-strict.  All jobs are one user's.  Time is counted in ticks.         *)
(***************************************************************************)
EXTENDS Naturals, FiniteSets, FiniteSetsExt, Functions

CONSTANTS
  Slots,         \* how many jobs the machine holds at once
  MaxTime,       \* max_time_s of every job, in ticks
  Grace,         \* KILL_GRACE_S, in ticks
  Keep,          \* --keep-finished
  Wanted,        \* the ids of jobs submitted with an output destination
  RepeatKills,   \* whether users kill again a job that is being killed
  Mishaps,       \* what may go wrong: see AllMishaps
  MaxJobs,       \* bound: ids that are handed out
  MaxRuns,       \* bound: processes that are spawned for jobs
  MaxMishaps     \* bound: how often something goes wrong

AllMishaps == {"reload", "stop", "crash", "start", "copy", "fork", "save"}

Ids  == 1..MaxJobs
Runs == 1..MaxRuns
Off  == 0                  \* no job, no process, no term time

ASSUME DaemonAssumption ==
  /\ Slots \in Nat \ {0} /\ Keep \in Nat /\ RepeatKills \in BOOLEAN
  /\ MaxTime \in Nat /\ Grace \in Nat
  /\ MaxJobs \in Nat /\ MaxRuns \in Nat /\ MaxMishaps \in Nat
  /\ Wanted \subseteq Ids /\ Mishaps \subseteq AllMishaps

VARIABLES
  phase,     \* where the daemon is in what it is doing
  cause,     \* the handler it is in: what it ends with and what an error does to it
  asked,     \* the job of the request it is answering
  look,      \* the running jobs it has still to probe
  picks,     \* the jobs of this pass it has still to spawn
  cur,       \* the job it is finalizing
  back,      \* where it goes on when that is done
  table,     \* Daemon.jobs
  nextId,    \* Daemon.next_id
  dirty,     \* Daemon._dirty
  free,      \* the slots the pool believes free
  reserved,  \* Daemon._reserved
  doomed,    \* Daemon._doomed_cgroups
  disk,      \* the state file
  buf,       \* jobs with an output file in the state directory
  copy,      \* what the job's output destination holds of it
  cgroup,    \* jobs whose cgroup directory exists
  leader,    \* the process spawned by each run
  jobOf,     \* the job each run was spawned for
  child,     \* whether it is a child of the daemon that is up
  age,       \* ticks since it was spawned
  stray,     \* what else is left in the cgroup of each job
  acked,     \* ids that were given to a client
  told,      \* jobs whose client was told that they are removed or being killed
  mishaps    \* how often something went wrong

control == << phase, cause, asked, look, picks, cur, back >>
books   == << table, nextId, dirty, free, reserved, doomed >>
files   == << disk, buf, copy >>
kernel  == << cgroup, leader, jobOf, child, age, stray >>
history == << acked, told, mishaps >>
vars == << control, books, files, kernel, history >>

-----------------------------------------------------------------------------
(***************************************************************************)
(* Job records and tables                                                  *)
(***************************************************************************)
\* a Job of jobs.py: run stands for pid and cgroup, term is the time since
\* term_time plus one, undelivered stands for output_error
Job == [ state : {"queued", "running", "done"}, reason : {"none", "killed", "timeout", "error"},
         exit : {"none", "code"}, run : {Off} \cup Runs, term : 0..(Grace + 2),
         undelivered : BOOLEAN ]

NewJob == [ state |-> "queued", reason |-> "none", exit |-> "none", run |-> Off,
            term |-> Off, undelivered |-> FALSE ]

EmptyTable == [j \in {} |-> NewJob]
Tables     == UNION { [S -> Job] : S \in SUBSET Ids }

In(t, state) == { j \in DOMAIN t : t[j].state = state }
With(t, j)   == [k \in DOMAIN t \cup {j} |-> IF k = j THEN NewJob ELSE t[k]]

\* Daemon._trim_finished: all but the latest Keep finished jobs, by id
Trimmed(t) == { j \in In(t, "done") : Cardinality({ k \in In(t, "done") : k > j }) >= Keep }
Trim(t)    == Restrict(t, DOMAIN t \ Trimmed(t))

AtMost(n, cap) == IF n > cap THEN cap ELSE n
Older(t) == [j \in DOMAIN t |->
               [t[j] EXCEPT !.term = IF @ = Off THEN Off ELSE AtMost(@ + 1, Grace + 2)]]

-----------------------------------------------------------------------------
(***************************************************************************)
(* Processes and cgroups                                                   *)
(***************************************************************************)
Alive(r)   == leader[r] \in {"alive", "dying"}
Members(j) == { r \in Runs : jobOf[r] = j /\ Alive(r) }
Busy(j)    == Members(j) # {} \/ stray[j] # "none"

\* CgroupManager.kill: SIGKILL to every process in the cgroups of some jobs.
\* They are gone only some time later.
Killed(S) == [r \in Runs |-> IF jobOf[r] \in S /\ leader[r] = "alive" THEN "dying" ELSE leader[r]]
Swept(S)  == [j \in Ids |-> IF j \in S /\ stray[j] = "alive" THEN "dying" ELSE stray[j]]

Init ==
  /\ phase = "down" /\ cause = "down" /\ asked = Off
  /\ look = {} /\ picks = {} /\ cur = Off /\ back = "none"
  /\ table = EmptyTable /\ nextId = 1 /\ dirty = FALSE
  /\ free = Slots /\ reserved = {} /\ doomed = {}
  /\ disk = [next |-> 1, jobs |-> EmptyTable]
  /\ buf = {} /\ copy = [j \in Ids |-> "none"]
  /\ cgroup = {}
  /\ leader = [r \in Runs |-> "unborn"] /\ jobOf = [r \in Runs |-> Off]
  /\ child = {} /\ age = [r \in Runs |-> 0]
  /\ stray = [j \in Ids |-> "none"]
  /\ acked = {} /\ told = {} /\ mishaps = 0

\* something that may go wrong in this configuration does
Mishap(what) ==
  /\ what \in Mishaps /\ mishaps < MaxMishaps
  /\ mishaps' = mishaps + 1

NoMishap == UNCHANGED mishaps

-----------------------------------------------------------------------------
(***************************************************************************)
(* How handlers begin and end                                              *)
(***************************************************************************)
\* the handler returns to the event loop
Rest ==
  /\ phase' = "idle" /\ cause' = "none" /\ asked' = Off
  /\ look' = {} /\ picks' = {} /\ cur' = Off /\ back' = "none"

\* The daemon's process ends, or is replaced: its memory is gone, and of its
\* children those in kept stay children; init reaps the zombies of the others.
Down(kept) ==
  /\ phase' = "down" /\ cause' = "down" /\ asked' = Off
  /\ look' = {} /\ picks' = {} /\ cur' = Off /\ back' = "none"
  /\ table' = EmptyTable /\ nextId' = 1 /\ dirty' = FALSE
  /\ free' = Slots /\ reserved' = {} /\ doomed' = {}
  /\ child' = kept
  /\ leader' = [r \in Runs |-> IF leader[r] = "zombie" /\ r \notin kept THEN "gone" ELSE leader[r]]
  /\ UNCHANGED << cgroup, jobOf, age, stray >>

\* An exception leaves the handler.  Daemon._client answers with an error and
\* goes on; out of the tick it ends the loop, whose finally still writes the
\* state file; while starting, and out of that finally, it ends the daemon.
Abort ==
  \/ (cause \in {"submit", "kill"} /\ Rest /\ UNCHANGED << books, kernel >>)
  \/ /\ cause = "tick"
     /\ phase' = "save" /\ cause' = "bail"
     /\ look' = {} /\ picks' = {} /\ cur' = Off /\ back' = "none"
     /\ UNCHANGED << asked, books, kernel >>
  \/ (cause \in {"boot", "stop", "reload", "bail"} /\ Down({}))

\* fault: what requests changed is left for the next tick to save
SaveLate ==
  /\ phase = "save"
  /\ disk' = IF (dirty /\ cause = "tick") \/ cause \in {"boot", "stop", "reload", "bail"}
             THEN [next |-> nextId, jobs |-> table] ELSE disk
  /\ acked' = IF cause = "submit" THEN acked \cup {asked} ELSE acked
  /\ told' = IF cause = "kill" THEN told \cup {asked} ELSE told
  /\ \/ /\ cause \in {"submit", "kill", "tick", "boot"}
        /\ Rest /\ dirty' = FALSE
        /\ UNCHANGED << table, nextId, free, reserved, doomed, kernel >>
     \/ cause \in {"stop", "bail"} /\ Down({})
     \/ cause = "reload" /\ Down(child)
  /\ UNCHANGED << buf, copy >> /\ NoMishap

\* Daemon._persist at the end of a handler, and in run's finally.  The answer
\* to a client is sent after it.
Save ==
  /\ phase = "save"
  /\ disk' = IF dirty \/ cause \in {"boot", "stop", "reload", "bail"}
             THEN [next |-> nextId, jobs |-> table] ELSE disk
  /\ acked' = IF cause = "submit" THEN acked \cup {asked} ELSE acked
  /\ told' = IF cause = "kill" THEN told \cup {asked} ELSE told
  /\ \/ /\ cause \in {"submit", "kill", "tick", "boot"}
        /\ Rest /\ dirty' = FALSE
        /\ UNCHANGED << table, nextId, free, reserved, doomed, kernel >>
     \/ cause \in {"stop", "bail"} /\ Down({})
     \/ cause = "reload" /\ Down(child)
  /\ UNCHANGED << buf, copy >> /\ NoMishap

\* the disk is full: the old state file stays
SaveFails ==
  /\ phase = "save" /\ Mishap("save")
  /\ Abort
  /\ UNCHANGED << files, acked, told >>

-----------------------------------------------------------------------------
(***************************************************************************)
(* Finalizing a job: Daemon._finalize.  The callers say what became of the  *)
(* job, its slot and its cgroup; then its output is delivered.              *)
(***************************************************************************)
BeginFinalize(j, code, why, next) ==
  /\ table' = [table EXCEPT ![j].state = "done", ![j].exit = code, ![j].reason = why]
  /\ phase' = "copy" /\ cur' = j /\ back' = next

\* the slot goes back if, and only if, the job holds one
GiveBack(j) ==
  /\ reserved' = reserved \ {j}
  /\ free' = IF j \in reserved THEN AtMost(free + 1, Slots) ELSE free

\* fault: a cgroup that is not empty is only remembered
RemoveCgroupSpared(j, r) ==
  /\ leader' = [leader EXCEPT ![r] = IF @ = "zombie" THEN "gone" ELSE @]
  /\ UNCHANGED stray
  /\ cgroup' = IF Busy(j) THEN cgroup ELSE cgroup \ {j}
  /\ doomed' = IF Busy(j) THEN doomed \cup {j} ELSE doomed

\* fault: a cgroup that is not empty is killed and never tried again
RemoveCgroupOnce(j, r) ==
  /\ leader' = [Killed({j}) EXCEPT ![r] = IF @ = "zombie" THEN "gone" ELSE @]
  /\ stray' = Swept({j})
  /\ cgroup' = IF Busy(j) THEN cgroup ELSE cgroup \ {j}
  /\ UNCHANGED doomed

\* CgroupManager.try_remove of the job's cgroup, the process r having been
\* reaped: what is left is killed, and a cgroup that is still busy is retried
RemoveCgroup(j, r) ==
  /\ leader' = [Killed({j}) EXCEPT ![r] = IF @ = "zombie" THEN "gone" ELSE @]
  /\ stray' = Swept({j})
  /\ cgroup' = IF Busy(j) THEN cgroup ELSE cgroup \ {j}
  /\ doomed' = IF Busy(j) THEN doomed \cup {j} ELSE doomed

\* Daemon._retire_output, with an output destination and something to deliver:
\* the copy is made by a forked child, into a file it truncates first
HasOutput == cur \in Wanted \cap buf

\* fault: the output is moved rather than copied and then dropped
OpenCopyMoves ==
  /\ phase = "copy" /\ HasOutput
  /\ phase' = "copying" /\ copy' = [copy EXCEPT ![cur] = "partial"]
  /\ buf' = buf \ {cur}
  /\ UNCHANGED << cause, asked, look, picks, cur, back, books, disk, kernel, acked, told >>
  /\ NoMishap

OpenCopy ==
  /\ phase = "copy" /\ HasOutput
  /\ phase' = "copying" /\ copy' = [copy EXCEPT ![cur] = "partial"]
  /\ UNCHANGED << cause, asked, look, picks, cur, back, books, disk, buf, kernel, acked, told >>
  /\ NoMishap

\* The child ends: run_as_user waits for it as long as that takes, and so does all else here.
CopyDone ==
  /\ phase = "copying"
  /\ phase' = "retire" /\ copy' = [copy EXCEPT ![cur] = "full"]
  /\ UNCHANGED << cause, asked, look, picks, cur, back, books, disk, buf, kernel, acked, told >>
  /\ NoMishap

\* the directory has gone, or there is no room: recorded on the job
CopyFails ==
  /\ phase = "copying" \/ (phase = "copy" /\ HasOutput)
  /\ Mishap("copy")
  /\ phase' = "retire" /\ table' = [table EXCEPT ![cur].undelivered = TRUE]
  /\ UNCHANGED << cause, asked, look, picks, cur, back, nextId, dirty, free, reserved, doomed,
                  files, kernel, acked, told >>

\* there is no process to be had for the copy: run_as_user raises
ForkFails ==
  /\ phase = "copy" /\ HasOutput /\ Mishap("fork")
  /\ Abort
  /\ UNCHANGED << files, acked, told >>

\* fault: our copy is dropped although it is the only one
RetireAlways ==
  /\ phase = "retire" \/ (phase = "copy" /\ ~HasOutput)
  /\ table' = Trim(table)
  /\ buf' = (buf \ {cur}) \ Trimmed(table)
  /\ dirty' = TRUE
  /\ phase' = back /\ cur' = Off /\ back' = "none"
  /\ UNCHANGED << cause, asked, look, picks, nextId, free, reserved, doomed, disk, copy,
                  kernel, acked, told >>
  /\ NoMishap

\* Our copy is dropped unless it is the only one left; the job has changed, and
\* the finished jobs beyond the limit are forgotten with their directories.
Retire ==
  /\ phase = "retire" \/ (phase = "copy" /\ ~HasOutput)
  /\ table' = Trim(table)
  /\ buf' = (IF table[cur].undelivered THEN buf ELSE buf \ {cur}) \ Trimmed(table)
  /\ dirty' = TRUE
  /\ phase' = back /\ cur' = Off /\ back' = "none"
  /\ UNCHANGED << cause, asked, look, picks, nextId, free, reserved, doomed, disk, copy,
                  kernel, acked, told >>
  /\ NoMishap

-----------------------------------------------------------------------------
(***************************************************************************)
(* Requests: Daemon._submit and Daemon._h_kill                             *)
(***************************************************************************)
Submit ==
  /\ phase = "idle" /\ nextId \in Ids
  /\ table' = With(table, nextId) /\ nextId' = nextId + 1 /\ dirty' = TRUE
  /\ copy' = [copy EXCEPT ![nextId] = "none"]
  /\ phase' = "plan" /\ cause' = "submit" /\ asked' = nextId
  /\ UNCHANGED << look, picks, cur, back, free, reserved, doomed, disk, buf, kernel, acked, told >>
  /\ NoMishap

\* fault: a running job is finalized at once, like a queued one
KillAtOnce(j) ==
  /\ phase = "idle" /\ j \in In(table, "queued") \cup In(table, "running")
  /\ BeginFinalize(j, "none", "killed", "save")
  /\ cause' = "kill" /\ asked' = j
  /\ UNCHANGED << look, picks, nextId, dirty, free, reserved, doomed, files, kernel, acked, told >>
  /\ NoMishap

\* a queued job is finalized at once
KillQueued(j) ==
  /\ phase = "idle" /\ j \in In(table, "queued")
  /\ BeginFinalize(j, "none", "killed", "save")
  /\ cause' = "kill" /\ asked' = j
  /\ UNCHANGED << look, picks, nextId, dirty, free, reserved, doomed, files, kernel, acked, told >>
  /\ NoMishap

\* Daemon._request_kill of a running job, also when it is being killed already:
\* SIGTERM, and the wait for SIGKILL begins anew
KillRunning(j) ==
  /\ phase = "idle" /\ j \in In(table, "running")
  /\ RepeatKills \/ table[j].term = Off
  /\ table' = [table EXCEPT ![j].reason = "killed", ![j].term = 1] /\ dirty' = TRUE
  /\ phase' = "save" /\ cause' = "kill" /\ asked' = j
  /\ UNCHANGED << look, picks, cur, back, nextId, free, reserved, doomed, files, kernel, acked, told >>
  /\ NoMishap

-----------------------------------------------------------------------------
(***************************************************************************)
(* The tick: Daemon._tick probes the running jobs one by one, retries the   *)
(* busy cgroups, makes a pass and saves                                    *)
(***************************************************************************)
Tick ==
  /\ phase = "idle"
  /\ phase' = "look" /\ cause' = "tick" /\ look' = In(table, "running")
  /\ table' = Older(table) /\ disk' = [disk EXCEPT !.jobs = Older(@)]
  /\ age' = [r \in Runs |-> IF Alive(r) THEN AtMost(age[r] + 1, MaxTime + 1) ELSE age[r]]
  /\ UNCHANGED << asked, picks, cur, back, nextId, dirty, free, reserved, doomed, buf, copy,
                  cgroup, leader, jobOf, child, stray, acked, told >>
  /\ NoMishap

\* fault: only children are asked for
ProbeChild(r) == r \in child /\ Alive(r)

\* fault: any process with the pid counts
ProbeByPid(r) == leader[r] \in {"alive", "dying", "reused"}

\* Daemon._probe: a child is asked for by waitpid, another process by its pid
\* and start time, so that a pid in use again does not count
Probe(r) == Alive(r)
Code(r)  == IF r \in child THEN "code" ELSE "none"

Probing(j) == phase = "look" /\ look # {} /\ j = Min(look)

\* the job is still running, and it is within its limits
LookOn(j) ==
  /\ Probing(j) /\ Probe(table[j].run)
  /\ table[j].term = Off => age[table[j].run] <= MaxTime
  /\ table[j].term <= Grace + 1
  /\ look' = look \ {j}
  /\ UNCHANGED << phase, cause, asked, picks, cur, back, books, files, kernel, acked, told >>
  /\ NoMishap

\* fault: a job that is being killed already is timed out
TimeOutAnyway(j) ==
  /\ Probing(j) /\ Probe(table[j].run)
  /\ age[table[j].run] > MaxTime
  /\ look' = look \ {j}
  /\ table' = [table EXCEPT ![j].reason = "timeout", ![j].term = 1] /\ dirty' = TRUE
  /\ UNCHANGED << phase, cause, asked, picks, cur, back, nextId, free, reserved, doomed, files,
                  kernel, acked, told >>
  /\ NoMishap

\* it has run over its time limit: Daemon._request_kill with TIMEOUT
TimeOut(j) ==
  /\ Probing(j) /\ Probe(table[j].run)
  /\ table[j].term = Off /\ age[table[j].run] > MaxTime
  /\ look' = look \ {j}
  /\ table' = [table EXCEPT ![j].reason = "timeout", ![j].term = 1] /\ dirty' = TRUE
  /\ UNCHANGED << phase, cause, asked, picks, cur, back, nextId, free, reserved, doomed, files,
                  kernel, acked, told >>
  /\ NoMishap

\* it has outlived SIGTERM: Daemon._hard_kill.  The new term time is not saved.
HardKill(j) ==
  /\ Probing(j) /\ Probe(table[j].run) /\ table[j].term > Grace + 1
  /\ look' = look \ {j}
  /\ table' = [table EXCEPT ![j].term = 1]
  /\ leader' = Killed({j}) /\ stray' = Swept({j})
  /\ UNCHANGED << phase, cause, asked, picks, cur, back, nextId, dirty, free, reserved, doomed,
                  files, cgroup, jobOf, child, age, acked, told >>
  /\ NoMishap

\* it has ended
FindDead(j) ==
  /\ Probing(j) /\ ~Probe(table[j].run)
  /\ look' = look \ {j}
  /\ BeginFinalize(j, Code(table[j].run), table[j].reason, "look")
  /\ GiveBack(j) /\ RemoveCgroup(j, table[j].run)
  /\ UNCHANGED << cause, asked, picks, nextId, dirty, files, jobOf, child, age, acked, told >>
  /\ NoMishap

\* the cgroups that were busy are tried again
Sweep ==
  /\ phase = "look" /\ look = {}
  /\ phase' = "plan"
  /\ leader' = Killed(doomed) /\ stray' = Swept(doomed)
  /\ doomed' = { j \in doomed : Busy(j) }
  /\ cgroup' = { j \in cgroup : j \in doomed => Busy(j) }
  /\ UNCHANGED << cause, asked, look, picks, cur, back, table, nextId, dirty, free, reserved,
                  files, jobOf, child, age, acked, told >>
  /\ NoMishap

-----------------------------------------------------------------------------
(***************************************************************************)
(* The pass: Daemon._schedule and Daemon._try_start.  The pool reserves for  *)
(* every job that is picked, then they are spawned one by one.              *)
(***************************************************************************)
\* fault: one job too many is picked
FirstQueuedAndOne == { j \in In(table, "queued") :
                         Cardinality({ k \in In(table, "queued") : k < j }) <= free }

FirstQueued == { j \in In(table, "queued") :
                   Cardinality({ k \in In(table, "queued") : k < j }) < free }

Started(rest) == IF rest = {} THEN "save" ELSE "start"

Plan ==
  /\ phase = "plan"
  /\ picks' = FirstQueued /\ free' = free - Cardinality(FirstQueued)
  /\ phase' = Started(FirstQueued)
  /\ UNCHANGED << cause, asked, look, cur, back, table, nextId, dirty, reserved, doomed,
                  files, kernel, acked, told >>
  /\ NoMishap

Start(j, r) ==
  /\ phase = "start" /\ j = Min(picks)
  /\ leader[r] = "unborn" /\ \A q \in Runs : q < r => leader[q] # "unborn"
  /\ picks' = picks \ {j} /\ phase' = Started(picks \ {j})
  /\ table' = [table EXCEPT ![j].state = "running", ![j].run = r] /\ dirty' = TRUE
  /\ reserved' = reserved \cup {j}
  /\ cgroup' = cgroup \cup {j} /\ buf' = buf \cup {j}
  /\ leader' = [leader EXCEPT ![r] = "alive"] /\ jobOf' = [jobOf EXCEPT ![r] = j]
  /\ child' = child \cup {r}
  /\ UNCHANGED << cause, asked, look, cur, back, nextId, free, doomed, disk, copy, age, stray,
                  acked, told >>
  /\ NoMishap

\* fault: the slot is left to _finalize, which sees that the job holds none
StartFailsUnreleased(j) ==
  /\ phase = "start" /\ j = Min(picks) /\ Mishap("start")
  /\ picks' = picks \ {j}
  /\ UNCHANGED free
  /\ buf' = buf \cup {j}
  /\ cgroup' \in {cgroup, cgroup \cup {j}}
  /\ BeginFinalize(j, "none", "error", Started(picks \ {j}))
  /\ UNCHANGED << cause, asked, look, nextId, dirty, reserved, doomed, disk, copy,
                  leader, jobOf, child, age, stray, acked, told >>

\* Spawning fails, with or without the cgroup made: the slot goes back, the
\* reason is written to the output, and the job is finalized.
StartFails(j) ==
  /\ phase = "start" /\ j = Min(picks) /\ Mishap("start")
  /\ picks' = picks \ {j}
  /\ free' = AtMost(free + 1, Slots)
  /\ buf' = buf \cup {j}
  /\ cgroup' \in {cgroup, cgroup \cup {j}}
  /\ BeginFinalize(j, "none", "error", Started(picks \ {j}))
  /\ UNCHANGED << cause, asked, look, nextId, dirty, reserved, doomed, disk, copy,
                  leader, jobOf, child, age, stray, acked, told >>

-----------------------------------------------------------------------------
(***************************************************************************)
(* Going down and coming back: Daemon.run and Daemon._load_state            *)
(***************************************************************************)
Shutdown(why) ==
  /\ phase = "idle" /\ why \in {"stop", "reload"} /\ Mishap(why)
  /\ phase' = "save" /\ cause' = why
  /\ UNCHANGED << asked, look, picks, cur, back, books, files, kernel, acked, told >>

Crash ==
  /\ phase # "down" /\ Mishap("crash")
  /\ Down({})
  /\ UNCHANGED << files, acked, told >>

Boot ==
  /\ phase = "down"
  /\ table' = disk.jobs /\ nextId' = disk.next
  /\ phase' = "load" /\ cause' = "boot" /\ look' = In(disk.jobs, "running")
  /\ UNCHANGED << asked, picks, cur, back, dirty, free, reserved, doomed, files, kernel,
                  acked, told >>
  /\ NoMishap

\* fault: the job is noted as a holder, but the pool is not told
AdoptUnbooked(j) ==
  /\ phase = "load" /\ look # {} /\ j = Min(look) /\ Probe(table[j].run)
  /\ look' = look \ {j}
  /\ reserved' = reserved \cup {j} /\ UNCHANGED free
  /\ UNCHANGED << phase, cause, asked, picks, cur, back, table, nextId, dirty, doomed, files,
                  kernel, acked, told >>
  /\ NoMishap

\* a job that is still running takes its slot again
Adopt(j) ==
  /\ phase = "load" /\ look # {} /\ j = Min(look) /\ Probe(table[j].run)
  /\ look' = look \ {j}
  /\ reserved' = reserved \cup {j} /\ free' = IF free = 0 THEN 0 ELSE free - 1
  /\ UNCHANGED << phase, cause, asked, picks, cur, back, table, nextId, dirty, doomed, files,
                  kernel, acked, told >>
  /\ NoMishap

\* fault: whoever ended in the meantime has no exit code
FindLostUncoded(j) ==
  /\ phase = "load" /\ look # {} /\ j = Min(look) /\ ~Probe(table[j].run)
  /\ look' = look \ {j}
  /\ BeginFinalize(j, "none", table[j].reason, "load")
  /\ GiveBack(j) /\ RemoveCgroup(j, table[j].run)
  /\ UNCHANGED << cause, asked, picks, nextId, dirty, files, jobOf, child, age, acked, told >>
  /\ NoMishap

\* fault: a job that is gone is run again
FindLostRequeued(j) ==
  /\ phase = "load" /\ look # {} /\ j = Min(look) /\ ~Probe(table[j].run)
  /\ look' = look \ {j}
  /\ table' = [table EXCEPT ![j] = NewJob]
  /\ UNCHANGED << phase, cause, asked, picks, cur, back, nextId, dirty, free, reserved, doomed,
                  files, kernel, acked, told >>
  /\ NoMishap

\* a job that ended in the meantime is finalized
FindLost(j) ==
  /\ phase = "load" /\ look # {} /\ j = Min(look) /\ ~Probe(table[j].run)
  /\ look' = look \ {j}
  /\ BeginFinalize(j, Code(table[j].run), table[j].reason, "load")
  /\ GiveBack(j) /\ RemoveCgroup(j, table[j].run)
  /\ UNCHANGED << cause, asked, picks, nextId, dirty, files, jobOf, child, age, acked, told >>
  /\ NoMishap

\* CgroupManager.prune and Daemon._trim_finished, then the first pass
Prune ==
  /\ phase = "load" /\ look = {}
  /\ phase' = "plan"
  /\ cgroup' = { j \in cgroup : Busy(j) }
  /\ table' = Trim(table) /\ buf' = buf \ Trimmed(table)
  /\ dirty' = (dirty \/ Trimmed(table) # {})
  /\ UNCHANGED << cause, asked, look, picks, cur, back, nextId, free, reserved, doomed, disk,
                  copy, leader, jobOf, child, age, stray, acked, told >>
  /\ NoMishap

-----------------------------------------------------------------------------
(***************************************************************************)
(* The jobs' processes and the kernel                                      *)
(***************************************************************************)
\* a leader ends; one that was not killed may leave others behind in its cgroup
Exit(r) ==
  /\ Alive(r)
  /\ leader' = [leader EXCEPT ![r] = IF r \in child THEN "zombie" ELSE "gone"]
  /\ \/ UNCHANGED stray
     \/ leader[r] = "alive" /\ stray' = [stray EXCEPT ![jobOf[r]] = "alive"]
  /\ UNCHANGED << control, books, files, cgroup, jobOf, child, age, history >>

StrayGone(j) ==
  /\ stray[j] # "none"
  /\ stray' = [stray EXCEPT ![j] = "none"]
  /\ UNCHANGED << control, books, files, cgroup, leader, jobOf, child, age, history >>

\* the pid of a job that is gone is given to someone else's process; it matters
\* while the state file still has the job running
PidReused(r) ==
  /\ leader[r] = "gone"
  /\ \E j \in In(disk.jobs, "running") : disk.jobs[j].run = r
  /\ leader' = [leader EXCEPT ![r] = "reused"]
  /\ UNCHANGED << control, books, files, cgroup, jobOf, child, age, stray, history >>

-----------------------------------------------------------------------------
Work ==
  \/ Boot \/ Prune \/ Sweep \/ Plan \/ OpenCopy \/ Retire \/ Save
  \/ \E j \in Ids : LookOn(j) \/ TimeOut(j) \/ HardKill(j) \/ FindDead(j) \/ Adopt(j) \/ FindLost(j)
  \/ \E j \in Ids, r \in Runs : Start(j, r)

Request == Submit \/ \E j \in Ids : KillQueued(j) \/ KillRunning(j)

Failure ==
  \/ Crash \/ SaveFails \/ CopyFails \/ ForkFails
  \/ \E why \in {"stop", "reload"} : Shutdown(why)
  \/ \E j \in Ids : StartFails(j)

Kernel ==
  \/ CopyDone
  \/ \E r \in Runs : Exit(r) \/ PidReused(r)
  \/ \E j \in Ids : StrayGone(j)

Next == Work \/ Tick \/ Request \/ Failure \/ Kernel

Spec == Init /\ [][Next]_vars

(***************************************************************************)
(* A handler that has begun goes on, and a daemon that is down is started    *)
(* again.  The event loop runs its timer however many requests arrive, but   *)
(* not while it is in a handler: strong fairness.  What was killed dies;     *)
(* a job that was not need never end.  Nor need the child that copies an     *)
(* output: to open the destination, which the user chose, may take for ever   *)
(* (a fifo without a reader, a file server that is down).                   *)
(***************************************************************************)
FairSpec ==
  /\ Spec /\ WF_vars(Work) /\ SF_vars(Tick)
  /\ \A r \in Runs : WF_vars(leader[r] = "dying" /\ Exit(r))
  /\ \A j \in Ids : WF_vars(stray[j] = "dying" /\ StrayGone(j))

\* The assumption that every copy comes to an end, which the code does not enforce.
CopiesEnd == WF_vars(CopyDone)

FairCopiesSpec == FairSpec /\ CopiesEnd

-----------------------------------------------------------------------------
(***************************************************************************)
(* Properties                                                              *)
(***************************************************************************)
\* Every variable keeps to its type, and what is being finalized, probed or
\* started is in the table in the state that the handler expects.
TypeOK ==
  /\ phase \in {"down", "load", "idle", "look", "plan", "start", "copy", "copying", "retire", "save"}
  /\ cause \in {"none", "down", "boot", "submit", "kill", "tick", "stop", "reload", "bail"}
  /\ asked \in Ids \cup {Off} /\ back \in {"none", "load", "look", "start", "save"}
  /\ table \in Tables /\ nextId \in 1..(MaxJobs + 1) /\ dirty \in BOOLEAN
  /\ look \subseteq In(table, "running") /\ picks \subseteq In(table, "queued")
  /\ cur \in In(table, "done") \cup {Off}
  /\ free \in 0..Slots /\ reserved \subseteq Ids /\ doomed \subseteq Ids
  /\ disk \in [next : 1..(MaxJobs + 1), jobs : Tables]
  /\ buf \subseteq Ids /\ copy \in [Ids -> {"none", "partial", "full"}]
  /\ cgroup \subseteq Ids
  /\ leader \in [Runs -> {"unborn", "alive", "dying", "zombie", "gone", "reused"}]
  /\ jobOf \in [Runs -> Ids \cup {Off}] /\ child \subseteq Runs
  /\ age \in [Runs -> 0..(MaxTime + 1)]
  /\ stray \in [Ids -> {"none", "alive", "dying"}]
  /\ acked \subseteq Ids /\ told \subseteq Ids /\ mishaps \in 0..MaxMishaps

\* The pool's books and the job table agree: every slot is free, held by a job
\* or waiting for one that is about to be spawned, and between handlers the
\* holders are the running jobs.  A slot given back twice (by Daemon._try_start
\* and by _finalize), never, or not taken again at adoption breaks it.
BooksMatch ==
  phase # "down" =>
    /\ free + Cardinality(reserved) + Cardinality(picks) = Slots
    /\ phase = "idle" => reserved = In(table, "running")

\* Between handlers every process spawned for a job is the one its job records,
\* and the job is running: none runs beside another of the same job, or on
\* after its job is done, over reloads, restarts and failed starts.
NoOrphan ==
  phase = "idle" =>
    \A r \in Runs : leader[r] \in {"alive", "dying", "zombie"} =>
       jobOf[r] \in In(table, "running") /\ table[jobOf[r]].run = r

\* "Reload re-execs the same pid, so running jobs stay its children and their
\* exit codes are still collected" (README.md): a finished job whose process was
\* a child of this daemon, reloads included, has its exit code.
ExitCollected ==
  phase = "idle" =>
    \A j \in In(table, "done") : table[j].run \in child => table[j].exit = "code"

\* The state file never calls a job done whose recorded process still runs,
\* whether or not that process is a child of the daemon.
DoneIsOver ==
  \A j \in In(disk.jobs, "done") : disk.jobs[j].run # Off => ~Alive(disk.jobs[j].run)

\* Once a job that asked for its output is finished, its destination holds all
\* of it, or the failure is on record and our copy, then the only one, is there.
OutputKept ==
  phase = "idle" =>
    \A j \in In(table, "done") \cap Wanted :
       table[j].run # Off \/ table[j].reason = "error" =>
          copy[j] = "full" \/ (table[j].undelivered /\ j \in buf)

\* An id that was given to a client is on disk: the job is in the state file, or
\* it is finished and was pushed out by as many later ones as are kept; and no
\* other job will ever get that id.
AckedSurvive ==
  \A j \in acked :
    /\ j < disk.next
    /\ j \notin DOMAIN disk.jobs =>
          Cardinality({ k \in In(disk.jobs, "done") : k > j }) >= Keep

\* A kill that was confirmed stays: neither the state file nor the daemon that
\* read it has the job queued again, or finished for any other reason.
KillsStick ==
  \A j \in told :
    \A t \in {disk.jobs, table} :
       j \in DOMAIN t => t[j].state # "queued" /\ t[j].reason = "killed"

\* "a re-adopted one is never re-spawned" (daemon.py): once the state file says
\* that a job was started, no process is ever spawned for it again.
StartedOnce ==
  [][ \A j \in DOMAIN disk.jobs :
         disk.jobs[j].state # "queued" =>
           { r \in Runs : jobOf'[r] = j } = { r \in Runs : jobOf[r] = j } ]_vars

\* "every job has a bounded lifetime" (README.md): a job whose id was given to a
\* client ends, however long its process would run and whatever signals it
\* ignores, and the state file says so.  That takes CopiesEnd: while a copy hangs,
\* of this job's output or another's, no time limit is acted on.
EveryJobEnds ==
  \A j \in Ids :
    j \in acked ~> (j \in DOMAIN disk.jobs => disk.jobs[j].state = "done")

\* Once the state file has a job that was started as finished, every process
\* left in its cgroup dies, though cgroups that were busy are forgotten over
\* restarts (_doomed_cgroups is not in the state file).
StragglersDie ==
  \A j \in Ids :
    (j \in In(disk.jobs, "done") /\ disk.jobs[j].run # Off)
      ~> (stray[j] = "none" /\ Members(j) = {})

\* While nothing goes wrong, and copies end, no cgroup of a finished job is left
\* behind: one that was busy when the job was finalized is retried until it can be
\* removed.
CgroupsGo ==
  [](mishaps = 0) => \A j \in Ids : (j \in In(disk.jobs, "done")) ~> (j \notin cgroup)

=============================================================================
