---------------------------- MODULE Daemon_proofs ----------------------------
(***************************************************************************)
(* The safety of Daemon for any number of jobs, processes, slots and mishaps *)
(* and for every machine: what its state file promises, over restarts and    *)
(* crashes at any step, and what its books and its output directory hold.    *)
(*                                                                         *)
(* IInv, the invariant that the others rest on, says where the control can   *)
(* be (ControlOK), that an entry of the job table knows of its process what   *)
(* is the case (Sound), that both the table and the state file hold what     *)
(* clients were told (Faithful), and that the table is never behind the      *)
(* state file (Precedes).  Three more are built on it: BooksOK for the slots, *)
(* OwnersOK for the processes, AheadOK and OutputOK for the output.  Each is   *)
(* proved of a step action by action.                                       *)
(*                                                                         *)
(* Three theorems exclude mishaps, because the code does not keep their      *)
(* property when those happen:                                              *)
(*   BooksAgree    a start that fails while no process is to be had for the   *)
(*                 copy of its output ends a pass, and the slots of the jobs  *)
(*                 it had picked are lost (daemon.py:675);                   *)
(*   NoneOrphaned  besides, a crash or a failed write of the state file       *)
(*                 forgets a spawn (daemon.py:709);                          *)
(*   OutputIsKept  a fork that fails loses the record of the failure, and a   *)
(*                 crash brings back a finished job whose undelivered output  *)
(*                 was just dropped with its directory (daemon.py:874, 917).  *)
(***************************************************************************)
EXTENDS Daemon, SetFacts

-----------------------------------------------------------------------------
(***************************************************************************)
(* Job tables, and what the steps write into them.                         *)
(***************************************************************************)
\* a job table is a function from ids to job records
LEMMA TableType ==
  ASSUME NEW t
  PROVE  t \in Tables <=>
           /\ t = [j \in DOMAIN t |-> t[j]] /\ DOMAIN t \subseteq Ids
           /\ \A j \in DOMAIN t : t[j] \in Job
  BY DEF Tables

\* the jobs in a state are finitely many numbers
LEMMA InFinite ==
  ASSUME NEW t \in Tables, NEW s
  PROVE  /\ In(t, s) \subseteq Ids /\ IsFiniteSet(In(t, s))
         /\ \A j \in In(t, s) : j \in Int
<1>1. In(t, s) \subseteq Ids
  BY TableType DEF In
<1>2. MaxJobs \in Nat
  BY DaemonAssumption
<1> QED
  BY <1>1, <1>2, FS_Interval, FS_Subset DEF Ids

\* at most the entry of j differs between the tables t and u
Alters(t, u, j) ==
  /\ u \in Tables /\ DOMAIN u = DOMAIN t
  /\ \A k \in DOMAIN t \ {j} : u[k] = t[k]

(***************************************************************************)
(* What the steps write into the job table, each with a name of its own.     *)
(***************************************************************************)
Finalized(t, j, code, why) == [t EXCEPT ![j].state = "done", ![j].exit = code, ![j].reason = why]
Killing(t, j, why)         == [t EXCEPT ![j].reason = why, ![j].term = 1]
Rekilled(t, j)             == [t EXCEPT ![j].term = 1]
Spawned(t, j, r)           == [t EXCEPT ![j].state = "running", ![j].run = r]
Unsent(t, j)               == [t EXCEPT ![j].undelivered = TRUE]

\* an entry that is replaced by a job record gives a job table
LEMMA Altered ==
  ASSUME NEW t \in Tables, NEW j \in DOMAIN t, NEW e \in Job,
         NEW u, u = [t EXCEPT ![j] = e]
  PROVE  Alters(t, u, j) /\ u[j] = e
<1>1. \A k \in DOMAIN t : t[k] \in Job
  BY TableType
<1> QED
  BY <1>1, TableType DEF Alters

\* what BeginFinalize writes: state, exit code and reason, and nothing else
LEMMA FinalizedType ==
  ASSUME NEW t \in Tables, NEW j \in DOMAIN t, NEW code \in {"none", "code"},
         NEW why \in {"none", "killed", "timeout", "error"},
         NEW u, u = Finalized(t, j, code, why)
  PROVE  /\ Alters(t, u, j)
         /\ u[j].state = "done" /\ u[j].exit = code /\ u[j].reason = why
         /\ u[j].run = t[j].run /\ u[j].term = t[j].term /\ u[j].undelivered = t[j].undelivered
<1> DEFINE e == [t[j] EXCEPT !.state = "done", !.exit = code, !.reason = why]
<1>1. t[j] \in Job
  BY TableType
<1>2. u = [t EXCEPT ![j] = e]
  BY TableType DEF Finalized
<1>3. /\ e \in Job
      /\ e.state = "done" /\ e.exit = code /\ e.reason = why
      /\ e.run = t[j].run /\ e.term = t[j].term /\ e.undelivered = t[j].undelivered
  BY <1>1 DEF Job
<1> HIDE DEF e
<1> QED
  BY <1>2, <1>3, Altered

\* what Daemon._request_kill writes: the reason and the term time
LEMMA KillingType ==
  ASSUME NEW t \in Tables, NEW j \in DOMAIN t, NEW why \in {"none", "killed", "timeout", "error"},
         NEW u, u = Killing(t, j, why)
  PROVE  /\ Alters(t, u, j)
         /\ u[j].reason = why /\ u[j].term = 1
         /\ u[j].state = t[j].state /\ u[j].exit = t[j].exit /\ u[j].run = t[j].run
         /\ u[j].undelivered = t[j].undelivered
<1> DEFINE e == [t[j] EXCEPT !.reason = why, !.term = 1]
<1>1. t[j] \in Job /\ 1 \in 0..(Grace + 2)
  BY TableType, DaemonAssumption
<1>2. u = [t EXCEPT ![j] = e]
  BY TableType DEF Killing
<1>3. /\ e \in Job
      /\ e.reason = why /\ e.term = 1
      /\ e.state = t[j].state /\ e.exit = t[j].exit /\ e.run = t[j].run
      /\ e.undelivered = t[j].undelivered
  BY <1>1 DEF Job
<1> HIDE DEF e
<1> QED
  BY <1>2, <1>3, Altered

\* what Daemon._hard_kill writes: the term time
LEMMA RekilledType ==
  ASSUME NEW t \in Tables, NEW j \in DOMAIN t,
         NEW u, u = Rekilled(t, j)
  PROVE  /\ Alters(t, u, j)
         /\ u[j].term = 1
         /\ u[j].state = t[j].state /\ u[j].exit = t[j].exit /\ u[j].reason = t[j].reason
         /\ u[j].run = t[j].run /\ u[j].undelivered = t[j].undelivered
<1> DEFINE e == [t[j] EXCEPT !.term = 1]
<1>1. t[j] \in Job /\ 1 \in 0..(Grace + 2)
  BY TableType, DaemonAssumption
<1>2. u = [t EXCEPT ![j] = e]
  BY TableType DEF Rekilled
<1>3. /\ e \in Job
      /\ e.term = 1
      /\ e.state = t[j].state /\ e.exit = t[j].exit /\ e.reason = t[j].reason
      /\ e.run = t[j].run /\ e.undelivered = t[j].undelivered
  BY <1>1 DEF Job
<1> HIDE DEF e
<1> QED
  BY <1>2, <1>3, Altered

\* what a start writes: the state and the process
LEMMA SpawnedType ==
  ASSUME NEW t \in Tables, NEW j \in DOMAIN t, NEW r \in Runs,
         NEW u, u = Spawned(t, j, r)
  PROVE  /\ Alters(t, u, j)
         /\ u[j].state = "running" /\ u[j].run = r
         /\ u[j].exit = t[j].exit /\ u[j].reason = t[j].reason /\ u[j].term = t[j].term
         /\ u[j].undelivered = t[j].undelivered
<1> DEFINE e == [t[j] EXCEPT !.state = "running", !.run = r]
<1>1. t[j] \in Job
  BY TableType
<1>2. u = [t EXCEPT ![j] = e]
  BY TableType DEF Spawned
<1>3. /\ e \in Job
      /\ e.state = "running" /\ e.run = r
      /\ e.exit = t[j].exit /\ e.reason = t[j].reason /\ e.term = t[j].term
      /\ e.undelivered = t[j].undelivered
  BY <1>1 DEF Job
<1> HIDE DEF e
<1> QED
  BY <1>2, <1>3, Altered

\* what a failed delivery writes: that the output is undelivered
LEMMA UnsentType ==
  ASSUME NEW t \in Tables, NEW j \in DOMAIN t,
         NEW u, u = Unsent(t, j)
  PROVE  /\ Alters(t, u, j)
         /\ u[j].undelivered = TRUE
         /\ u[j].state = t[j].state /\ u[j].exit = t[j].exit /\ u[j].reason = t[j].reason
         /\ u[j].run = t[j].run /\ u[j].term = t[j].term
<1> DEFINE e == [t[j] EXCEPT !.undelivered = TRUE]
<1>1. t[j] \in Job
  BY TableType
<1>2. u = [t EXCEPT ![j] = e]
  BY TableType DEF Unsent
<1>3. /\ e \in Job
      /\ e.undelivered = TRUE
      /\ e.state = t[j].state /\ e.exit = t[j].exit /\ e.reason = t[j].reason
      /\ e.run = t[j].run /\ e.term = t[j].term
  BY <1>1 DEF Job
<1> HIDE DEF e
<1> QED
  BY <1>2, <1>3, Altered

\* a submission adds one queued job and leaves the others alone
LEMMA Joined ==
  ASSUME NEW t \in Tables, NEW j \in Ids \ DOMAIN t
  PROVE  /\ With(t, j) \in Tables /\ DOMAIN With(t, j) = DOMAIN t \cup {j}
         /\ With(t, j)[j] = NewJob /\ \A k \in DOMAIN t : With(t, j)[k] = t[k]
         /\ \A s : s # "queued" => In(With(t, j), s) = In(t, s)
<1>1. \A k \in DOMAIN t : t[k] \in Job
  BY TableType
<1>2. NewJob \in Job /\ NewJob.state = "queued"
  BY DaemonAssumption DEF Job, NewJob, Off
<1>3. /\ DOMAIN With(t, j) = DOMAIN t \cup {j}
      /\ With(t, j)[j] = NewJob /\ \A k \in DOMAIN t : With(t, j)[k] = t[k]
      /\ With(t, j) = [k \in DOMAIN With(t, j) |-> With(t, j)[k]]
  BY DEF With
<1>4. With(t, j) \in Tables
  BY <1>1, <1>2, <1>3, TableType
<1>5. \A s : s # "queued" => In(With(t, j), s) = In(t, s)
  BY <1>2, <1>3 DEF In
<1> QED
  BY <1>3, <1>4, <1>5

\* the retention forgets finished jobs and leaves the others alone
LEMMA Trimming ==
  ASSUME NEW t \in Tables
  PROVE  /\ Trim(t) \in Tables /\ DOMAIN Trim(t) = DOMAIN t \ Trimmed(t)
         /\ \A k \in DOMAIN Trim(t) : Trim(t)[k] = t[k]
         /\ \A s : s # "done" => In(Trim(t), s) = In(t, s)
         /\ In(Trim(t), "done") = In(t, "done") \ Trimmed(t)
<1>1. \A k \in DOMAIN t : t[k] \in Job
  BY TableType
<1>2. /\ DOMAIN Trim(t) = DOMAIN t \ Trimmed(t)
      /\ \A k \in DOMAIN Trim(t) : Trim(t)[k] = t[k]
      /\ Trim(t) = [k \in DOMAIN Trim(t) |-> Trim(t)[k]]
  BY DEF Trim, Restrict
<1>3. Trim(t) \in Tables
  BY <1>1, <1>2, TableType
<1>4. \A k \in Trimmed(t) : t[k].state = "done"
  BY DEF Trimmed, In
<1>5. \A s : s # "done" => In(Trim(t), s) = In(t, s)
  BY <1>2, <1>4 DEF In
<1>6. In(Trim(t), "done") = In(t, "done") \ Trimmed(t)
  BY <1>2 DEF In
<1> QED
  BY <1>2, <1>3, <1>5, <1>6

\* a tick changes no field but term, and not whether there is a term time
LEMMA Aged ==
  ASSUME NEW t \in Tables
  PROVE  /\ Older(t) \in Tables /\ DOMAIN Older(t) = DOMAIN t
         /\ \A k \in DOMAIN t :
              /\ Older(t)[k].state = t[k].state /\ Older(t)[k].exit = t[k].exit
              /\ Older(t)[k].reason = t[k].reason /\ Older(t)[k].run = t[k].run
              /\ Older(t)[k].undelivered = t[k].undelivered
              /\ Older(t)[k].term = Off <=> t[k].term = Off
         /\ \A s : In(Older(t), s) = In(t, s)
<1> DEFINE e(k) == [t[k] EXCEPT !.term = IF @ = Off THEN Off ELSE AtMost(@ + 1, Grace + 2)]
<1>1. \A k \in DOMAIN t : t[k] \in Job
  BY TableType
<1>2. \A k \in DOMAIN t : Older(t)[k] = e(k)
  BY DEF Older
<1>3. ASSUME NEW k \in DOMAIN t
      PROVE  /\ e(k) \in Job
             /\ e(k).state = t[k].state /\ e(k).exit = t[k].exit
             /\ e(k).reason = t[k].reason /\ e(k).run = t[k].run
             /\ e(k).undelivered = t[k].undelivered
             /\ e(k).term = Off <=> t[k].term = Off
  <2>1. t[k].term \in 0..(Grace + 2)
    BY <1>1 DEF Job
  <2>2. AtMost(t[k].term + 1, Grace + 2) \in 1..(Grace + 2)
    BY <2>1, DaemonAssumption DEF AtMost
  <2> QED
    BY <1>1, <2>1, <2>2 DEF Job, Off
<1> HIDE DEF e
<1>4. DOMAIN Older(t) = DOMAIN t /\ Older(t) = [k \in DOMAIN Older(t) |-> Older(t)[k]]
  BY DEF Older
<1>5. Older(t) \in Tables
  BY <1>2, <1>3, <1>4, TableType
<1>6. \A s : In(Older(t), s) = In(t, s)
  BY <1>2, <1>3, <1>4 DEF In
<1> QED
  BY <1>2, <1>3, <1>4, <1>5, <1>6

-----------------------------------------------------------------------------
(***************************************************************************)
(* What a table says of processes and of what clients were told, and what  *)
(* leaves it so.                                                           *)
(***************************************************************************)
\* what an entry may say of its process, given the leaders l and the children ch
EntryOK(e, l, ch) ==
  /\ e.state = "queued" => e.run = Off /\ e.reason = "none"
  /\ e.state = "running" => e.run # Off /\ (e.reason = "killed" => e.term # Off)
  /\ e.run # Off => l[e.run] # "unborn"
  /\ e.state = "done" /\ e.run # Off =>
        l[e.run] \notin {"alive", "dying"} /\ (e.run \in ch => e.exit = "code")

\* a table whose ids were all handed out, and whose entries are right
Sound(t, next, l, ch) ==
  /\ DOMAIN t \subseteq 1..(next - 1)
  /\ \A j \in DOMAIN t : EntryOK(t[j], l, ch)

\* the id j is remembered: its job is there or was pushed out by later ones
Recalls(t, next, j) ==
  j < next /\ (j \notin DOMAIN t => Cardinality({ k \in In(t, "done") : k > j }) >= Keep)
\* the kill of j is remembered
Confirms(t, next, j) ==
  j < next /\ (j \in DOMAIN t => t[j].state # "queued" /\ t[j].reason = "killed")

\* everything that clients were told is remembered
Faithful(t, next, ak, tl) ==
  /\ \A j \in ak : Recalls(t, next, j)
  /\ \A j \in tl : Confirms(t, next, j)

\* the state file d is not ahead of the table t
Precedes(d, t, next) ==
  /\ d.next <= next
  /\ \A j \in DOMAIN d.jobs \cap DOMAIN t :
        d.jobs[j].state # "queued" => t[j].state # "queued"

\* whatever t remembers, u remembers
Carries(t, next, u, after) ==
  \A j \in Nat : /\ Recalls(t, next, j) => Recalls(u, after, j)
                 /\ Confirms(t, next, j) => Confirms(u, after, j)

\* processes come to life once, and the daemon's children are those it had
Goes(l, ch, l2, ch2) ==
  \A r \in Runs :
    l[r] # "unborn" =>
      /\ l2[r] # "unborn" /\ (r \in ch2 => r \in ch)
      /\ l[r] \notin {"alive", "dying"} => l2[r] \notin {"alive", "dying"}

\* an entry stays right while processes only end
LEMMA SoundGoes ==
  ASSUME NEW t \in Tables, NEW next, NEW l, NEW ch, NEW l2, NEW ch2,
         Sound(t, next, l, ch), Goes(l, ch, l2, ch2)
  PROVE  Sound(t, next, l2, ch2)
<1>1. \A j \in DOMAIN t : t[j] \in Job
  BY TableType
<1>2. ASSUME NEW j \in DOMAIN t PROVE EntryOK(t[j], l2, ch2)
  <2>1. t[j].run \in Runs \cup {Off} /\ EntryOK(t[j], l, ch)
    BY <1>1 DEF Job, Sound
  <2> QED
    BY <2>1 DEF EntryOK, Goes
<1> QED
  BY <1>2 DEF Sound

\* a table stays right when the entry that changes is right
LEMMA SoundAlters ==
  ASSUME NEW t, NEW u, NEW j \in DOMAIN t, NEW next, NEW l, NEW ch,
         Sound(t, next, l, ch), Alters(t, u, j), EntryOK(u[j], l, ch)
  PROVE  Sound(u, next, l, ch)
  BY DEF Sound, Alters

\* ... when finished jobs are forgotten
LEMMA SoundTrim ==
  ASSUME NEW t \in Tables, NEW next, NEW l, NEW ch, Sound(t, next, l, ch)
  PROVE  Sound(Trim(t), next, l, ch)
  BY Trimming DEF Sound

\* ... when a tick passes
LEMMA SoundOlder ==
  ASSUME NEW t \in Tables, NEW next, NEW l, NEW ch, Sound(t, next, l, ch)
  PROVE  Sound(Older(t), next, l, ch)
  BY Aged DEF Sound, EntryOK

\* ... and when the next id is handed out, which no entry has
LEMMA SoundWith ==
  ASSUME NEW t \in Tables, NEW next \in Ids, NEW l, NEW ch, Sound(t, next, l, ch)
  PROVE  next \notin DOMAIN t /\ Sound(With(t, next), next + 1, l, ch)
<1>1. next \in Int /\ next > 0 /\ next \notin DOMAIN t /\ DOMAIN t \subseteq 1..(next - 1)
  BY DaemonAssumption DEF Sound, Ids
<1>2. EntryOK(NewJob, l, ch)
  BY DEF EntryOK, NewJob
<1>3. /\ DOMAIN With(t, next) = DOMAIN t \cup {next}
      /\ With(t, next)[next] = NewJob /\ \A k \in DOMAIN t : With(t, next)[k] = t[k]
  BY <1>1, Joined
<1>4. DOMAIN With(t, next) \subseteq 1..((next + 1) - 1)
  <2>1. \A j \in DOMAIN t \cup {next} : j \in 1..((next + 1) - 1)
    BY <1>1
  <2> QED
    BY <1>3, <2>1
<1>5. \A j \in DOMAIN With(t, next) : EntryOK(With(t, next)[j], l, ch)
  BY <1>2, <1>3 DEF Sound
<1> QED
  BY <1>1, <1>4, <1>5 DEF Sound

\* every entry of u is at least as far in its life as that of t
Follows(t, u) ==
  /\ u \in Tables /\ DOMAIN u = DOMAIN t
  /\ \A j \in DOMAIN t :
       /\ t[j].state # "queued" => u[j].state # "queued"
       /\ t[j].state = "done" => u[j].state = "done"
       /\ t[j].state # "queued" /\ t[j].reason = "killed" => u[j].reason = "killed"

\* with more jobs done, what was pushed out stays pushed out
LEMMA MoreDone ==
  ASSUME NEW t \in Tables, NEW u \in Tables, In(t, "done") \subseteq In(u, "done"), NEW j \in Nat,
         Cardinality({ k \in In(t, "done") : k > j }) >= Keep
  PROVE  Cardinality({ k \in In(u, "done") : k > j }) >= Keep
<1>1. { k \in In(t, "done") : k > j } \subseteq { k \in In(u, "done") : k > j }
  OBVIOUS
<1>2. IsFiniteSet({ k \in In(u, "done") : k > j }) /\ IsFiniteSet({ k \in In(t, "done") : k > j })
  BY InFinite, FS_Subset
<1>3. Cardinality({ k \in In(t, "done") : k > j }) <= Cardinality({ k \in In(u, "done") : k > j })
  BY <1>1, <1>2, FS_Subset
<1>4. /\ Cardinality({ k \in In(t, "done") : k > j }) \in Nat
      /\ Cardinality({ k \in In(u, "done") : k > j }) \in Nat
  BY <1>2, FS_CardinalityType
<1> QED
  BY <1>3, <1>4, DaemonAssumption

\* a table whose jobs go on in their lives remembers what it did
LEMMA CarriesFollows ==
  ASSUME NEW t \in Tables, NEW u, NEW next, Follows(t, u)
  PROVE  Carries(t, next, u, next)
<1>1. In(t, "done") \subseteq In(u, "done")
  BY DEF Follows, In
<1>2. ASSUME NEW j \in Nat, Recalls(t, next, j) PROVE Recalls(u, next, j)
  BY <1>1, <1>2, MoreDone DEF Recalls, Follows
<1>3. ASSUME NEW j \in Nat, Confirms(t, next, j) PROVE Confirms(u, next, j)
  BY <1>3 DEF Confirms, Follows
<1> QED
  BY <1>2, <1>3 DEF Carries

\* Keep finished jobs later than a forgotten one are still there after the
\* retention, which forgets from the oldest: nothing is forgotten twice over
LEMMA CarriesTrim ==
  ASSUME NEW t \in Tables, NEW next
  PROVE  Carries(t, next, Trim(t), next)
<1> DEFINE Done == In(t, "done")
<1>1. /\ IsFiniteSet(Done) /\ \A j \in Done : j \in Int
      /\ Keep \in Nat
  BY InFinite, DaemonAssumption
<1>2. In(Trim(t), "done") = { i \in Done : ~(Cardinality({ m \in Done : m > i }) >= Keep) }
  BY Trimming DEF Trimmed
<1>3. ASSUME NEW j \in Nat, Recalls(t, next, j) PROVE Recalls(Trim(t), next, j)
  <2>1. ASSUME j \notin DOMAIN Trim(t) PROVE Cardinality({ k \in Done : k > j }) >= Keep
    <3>1. CASE j \notin DOMAIN t
      BY <1>3, <3>1 DEF Recalls
    <3>2. CASE j \in DOMAIN t
      BY <2>1, <3>2, Trimming DEF Trimmed
    <3> QED
      BY <3>1, <3>2
  <2>2. ASSUME j \notin DOMAIN Trim(t)
        PROVE  Cardinality({ k \in In(Trim(t), "done") : k > j }) >= Keep
    <3> HIDE DEF Done
    <3>1. j \in Int
      OBVIOUS
    <3> QED
      BY <1>1, <1>2, <2>1, <2>2, <3>1, LastFew
  <2> QED
    BY <1>3, <2>2 DEF Recalls
<1>4. ASSUME NEW j \in Nat, Confirms(t, next, j) PROVE Confirms(Trim(t), next, j)
  BY <1>4, Trimming DEF Confirms
<1> QED
  BY <1>3, <1>4 DEF Carries

\* a submission forgets nothing, and its id is remembered from then on
LEMMA CarriesWith ==
  ASSUME NEW t \in Tables, NEW next \in Ids, next \notin DOMAIN t
  PROVE  /\ Carries(t, next, With(t, next), next + 1)
         /\ Recalls(With(t, next), next + 1, next)
<1>1. next \in Int
  BY DaemonAssumption DEF Ids
<1>2. /\ In(With(t, next), "done") = In(t, "done") /\ DOMAIN With(t, next) = DOMAIN t \cup {next}
      /\ \A k \in DOMAIN t : With(t, next)[k] = t[k]
  BY Joined
<1>3. ASSUME NEW j \in Nat, Recalls(t, next, j) PROVE Recalls(With(t, next), next + 1, j)
  BY <1>1, <1>2, <1>3 DEF Recalls
<1>4. ASSUME NEW j \in Nat, Confirms(t, next, j) PROVE Confirms(With(t, next), next + 1, j)
  <2>1. j < next /\ j < next + 1
    BY <1>1, <1>4 DEF Confirms
  <2>2. ASSUME j \in DOMAIN With(t, next) PROVE j \in DOMAIN t /\ With(t, next)[j] = t[j]
    BY <1>1, <1>2, <2>1, <2>2
  <2> QED
    BY <1>4, <2>1, <2>2 DEF Confirms
<1>5. Recalls(With(t, next), next + 1, next)
  BY <1>1, <1>2 DEF Recalls
<1> QED
  BY <1>3, <1>4, <1>5 DEF Carries

\* what clients were told goes with what is remembered
LEMMA FaithfulCarries ==
  ASSUME NEW t, NEW next, NEW u, NEW after, NEW ak \in SUBSET Ids, NEW tl \in SUBSET Ids,
         Carries(t, next, u, after), Faithful(t, next, ak, tl)
  PROVE  Faithful(u, after, ak, tl)
<1>1. \A j \in Ids : j \in Nat
  BY DaemonAssumption DEF Ids
<1> QED
  BY <1>1 DEF Carries, Faithful

-----------------------------------------------------------------------------
(***************************************************************************)
(* The inductive invariant.                                                *)
(***************************************************************************)
\* the phases in which a job is being finalized
Finalizing == {"copy", "copying", "retire"}

\* The phase, the handler and where it goes on afterwards fit together; what is
\* picked or looked at outlives a finalization in the middle of a pass or of a
\* round of probes.
ControlOK ==
  /\ phase = "down" <=> cause = "down"
  /\ phase = "idle" <=> cause = "none"
  /\ phase = "load" => cause = "boot"
  /\ phase = "look" => cause = "tick"
  /\ phase \in {"plan", "start"} => cause \in {"boot", "submit", "tick"}
  /\ phase \in Finalizing =>
       /\ cur # Off
       /\ \/ cause = "boot" /\ back = "load"
          \/ cause = "tick" /\ back = "look"
          \/ cause = "kill" /\ back = "save"
          \/ cause \in {"boot", "submit", "tick"} /\ back \in {"start", "save"}
             /\ "start" \in Mishaps
  /\ phase \notin Finalizing => cur = Off /\ back = "none"
  /\ look # {} => {phase, back} \cap {"load", "look"} # {}
  /\ picks # {} <=> "start" \in {phase, back}
  /\ phase = "down" => table = EmptyTable
  /\ cause \in {"submit", "kill"} => asked # Off
  /\ cause = "submit" => dirty
  /\ cause = "kill" /\ phase = "save" => dirty

\* the part of TypeOK that is about the job table
JobsOK ==
  /\ table \in Tables /\ nextId \in 1..(MaxJobs + 1)
  /\ look \subseteq In(table, "running") /\ picks \subseteq In(table, "queued")
  /\ cur \in In(table, "done") \cup {Off}
  /\ disk \in [next : 1..(MaxJobs + 1), jobs : Tables]

\* the part of TypeOK about everything else but the free slots
MiscOK ==
  /\ phase \in {"down", "load", "idle", "look", "plan", "start", "copy", "copying", "retire",
                "save"}
  /\ cause \in {"none", "down", "boot", "submit", "kill", "tick", "stop", "reload", "bail"}
  /\ asked \in Ids \cup {Off} /\ back \in {"none", "load", "look", "start", "save"}
  /\ dirty \in BOOLEAN
  /\ reserved \subseteq Ids /\ doomed \subseteq Ids
  /\ buf \subseteq Ids /\ copy \in [Ids -> {"none", "partial", "full"}]
  /\ cgroup \subseteq Ids
  /\ leader \in [Runs -> {"unborn", "alive", "dying", "zombie", "gone", "reused"}]
  /\ jobOf \in [Runs -> Ids \cup {Off}] /\ child \subseteq Runs
  /\ age \in [Runs -> 0..(MaxTime + 1)]
  /\ stray \in [Ids -> {"none", "alive", "dying"}]
  /\ acked \subseteq Ids /\ told \subseteq Ids /\ mishaps \in 0..MaxMishaps

\* TypeOK as the lemmas use it: see Parts
Typed == JobsOK /\ MiscOK /\ free \in 0..Slots

\* a process that was not spawned belongs to no job
Unborn == \A r \in Runs : leader[r] = "unborn" => jobOf[r] = Off

\* the state file is right, whether the daemon is up or not
DiskOK ==
  /\ Sound(disk.jobs, disk.next, leader, child)
  /\ Faithful(disk.jobs, disk.next, acked, told)

\* the job table of a daemon that is up, with the answer it is about to give
UpOK ==
  /\ Sound(table, nextId, leader, child) /\ Faithful(table, nextId, acked, told)
  /\ Precedes(disk, table, nextId)
  /\ cause = "submit" => Recalls(table, nextId, asked)
  /\ cause = "kill" => Confirms(table, nextId, asked)

\* the inductive invariant
IInv ==
  /\ TypeOK /\ ControlOK /\ Unborn
  /\ DiskOK
  /\ phase # "down" => UpOK

\* TypeOK in the parts that the step lemmas take one by one
LEMMA Parts == TypeOK <=> JobsOK /\ MiscOK /\ free \in 0..Slots
  BY DEF TypeOK, JobsOK, MiscOK

\* the job probed or started next is one of those to be probed or started
LEMMA Least ==
  ASSUME JobsOK
  PROVE  /\ picks # {} => Min(picks) \in picks
         /\ look # {} => Min(look) \in look
<1>1. /\ IsFiniteSet(picks) /\ \A j \in picks : j \in Int
      /\ IsFiniteSet(look) /\ \A j \in look : j \in Int
  BY InFinite, FS_Subset DEF JobsOK
<1> QED
  BY <1>1, MinIsIn

\* no step brings back a process, or makes a child of one that was not
LEMMA GoesStep ==
  ASSUME MiscOK, [Next]_vars
  PROVE  Goes(leader, child, leader', child')
<1>1. CASE Boot
  BY <1>1 DEF Boot, Goes, MiscOK, Alive, books, kernel
<1>2. CASE Prune
  BY <1>2 DEF Prune, Goes, MiscOK, Alive, books, kernel
<1>3. CASE Sweep
  BY <1>3 DEF Sweep, Killed, Swept, Goes, MiscOK, Alive, books, kernel
<1>4. CASE Plan
  BY <1>4 DEF Plan, Started, Goes, MiscOK, Alive, books, kernel
<1>5. CASE OpenCopy
  BY <1>5 DEF OpenCopy, Goes, MiscOK, Alive, books, kernel
<1>6. CASE CopyDone
  BY <1>6 DEF CopyDone, Goes, MiscOK, Alive, books, kernel
<1>7. CASE Retire
  BY <1>7 DEF Retire, Goes, MiscOK, Alive, books, kernel
<1>8. CASE Save
  BY <1>8 DEF Save, Rest, Down, Goes, MiscOK, Alive, books, kernel
<1>9. ASSUME NEW j \in Ids, LookOn(j) PROVE Goes(leader, child, leader', child')
  BY <1>9 DEF LookOn, Probing, Goes, MiscOK, Alive, books, kernel
<1>10. ASSUME NEW j \in Ids, TimeOut(j) PROVE Goes(leader, child, leader', child')
  BY <1>10 DEF TimeOut, Probing, Goes, MiscOK, Alive, books, kernel
<1>11. ASSUME NEW j \in Ids, HardKill(j) PROVE Goes(leader, child, leader', child')
  BY <1>11 DEF HardKill, Probing, Killed, Swept, Goes, MiscOK, Alive, books, kernel
<1>12. ASSUME NEW j \in Ids, FindDead(j) PROVE Goes(leader, child, leader', child')
  BY <1>12 DEF FindDead, Probing, BeginFinalize, GiveBack, RemoveCgroup, Killed, Swept, Goes,
     MiscOK, Alive, books, kernel
<1>13. ASSUME NEW j \in Ids, Adopt(j) PROVE Goes(leader, child, leader', child')
  BY <1>13 DEF Adopt, Goes, MiscOK, Alive, books, kernel
<1>14. ASSUME NEW j \in Ids, FindLost(j) PROVE Goes(leader, child, leader', child')
  BY <1>14 DEF FindLost, BeginFinalize, GiveBack, RemoveCgroup, Killed, Swept, Goes, MiscOK,
     Alive, books, kernel
<1>15. ASSUME NEW j \in Ids, NEW r \in Runs, Start(j, r) PROVE Goes(leader, child, leader', child')
  BY <1>15 DEF Start, Started, Goes, MiscOK, Alive, books, kernel
<1>16. CASE Tick
  BY <1>16 DEF Tick, Goes, MiscOK, Alive, books, kernel
<1>17. CASE Submit
  BY <1>17 DEF Submit, Goes, MiscOK, Alive, books, kernel
<1>18. ASSUME NEW j \in Ids, KillQueued(j) PROVE Goes(leader, child, leader', child')
  BY <1>18 DEF KillQueued, BeginFinalize, Goes, MiscOK, Alive, books, kernel
<1>19. ASSUME NEW j \in Ids, KillRunning(j) PROVE Goes(leader, child, leader', child')
  BY <1>19 DEF KillRunning, Goes, MiscOK, Alive, books, kernel
<1>20. CASE Crash
  BY <1>20 DEF Crash, Down, Mishap, Goes, MiscOK, Alive, books, kernel
<1>21. CASE SaveFails
  BY <1>21 DEF SaveFails, Abort, Rest, Down, Mishap, Goes, MiscOK, Alive, books, kernel
<1>22. CASE CopyFails
  BY <1>22 DEF CopyFails, Mishap, Goes, MiscOK, Alive, books, kernel
<1>23. CASE ForkFails
  BY <1>23 DEF ForkFails, Abort, Rest, Down, Mishap, Goes, MiscOK, Alive, books, kernel
<1>24. ASSUME NEW why \in {"stop", "reload"}, Shutdown(why)
       PROVE  Goes(leader, child, leader', child')
  BY <1>24 DEF Shutdown, Mishap, Goes, MiscOK, Alive, books, kernel
<1>25. ASSUME NEW j \in Ids, StartFails(j) PROVE Goes(leader, child, leader', child')
  BY <1>25 DEF StartFails, Mishap, BeginFinalize, Started, Goes, MiscOK, Alive, books, kernel
<1>26. ASSUME NEW r \in Runs, Exit(r) PROVE Goes(leader, child, leader', child')
  BY <1>26 DEF Exit, Goes, MiscOK, Alive, books, kernel
<1>27. ASSUME NEW r \in Runs, PidReused(r) PROVE Goes(leader, child, leader', child')
  BY <1>27 DEF PidReused, Goes, MiscOK, Alive, books, kernel
<1>28. ASSUME NEW j \in Ids, StrayGone(j) PROVE Goes(leader, child, leader', child')
  BY <1>28 DEF StrayGone, Goes, MiscOK, Alive, books, kernel
<1>29. CASE UNCHANGED vars
  BY <1>29 DEF vars, control, books, files, kernel, history, Goes, MiscOK, Alive, books, kernel
<1> QED
  BY <1>1, <1>2, <1>3, <1>4, <1>5, <1>6, <1>7, <1>8, <1>9, <1>10, <1>11, <1>12, <1>13, <1>14,
     <1>15, <1>16, <1>17, <1>18, <1>19, <1>20, <1>21, <1>22, <1>23, <1>24, <1>25, <1>26, <1>27,
     <1>28, <1>29 DEF Next, Work, Request, Failure, Kernel

\* only Tick and Save write the state file
LEMMA FilesKept ==
  ASSUME Typed, UNCHANGED << buf, copy >>, acked' \subseteq Ids, told' \subseteq Ids,
         mishaps' \in 0..MaxMishaps,
         \/ Rest /\ UNCHANGED kernel /\ dirty' \in BOOLEAN /\ UNCHANGED << reserved, doomed >>
         \/ \E kept \in SUBSET Runs : Down(kept)
         \/ /\ phase' = "save" /\ cause' = "bail" /\ back' = "none"
            /\ UNCHANGED << asked, books, kernel >>
  PROVE  MiscOK' /\ (Unborn => Unborn')
<1>1. CASE Rest /\ UNCHANGED kernel /\ dirty' \in BOOLEAN /\ UNCHANGED << reserved, doomed >>
  BY <1>1 DEF Rest, Typed, MiscOK, Unborn, kernel
<1>2. ASSUME NEW kept \in SUBSET Runs, Down(kept) PROVE MiscOK' /\ (Unborn => Unborn')
  <2>1. /\ leader' \in [Runs -> {"unborn", "alive", "dying", "zombie", "gone", "reused"}]
        /\ \A r \in Runs : leader'[r] = "unborn" => leader[r] = "unborn"
    BY <1>2 DEF Down, Typed, MiscOK
  <2>2. /\ phase' = "down" /\ cause' = "down" /\ asked' = Off /\ back' = "none" /\ dirty' = FALSE
        /\ reserved' = {} /\ doomed' = {} /\ child' = kept
        /\ UNCHANGED << cgroup, jobOf, age, stray >>
    BY <1>2 DEF Down
  <2>3. MiscOK'
    BY <2>1, <2>2 DEF Typed, MiscOK
  <2> QED
    BY <2>1, <2>2, <2>3 DEF Unborn
<1>3. CASE /\ phase' = "save" /\ cause' = "bail" /\ back' = "none"
           /\ UNCHANGED << asked, books, kernel >>
  BY <1>3 DEF Typed, MiscOK, Unborn, books, kernel
<1> QED
  BY <1>1, <1>2, <1>3

\* the types of everything but the tables and the slots are kept
LEMMA MiscStep ==
  ASSUME Typed, ControlOK, Unborn, [Next]_vars
  PROVE  MiscOK' /\ Unborn'
<1> USE DaemonAssumption
<1>1. CASE Boot
  BY <1>1 DEF Boot, NoMishap, Mishap, Off, Typed, MiscOK, Unborn, Alive, control, books, files,
     kernel, history
<1>2. CASE Prune
  BY <1>2 DEF Prune, NoMishap, Mishap, Off, Typed, MiscOK, Unborn, Alive, control, books, files,
     kernel, history
<1>3. CASE Sweep
  BY <1>3 DEF Sweep, Killed, Swept, NoMishap, Mishap, Off, Typed, MiscOK, Unborn, Alive,
     control, books, files, kernel, history
<1>4. CASE Plan
  BY <1>4 DEF Plan, Started, NoMishap, Mishap, Off, Typed, MiscOK, Unborn, Alive, control,
     books, files, kernel, history
<1>5. CASE OpenCopy
  BY <1>5 DEF OpenCopy, NoMishap, Mishap, Off, Typed, MiscOK, Unborn, Alive, control, books,
     files, kernel, history
<1>6. CASE CopyDone
  BY <1>6 DEF CopyDone, NoMishap, Mishap, Off, Typed, MiscOK, Unborn, Alive, control, books,
     files, kernel, history
<1>7. CASE Retire
  BY <1>7 DEF Retire, NoMishap, Typed, MiscOK, ControlOK, Finalizing, Unborn, kernel
<1>8. CASE Save
  <2>1. \/ Rest /\ UNCHANGED kernel /\ dirty' \in BOOLEAN /\ UNCHANGED << reserved, doomed >>
        \/ \E kept \in SUBSET Runs : Down(kept)
        \/ /\ phase' = "save" /\ cause' = "bail" /\ back' = "none"
           /\ UNCHANGED << asked, books, kernel >>
    BY <1>8 DEF Save, Typed, MiscOK, books
  <2>2. /\ UNCHANGED << buf, copy >> /\ mishaps' \in 0..MaxMishaps
        /\ acked' \subseteq Ids /\ told' \subseteq Ids
    BY <1>8, DaemonAssumption DEF Save, Mishap, NoMishap, files, Typed, MiscOK, ControlOK, Off
  <2> QED
    BY <2>1, <2>2, FilesKept
<1>9. ASSUME NEW j \in Ids, LookOn(j) PROVE MiscOK' /\ Unborn'
  BY <1>9 DEF LookOn, Probing, NoMishap, Mishap, Off, Typed, MiscOK, Unborn, Alive, control,
     books, files, kernel, history
<1>10. ASSUME NEW j \in Ids, TimeOut(j) PROVE MiscOK' /\ Unborn'
  BY <1>10 DEF TimeOut, Probing, NoMishap, Mishap, Off, Typed, MiscOK, Unborn, Alive, control,
     books, files, kernel, history
<1>11. ASSUME NEW j \in Ids, HardKill(j) PROVE MiscOK' /\ Unborn'
  BY <1>11 DEF HardKill, Probing, Killed, Swept, NoMishap, Mishap, Off, Typed, MiscOK, Unborn,
     Alive, control, books, files, kernel, history
<1>12. ASSUME NEW j \in Ids, FindDead(j) PROVE MiscOK' /\ Unborn'
  BY <1>12 DEF FindDead, Probing, BeginFinalize, GiveBack, RemoveCgroup, Killed, Swept,
     NoMishap, Mishap, Off, Typed, MiscOK, Unborn, Alive, control, books, files, kernel, history
<1>13. ASSUME NEW j \in Ids, Adopt(j) PROVE MiscOK' /\ Unborn'
  BY <1>13 DEF Adopt, NoMishap, Mishap, Off, Typed, MiscOK, Unborn, Alive, control, books,
     files, kernel, history
<1>14. ASSUME NEW j \in Ids, FindLost(j) PROVE MiscOK' /\ Unborn'
  BY <1>14 DEF FindLost, BeginFinalize, GiveBack, RemoveCgroup, Killed, Swept, NoMishap, Mishap,
     Off, Typed, MiscOK, Unborn, Alive, control, books, files, kernel, history
<1>15. ASSUME NEW j \in Ids, NEW r \in Runs, Start(j, r) PROVE MiscOK' /\ Unborn'
  BY <1>15 DEF Start, Started, NoMishap, Mishap, Off, Typed, MiscOK, Unborn, Alive, control,
     books, files, kernel, history
<1>16. CASE Tick
  <2>1. age' \in [Runs -> 0..(MaxTime + 1)]
    <3>1. \A n \in 0..(MaxTime + 1) : AtMost(n + 1, MaxTime + 1) \in 0..(MaxTime + 1)
      BY DaemonAssumption DEF AtMost
    <3> QED
      BY <1>16, <3>1 DEF Tick, Typed, MiscOK
  <2> QED
    BY <1>16, <2>1 DEF Tick, NoMishap, Typed, MiscOK, Unborn
<1>17. CASE Submit
  BY <1>17 DEF Submit, NoMishap, Mishap, Off, Typed, MiscOK, Unborn, Alive, control, books,
     files, kernel, history
<1>18. ASSUME NEW j \in Ids, KillQueued(j) PROVE MiscOK' /\ Unborn'
  BY <1>18 DEF KillQueued, BeginFinalize, NoMishap, Mishap, Off, Typed, MiscOK, Unborn, Alive,
     control, books, files, kernel, history
<1>19. ASSUME NEW j \in Ids, KillRunning(j) PROVE MiscOK' /\ Unborn'
  BY <1>19 DEF KillRunning, NoMishap, Mishap, Off, Typed, MiscOK, Unborn, Alive, control, books,
     files, kernel, history
<1>20. CASE Crash
  <2>1. \/ Rest /\ UNCHANGED kernel /\ dirty' \in BOOLEAN /\ UNCHANGED << reserved, doomed >>
        \/ \E kept \in SUBSET Runs : Down(kept)
        \/ /\ phase' = "save" /\ cause' = "bail" /\ back' = "none"
           /\ UNCHANGED << asked, books, kernel >>
    BY <1>20 DEF Crash, Typed, MiscOK, books
  <2>2. /\ UNCHANGED << buf, copy >> /\ mishaps' \in 0..MaxMishaps
        /\ acked' \subseteq Ids /\ told' \subseteq Ids
    BY <1>20, DaemonAssumption DEF Crash, Mishap, NoMishap, files, Typed, MiscOK, ControlOK, Off
  <2> QED
    BY <2>1, <2>2, FilesKept
<1>21. CASE SaveFails
  <2>1. \/ Rest /\ UNCHANGED kernel /\ dirty' \in BOOLEAN /\ UNCHANGED << reserved, doomed >>
        \/ \E kept \in SUBSET Runs : Down(kept)
        \/ /\ phase' = "save" /\ cause' = "bail" /\ back' = "none"
           /\ UNCHANGED << asked, books, kernel >>
    BY <1>21 DEF SaveFails, Abort, Typed, MiscOK, books
  <2>2. /\ UNCHANGED << buf, copy >> /\ mishaps' \in 0..MaxMishaps
        /\ acked' \subseteq Ids /\ told' \subseteq Ids
    BY <1>21, DaemonAssumption DEF SaveFails, Mishap, NoMishap, files, Typed, MiscOK,
       ControlOK, Off
  <2> QED
    BY <2>1, <2>2, FilesKept
<1>22. CASE CopyFails
  BY <1>22 DEF CopyFails, Mishap, NoMishap, Mishap, Off, Typed, MiscOK, Unborn, Alive, control,
     books, files, kernel, history
<1>23. CASE ForkFails
  <2>1. \/ Rest /\ UNCHANGED kernel /\ dirty' \in BOOLEAN /\ UNCHANGED << reserved, doomed >>
        \/ \E kept \in SUBSET Runs : Down(kept)
        \/ /\ phase' = "save" /\ cause' = "bail" /\ back' = "none"
           /\ UNCHANGED << asked, books, kernel >>
    BY <1>23 DEF ForkFails, Abort, Typed, MiscOK, books
  <2>2. /\ UNCHANGED << buf, copy >> /\ mishaps' \in 0..MaxMishaps
        /\ acked' \subseteq Ids /\ told' \subseteq Ids
    BY <1>23, DaemonAssumption DEF ForkFails, Mishap, NoMishap, files, Typed, MiscOK,
       ControlOK, Off
  <2> QED
    BY <2>1, <2>2, FilesKept
<1>24. ASSUME NEW why \in {"stop", "reload"}, Shutdown(why) PROVE MiscOK' /\ Unborn'
  BY <1>24 DEF Shutdown, Mishap, NoMishap, Mishap, Off, Typed, MiscOK, Unborn, Alive, control,
     books, files, kernel, history
<1>25. ASSUME NEW j \in Ids, StartFails(j) PROVE MiscOK' /\ Unborn'
  BY <1>25 DEF StartFails, Mishap, BeginFinalize, Started, NoMishap, Mishap, Off, Typed, MiscOK,
     Unborn, Alive, control, books, files, kernel, history
<1>26. ASSUME NEW r \in Runs, Exit(r) PROVE MiscOK' /\ Unborn'
  BY <1>26 DEF Exit, NoMishap, Mishap, Off, Typed, MiscOK, Unborn, Alive, control, books, files,
     kernel, history
<1>27. ASSUME NEW r \in Runs, PidReused(r) PROVE MiscOK' /\ Unborn'
  BY <1>27 DEF PidReused, NoMishap, Mishap, Off, Typed, MiscOK, Unborn, Alive, control, books,
     files, kernel, history
<1>28. ASSUME NEW j \in Ids, StrayGone(j) PROVE MiscOK' /\ Unborn'
  BY <1>28 DEF StrayGone, NoMishap, Mishap, Off, Typed, MiscOK, Unborn, Alive, control, books,
     files, kernel, history
<1>29. CASE UNCHANGED vars
  BY <1>29 DEF vars, control, books, files, kernel, history, NoMishap, Mishap, Off, Typed,
     MiscOK, Unborn, Alive, control, books, files, kernel, history
<1> QED
  BY <1>1, <1>2, <1>3, <1>4, <1>5, <1>6, <1>7, <1>8, <1>9, <1>10, <1>11, <1>12, <1>13, <1>14,
     <1>15, <1>16, <1>17, <1>18, <1>19, <1>20, <1>21, <1>22, <1>23, <1>24, <1>25, <1>26, <1>27,
     <1>28, <1>29 DEF Next, Work, Request, Failure, Kernel

\* every step leads from a place of the control to another
LEMMA ControlStep ==
  ASSUME Typed, ControlOK, [Next]_vars
  PROVE  ControlOK'
<1> USE DaemonAssumption
<1>1. CASE Boot
  BY <1>1 DEF Boot, Off, Typed, MiscOK, ControlOK, Finalizing, Ids, control, books
<1>2. CASE Prune
  BY <1>2 DEF Prune, Off, Typed, MiscOK, ControlOK, Finalizing, Ids, control, books
<1>3. CASE Sweep
  BY <1>3 DEF Sweep, Killed, Swept, Off, Typed, MiscOK, ControlOK, Finalizing, Ids, control, books
<1>4. CASE Plan
  BY <1>4 DEF Plan, Started, Off, Typed, MiscOK, ControlOK, Finalizing, Ids, control, books
<1>5. CASE OpenCopy
  BY <1>5 DEF OpenCopy, Off, Typed, MiscOK, ControlOK, Finalizing, Ids, control, books
<1>6. CASE CopyDone
  BY <1>6 DEF CopyDone, Off, Typed, MiscOK, ControlOK, Finalizing, Ids, control, books
<1>7. CASE Retire
  BY <1>7 DEF Retire, Off, Typed, MiscOK, ControlOK, Finalizing, Ids, control, books
<1>8. CASE Save
  BY <1>8 DEF Save, Rest, Down, Off, Typed, MiscOK, ControlOK, Finalizing, Ids, control, books
<1>9. ASSUME NEW j \in Ids, LookOn(j) PROVE ControlOK'
  BY <1>9 DEF LookOn, Probing, Off, Typed, MiscOK, ControlOK, Finalizing, Ids, control, books
<1>10. ASSUME NEW j \in Ids, TimeOut(j) PROVE ControlOK'
  BY <1>10 DEF TimeOut, Probing, Off, Typed, MiscOK, ControlOK, Finalizing, Ids, control, books
<1>11. ASSUME NEW j \in Ids, HardKill(j) PROVE ControlOK'
  BY <1>11 DEF HardKill, Probing, Killed, Swept, Off, Typed, MiscOK, ControlOK, Finalizing, Ids,
     control, books
<1>12. ASSUME NEW j \in Ids, FindDead(j) PROVE ControlOK'
  BY <1>12 DEF FindDead, Probing, BeginFinalize, GiveBack, RemoveCgroup, Killed, Swept, Off,
     Typed, MiscOK, ControlOK, Finalizing, Ids, control, books
<1>13. ASSUME NEW j \in Ids, Adopt(j) PROVE ControlOK'
  BY <1>13 DEF Adopt, Off, Typed, MiscOK, ControlOK, Finalizing, Ids, control, books
<1>14. ASSUME NEW j \in Ids, FindLost(j) PROVE ControlOK'
  BY <1>14 DEF FindLost, BeginFinalize, GiveBack, RemoveCgroup, Killed, Swept, Off, Typed,
     MiscOK, ControlOK, Finalizing, Ids, control, books
<1>15. ASSUME NEW j \in Ids, NEW r \in Runs, Start(j, r) PROVE ControlOK'
  BY <1>15 DEF Start, Started, Off, Typed, MiscOK, ControlOK, Finalizing, Ids, control, books
<1>16. CASE Tick
  BY <1>16 DEF Tick, Off, Typed, MiscOK, ControlOK, Finalizing, Ids, control, books
<1>17. CASE Submit
  BY <1>17 DEF Submit, Off, Typed, MiscOK, ControlOK, Finalizing, Ids, control, books
<1>18. ASSUME NEW j \in Ids, KillQueued(j) PROVE ControlOK'
  BY <1>18 DEF KillQueued, BeginFinalize, Off, Typed, MiscOK, ControlOK, Finalizing, Ids,
     control, books
<1>19. ASSUME NEW j \in Ids, KillRunning(j) PROVE ControlOK'
  BY <1>19 DEF KillRunning, Off, Typed, MiscOK, ControlOK, Finalizing, Ids, control, books
<1>20. CASE Crash
  BY <1>20 DEF Crash, Down, Mishap, Off, Typed, MiscOK, ControlOK, Finalizing, Ids, control, books
<1>21. CASE SaveFails
  BY <1>21 DEF SaveFails, Abort, Rest, Down, Mishap, Off, Typed, MiscOK, ControlOK, Finalizing,
     Ids, control, books
<1>22. CASE CopyFails
  BY <1>22 DEF CopyFails, Mishap, Off, Typed, MiscOK, ControlOK, Finalizing, Ids, control, books
<1>23. CASE ForkFails
  BY <1>23 DEF ForkFails, Abort, Rest, Down, Mishap, Off, Typed, MiscOK, ControlOK, Finalizing,
     Ids, control, books
<1>24. ASSUME NEW why \in {"stop", "reload"}, Shutdown(why) PROVE ControlOK'
  BY <1>24 DEF Shutdown, Mishap, Off, Typed, MiscOK, ControlOK, Finalizing, Ids, control, books
<1>25. ASSUME NEW j \in Ids, StartFails(j) PROVE ControlOK'
  BY <1>25 DEF StartFails, Mishap, BeginFinalize, Started, Off, Typed, MiscOK, ControlOK,
     Finalizing, Ids, control, books
<1>26. ASSUME NEW r \in Runs, Exit(r) PROVE ControlOK'
  BY <1>26 DEF Exit, Off, Typed, MiscOK, ControlOK, Finalizing, Ids, control, books
<1>27. ASSUME NEW r \in Runs, PidReused(r) PROVE ControlOK'
  BY <1>27 DEF PidReused, Off, Typed, MiscOK, ControlOK, Finalizing, Ids, control, books
<1>28. ASSUME NEW j \in Ids, StrayGone(j) PROVE ControlOK'
  BY <1>28 DEF StrayGone, Off, Typed, MiscOK, ControlOK, Finalizing, Ids, control, books
<1>29. CASE UNCHANGED vars
  BY <1>29 DEF vars, control, books, files, kernel, history, Off, Typed, MiscOK, ControlOK,
     Finalizing, Ids, control, books
<1> QED
  BY <1>1, <1>2, <1>3, <1>4, <1>5, <1>6, <1>7, <1>8, <1>9, <1>10, <1>11, <1>12, <1>13, <1>14,
     <1>15, <1>16, <1>17, <1>18, <1>19, <1>20, <1>21, <1>22, <1>23, <1>24, <1>25, <1>26, <1>27,
     <1>28, <1>29 DEF Next, Work, Request, Failure, Kernel

\* an entry that keeps its state keeps all the sets of jobs in a state
LEMMA SameStates ==
  ASSUME NEW t, NEW u, NEW j \in DOMAIN t, Alters(t, u, j), u[j].state = t[j].state
  PROVE  \A s : In(u, s) = In(t, s)
  BY DEF Alters, In

\* an entry with a new state moves from one set of jobs to another
LEMMA NewState ==
  ASSUME NEW t, NEW u, NEW j \in DOMAIN t, Alters(t, u, j)
  PROVE  /\ In(u, u[j].state) = In(t, u[j].state) \cup {j}
         /\ \A s : s # u[j].state => In(u, s) = In(t, s) \ {j}
  BY DEF Alters, In

\* the table of a daemon that is down has no jobs
LEMMA EmptyTableType == EmptyTable \in Tables /\ \A s : In(EmptyTable, s) = {}
<1>1. DOMAIN EmptyTable = {} /\ EmptyTable = [j \in DOMAIN EmptyTable |-> EmptyTable[j]]
  BY DEF EmptyTable
<1> QED
  BY <1>1, TableType DEF In

\* what is looked at is running, what is picked is queued, and what is finalized is done
LEMMA Entries ==
  ASSUME Typed
  PROVE  /\ table \in Tables
         /\ \A j \in DOMAIN table : table[j] \in Job /\ j \in Ids
         /\ \A j \in look : j \in DOMAIN table /\ table[j].state = "running"
         /\ \A j \in picks : j \in DOMAIN table /\ table[j].state = "queued"
         /\ cur # Off => cur \in DOMAIN table /\ table[cur].state = "done"
  BY TableType DEF Typed, JobsOK, In

\* the entry that a job found dead, by a probe or at start-up, is left with
LEMMA FindDeadTouches ==
  ASSUME Typed, ControlOK, NEW j \in Ids, FindDead(j) \/ FindLost(j)
  PROVE  /\ j \in look /\ table[j].state = "running"
         /\ j \in DOMAIN table /\ Alters(table, table', j)
         /\ table'[j].state = "done" /\ table'[j].exit = Code(table[j].run)
         /\ table'[j].reason = table[j].reason /\ table'[j].run = table[j].run
         /\ table'[j].undelivered = table[j].undelivered
<1>1. /\ j \in look /\ table[j].state = "running" /\ j \in DOMAIN table
      /\ table' = Finalized(table, j, Code(table[j].run), table[j].reason)
  BY Least, Entries DEF FindDead, FindLost, Probing, BeginFinalize, Typed, Finalized
<1>2. table[j] \in Job /\ table \in Tables
  BY <1>1, Entries
<1>3. /\ Code(table[j].run) \in {"none", "code"}
      /\ table[j].reason \in {"none", "killed", "timeout", "error"}
  BY <1>2 DEF Code, Job
<1> QED
  BY <1>1, <1>2, <1>3, FinalizedType

\* ... that a job over its time limit is left with
LEMMA TimeOutTouches ==
  ASSUME Typed, ControlOK, NEW j \in Ids, TimeOut(j)
  PROVE  /\ j \in look /\ table[j].state = "running"
         /\ j \in DOMAIN table /\ Alters(table, table', j)
         /\ table'[j].state = "running" /\ table'[j].reason = "timeout"
         /\ table'[j].run = table[j].run /\ table'[j].undelivered = table[j].undelivered
<1>1. /\ j \in look /\ table[j].state = "running" /\ j \in DOMAIN table
      /\ table' = Killing(table, j, "timeout")
  BY Least, Entries DEF TimeOut, Probing, Typed, Killing
<1>2. table[j] \in Job /\ table \in Tables
  BY <1>1, Entries
<1> QED
  BY <1>1, <1>2, KillingType

\* ... that a job which outlived SIGTERM is left with
LEMMA HardKillTouches ==
  ASSUME Typed, ControlOK, NEW j \in Ids, HardKill(j)
  PROVE  /\ j \in look /\ table[j].state = "running"
         /\ j \in DOMAIN table /\ Alters(table, table', j)
         /\ table'[j].state = "running" /\ table'[j].reason = table[j].reason /\ table'[j].term = 1
         /\ table'[j].run = table[j].run /\ table'[j].undelivered = table[j].undelivered
<1>1. /\ j \in look /\ table[j].state = "running" /\ j \in DOMAIN table
      /\ table' = Rekilled(table, j)
  BY Least, Entries DEF HardKill, Probing, Typed, Rekilled
<1>2. table[j] \in Job /\ table \in Tables
  BY <1>1, Entries
<1> QED
  BY <1>1, <1>2, RekilledType

\* ... that a queued job is left with when a user kills it
LEMMA KillQueuedTouches ==
  ASSUME Typed, ControlOK, NEW j \in Ids, KillQueued(j)
  PROVE  /\ table[j].state = "queued"
         /\ j \in DOMAIN table /\ Alters(table, table', j)
         /\ table'[j].state = "done" /\ table'[j].reason = "killed"
         /\ table'[j].run = table[j].run /\ table'[j].undelivered = table[j].undelivered
<1>1. /\ table[j].state = "queued" /\ j \in DOMAIN table
      /\ table' = Finalized(table, j, "none", "killed")
  BY Least, Entries DEF KillQueued, BeginFinalize, In, Typed, Finalized
<1>2. table[j] \in Job /\ table \in Tables
  BY <1>1, Entries
<1> QED
  BY <1>1, <1>2, FinalizedType

\* ... that a running job is left with when a user kills it
LEMMA KillRunningTouches ==
  ASSUME Typed, ControlOK, NEW j \in Ids, KillRunning(j)
  PROVE  /\ table[j].state = "running"
         /\ j \in DOMAIN table /\ Alters(table, table', j)
         /\ table'[j].state = "running" /\ table'[j].reason = "killed" /\ table'[j].term = 1
         /\ table'[j].run = table[j].run /\ table'[j].undelivered = table[j].undelivered
<1>1. /\ table[j].state = "running" /\ j \in DOMAIN table
      /\ table' = Killing(table, j, "killed")
  BY Least, Entries DEF KillRunning, In, Typed, Killing
<1>2. table[j] \in Job /\ table \in Tables
  BY <1>1, Entries
<1> QED
  BY <1>1, <1>2, KillingType

\* ... that a job is left with when it is spawned
LEMMA StartTouches ==
  ASSUME Typed, ControlOK, NEW j \in Ids, NEW r \in Runs, Start(j, r)
  PROVE  /\ j \in picks /\ table[j].state = "queued"
         /\ j \in DOMAIN table /\ Alters(table, table', j)
         /\ table'[j].state = "running" /\ table'[j].run = r
         /\ table'[j].reason = table[j].reason /\ table'[j].undelivered = table[j].undelivered
         /\ table'[j].term = table[j].term
<1>1. /\ j \in picks /\ table[j].state = "queued" /\ j \in DOMAIN table
      /\ table' = Spawned(table, j, r)
  BY Least, Entries DEF Start, Typed, ControlOK, Finalizing, Spawned
<1>2. table[j] \in Job /\ table \in Tables
  BY <1>1, Entries
<1> QED
  BY <1>1, <1>2, SpawnedType

\* ... that a job is left with when its start fails
LEMMA StartFailsTouches ==
  ASSUME Typed, ControlOK, NEW j \in Ids, StartFails(j)
  PROVE  /\ j \in picks /\ table[j].state = "queued"
         /\ j \in DOMAIN table /\ Alters(table, table', j)
         /\ table'[j].state = "done" /\ table'[j].reason = "error"
         /\ table'[j].run = table[j].run /\ table'[j].undelivered = table[j].undelivered
<1>1. /\ j \in picks /\ table[j].state = "queued" /\ j \in DOMAIN table
      /\ table' = Finalized(table, j, "none", "error")
  BY Least, Entries DEF StartFails, BeginFinalize, Typed, ControlOK, Finalizing, Finalized
<1>2. table[j] \in Job /\ table \in Tables
  BY <1>1, Entries
<1> QED
  BY <1>1, <1>2, FinalizedType

\* ... that a job is left with when its output cannot be delivered
LEMMA CopyFailsTouches ==
  ASSUME Typed, ControlOK, CopyFails
  PROVE  /\ cur # Off /\ table[cur].state = "done"
         /\ cur \in DOMAIN table /\ Alters(table, table', cur)
         /\ table'[cur].undelivered /\ table'[cur].state = "done"
         /\ table'[cur].exit = table[cur].exit
         /\ table'[cur].reason = table[cur].reason /\ table'[cur].run = table[cur].run
<1>1. /\ cur # Off /\ table[cur].state = "done" /\ cur \in DOMAIN table
      /\ table' = Unsent(table, cur)
  BY Least, Entries DEF CopyFails, Typed, ControlOK, Finalizing, Unsent
<1>2. table[cur] \in Job /\ table \in Tables
  BY <1>1, Entries
<1> QED
  BY <1>1, <1>2, UnsentType

\* the tables stay tables, and what is picked, looked at and finalized stays in
\* the state that the handler expects
LEMMA JobsStep ==
  ASSUME Typed, ControlOK, phase # "down" => UpOK, [Next]_vars
  PROVE  JobsOK'
<1> USE DaemonAssumption
<1>1. CASE Boot
  BY <1>1 DEF Boot, JobsOK, Typed, ControlOK, Finalizing, files
<1>2. CASE Prune
  <2>1. table' = Trim(table) /\ table \in Tables
    BY <1>2 DEF Prune, Typed, JobsOK
  <2> QED
    BY <1>2, <2>1, Trimming DEF Prune, Typed, JobsOK, ControlOK, Finalizing, files
<1>3. CASE Sweep
  BY <1>3 DEF Sweep, Killed, Swept, JobsOK, Typed, control, books, files, kernel, history
<1>4. CASE Plan
  BY <1>4 DEF Plan, FirstQueued, JobsOK, Typed, files
<1>5. CASE OpenCopy
  BY <1>5 DEF OpenCopy, JobsOK, Typed, control, books, files, kernel, history
<1>6. CASE CopyDone
  BY <1>6 DEF CopyDone, JobsOK, Typed, control, books, files, kernel, history
<1>7. CASE Retire
  <2>1. table' = Trim(table) /\ table \in Tables
    BY <1>7 DEF Retire, Typed, JobsOK
  <2> QED
    BY <1>7, <2>1, Trimming DEF Retire, Typed, JobsOK
<1>8. CASE Save
  <2>1. disk' \in [next : 1..(MaxJobs + 1), jobs : Tables]
    BY <1>8 DEF Save, JobsOK, Typed
  <2>2. CASE Rest /\ UNCHANGED << table, nextId >>
    BY <2>2, <1>8, <2>1 DEF Save, Rest, JobsOK, Typed, books, files
  <2>3. ASSUME NEW kept, Down(kept) PROVE JobsOK'
    BY <2>3, <1>8, <2>1, EmptyTableType DEF Save, Down, JobsOK, Typed, files
  <2> QED
    BY <2>2, <2>3, <1>8, <2>1 DEF Save
<1>9. ASSUME NEW j \in Ids, LookOn(j) PROVE JobsOK'
  BY <1>9 DEF LookOn, Probing, JobsOK, Typed, control, books, files, kernel, history
<1>10. ASSUME NEW j \in Ids, TimeOut(j) PROVE JobsOK'
  <2>1. table' \in Tables /\ \A s : In(table', s) = In(table, s)
    BY <1>10, TimeOutTouches, SameStates DEF Alters
  <2> QED
    BY <1>10, <2>1, TimeOutTouches DEF TimeOut, Typed, JobsOK, files
<1>11. ASSUME NEW j \in Ids, HardKill(j) PROVE JobsOK'
  <2>1. table' \in Tables /\ \A s : In(table', s) = In(table, s)
    BY <1>11, HardKillTouches, SameStates DEF Alters
  <2> QED
    BY <1>11, <2>1, HardKillTouches DEF HardKill, Typed, JobsOK, files
<1>12. ASSUME NEW j \in Ids, FindDead(j) PROVE JobsOK'
  <2>1. /\ table' \in Tables /\ In(table', "done") = In(table, "done") \cup {j}
        /\ In(table', "queued") = In(table, "queued") \ {j}
        /\ In(table', "running") = In(table, "running") \ {j}
    BY <1>12, FindDeadTouches, NewState DEF Alters
  <2>2. /\ UNCHANGED << nextId, disk >> /\ look' = look \ {j}
        /\ UNCHANGED picks /\ j \notin picks /\ cur' = j
    BY <1>12, FindDeadTouches, Entries DEF FindDead, Typed, files, BeginFinalize
  <2> QED
    BY <2>1, <2>2 DEF Typed, JobsOK
<1>13. ASSUME NEW j \in Ids, Adopt(j) PROVE JobsOK'
  BY <1>13 DEF Adopt, JobsOK, Typed, control, books, files, kernel, history
<1>14. ASSUME NEW j \in Ids, FindLost(j) PROVE JobsOK'
  <2>1. /\ table' \in Tables /\ In(table', "done") = In(table, "done") \cup {j}
        /\ In(table', "queued") = In(table, "queued") \ {j}
        /\ In(table', "running") = In(table, "running") \ {j}
    BY <1>14, FindDeadTouches, NewState DEF Alters
  <2>2. /\ UNCHANGED << nextId, disk >> /\ look' = look \ {j}
        /\ UNCHANGED picks /\ j \notin picks /\ cur' = j
    BY <1>14, FindDeadTouches, Entries DEF FindLost, Typed, files, BeginFinalize
  <2> QED
    BY <2>1, <2>2 DEF Typed, JobsOK
<1>15. ASSUME NEW j \in Ids, NEW r \in Runs, Start(j, r) PROVE JobsOK'
  <2>1. /\ table' \in Tables /\ In(table', "running") = In(table, "running") \cup {j}
        /\ In(table', "queued") = In(table, "queued") \ {j}
        /\ In(table', "done") = In(table, "done") \ {j}
    BY <1>15, StartTouches, NewState DEF Alters
  <2>2. /\ UNCHANGED << nextId, disk >> /\ picks' = picks \ {j}
        /\ UNCHANGED look /\ j \notin look /\ cur' = Off
    BY <1>15, StartTouches, Entries DEF Start, Typed, files, ControlOK, Finalizing
  <2> QED
    BY <2>1, <2>2 DEF Typed, JobsOK
<1>16. CASE Tick
  <2>1. table \in Tables /\ disk.jobs \in Tables /\ table' = Older(table)
    BY <1>16 DEF Tick, Typed, JobsOK
  <2>2. disk' = [next |-> disk.next, jobs |-> Older(disk.jobs)]
    BY <1>16 DEF Tick, Typed, JobsOK
  <2> QED
    BY <1>16, <2>1, <2>2, Aged DEF Tick, Typed, JobsOK
<1>17. CASE Submit
  <2>1. table \in Tables /\ table' = With(table, nextId) /\ nextId \in Ids
    BY <1>17 DEF Submit, Typed, JobsOK
  <2>2. nextId' \in 1..(MaxJobs + 1)
    BY <1>17 DEF Submit, Ids
  <2>3. nextId \notin DOMAIN table
    BY <1>17, <2>1, SoundWith DEF Submit, ControlOK, UpOK
  <2>4. /\ table' \in Tables
        /\ In(table', "running") = In(table, "running") /\ In(table', "done") = In(table, "done")
    <3>1. table \in Tables /\ nextId \in Ids \ DOMAIN table
      BY <2>1, <2>3
    <3>2. With(table, nextId) \in Tables
          /\ \A s : s # "queued" => In(With(table, nextId), s) = In(table, s)
      BY <3>1, Joined
    <3> QED
      BY <2>1, <3>2
  <2>5. picks = {}
    BY <1>17 DEF Submit, ControlOK, Finalizing
  <2> QED
    BY <1>17, <2>2, <2>4, <2>5 DEF Submit, Typed, JobsOK
<1>18. ASSUME NEW j \in Ids, KillQueued(j) PROVE JobsOK'
  <2>1. /\ table' \in Tables /\ In(table', "done") = In(table, "done") \cup {j}
        /\ In(table', "queued") = In(table, "queued") \ {j}
        /\ In(table', "running") = In(table, "running") \ {j}
    BY <1>18, KillQueuedTouches, NewState DEF Alters
  <2>2. UNCHANGED << nextId, disk >> /\ look' = {} /\ picks' = {} /\ cur' = j
    BY <1>18, KillQueuedTouches, Entries DEF KillQueued, Typed, files, BeginFinalize,
       ControlOK, Finalizing
  <2> QED
    BY <2>1, <2>2 DEF Typed, JobsOK
<1>19. ASSUME NEW j \in Ids, KillRunning(j) PROVE JobsOK'
  <2>1. table' \in Tables /\ \A s : In(table', s) = In(table, s)
    BY <1>19, KillRunningTouches, SameStates DEF Alters
  <2> QED
    BY <1>19, <2>1, KillRunningTouches DEF KillRunning, Typed, JobsOK, files
<1>20. CASE Crash
  BY <1>20, EmptyTableType DEF Crash, Down, Typed, JobsOK, files
<1>21. CASE SaveFails
  <2>1. CASE UNCHANGED << table, nextId >> /\ look' = {} /\ picks' = {} /\ cur' = Off
    BY <2>1, <1>21 DEF SaveFails, Rest, JobsOK, Typed, books, files
  <2>2. ASSUME NEW kept, Down(kept) PROVE JobsOK'
    BY <2>2, <1>21, EmptyTableType DEF SaveFails, Down, JobsOK, Typed, files
  <2> QED
    BY <2>1, <2>2, <1>21 DEF SaveFails, Abort, Rest, books
<1>22. CASE CopyFails
  <2>1. table' \in Tables /\ \A s : In(table', s) = In(table, s)
    BY <1>22, CopyFailsTouches, SameStates DEF Alters
  <2> QED
    BY <1>22, <2>1, CopyFailsTouches DEF CopyFails, Typed, JobsOK, files
<1>23. CASE ForkFails
  <2>1. CASE UNCHANGED << table, nextId >> /\ look' = {} /\ picks' = {} /\ cur' = Off
    BY <2>1, <1>23 DEF ForkFails, Rest, JobsOK, Typed, books, files
  <2>2. ASSUME NEW kept, Down(kept) PROVE JobsOK'
    BY <2>2, <1>23, EmptyTableType DEF ForkFails, Down, JobsOK, Typed, files
  <2> QED
    BY <2>1, <2>2, <1>23 DEF ForkFails, Abort, Rest, books
<1>24. ASSUME NEW why \in {"stop", "reload"}, Shutdown(why) PROVE JobsOK'
  BY <1>24 DEF Shutdown, Mishap, JobsOK, Typed, control, books, files, kernel, history
<1>25. ASSUME NEW j \in Ids, StartFails(j) PROVE JobsOK'
  <2>1. /\ table' \in Tables /\ In(table', "done") = In(table, "done") \cup {j}
        /\ In(table', "queued") = In(table, "queued") \ {j}
        /\ In(table', "running") = In(table, "running") \ {j}
    BY <1>25, StartFailsTouches, NewState DEF Alters
  <2>2. /\ UNCHANGED << nextId, disk >> /\ picks' = picks \ {j}
        /\ UNCHANGED look /\ j \notin look /\ cur' = j
    BY <1>25, StartFailsTouches, Entries DEF StartFails, Typed, files, BeginFinalize
  <2> QED
    BY <2>1, <2>2 DEF Typed, JobsOK
<1>26. ASSUME NEW r \in Runs, Exit(r) PROVE JobsOK'
  BY <1>26 DEF Exit, JobsOK, Typed, control, books, files, kernel, history
<1>27. ASSUME NEW r \in Runs, PidReused(r) PROVE JobsOK'
  BY <1>27 DEF PidReused, JobsOK, Typed, control, books, files, kernel, history
<1>28. ASSUME NEW j \in Ids, StrayGone(j) PROVE JobsOK'
  BY <1>28 DEF StrayGone, JobsOK, Typed, control, books, files, kernel, history
<1>29. CASE UNCHANGED vars
  BY <1>29 DEF vars, control, books, files, kernel, history, JobsOK, Typed, control, books,
     files, kernel, history
<1> QED
  BY <1>1, <1>2, <1>3, <1>4, <1>5, <1>6, <1>7, <1>8, <1>9, <1>10, <1>11, <1>12, <1>13, <1>14,
     <1>15, <1>16, <1>17, <1>18, <1>19, <1>20, <1>21, <1>22, <1>23, <1>24, <1>25, <1>26, <1>27,
     <1>28, <1>29 DEF Next, Work, Request, Failure, Kernel

\* a pass picks no more jobs than there are slots free
LEMMA PicksFit ==
  ASSUME Typed
  PROVE  /\ IsFiniteSet(FirstQueued) /\ Cardinality(FirstQueued) \in Nat
         /\ Cardinality(FirstQueued) <= free
<1> DEFINE Q == In(table, "queued")
<1>1. IsFiniteSet(Q) /\ (\A j \in Q : j \in Int) /\ free \in Nat
  BY InFinite, DaemonAssumption DEF Typed, JobsOK
<1>2. FirstQueued = { j \in Q : Cardinality({ k \in Q : k < j }) < free }
  BY DEF FirstQueued
<1>3. IsFiniteSet(FirstQueued)
  BY <1>1, FS_Subset DEF FirstQueued
<1> HIDE DEF Q
<1>4. Cardinality(FirstQueued) <= free
  BY <1>1, <1>2, FirstFew
<1> QED
  BY <1>3, <1>4, FS_CardinalityType

\* the number of the free slots stays within the machine's
LEMMA FreeStep ==
  ASSUME Typed, [Next]_vars
  PROVE  free' \in 0..Slots
<1> USE DaemonAssumption
<1>1. CASE Boot
  BY <1>1 DEF Boot, Typed, AtMost, books
<1>2. CASE Prune
  BY <1>2 DEF Prune, Typed, AtMost, books
<1>3. CASE Sweep
  BY <1>3 DEF Sweep, Killed, Swept, Typed, AtMost, books
<1>4. CASE Plan
  BY <1>4, PicksFit DEF Plan, Typed
<1>5. CASE OpenCopy
  BY <1>5 DEF OpenCopy, Typed, AtMost, books
<1>6. CASE CopyDone
  BY <1>6 DEF CopyDone, Typed, AtMost, books
<1>7. CASE Retire
  BY <1>7 DEF Retire, Typed, AtMost, books
<1>8. CASE Save
  BY <1>8 DEF Save, Abort, Rest, Down, books, Typed
<1>9. ASSUME NEW j \in Ids, LookOn(j) PROVE free' \in 0..Slots
  BY <1>9 DEF LookOn, Probing, Typed, AtMost, books
<1>10. ASSUME NEW j \in Ids, TimeOut(j) PROVE free' \in 0..Slots
  BY <1>10 DEF TimeOut, Probing, Typed, AtMost, books
<1>11. ASSUME NEW j \in Ids, HardKill(j) PROVE free' \in 0..Slots
  BY <1>11 DEF HardKill, Probing, Killed, Swept, Typed, AtMost, books
<1>12. ASSUME NEW j \in Ids, FindDead(j) PROVE free' \in 0..Slots
  BY <1>12 DEF FindDead, Probing, BeginFinalize, GiveBack, RemoveCgroup, Killed, Swept, Typed,
     AtMost, books
<1>13. ASSUME NEW j \in Ids, Adopt(j) PROVE free' \in 0..Slots
  BY <1>13 DEF Adopt, Typed, AtMost, books
<1>14. ASSUME NEW j \in Ids, FindLost(j) PROVE free' \in 0..Slots
  BY <1>14 DEF FindLost, BeginFinalize, GiveBack, RemoveCgroup, Killed, Swept, Typed, AtMost, books
<1>15. ASSUME NEW j \in Ids, NEW r \in Runs, Start(j, r) PROVE free' \in 0..Slots
  BY <1>15 DEF Start, Started, Typed, AtMost, books
<1>16. CASE Tick
  BY <1>16 DEF Tick, Typed, AtMost, books
<1>17. CASE Submit
  BY <1>17 DEF Submit, Typed, AtMost, books
<1>18. ASSUME NEW j \in Ids, KillQueued(j) PROVE free' \in 0..Slots
  BY <1>18 DEF KillQueued, BeginFinalize, Typed, AtMost, books
<1>19. ASSUME NEW j \in Ids, KillRunning(j) PROVE free' \in 0..Slots
  BY <1>19 DEF KillRunning, Typed, AtMost, books
<1>20. CASE Crash
  BY <1>20 DEF Crash, Down, Mishap, Typed, AtMost, books
<1>21. CASE SaveFails
  BY <1>21 DEF SaveFails, Abort, Rest, Down, books, Typed
<1>22. CASE CopyFails
  BY <1>22 DEF CopyFails, Mishap, Typed, AtMost, books
<1>23. CASE ForkFails
  BY <1>23 DEF ForkFails, Abort, Rest, Down, books, Typed
<1>24. ASSUME NEW why \in {"stop", "reload"}, Shutdown(why) PROVE free' \in 0..Slots
  BY <1>24 DEF Shutdown, Mishap, Typed, AtMost, books
<1>25. ASSUME NEW j \in Ids, StartFails(j) PROVE free' \in 0..Slots
  BY <1>25 DEF StartFails, Mishap, BeginFinalize, Started, Typed, AtMost, books
<1>26. ASSUME NEW r \in Runs, Exit(r) PROVE free' \in 0..Slots
  BY <1>26 DEF Exit, Typed, AtMost, books
<1>27. ASSUME NEW r \in Runs, PidReused(r) PROVE free' \in 0..Slots
  BY <1>27 DEF PidReused, Typed, AtMost, books
<1>28. ASSUME NEW j \in Ids, StrayGone(j) PROVE free' \in 0..Slots
  BY <1>28 DEF StrayGone, Typed, AtMost, books
<1>29. CASE UNCHANGED vars
  BY <1>29 DEF vars, control, books, files, kernel, history, Typed, AtMost, books
<1> QED
  BY <1>1, <1>2, <1>3, <1>4, <1>5, <1>6, <1>7, <1>8, <1>9, <1>10, <1>11, <1>12, <1>13, <1>14,
     <1>15, <1>16, <1>17, <1>18, <1>19, <1>20, <1>21, <1>22, <1>23, <1>24, <1>25, <1>26, <1>27,
     <1>28, <1>29 DEF Next, Work, Request, Failure, Kernel

\* the types, the control and the unborn processes together
LEMMA TypedStep ==
  ASSUME Typed, ControlOK, Unborn, phase # "down" => UpOK, [Next]_vars
  PROVE  Typed' /\ ControlOK' /\ Unborn'
  BY MiscStep, ControlStep, JobsStep, FreeStep DEF Typed

\* a step that leaves tables and promises alone, or loses the table with the daemon
LEMMA NothingMoves ==
  ASSUME Typed, DiskOK, phase # "down" => UpOK, Goes(leader, child, leader', child'),
         UNCHANGED << disk, acked, told >>,
         phase' # "down" =>
           /\ phase # "down" /\ UNCHANGED << table, nextId >>
           /\ cause' \in {"submit", "kill"} => UNCHANGED << cause, asked >>
  PROVE  DiskOK' /\ (phase' # "down" => UpOK')
<1>1. disk.jobs \in Tables /\ table \in Tables
  BY DEF Typed, JobsOK
<1>2. DiskOK'
  BY <1>1, SoundGoes DEF DiskOK
<1>3. phase' # "down" => UpOK'
  BY <1>1, SoundGoes DEF UpOK
<1> QED
  BY <1>2, <1>3

\* a step that writes the job table but not the state file
LEMMA TableMoves ==
  ASSUME Typed, DiskOK, UpOK, Goes(leader, child, leader', child'),
         UNCHANGED << disk, acked, told >>,
         Sound(table', nextId', leader', child'), Carries(table, nextId, table', nextId'),
         Precedes(disk, table', nextId'),
         cause' = "submit" =>
           UNCHANGED << cause, asked >> \/ Recalls(table', nextId', asked'),
         cause' = "kill" =>
           UNCHANGED << cause, asked >> \/ Confirms(table', nextId', asked')
  PROVE  DiskOK' /\ UpOK'
<1>1. disk.jobs \in Tables /\ acked \in SUBSET Ids /\ told \in SUBSET Ids /\ asked \in Nat
  BY DaemonAssumption DEF Typed, JobsOK, MiscOK, Ids, Off
<1>2. DiskOK'
  BY <1>1, SoundGoes DEF DiskOK
<1>3. Faithful(table', nextId', acked', told')
  BY <1>1, FaithfulCarries DEF UpOK
<1>4. /\ Recalls(table, nextId, asked) => Recalls(table', nextId', asked)
      /\ Confirms(table, nextId, asked) => Confirms(table', nextId', asked)
  BY <1>1 DEF Carries
<1>5. UpOK'
  BY <1>3, <1>4 DEF UpOK
<1> QED
  BY <1>2, <1>5

\* a step that takes one job further in its life
LEMMA EntryMoves ==
  ASSUME Typed, DiskOK, UpOK, Goes(leader, child, leader', child'),
         UNCHANGED << disk, acked, told, nextId >>,
         NEW j \in DOMAIN table, Alters(table, table', j),
         EntryOK(table'[j], leader', child'),
         table[j].state # "queued" => table'[j].state # "queued",
         table[j].state = "done" => table'[j].state = "done",
         table[j].state # "queued" /\ table[j].reason = "killed" => table'[j].reason = "killed",
         cause' = "submit" => UNCHANGED << cause, asked >>,
         cause' = "kill" =>
           UNCHANGED << cause, asked >> \/ Confirms(table', nextId', asked')
  PROVE  DiskOK' /\ UpOK'
<1>1. table \in Tables
  BY DEF Typed, JobsOK
<1>2. Follows(table, table')
  BY DEF Follows, Alters
<1>3. Sound(table', nextId', leader', child')
  BY <1>1, SoundGoes, SoundAlters DEF UpOK
<1>4. Carries(table, nextId, table', nextId')
  BY <1>1, <1>2, CarriesFollows
<1>5. Precedes(disk, table', nextId')
  BY <1>2 DEF UpOK, Precedes, Follows
<1> QED
  BY <1>3, <1>4, <1>5, TableMoves

\* what the entry of a job in the table says of its process is so
LEMMA RunKnown ==
  ASSUME Typed, UpOK, NEW j \in DOMAIN table
  PROVE  /\ EntryOK(table[j], leader, child) /\ j < nextId
         /\ table[j].run \in Runs \cup {Off}
<1>1. table[j] \in Job /\ j \in Ids
  BY Entries
<1>2. j \in 1..(nextId - 1) /\ nextId \in Int
  BY DaemonAssumption DEF UpOK, Sound, Typed, JobsOK
<1> QED
  BY <1>1, <1>2 DEF UpOK, Sound, Job

\* The state file and the table stay right and keep what clients were told,
\* whatever step is taken.  Saving copies the table, which is right and not
\* behind; a crash loses the table, and the file stays; what was acknowledged
\* was saved first.
LEMMA MemoryStep ==
  ASSUME Typed, ControlOK, Unborn, DiskOK, phase # "down" => UpOK, [Next]_vars
  PROVE  DiskOK' /\ (phase' # "down" => UpOK')
<1> USE DaemonAssumption, GoesStep DEF Typed
<1>1. CASE Boot
  <2>1. /\ UNCHANGED << disk, acked, told >> /\ cause' = "boot"
        /\ table' = disk.jobs /\ nextId' = disk.next /\ disk.jobs \in Tables
    BY <1>1 DEF Boot, JobsOK, files
  <2>2. DiskOK'
    BY <1>1, <2>1, SoundGoes DEF DiskOK
  <2>3. Precedes(disk', table', nextId')
    BY <2>1 DEF Precedes, JobsOK
  <2> QED
    BY <2>1, <2>2, <2>3 DEF DiskOK, UpOK
<1>2. CASE Prune
  <2>1. /\ UpOK /\ UNCHANGED << disk, acked, told, nextId, cause, asked >>
        /\ table' = Trim(table) /\ table \in Tables
    BY <1>2 DEF Prune, JobsOK, ControlOK, Finalizing, files
  <2>2. Sound(table', nextId', leader', child')
    BY <1>2, <2>1, SoundGoes, SoundTrim DEF UpOK
  <2>3. Carries(table, nextId, table', nextId')
    BY <2>1, CarriesTrim
  <2>4. Precedes(disk, table', nextId')
    BY <2>1, Trimming DEF UpOK, Precedes
  <2> QED
    BY <1>2, <2>1, <2>2, <2>3, <2>4, TableMoves
<1>3. CASE Sweep
  BY <1>3, NothingMoves DEF Sweep, Killed, Swept, ControlOK, control, books, files, history
<1>4. CASE Plan
  BY <1>4, NothingMoves DEF Plan, Started, ControlOK, control, books, files, history
<1>5. CASE OpenCopy
  BY <1>5, NothingMoves DEF OpenCopy, ControlOK, control, books, files, history
<1>6. CASE CopyDone
  BY <1>6, NothingMoves DEF CopyDone, ControlOK, control, books, files, history
<1>7. CASE Retire
  <2>1. /\ UpOK /\ UNCHANGED << disk, acked, told, nextId, cause, asked >>
        /\ table' = Trim(table) /\ table \in Tables
    BY <1>7 DEF Retire, JobsOK, ControlOK, Finalizing, files
  <2>2. Sound(table', nextId', leader', child')
    BY <1>7, <2>1, SoundGoes, SoundTrim DEF UpOK
  <2>3. Carries(table, nextId, table', nextId')
    BY <2>1, CarriesTrim
  <2>4. Precedes(disk, table', nextId')
    BY <2>1, Trimming DEF UpOK, Precedes
  <2> QED
    BY <1>7, <2>1, <2>2, <2>3, <2>4, TableMoves
<1>8. CASE Save
  <2>1. /\ UpOK /\ table \in Tables /\ disk.jobs \in Tables
        /\ phase' # "down" => UNCHANGED << table, nextId >> /\ cause' = "none"
    BY <1>8 DEF Save, Rest, Down, ControlOK, JobsOK
  <2>2. /\ Faithful(table, nextId, acked', told')
        /\ cause \in {"submit", "kill"} => disk' = [next |-> nextId, jobs |-> table]
    BY <1>8 DEF Save, UpOK, Faithful, ControlOK
  <2>3. /\ Sound(table, nextId, leader', child') /\ Sound(disk.jobs, disk.next, leader', child')
    BY <1>8, <2>1, SoundGoes DEF UpOK, DiskOK
  <2>4. CASE disk' = [next |-> nextId, jobs |-> table]
    <3>1. disk'.next = nextId /\ disk'.jobs = table /\ nextId \in Int
      BY <2>4 DEF JobsOK
    <3>2. DiskOK'
      BY <2>2, <2>3, <3>1 DEF DiskOK
    <3>3. phase' # "down" => UpOK'
      BY <2>1, <2>2, <2>3, <3>1 DEF UpOK, Precedes
    <3> QED
      BY <3>2, <3>3
  <2>5. CASE disk' = disk /\ cause \notin {"submit", "kill"}
    BY <1>8, <2>1, <2>2, <2>3, <2>5 DEF Save, DiskOK, UpOK
  <2> QED
    BY <1>8, <2>2, <2>4, <2>5 DEF Save
<1>9. ASSUME NEW j \in Ids, LookOn(j) PROVE DiskOK' /\ (phase' # "down" => UpOK')
  BY <1>9, NothingMoves DEF LookOn, Probing, ControlOK, control, books, files, history
<1>10. ASSUME NEW j \in Ids, TimeOut(j) PROVE DiskOK' /\ (phase' # "down" => UpOK')
  <2>1. /\ UpOK /\ UNCHANGED << disk, acked, told, nextId >>
        /\ UNCHANGED << cause, asked >>
    BY <1>10 DEF TimeOut, Probing, ControlOK, files
  <2>2. EntryOK(table[j], leader, child) /\ j < nextId /\ table[j].run \in Runs \cup {Off}
    BY <1>10, <2>1, TimeOutTouches, RunKnown
  <2>3. Goes(leader, child, leader', child')
    BY <1>10 DEF TimeOut, Probing, kernel
  <2>4. EntryOK(table'[j], leader', child')
    BY <1>10, <2>2, <2>3, TimeOutTouches DEF EntryOK, Goes, Off
  <2>5. table[j].state # "queued" /\ table[j].reason = "killed" => table'[j].reason = "killed"
    BY <1>10, <2>2, TimeOutTouches DEF TimeOut, EntryOK
  <2> QED
    BY <1>10, <2>1, <2>2, <2>4, <2>5, TimeOutTouches, EntryMoves
<1>11. ASSUME NEW j \in Ids, HardKill(j) PROVE DiskOK' /\ (phase' # "down" => UpOK')
  <2>1. /\ UpOK /\ UNCHANGED << disk, acked, told, nextId >>
        /\ UNCHANGED << cause, asked >>
    BY <1>11 DEF HardKill, Probing, ControlOK, files
  <2>2. EntryOK(table[j], leader, child) /\ j < nextId /\ table[j].run \in Runs \cup {Off}
    BY <1>11, <2>1, HardKillTouches, RunKnown
  <2>3. Goes(leader, child, leader', child')
    BY <1>11 DEF HardKill, Probing, kernel
  <2>4. EntryOK(table'[j], leader', child')
    BY <1>11, <2>2, <2>3, HardKillTouches DEF EntryOK, Goes, Off
  <2>5. table[j].state # "queued" /\ table[j].reason = "killed" => table'[j].reason = "killed"
    BY <1>11, <2>2, HardKillTouches DEF HardKill, EntryOK
  <2> QED
    BY <1>11, <2>1, <2>2, <2>4, <2>5, HardKillTouches, EntryMoves
<1>12. ASSUME NEW j \in Ids, FindDead(j) PROVE DiskOK' /\ (phase' # "down" => UpOK')
  <2>1. /\ UpOK /\ UNCHANGED << disk, acked, told, nextId >>
        /\ UNCHANGED << cause, asked >>
    BY <1>12 DEF FindDead, Probing, BeginFinalize, ControlOK, files
  <2>2. EntryOK(table[j], leader, child) /\ j < nextId /\ table[j].run \in Runs \cup {Off}
    BY <1>12, <2>1, FindDeadTouches, RunKnown
  <2>3. /\ Goes(leader, child, leader', child') /\ child' = child
        /\ leader[table[j].run] \notin {"alive", "dying"}
        /\ Code(table[j].run) = IF table[j].run \in child THEN "code" ELSE "none"
    BY <1>12 DEF FindDead, Probing, BeginFinalize, Probe, Alive, Code
  <2>4. EntryOK(table'[j], leader', child')
    BY <1>12, <2>2, <2>3, FindDeadTouches DEF EntryOK, Goes, Off
  <2>5. table[j].state # "queued" /\ table[j].reason = "killed" => table'[j].reason = "killed"
    BY <1>12, <2>2, FindDeadTouches DEF FindDead, EntryOK
  <2> QED
    BY <1>12, <2>1, <2>2, <2>4, <2>5, FindDeadTouches, EntryMoves
<1>13. ASSUME NEW j \in Ids, Adopt(j) PROVE DiskOK' /\ (phase' # "down" => UpOK')
  BY <1>13, NothingMoves DEF Adopt, ControlOK, control, books, files, history
<1>14. ASSUME NEW j \in Ids, FindLost(j) PROVE DiskOK' /\ (phase' # "down" => UpOK')
  <2>1. /\ UpOK /\ UNCHANGED << disk, acked, told, nextId >>
        /\ UNCHANGED << cause, asked >>
    BY <1>14 DEF FindLost, BeginFinalize, ControlOK, files
  <2>2. EntryOK(table[j], leader, child) /\ j < nextId /\ table[j].run \in Runs \cup {Off}
    BY <1>14, <2>1, FindDeadTouches, RunKnown
  <2>3. /\ Goes(leader, child, leader', child') /\ child' = child
        /\ leader[table[j].run] \notin {"alive", "dying"}
        /\ Code(table[j].run) = IF table[j].run \in child THEN "code" ELSE "none"
    BY <1>14 DEF FindLost, BeginFinalize, Probe, Alive, Code
  <2>4. EntryOK(table'[j], leader', child')
    BY <1>14, <2>2, <2>3, FindDeadTouches DEF EntryOK, Goes, Off
  <2>5. table[j].state # "queued" /\ table[j].reason = "killed" => table'[j].reason = "killed"
    BY <1>14, <2>2, FindDeadTouches DEF FindLost, EntryOK
  <2> QED
    BY <1>14, <2>1, <2>2, <2>4, <2>5, FindDeadTouches, EntryMoves
<1>15. ASSUME NEW j \in Ids, NEW r \in Runs, Start(j, r)
       PROVE  DiskOK' /\ (phase' # "down" => UpOK')
  <2>1. /\ UpOK /\ UNCHANGED << disk, acked, told, nextId >>
        /\ UNCHANGED << cause, asked >>
    BY <1>15 DEF Start, ControlOK, files
  <2>2. EntryOK(table[j], leader, child) /\ j < nextId /\ table[j].run \in Runs \cup {Off}
    BY <1>15, <2>1, StartTouches, RunKnown
  <2>3. leader' = [leader EXCEPT ![r] = "alive"] /\ leader'[r] = "alive" /\ r # Off
    BY <1>15 DEF Start, MiscOK, Runs, Off
  <2>4. EntryOK(table'[j], leader', child')
    BY <1>15, <2>2, <2>3, StartTouches DEF EntryOK, Goes, Off
  <2>5. table[j].state # "queued" /\ table[j].reason = "killed" => table'[j].reason = "killed"
    BY <1>15, <2>2, StartTouches DEF Start, EntryOK
  <2> QED
    BY <1>15, <2>1, <2>2, <2>4, <2>5, StartTouches, EntryMoves
<1>16. CASE Tick
  <2>1. /\ UpOK /\ UNCHANGED << acked, told, nextId >> /\ cause' = "tick"
        /\ table' = Older(table) /\ disk' = [disk EXCEPT !.jobs = Older(disk.jobs)]
        /\ table \in Tables /\ disk.jobs \in Tables
    BY <1>16 DEF Tick, JobsOK, ControlOK
  <2>2. disk'.jobs = Older(disk.jobs) /\ disk'.next = disk.next
    BY <2>1 DEF JobsOK
  <2>3. Follows(table, table') /\ Follows(disk.jobs, disk'.jobs)
    BY <2>1, <2>2, Aged DEF Follows
  <2>4. acked \in SUBSET Ids /\ told \in SUBSET Ids
    BY DEF MiscOK
  <2>5. DiskOK'
    <3>1. Sound(disk'.jobs, disk'.next, leader', child')
      BY <1>16, <2>1, <2>2, SoundGoes, SoundOlder DEF DiskOK
    <3>2. Faithful(disk'.jobs, disk'.next, acked', told')
      BY <2>1, <2>2, <2>3, <2>4, CarriesFollows, FaithfulCarries DEF DiskOK
    <3> QED
      BY <3>1, <3>2 DEF DiskOK
  <2>6. UpOK'
    <3>1. Sound(table', nextId', leader', child')
      BY <1>16, <2>1, SoundGoes, SoundOlder DEF UpOK
    <3>2. Faithful(table', nextId', acked', told')
      BY <2>1, <2>3, <2>4, CarriesFollows, FaithfulCarries DEF UpOK
    <3>3. Precedes(disk', table', nextId')
      BY <2>1, <2>2, Aged DEF UpOK, Precedes
    <3> QED
      BY <2>1, <3>1, <3>2, <3>3 DEF UpOK
  <2> QED
    BY <2>5, <2>6
<1>17. CASE Submit
  <2>1. /\ UpOK /\ UNCHANGED << disk, acked, told >>
        /\ cause' = "submit" /\ asked' = nextId /\ nextId' = nextId + 1
        /\ table' = With(table, nextId) /\ table \in Tables /\ nextId \in Ids
    BY <1>17 DEF Submit, JobsOK, ControlOK, files
  <2>2. nextId \notin DOMAIN table /\ Sound(table', nextId', leader', child')
    BY <1>17, <2>1, SoundGoes, SoundWith DEF UpOK
  <2>3. Carries(table, nextId, table', nextId') /\ Recalls(table', nextId', asked')
    BY <2>1, <2>2, CarriesWith
  <2>4. Precedes(disk, table', nextId')
    <3>1. \A k \in DOMAIN disk.jobs : k # nextId
      BY <2>1 DEF DiskOK, UpOK, Sound, Precedes, JobsOK, Ids
    <3>2. disk.next <= nextId'
      BY <2>1 DEF UpOK, Precedes, JobsOK, Ids
    <3>3. /\ DOMAIN table' = DOMAIN table \cup {nextId}
          /\ \A k \in DOMAIN table : table'[k] = table[k]
      BY <2>1, <2>2 DEF With
    <3> QED
      BY <2>1, <3>1, <3>2, <3>3 DEF UpOK, Precedes
  <2> QED
    BY <1>17, <2>1, <2>2, <2>3, <2>4, TableMoves
<1>18. ASSUME NEW j \in Ids, KillQueued(j) PROVE DiskOK' /\ (phase' # "down" => UpOK')
  <2>1. /\ UpOK /\ UNCHANGED << disk, acked, told, nextId >>
        /\ cause' = "kill" /\ asked' = j
    BY <1>18 DEF KillQueued, BeginFinalize, ControlOK, files
  <2>2. EntryOK(table[j], leader, child) /\ j < nextId /\ table[j].run \in Runs \cup {Off}
    BY <1>18, <2>1, KillQueuedTouches, RunKnown
  <2>3. Goes(leader, child, leader', child')
    BY <1>18 DEF KillQueued, BeginFinalize, kernel
  <2>4. EntryOK(table'[j], leader', child')
    BY <1>18, <2>2, <2>3, KillQueuedTouches DEF EntryOK, Goes, Off
  <2>5. table[j].state # "queued" /\ table[j].reason = "killed" => table'[j].reason = "killed"
    BY <1>18, <2>2, KillQueuedTouches DEF KillQueued, EntryOK
  <2> QED
    BY <1>18, <2>1, <2>2, <2>4, <2>5, KillQueuedTouches, EntryMoves DEF Confirms
<1>19. ASSUME NEW j \in Ids, KillRunning(j) PROVE DiskOK' /\ (phase' # "down" => UpOK')
  <2>1. /\ UpOK /\ UNCHANGED << disk, acked, told, nextId >>
        /\ cause' = "kill" /\ asked' = j
    BY <1>19 DEF KillRunning, kernel, ControlOK, files
  <2>2. EntryOK(table[j], leader, child) /\ j < nextId /\ table[j].run \in Runs \cup {Off}
    BY <1>19, <2>1, KillRunningTouches, RunKnown
  <2>3. Goes(leader, child, leader', child')
    BY <1>19 DEF KillRunning, kernel, kernel
  <2>4. EntryOK(table'[j], leader', child')
    BY <1>19, <2>2, <2>3, KillRunningTouches DEF EntryOK, Goes, Off
  <2>5. table[j].state # "queued" /\ table[j].reason = "killed" => table'[j].reason = "killed"
    BY <1>19, <2>2, KillRunningTouches DEF KillRunning, EntryOK
  <2> QED
    BY <1>19, <2>1, <2>2, <2>4, <2>5, KillRunningTouches, EntryMoves DEF Confirms
<1>20. CASE Crash
  BY <1>20, NothingMoves DEF Crash, Down, ControlOK, control, books, files, history
<1>21. CASE SaveFails
  BY <1>21, NothingMoves DEF SaveFails, Abort, Rest, Down, ControlOK, control, books, files,
     history
<1>22. CASE CopyFails
  <2>1. /\ UpOK /\ UNCHANGED << disk, acked, told, nextId >>
        /\ UNCHANGED << cause, asked >>
    BY <1>22 DEF CopyFails, kernel, HasOutput, ControlOK, files
  <2>2. EntryOK(table[cur], leader, child) /\ cur < nextId /\ table[cur].run \in Runs \cup {Off}
    BY <1>22, <2>1, CopyFailsTouches, RunKnown
  <2>3. Goes(leader, child, leader', child')
    BY <1>22 DEF CopyFails, kernel, HasOutput, kernel
  <2>4. EntryOK(table'[cur], leader', child')
    BY <1>22, <2>2, <2>3, CopyFailsTouches DEF EntryOK, Goes, Off
  <2>5. table[cur].state # "queued" /\ table[cur].reason = "killed" =>
          table'[cur].reason = "killed"
    BY <1>22, <2>2, CopyFailsTouches DEF CopyFails, EntryOK
  <2> QED
    BY <1>22, <2>1, <2>2, <2>4, <2>5, CopyFailsTouches, EntryMoves
<1>23. CASE ForkFails
  BY <1>23, NothingMoves DEF ForkFails, Abort, Rest, Down, ControlOK, control, books, files,
     history
<1>24. ASSUME NEW why \in {"stop", "reload"}, Shutdown(why)
       PROVE  DiskOK' /\ (phase' # "down" => UpOK')
  BY <1>24, NothingMoves DEF Shutdown, Mishap, ControlOK, control, books, files, history
<1>25. ASSUME NEW j \in Ids, StartFails(j) PROVE DiskOK' /\ (phase' # "down" => UpOK')
  <2>1. /\ UpOK /\ UNCHANGED << disk, acked, told, nextId >>
        /\ UNCHANGED << cause, asked >>
    BY <1>25 DEF StartFails, BeginFinalize, ControlOK, files
  <2>2. EntryOK(table[j], leader, child) /\ j < nextId /\ table[j].run \in Runs \cup {Off}
    BY <1>25, <2>1, StartFailsTouches, RunKnown
  <2>3. Goes(leader, child, leader', child')
    BY <1>25 DEF StartFails, BeginFinalize, kernel
  <2>4. EntryOK(table'[j], leader', child')
    BY <1>25, <2>2, <2>3, StartFailsTouches DEF EntryOK, Goes, Off
  <2>5. table[j].state # "queued" /\ table[j].reason = "killed" => table'[j].reason = "killed"
    BY <1>25, <2>2, StartFailsTouches DEF StartFails, EntryOK
  <2> QED
    BY <1>25, <2>1, <2>2, <2>4, <2>5, StartFailsTouches, EntryMoves
<1>26. ASSUME NEW r \in Runs, Exit(r) PROVE DiskOK' /\ (phase' # "down" => UpOK')
  BY <1>26, NothingMoves DEF Exit, ControlOK, control, books, files, history
<1>27. ASSUME NEW r \in Runs, PidReused(r) PROVE DiskOK' /\ (phase' # "down" => UpOK')
  BY <1>27, NothingMoves DEF PidReused, ControlOK, control, books, files, history
<1>28. ASSUME NEW j \in Ids, StrayGone(j) PROVE DiskOK' /\ (phase' # "down" => UpOK')
  BY <1>28, NothingMoves DEF StrayGone, ControlOK, control, books, files, history
<1>29. CASE UNCHANGED vars
  BY <1>29, NothingMoves DEF vars, control, books, files, history
<1> QED
  BY <1>1, <1>2, <1>3, <1>4, <1>5, <1>6, <1>7, <1>8, <1>9, <1>10, <1>11, <1>12, <1>13, <1>14,
     <1>15, <1>16, <1>17, <1>18, <1>19, <1>20, <1>21, <1>22, <1>23, <1>24, <1>25, <1>26, <1>27,
     <1>28, <1>29 DEF Next, Work, Request, Failure, Kernel

\* a first start, with an empty state file
LEMMA InitInv == Init => IInv
<1> SUFFICES ASSUME Init PROVE IInv
  OBVIOUS
<1>1. table = EmptyTable /\ disk.jobs = EmptyTable /\ disk.next = 1 /\ nextId = 1
  BY DEF Init
<1>2. Typed
  <2>1. JobsOK
    BY <1>1, EmptyTableType, DaemonAssumption DEF Init, JobsOK
  <2>2. MiscOK
    <3>1. /\ age \in [Runs -> 0..(MaxTime + 1)] /\ mishaps \in 0..MaxMishaps
          /\ copy \in [Ids -> {"none", "partial", "full"}]
          /\ leader \in [Runs -> {"unborn", "alive", "dying", "zombie", "gone", "reused"}]
          /\ jobOf \in [Runs -> Ids \cup {Off}]
          /\ stray \in [Ids -> {"none", "alive", "dying"}]
      BY DaemonAssumption DEF Init
    <3> QED
      BY <3>1 DEF Init, MiscOK
  <2> QED
    BY <2>1, <2>2, DaemonAssumption DEF Init, Typed
<1>3. ControlOK /\ Unborn
  BY DEF Init, ControlOK, Unborn, Finalizing
<1>4. DiskOK
  <2>1. DOMAIN EmptyTable = {}
    BY DEF EmptyTable
  <2> QED
    BY <1>1, <2>1 DEF Init, DiskOK, Sound, Faithful
<1> QED
  BY <1>2, <1>3, <1>4, Parts DEF Init, IInv, Typed

\* the invariant is inductive
LEMMA NextInv == IInv /\ [Next]_vars => IInv'
<1> SUFFICES ASSUME IInv, [Next]_vars PROVE IInv'
  OBVIOUS
<1>1. Typed /\ ControlOK /\ Unborn /\ DiskOK /\ (phase # "down" => UpOK)
  BY Parts DEF IInv, Typed
<1>2. Typed' /\ ControlOK' /\ Unborn'
  BY <1>1, TypedStep
<1>3. DiskOK' /\ (phase' # "down" => UpOK')
  BY <1>1, MemoryStep
<1>4. TypeOK'
  BY <1>2 DEF TypeOK, Typed, JobsOK, MiscOK
<1> QED
  BY <1>2, <1>3, <1>4 DEF IInv

(***************************************************************************)
(* IInv holds in every state of every behaviour                            *)
(***************************************************************************)
THEOREM Invariance == Spec => []IInv
  BY InitInv, NextInv, PTL DEF Spec

(***************************************************************************)
(* Every variable keeps to its type, and what is finalized, probed or      *)
(* spawned is in the table in the state that the handler of daemon.py      *)
(* expects.                                                                *)
(***************************************************************************)
THEOREM TypeCorrect == Spec => []TypeOK
<1>1. IInv => TypeOK
  BY DEF IInv
<1> QED
  BY <1>1, Invariance, PTL

(***************************************************************************)
(* A finished job whose process was a child of this daemon has its exit    *)
(* code, over reloads too: _finalize has it from waitpid.                  *)
(***************************************************************************)
THEOREM CodesCollected == Spec => []ExitCollected
<1>1. IInv => ExitCollected
  <2> SUFFICES ASSUME IInv, phase = "idle", NEW j \in In(table, "done"), table[j].run \in child
               PROVE  table[j].exit = "code"
    BY DEF ExitCollected
  <2>1. EntryOK(table[j], leader, child) /\ table[j].state = "done"
    BY DEF IInv, UpOK, Sound, In
  <2>2. table[j].run # Off
    BY DEF IInv, TypeOK, Runs, Off
  <2> QED
    BY <2>1, <2>2 DEF EntryOK
<1> QED
  BY <1>1, Invariance, PTL

(***************************************************************************)
(* The state file never calls a job done while the process it records still *)
(* runs: _finalize is called for a running job only after a probe found it *)
(* dead.                                                                   *)
(***************************************************************************)
THEOREM DoneOver == Spec => []DoneIsOver
<1>1. IInv => DoneIsOver
  BY DEF IInv, DiskOK, Sound, EntryOK, DoneIsOver, Alive, In
<1> QED
  BY <1>1, Invariance, PTL

(***************************************************************************)
(* An id that a client was given is in the state file, or was pushed out by *)
(* as many later finished jobs as are kept: _submit answers after _persist, *)
(* and ids are never reused.                                               *)
(***************************************************************************)
THEOREM AcknowledgedSurvive == Spec => []AckedSurvive
<1>1. IInv => AckedSurvive
  BY DEF IInv, DiskOK, Faithful, Recalls, AckedSurvive
<1> QED
  BY <1>1, Invariance, PTL

(***************************************************************************)
(* A kill that was confirmed is in the state file and in the table: the job *)
(* is never queued again nor finished for another reason, crash or not.    *)
(***************************************************************************)
THEOREM KillsHold == Spec => []KillsStick
<1>1. IInv => KillsStick
  <2> SUFFICES ASSUME IInv, NEW j \in told, NEW t \in {disk.jobs, table}, j \in DOMAIN t
               PROVE  t[j].state # "queued" /\ t[j].reason = "killed"
    BY DEF KillsStick
  <2>1. CASE t = disk.jobs
    BY <2>1 DEF IInv, DiskOK, Faithful, Confirms
  <2>2. CASE t = table /\ phase # "down"
    BY <2>2 DEF IInv, UpOK, Faithful, Confirms
  <2>3. CASE t = table /\ phase = "down"
    BY <2>3 DEF IInv, ControlOK, EmptyTable
  <2> QED
    BY <2>1, <2>2, <2>3
<1> QED
  BY <1>1, Invariance, PTL

(***************************************************************************)
(* Once the state file says that a job was started, _try_start spawns no   *)
(* process for it again: it starts queued jobs only, and the table is never *)
(* behind the file.                                                        *)
(***************************************************************************)
THEOREM NeverRespawned == Spec => StartedOnce
<1>1. IInv /\ [Next]_vars =>
        \A j \in DOMAIN disk.jobs :
          disk.jobs[j].state # "queued" =>
            { r \in Runs : jobOf'[r] = j } = { r \in Runs : jobOf[r] = j }
  <2> SUFFICES ASSUME IInv, [Next]_vars, NEW j \in DOMAIN disk.jobs, disk.jobs[j].state # "queued"
               PROVE  { r \in Runs : jobOf'[r] = j } = { r \in Runs : jobOf[r] = j }
    OBVIOUS
  <2>1. CASE UNCHANGED jobOf
    BY <2>1
  <2>2. ASSUME NEW k \in Ids, NEW r \in Runs, Start(k, r)
        PROVE  { q \in Runs : jobOf'[q] = j } = { q \in Runs : jobOf[q] = j }
    <3>1. Typed /\ ControlOK
      BY Parts DEF IInv, Typed
    <3>2. k \in DOMAIN table /\ table[k].state = "queued"
      BY <2>2, <3>1, StartTouches
    <3>3. k # j
      BY <2>2, <3>2 DEF IInv, UpOK, Precedes, Start
    <3>4. jobOf[r] = Off /\ j # Off
      BY <2>2, <3>1, DaemonAssumption, TableType DEF Start, IInv, Unborn, Typed, JobsOK, Ids, Off
    <3>5. jobOf' = [jobOf EXCEPT ![r] = k] /\ jobOf \in [Runs -> Ids \cup {Off}]
      BY <2>2 DEF Start, IInv, TypeOK
    <3> QED
      BY <3>3, <3>4, <3>5
  <2>3. UNCHANGED jobOf \/ \E k \in Ids, q \in Runs : Start(k, q)
    <3> DEFINE OnlyStart == UNCHANGED jobOf \/ \E k \in Ids, q \in Runs : Start(k, q)
    <3>1. CASE Boot
      BY <3>1 DEF Boot, books, kernel
    <3>2. CASE Prune
      BY <3>2 DEF Prune, books, kernel
    <3>3. CASE Sweep
      BY <3>3 DEF Sweep, Killed, Swept, books, kernel
    <3>4. CASE Plan
      BY <3>4 DEF Plan, Started, books, kernel
    <3>5. CASE OpenCopy
      BY <3>5 DEF OpenCopy, books, kernel
    <3>6. CASE CopyDone
      BY <3>6 DEF CopyDone, books, kernel
    <3>7. CASE Retire
      BY <3>7 DEF Retire, books, kernel
    <3>8. CASE Save
      BY <3>8 DEF Save, Abort, Rest, Down, kernel
    <3>9. ASSUME NEW i \in Ids, LookOn(i) PROVE OnlyStart
      BY <3>9 DEF LookOn, Probing, books, kernel
    <3>10. ASSUME NEW i \in Ids, TimeOut(i) PROVE OnlyStart
      BY <3>10 DEF TimeOut, Probing, books, kernel
    <3>11. ASSUME NEW i \in Ids, HardKill(i) PROVE OnlyStart
      BY <3>11 DEF HardKill, Probing, Killed, Swept, books, kernel
    <3>12. ASSUME NEW i \in Ids, FindDead(i) PROVE OnlyStart
      BY <3>12 DEF FindDead, Probing, BeginFinalize, GiveBack, RemoveCgroup, Killed, Swept,
         books, kernel
    <3>13. ASSUME NEW i \in Ids, Adopt(i) PROVE OnlyStart
      BY <3>13 DEF Adopt, books, kernel
    <3>14. ASSUME NEW i \in Ids, FindLost(i) PROVE OnlyStart
      BY <3>14 DEF FindLost, BeginFinalize, GiveBack, RemoveCgroup, Killed, Swept, books, kernel
    <3>15. ASSUME NEW i \in Ids, NEW r \in Runs, Start(i, r) PROVE OnlyStart
      BY <3>15
    <3>16. CASE Tick
      BY <3>16 DEF Tick, books, kernel
    <3>17. CASE Submit
      BY <3>17 DEF Submit, books, kernel
    <3>18. ASSUME NEW i \in Ids, KillQueued(i) PROVE OnlyStart
      BY <3>18 DEF KillQueued, BeginFinalize, books, kernel
    <3>19. ASSUME NEW i \in Ids, KillRunning(i) PROVE OnlyStart
      BY <3>19 DEF KillRunning, books, kernel
    <3>20. CASE Crash
      BY <3>20 DEF Crash, Abort, Rest, Down, kernel
    <3>21. CASE SaveFails
      BY <3>21 DEF SaveFails, Abort, Rest, Down, kernel
    <3>22. CASE CopyFails
      BY <3>22 DEF CopyFails, Mishap, books, kernel
    <3>23. CASE ForkFails
      BY <3>23 DEF ForkFails, Abort, Rest, Down, kernel
    <3>24. ASSUME NEW why \in {"stop", "reload"}, Shutdown(why) PROVE OnlyStart
      BY <3>24 DEF Shutdown, Mishap, books, kernel
    <3>25. ASSUME NEW i \in Ids, StartFails(i) PROVE OnlyStart
      BY <3>25 DEF StartFails, Mishap, BeginFinalize, Started, books, kernel
    <3>26. ASSUME NEW r \in Runs, Exit(r) PROVE OnlyStart
      BY <3>26 DEF Exit, books, kernel
    <3>27. ASSUME NEW r \in Runs, PidReused(r) PROVE OnlyStart
      BY <3>27 DEF PidReused, books, kernel
    <3>28. ASSUME NEW i \in Ids, StrayGone(i) PROVE OnlyStart
      BY <3>28 DEF StrayGone, books, kernel
    <3>29. CASE UNCHANGED vars
      BY <3>29 DEF vars, kernel
    <3> QED
      BY <3>1, <3>2, <3>3, <3>4, <3>5, <3>6, <3>7, <3>8, <3>9, <3>10, <3>11, <3>12, <3>13, <3>14,
         <3>15, <3>16, <3>17, <3>18, <3>19, <3>20, <3>21, <3>22, <3>23, <3>24, <3>25, <3>26, <3>27,
         <3>28, <3>29 DEF Next, Work, Request, Failure, Kernel
  <2> QED
    BY <2>1, <2>2, <2>3
<1> QED
  BY <1>1, Invariance, PTL DEF Spec, StartedOnce

-----------------------------------------------------------------------------
(***************************************************************************)
(* The books.                                                              *)
(***************************************************************************)
\* the running jobs that a daemon which is starting has still to give a slot
Adopting == IF cause = "boot" THEN look ELSE {}

\* Every slot is free, held or picked for, and exactly the running jobs hold
\* one, once those found in the state file are adopted.  A daemon that is down
\* has all its slots, and the jobs that the file says are running fit into
\* them.
BooksOK ==
  /\ Cardinality(In(disk.jobs, "running")) <= Slots
  /\ phase = "down" => free = Slots /\ reserved = {}
  /\ phase # "down" =>
       /\ free + Cardinality(reserved) + Cardinality(picks) = Slots
       /\ In(table, "running") = reserved \cup Adopting /\ reserved \cap Adopting = {}
       /\ Cardinality(In(table, "running")) <= Slots

\* the sets that are counted are finite
LEMMA Counts ==
  ASSUME Typed
  PROVE  /\ IsFiniteSet(reserved) /\ Cardinality(reserved) \in Nat
         /\ IsFiniteSet(picks) /\ Cardinality(picks) \in Nat
         /\ IsFiniteSet(look) /\ Cardinality(look) \in Nat
         /\ free \in 0..Slots /\ Slots \in Nat /\ table \in Tables /\ disk.jobs \in Tables
<1>1. IsFiniteSet(Ids)
  BY DaemonAssumption, FS_Interval DEF Ids
<1>2. reserved \subseteq Ids /\ picks \subseteq Ids /\ look \subseteq Ids
  BY TableType DEF Typed, JobsOK, MiscOK, In
<1>3. IsFiniteSet(reserved) /\ IsFiniteSet(picks) /\ IsFiniteSet(look)
  BY <1>1, <1>2, FS_Subset
<1> QED
  BY <1>3, FS_CardinalityType, DaemonAssumption DEF Typed, JobsOK

\* a step that leaves the books and the set of the running jobs alone
LEMMA BooksSame ==
  ASSUME BooksOK, phase # "down", phase' # "down",
         UNCHANGED << free, reserved, picks, Adopting >>,
         In(table', "running") = In(table, "running"),
         In(disk'.jobs, "running") \in {In(disk.jobs, "running"), In(table, "running")}
  PROVE  BooksOK'
  BY DEF BooksOK

\* a step that ends the daemon
LEMMA BooksDown ==
  ASSUME BooksOK, phase' = "down", free' = Slots, reserved' = {},
         \/ UNCHANGED disk
         \/ phase # "down" /\ In(disk'.jobs, "running") = In(table, "running")
  PROVE  BooksOK'
  BY DEF BooksOK

\* one more element is one more
LEMMA AddOne ==
  ASSUME NEW S, IsFiniteSet(S), NEW x, x \notin S
  PROVE  Cardinality(S \cup {x}) = Cardinality(S) + 1
  BY FS_AddElement

\* one element less is one less
LEMMA TakeOne ==
  ASSUME NEW S, IsFiniteSet(S), NEW x \in S
  PROVE  Cardinality(S \ {x}) = Cardinality(S) - 1 /\ Cardinality(S) >= 1
<1>1. Cardinality(S \ {x}) = Cardinality(S) - 1
  BY FS_RemoveElement
<1>2. Cardinality(S \ {x}) \in Nat /\ Cardinality(S) \in Nat
  BY FS_RemoveElement, FS_CardinalityType
<1> QED
  BY <1>1, <1>2

\* A slot moves with its job: from free to picked when a pass begins, on to
\* held when the job is spawned, and back when it is finalized or its start
\* fails.
LEMMA BooksStep ==
  ASSUME ~({"start", "fork"} \subseteq Mishaps), Typed, ControlOK, phase # "down" => UpOK,
         BooksOK, [Next]_vars
  PROVE  BooksOK'
<1> USE DaemonAssumption, Counts
<1>1. CASE Boot
  <2>1. /\ phase' = "load" /\ cause' = "boot" /\ look' = In(disk.jobs, "running") /\ picks = {}
        /\ table' = disk.jobs /\ UNCHANGED << disk, free, reserved, picks >>
    BY <1>1 DEF Boot, ControlOK, Finalizing, files
  <2>2. Cardinality(reserved) = 0 /\ Cardinality(picks) = 0
    BY <1>1, <2>1, FS_EmptySet DEF Boot, BooksOK
  <2> QED
    BY <1>1, <2>1, <2>2 DEF Boot, BooksOK, Adopting
<1>2. CASE Prune
  <2>1. In(table', "running") = In(table, "running")
    BY <1>2, Trimming DEF Prune
  <2> QED
    BY <1>2, <2>1, BooksSame DEF Prune, ControlOK, Finalizing, Adopting, files
<1>3. CASE Sweep
  BY <1>3, BooksSame DEF Sweep, Killed, Swept, ControlOK, Finalizing, Adopting, control, books,
     files, history
<1>4. CASE Plan
  <2>1. picks = {} /\ Cardinality(picks) = 0
    BY <1>4, FS_EmptySet DEF Plan, ControlOK, Finalizing
  <2>2. Cardinality(FirstQueued) \in Nat /\ phase' # "down" /\ phase # "down"
    BY <1>4, PicksFit DEF Plan, Started
  <2> QED
    BY <1>4, <2>1, <2>2 DEF Plan, BooksOK, Adopting, files
<1>5. CASE OpenCopy
  BY <1>5, BooksSame DEF OpenCopy, ControlOK, Finalizing, Adopting, control, books, files, history
<1>6. CASE CopyDone
  BY <1>6, BooksSame DEF CopyDone, ControlOK, Finalizing, Adopting, control, books, files, history
<1>7. CASE Retire
  <2>1. In(table', "running") = In(table, "running")
    BY <1>7, Trimming DEF Retire
  <2> QED
    BY <1>7, <2>1, BooksSame DEF Retire, ControlOK, Finalizing, Adopting
<1>8. CASE Save
  <2>1. phase # "down" /\ look = {} /\ picks = {}
    BY <1>8 DEF Save, ControlOK, Finalizing
  <2>2. In(disk'.jobs, "running") \in {In(disk.jobs, "running"), In(table, "running")}
    BY <1>8 DEF Save
  <2>3. CASE phase' = "down"
    BY <1>8, <2>1, <2>2, <2>3, BooksDown DEF Save, Rest, Down, BooksOK
  <2>4. CASE phase' # "down"
    BY <1>8, <2>1, <2>2, <2>4, BooksSame DEF Save, Rest, Down, Adopting
  <2> QED
    BY <2>3, <2>4
<1>9. ASSUME NEW j \in Ids, LookOn(j) PROVE BooksOK'
  BY <1>9, BooksSame DEF LookOn, Probing, ControlOK, Finalizing, Adopting, control, books,
     files, history
<1>10. ASSUME NEW j \in Ids, TimeOut(j) PROVE BooksOK'
  <2>1. In(table', "running") = In(table, "running")
    BY <1>10, TimeOutTouches, SameStates DEF In
  <2> QED
    BY <1>10, <2>1, BooksSame DEF TimeOut, Probing, ControlOK, Finalizing, Adopting, files
<1>11. ASSUME NEW j \in Ids, HardKill(j) PROVE BooksOK'
  <2>1. In(table', "running") = In(table, "running")
    BY <1>11, HardKillTouches, SameStates DEF In
  <2> QED
    BY <1>11, <2>1, BooksSame DEF HardKill, Probing, ControlOK, Finalizing, Adopting, files
<1>12. ASSUME NEW j \in Ids, FindDead(j) PROVE BooksOK'
  <2>1. /\ j \in look /\ phase = "look" /\ cause = "tick"
        /\ phase' = "copy" /\ UNCHANGED << disk, picks, cause >>
        /\ reserved' = reserved \ {j}
        /\ free' = IF j \in reserved THEN AtMost(free + 1, Slots) ELSE free
    BY <1>12, FindDeadTouches DEF FindDead, Probing, BeginFinalize, GiveBack, ControlOK, files
  <2>2. j \in In(table, "running") /\ In(table, "running") = reserved
    BY <1>12, <2>1, FindDeadTouches DEF BooksOK, Adopting, In
  <2>3. In(table', "running") = In(table, "running") \ {j}
    BY <1>12, FindDeadTouches, NewState
  <2>4. Cardinality(reserved \ {j}) = Cardinality(reserved) - 1 /\ Cardinality(reserved) >= 1
    BY <2>2, TakeOne
  <2>5. free' = free + 1
    BY <2>1, <2>2, <2>4 DEF BooksOK, AtMost
  <2>6. Adopting = {} /\ Adopting' = {} /\ Cardinality(reserved) <= Slots
    BY <2>1, <2>2 DEF BooksOK, Adopting
  <2>7. free' + Cardinality(reserved') + Cardinality(picks') = Slots
    BY <2>1, <2>4, <2>5 DEF BooksOK
  <2>8. In(table', "running") = reserved'
    BY <2>1, <2>2, <2>3
  <2>9. Cardinality(reserved') <= Slots
    BY <2>1, <2>4, <2>6
  <2> QED
    BY <2>1, <2>6, <2>7, <2>8, <2>9 DEF BooksOK
<1>13. ASSUME NEW j \in Ids, Adopt(j) PROVE BooksOK'
  <2>1. /\ j \in look /\ phase = "load" /\ cause = "boot" /\ picks = {} /\ look' = look \ {j}
        /\ reserved' = reserved \cup {j} /\ free' = IF free = 0 THEN 0 ELSE free - 1
        /\ UNCHANGED << table, disk, picks, phase, cause >>
    BY <1>13, Least DEF Adopt, Typed, ControlOK, Finalizing, books, files
  <2>2. In(table, "running") = reserved \cup look /\ reserved \cap look = {} /\ j \notin reserved
    BY <2>1 DEF BooksOK, Adopting
  <2>3. Cardinality(reserved \cup {j}) = Cardinality(reserved) + 1
    BY <2>2, AddOne
  <2>4. Cardinality(reserved \cup {j}) <= Cardinality(In(table, "running"))
    <3>1. reserved \cup {j} \subseteq In(table, "running") /\ IsFiniteSet(In(table, "running"))
      BY <2>1, <2>2, InFinite
    <3> QED
      BY <3>1, FS_Subset
  <2>5. Cardinality(In(table, "running")) \in Nat
    BY InFinite, FS_CardinalityType
  <2>6. Cardinality(picks) = 0
    BY <2>1, FS_EmptySet
  <2>7. free' = free - 1
    BY <2>1, <2>3, <2>4, <2>5, <2>6 DEF BooksOK
  <2> QED
    BY <2>1, <2>2, <2>3, <2>7 DEF BooksOK, Adopting
<1>14. ASSUME NEW j \in Ids, FindLost(j) PROVE BooksOK'
  <2>1. /\ j \in look /\ phase = "load" /\ cause = "boot" /\ look' = look \ {j}
        /\ phase' = "copy" /\ UNCHANGED << disk, picks, cause >>
        /\ reserved' = reserved \ {j}
        /\ free' = IF j \in reserved THEN AtMost(free + 1, Slots) ELSE free
    BY <1>14, Least DEF FindLost, BeginFinalize, GiveBack, Typed, ControlOK, files
  <2>2. In(table, "running") = reserved \cup look /\ reserved \cap look = {} /\ j \notin reserved
    BY <2>1 DEF BooksOK, Adopting
  <2>3. In(table', "running") = In(table, "running") \ {j}
    BY <1>14, FindDeadTouches, NewState
  <2>4. Cardinality(In(table', "running")) <= Slots
    BY <2>1, <2>2, <2>3, TakeOne, InFinite, FS_CardinalityType DEF BooksOK
  <2> QED
    BY <2>1, <2>2, <2>3, <2>4 DEF BooksOK, Adopting
<1>15. ASSUME NEW j \in Ids, NEW r \in Runs, Start(j, r) PROVE BooksOK'
  <2>1. /\ phase = "start" /\ look = {} /\ phase' # "down" /\ look' = {}
        /\ picks' = picks \ {j} /\ reserved' = reserved \cup {j} /\ UNCHANGED << free, disk >>
    BY <1>15 DEF Start, Started, ControlOK, Finalizing
  <2>2. In(table', "running") = In(table, "running") \cup {j} /\ j \notin In(table, "running")
    BY <1>15, StartTouches, NewState DEF In
  <2>3. In(table, "running") = reserved
    BY <2>1 DEF BooksOK, Adopting
  <2>4. Cardinality(reserved \cup {j}) = Cardinality(reserved) + 1
    BY <2>2, <2>3, AddOne
  <2>5. Cardinality(picks \ {j}) = Cardinality(picks) - 1 /\ Cardinality(picks) >= 1
    BY <1>15, StartTouches, TakeOne
  <2>6. Adopting = {} /\ Adopting' = {}
    BY <2>1 DEF Adopting
  <2>7. /\ free' + Cardinality(reserved') + Cardinality(picks') = Slots
        /\ Cardinality(reserved') <= Slots
    BY <2>1, <2>4, <2>5 DEF BooksOK
  <2> QED
    BY <2>1, <2>2, <2>3, <2>6, <2>7 DEF BooksOK
<1>16. CASE Tick
  <2>1. In(table', "running") = In(table, "running")
    BY <1>16, Aged DEF Tick
  <2>2. In(disk'.jobs, "running") = In(disk.jobs, "running")
    BY <1>16, Aged DEF Tick, Typed, JobsOK
  <2>3. Adopting = {} /\ Adopting' = {}
    BY <1>16 DEF Tick, ControlOK, Adopting
  <2> QED
    BY <1>16, <2>1, <2>2, <2>3, BooksSame DEF Tick, ControlOK
<1>17. CASE Submit
  <2>1. nextId \in Ids \ DOMAIN table
    BY <1>17, SoundWith DEF Submit, ControlOK, UpOK
  <2>2. In(table', "running") = In(table, "running")
    BY <1>17, <2>1, Joined DEF Submit
  <2>3. Adopting = {} /\ Adopting' = {}
    BY <1>17 DEF Submit, ControlOK, Adopting
  <2> QED
    BY <1>17, <2>2, <2>3, BooksSame DEF Submit, ControlOK
<1>18. ASSUME NEW j \in Ids, KillQueued(j) PROVE BooksOK'
  <2>1. In(table', "running") = In(table, "running")
    BY <1>18, KillQueuedTouches, NewState DEF In
  <2> QED
    BY <1>18, <2>1, BooksSame DEF KillQueued, BeginFinalize, ControlOK, Finalizing, Adopting, files
<1>19. ASSUME NEW j \in Ids, KillRunning(j) PROVE BooksOK'
  <2>1. In(table', "running") = In(table, "running")
    BY <1>19, KillRunningTouches, SameStates DEF In
  <2> QED
    BY <1>19, <2>1, BooksSame DEF KillRunning, ControlOK, Finalizing, Adopting, files
<1>20. CASE Crash
  BY <1>20, BooksDown DEF Crash, Down, files
<1>21. CASE SaveFails
  <2>1. phase # "down" /\ picks = {} /\ (cause \in {"submit", "kill", "tick"} => Adopting = {})
    BY <1>21 DEF SaveFails, ControlOK, Finalizing, Adopting
  <2>2. CASE phase' = "down"
    BY <1>21, <2>1, <2>2, BooksDown DEF SaveFails, Abort, Rest, Down, files
  <2>3. CASE phase' # "down"
    BY <1>21, <2>1, <2>3, BooksSame DEF SaveFails, Abort, Rest, Down, Adopting, books, files
  <2> QED
    BY <2>2, <2>3
<1>22. CASE CopyFails
  <2>1. In(table', "running") = In(table, "running")
    BY <1>22, CopyFailsTouches, SameStates DEF In
  <2> QED
    BY <1>22, <2>1, BooksSame DEF CopyFails, ControlOK, Finalizing, Adopting, files
<1>23. CASE ForkFails
  <2>1. phase # "down" /\ picks = {} /\ (cause \in {"submit", "kill", "tick"} => Adopting = {})
    BY <1>23 DEF ForkFails, ControlOK, Finalizing, Adopting, Mishap
  <2>2. CASE phase' = "down"
    BY <1>23, <2>1, <2>2, BooksDown DEF ForkFails, Abort, Rest, Down, files
  <2>3. CASE phase' # "down"
    BY <1>23, <2>1, <2>3, BooksSame DEF ForkFails, Abort, Rest, Down, Adopting, books, files
  <2> QED
    BY <2>2, <2>3
<1>24. ASSUME NEW why \in {"stop", "reload"}, Shutdown(why) PROVE BooksOK'
  BY <1>24, BooksSame DEF Shutdown, Mishap, ControlOK, Finalizing, Adopting, control, books,
     files, history
<1>25. ASSUME NEW j \in Ids, StartFails(j) PROVE BooksOK'
  <2>1. /\ phase = "start" /\ look = {} /\ phase' # "down" /\ look' = {}
        /\ picks' = picks \ {j} /\ free' = AtMost(free + 1, Slots)
        /\ UNCHANGED << reserved, disk >>
    BY <1>25 DEF StartFails, BeginFinalize, ControlOK, Finalizing
  <2>2. In(table', "running") = In(table, "running")
    BY <1>25, StartFailsTouches, NewState DEF In
  <2>3. Cardinality(picks \ {j}) = Cardinality(picks) - 1 /\ Cardinality(picks) >= 1
    BY <1>25, StartFailsTouches, TakeOne
  <2>4. free' = free + 1
    BY <2>1, <2>3 DEF BooksOK, AtMost
  <2> QED
    BY <2>1, <2>2, <2>3, <2>4 DEF BooksOK, Adopting
<1>26. ASSUME NEW r \in Runs, Exit(r) PROVE BooksOK'
  BY <1>26 DEF Exit, BooksOK, Adopting, control, books, files
<1>27. ASSUME NEW r \in Runs, PidReused(r) PROVE BooksOK'
  BY <1>27 DEF PidReused, BooksOK, Adopting, control, books, files
<1>28. ASSUME NEW j \in Ids, StrayGone(j) PROVE BooksOK'
  BY <1>28 DEF StrayGone, BooksOK, Adopting, control, books, files
<1>29. CASE UNCHANGED vars
  BY <1>29 DEF vars, BooksOK, Adopting, control, books, files
<1> QED
  BY <1>1, <1>2, <1>3, <1>4, <1>5, <1>6, <1>7, <1>8, <1>9, <1>10, <1>11, <1>12, <1>13, <1>14,
     <1>15, <1>16, <1>17, <1>18, <1>19, <1>20, <1>21, <1>22, <1>23, <1>24, <1>25, <1>26, <1>27,
     <1>28, <1>29 DEF Next, Work, Request, Failure, Kernel

-----------------------------------------------------------------------------
(***************************************************************************)
(* The processes.                                                          *)
(***************************************************************************)
\* every process there is belongs to a running job of t that records it
Owned(t, l, jo) ==
  \A r \in Runs : l[r] \in {"alive", "dying", "zombie"} =>
     jo[r] \in In(t, "running") /\ t[jo[r]].run = r

\* while the daemon is up the table knows every process, and until it has read
\* the state file that does
OwnersOK ==
  /\ phase # "down" => Owned(table, leader, jobOf)
  /\ phase = "down" \/ "load" \in {phase, back} => Owned(disk.jobs, leader, jobOf)

\* no process that was over comes back, and none changes its job
Dwindles(l, jo, l2, jo2) ==
  \A r \in Runs : l2[r] \in {"alive", "dying", "zombie"} =>
     l[r] \in {"alive", "dying", "zombie"} /\ jo2[r] = jo[r]

\* processes stay known while they end and running jobs stay running
LEMMA OwnedStays ==
  ASSUME NEW t, NEW u, NEW l, NEW jo, NEW l2, NEW jo2,
         Owned(t, l, jo), Dwindles(l, jo, l2, jo2),
         \A k \in In(t, "running") : k \in In(u, "running") /\ u[k].run = t[k].run
  PROVE  Owned(u, l2, jo2)
  BY DEF Owned, Dwindles

\* an entry that changes otherwise leaves the running jobs running
LEMMA OwnedAlters ==
  ASSUME NEW t, NEW u, NEW j \in DOMAIN t, Alters(t, u, j),
         t[j].state = "running" => u[j].state = "running" /\ u[j].run = t[j].run
  PROVE  \A k \in In(t, "running") : k \in In(u, "running") /\ u[k].run = t[k].run
  BY DEF Alters, In

\* only a start adds a process
LEMMA DwindlesStep ==
  ASSUME MiscOK, [Next]_vars, \A j \in Ids, r \in Runs : ~Start(j, r)
  PROVE  Dwindles(leader, jobOf, leader', jobOf')
<1>1. CASE Boot
  BY <1>1 DEF Boot, Dwindles, MiscOK, Alive, books, kernel
<1>2. CASE Prune
  BY <1>2 DEF Prune, Dwindles, MiscOK, Alive, books, kernel
<1>3. CASE Sweep
  BY <1>3 DEF Sweep, Killed, Swept, Dwindles, MiscOK, Alive, books, kernel
<1>4. CASE Plan
  BY <1>4 DEF Plan, Started, Dwindles, MiscOK, Alive, books, kernel
<1>5. CASE OpenCopy
  BY <1>5 DEF OpenCopy, Dwindles, MiscOK, Alive, books, kernel
<1>6. CASE CopyDone
  BY <1>6 DEF CopyDone, Dwindles, MiscOK, Alive, books, kernel
<1>7. CASE Retire
  BY <1>7 DEF Retire, Dwindles, MiscOK, Alive, books, kernel
<1>8. CASE Save
  BY <1>8 DEF Save, Rest, Down, Dwindles, MiscOK, Alive, books, kernel
<1>9. ASSUME NEW j \in Ids, LookOn(j) PROVE Dwindles(leader, jobOf, leader', jobOf')
  BY <1>9 DEF LookOn, Probing, Dwindles, MiscOK, Alive, books, kernel
<1>10. ASSUME NEW j \in Ids, TimeOut(j) PROVE Dwindles(leader, jobOf, leader', jobOf')
  BY <1>10 DEF TimeOut, Probing, Dwindles, MiscOK, Alive, books, kernel
<1>11. ASSUME NEW j \in Ids, HardKill(j) PROVE Dwindles(leader, jobOf, leader', jobOf')
  BY <1>11 DEF HardKill, Probing, Killed, Swept, Dwindles, MiscOK, Alive, books, kernel
<1>12. ASSUME NEW j \in Ids, FindDead(j) PROVE Dwindles(leader, jobOf, leader', jobOf')
  BY <1>12 DEF FindDead, Probing, BeginFinalize, GiveBack, RemoveCgroup, Killed, Swept,
     Dwindles, MiscOK, Alive, books, kernel
<1>13. ASSUME NEW j \in Ids, Adopt(j) PROVE Dwindles(leader, jobOf, leader', jobOf')
  BY <1>13 DEF Adopt, Dwindles, MiscOK, Alive, books, kernel
<1>14. ASSUME NEW j \in Ids, FindLost(j) PROVE Dwindles(leader, jobOf, leader', jobOf')
  BY <1>14 DEF FindLost, BeginFinalize, GiveBack, RemoveCgroup, Killed, Swept, Dwindles, MiscOK,
     Alive, books, kernel
<1>15. ASSUME NEW j \in Ids, NEW r \in Runs, Start(j, r)
       PROVE  Dwindles(leader, jobOf, leader', jobOf')
  BY <1>15
<1>16. CASE Tick
  BY <1>16 DEF Tick, Dwindles, MiscOK, Alive, books, kernel
<1>17. CASE Submit
  BY <1>17 DEF Submit, Dwindles, MiscOK, Alive, books, kernel
<1>18. ASSUME NEW j \in Ids, KillQueued(j) PROVE Dwindles(leader, jobOf, leader', jobOf')
  BY <1>18 DEF KillQueued, BeginFinalize, Dwindles, MiscOK, Alive, books, kernel
<1>19. ASSUME NEW j \in Ids, KillRunning(j) PROVE Dwindles(leader, jobOf, leader', jobOf')
  BY <1>19 DEF KillRunning, Dwindles, MiscOK, Alive, books, kernel
<1>20. CASE Crash
  BY <1>20 DEF Crash, Down, Mishap, Dwindles, MiscOK, Alive, books, kernel
<1>21. CASE SaveFails
  BY <1>21 DEF SaveFails, Abort, Rest, Down, Mishap, Dwindles, MiscOK, Alive, books, kernel
<1>22. CASE CopyFails
  BY <1>22 DEF CopyFails, Mishap, Dwindles, MiscOK, Alive, books, kernel
<1>23. CASE ForkFails
  BY <1>23 DEF ForkFails, Abort, Rest, Down, Mishap, Dwindles, MiscOK, Alive, books, kernel
<1>24. ASSUME NEW why \in {"stop", "reload"}, Shutdown(why)
       PROVE  Dwindles(leader, jobOf, leader', jobOf')
  BY <1>24 DEF Shutdown, Mishap, Dwindles, MiscOK, Alive, books, kernel
<1>25. ASSUME NEW j \in Ids, StartFails(j) PROVE Dwindles(leader, jobOf, leader', jobOf')
  BY <1>25 DEF StartFails, Mishap, BeginFinalize, Started, Dwindles, MiscOK, Alive, books, kernel
<1>26. ASSUME NEW r \in Runs, Exit(r) PROVE Dwindles(leader, jobOf, leader', jobOf')
  BY <1>26 DEF Exit, Dwindles, MiscOK, Alive, books, kernel
<1>27. ASSUME NEW r \in Runs, PidReused(r) PROVE Dwindles(leader, jobOf, leader', jobOf')
  BY <1>27 DEF PidReused, Dwindles, MiscOK, Alive, books, kernel
<1>28. ASSUME NEW j \in Ids, StrayGone(j) PROVE Dwindles(leader, jobOf, leader', jobOf')
  BY <1>28 DEF StrayGone, Dwindles, MiscOK, Alive, books, kernel
<1>29. CASE UNCHANGED vars
  BY <1>29 DEF vars, control, books, files, kernel, history, Dwindles, MiscOK, Alive, books, kernel
<1> QED
  BY <1>1, <1>2, <1>3, <1>4, <1>5, <1>6, <1>7, <1>8, <1>9, <1>10, <1>11, <1>12, <1>13, <1>14,
     <1>15, <1>16, <1>17, <1>18, <1>19, <1>20, <1>21, <1>22, <1>23, <1>24, <1>25, <1>26, <1>27,
     <1>28, <1>29 DEF Next, Work, Request, Failure, Kernel

\* A start adds a process with the entry that knows it; a job leaves the
\* running ones only when its process was found dead; and the daemon ends only
\* after saving, unless it crashes.
LEMMA OwnersStep ==
  ASSUME ~({"start", "fork"} \subseteq Mishaps), {"crash", "save"} \cap Mishaps = {},
         Typed, ControlOK, phase # "down" => UpOK, OwnersOK, [Next]_vars
  PROVE  OwnersOK'
<1> USE DaemonAssumption
<1>a. CASE \E j \in Ids, r \in Runs : Start(j, r)
  <2> SUFFICES ASSUME NEW j \in Ids, NEW r \in Runs, Start(j, r) PROVE OwnersOK'
    BY <1>a
  <2>1. /\ phase = "start" /\ back = "none" /\ phase' \in {"start", "save"} /\ back' = "none"
        /\ leader' = [leader EXCEPT ![r] = "alive"] /\ jobOf' = [jobOf EXCEPT ![r] = j]
    BY DEF Start, Started, ControlOK, Finalizing
  <2>2. /\ table[j].state = "queued" /\ j \in DOMAIN table /\ Alters(table, table', j)
        /\ table'[j].state = "running" /\ table'[j].run = r
    BY StartTouches
  <2>3. \A q \in Runs \ {r} : leader'[q] = leader[q] /\ jobOf'[q] = jobOf[q]
    BY <2>1 DEF Typed, MiscOK
  <2>4. leader'[r] = "alive" /\ jobOf'[r] = j
    BY <2>1 DEF Typed, MiscOK
  <2>5. Owned(table, leader, jobOf)
    BY <2>1 DEF OwnersOK
  <2>6. Owned(table', leader', jobOf')
    BY <2>2, <2>3, <2>4, <2>5 DEF Owned, Alters, In
  <2> QED
    BY <2>1, <2>6 DEF OwnersOK
<1>b. CASE \A j \in Ids, r \in Runs : ~Start(j, r)
  <2> USE <1>b
  <2>d. Dwindles(leader, jobOf, leader', jobOf')
    BY DwindlesStep DEF Typed
  <2>1. CASE Boot
    <3>1. /\ table' = disk.jobs /\ UNCHANGED disk /\ phase' = "load"
          /\ Owned(disk.jobs, leader, jobOf)
      BY <2>1 DEF Boot, OwnersOK, files
    <3> QED
      BY <2>d, <3>1, OwnedStays DEF OwnersOK
  <2>2. CASE Prune
    <3>1. \A k \in In(table, "running") :
             k \in In(table', "running") /\ table'[k].run = table[k].run
      <4>1. table \in Tables /\ table' = Trim(table)
        BY <2>2 DEF Prune, Typed, JobsOK
      <4>2. /\ \A s : s # "done" => In(table', s) = In(table, s)
            /\ \A k \in DOMAIN table' : table'[k] = table[k]
        BY <4>1, Trimming
      <4>3. In(table', "running") = In(table, "running")
        BY <4>2
      <4> QED
        BY <4>2, <4>3 DEF In
    <3> QED
      BY <2>2, <2>d, <3>1, OwnedStays DEF OwnersOK, Prune, files, ControlOK, Finalizing
  <2>3. CASE Sweep
    BY <2>3, <2>d, OwnedStays DEF OwnersOK, Sweep, Killed, Swept, ControlOK, Finalizing,
       control, books, files
  <2>4. CASE Plan
    BY <2>4, <2>d, OwnedStays DEF OwnersOK, Plan, Started, ControlOK, Finalizing, control,
       books, files
  <2>5. CASE OpenCopy
    BY <2>5, <2>d, OwnedStays DEF OwnersOK, OpenCopy, ControlOK, Finalizing, control, books, files
  <2>6. CASE CopyDone
    BY <2>6, <2>d, OwnedStays DEF OwnersOK, CopyDone, ControlOK, Finalizing, control, books, files
  <2>7. CASE Retire
    <3>1. \A k \in In(table, "running") :
             k \in In(table', "running") /\ table'[k].run = table[k].run
      <4>1. table \in Tables /\ table' = Trim(table)
        BY <2>7 DEF Retire, Typed, JobsOK
      <4>2. /\ \A s : s # "done" => In(table', s) = In(table, s)
            /\ \A k \in DOMAIN table' : table'[k] = table[k]
        BY <4>1, Trimming
      <4>3. In(table', "running") = In(table, "running")
        BY <4>2
      <4> QED
        BY <4>2, <4>3 DEF In
    <3> QED
      BY <2>7, <2>d, <3>1, OwnedStays DEF OwnersOK, Retire, ControlOK, Finalizing
  <2>8. CASE Save
    <3>1. /\ phase = "save" /\ back = "none" /\ back' = "none" /\ Owned(table, leader, jobOf)
          /\ phase' = "down" => disk'.jobs = table
          /\ phase' # "down" => phase' = "idle" /\ UNCHANGED table
      BY <2>8 DEF Save, Rest, Down, ControlOK, Finalizing, OwnersOK
    <3>2. Owned(table, leader', jobOf')
      BY <2>d, <3>1, OwnedStays
    <3> QED
      BY <3>1, <3>2 DEF OwnersOK
  <2>9. ASSUME NEW j \in Ids, LookOn(j) PROVE OwnersOK'
    BY <2>9, <2>d, OwnedStays DEF OwnersOK, LookOn, Probing, ControlOK, Finalizing, control,
       books, files
  <2>10. ASSUME NEW j \in Ids, TimeOut(j) PROVE OwnersOK'
    <3>1. \A k \in In(table, "running") :
             k \in In(table', "running") /\ table'[k].run = table[k].run
      BY <2>10, TimeOutTouches, OwnedAlters
    <3>2. Owned(table, leader, jobOf) => Owned(table', leader', jobOf')
      BY <2>d, <3>1, OwnedStays
    <3>3. Owned(disk.jobs, leader, jobOf) => Owned(disk.jobs, leader', jobOf')
      BY <2>d, OwnedStays
    <3> QED
      BY <2>10, <3>2, <3>3 DEF OwnersOK, TimeOut, Probing, ControlOK, Finalizing, files
  <2>11. ASSUME NEW j \in Ids, HardKill(j) PROVE OwnersOK'
    <3>1. \A k \in In(table, "running") :
             k \in In(table', "running") /\ table'[k].run = table[k].run
      BY <2>11, HardKillTouches, OwnedAlters
    <3>2. Owned(table, leader, jobOf) => Owned(table', leader', jobOf')
      BY <2>d, <3>1, OwnedStays
    <3>3. Owned(disk.jobs, leader, jobOf) => Owned(disk.jobs, leader', jobOf')
      BY <2>d, OwnedStays
    <3> QED
      BY <2>11, <3>2, <3>3 DEF OwnersOK, HardKill, Probing, ControlOK, Finalizing, files
  <2>12. ASSUME NEW j \in Ids, FindDead(j) PROVE OwnersOK'
    <3>1. /\ j \in DOMAIN table /\ table[j].state = "running" /\ Alters(table, table', j)
          /\ phase # "down" /\ phase' = "copy" /\ back' = "look" /\ UNCHANGED disk
          /\ phase = "look"
      BY <2>12, FindDeadTouches DEF FindDead, Probing, BeginFinalize, ControlOK, Finalizing, files
    <3>2. leader'[table[j].run] \notin {"alive", "dying", "zombie"}
      <4>1. table[j].run \in Runs /\ leader[table[j].run] \notin {"alive", "dying"}
        BY <2>12, <3>1, RunKnown DEF FindDead, Probe, Alive, EntryOK
      <4>2. leader' = [Killed({j}) EXCEPT ![table[j].run] = IF @ = "zombie" THEN "gone" ELSE @]
        BY <2>12 DEF FindDead, RemoveCgroup
      <4> QED
        BY <4>1, <4>2 DEF Killed, Typed, MiscOK
    <3>3. Owned(table', leader', jobOf')
      BY <2>d, <3>1, <3>2 DEF OwnersOK, Owned, Dwindles, Alters, In
    <3>4. "load" \in {phase, back} => Owned(disk'.jobs, leader', jobOf')
      BY <2>d, <3>1, OwnedStays DEF OwnersOK
    <3> QED
      BY <3>1, <3>3, <3>4 DEF OwnersOK
  <2>13. ASSUME NEW j \in Ids, Adopt(j) PROVE OwnersOK'
    BY <2>13, <2>d, OwnedStays DEF OwnersOK, Adopt, ControlOK, Finalizing, control, books, files
  <2>14. ASSUME NEW j \in Ids, FindLost(j) PROVE OwnersOK'
    <3>1. /\ j \in DOMAIN table /\ table[j].state = "running" /\ Alters(table, table', j)
          /\ phase # "down" /\ phase' = "copy" /\ back' = "load" /\ UNCHANGED disk
          /\ phase = "load"
      BY <2>14, FindDeadTouches DEF FindLost, Probing, BeginFinalize, ControlOK, Finalizing, files
    <3>2. leader'[table[j].run] \notin {"alive", "dying", "zombie"}
      <4>1. table[j].run \in Runs /\ leader[table[j].run] \notin {"alive", "dying"}
        BY <2>14, <3>1, RunKnown DEF FindLost, Probe, Alive, EntryOK
      <4>2. leader' = [Killed({j}) EXCEPT ![table[j].run] = IF @ = "zombie" THEN "gone" ELSE @]
        BY <2>14 DEF FindLost, RemoveCgroup
      <4> QED
        BY <4>1, <4>2 DEF Killed, Typed, MiscOK
    <3>3. Owned(table', leader', jobOf')
      BY <2>d, <3>1, <3>2 DEF OwnersOK, Owned, Dwindles, Alters, In
    <3>4. "load" \in {phase, back} => Owned(disk'.jobs, leader', jobOf')
      BY <2>d, <3>1, OwnedStays DEF OwnersOK
    <3> QED
      BY <3>1, <3>3, <3>4 DEF OwnersOK
  <2>15. ASSUME NEW j \in Ids, NEW r \in Runs, Start(j, r) PROVE OwnersOK'
    BY <2>15
  <2>16. CASE Tick
    <3>1. \A k \in In(table, "running") :
             k \in In(table', "running") /\ table'[k].run = table[k].run
      BY <2>16, Aged DEF Tick, Typed, JobsOK, In
    <3> QED
      BY <2>16, <2>d, <3>1, OwnedStays DEF OwnersOK, Tick, ControlOK, Finalizing
  <2>17. CASE Submit
    <3>1. nextId \in Ids \ DOMAIN table /\ table \in Tables
      BY <2>17, SoundWith DEF Submit, ControlOK, UpOK, Typed, JobsOK
    <3>2. \A k \in In(table, "running") :
             k \in In(table', "running") /\ table'[k].run = table[k].run
      BY <2>17, <3>1 DEF Submit, With, In
    <3> QED
      BY <2>17, <2>d, <3>2, OwnedStays DEF OwnersOK, Submit, ControlOK, Finalizing
  <2>18. ASSUME NEW j \in Ids, KillQueued(j) PROVE OwnersOK'
    <3>1. \A k \in In(table, "running") :
             k \in In(table', "running") /\ table'[k].run = table[k].run
      BY <2>18, KillQueuedTouches, OwnedAlters
    <3> QED
      BY <2>18, <2>d, <3>1, OwnedStays DEF OwnersOK, KillQueued, BeginFinalize, ControlOK,
         Finalizing, files
  <2>19. ASSUME NEW j \in Ids, KillRunning(j) PROVE OwnersOK'
    <3>1. \A k \in In(table, "running") :
             k \in In(table', "running") /\ table'[k].run = table[k].run
      BY <2>19, KillRunningTouches, OwnedAlters
    <3>2. Owned(table, leader, jobOf) => Owned(table', leader', jobOf')
      BY <2>d, <3>1, OwnedStays
    <3>3. Owned(disk.jobs, leader, jobOf) => Owned(disk.jobs, leader', jobOf')
      BY <2>d, OwnedStays
    <3> QED
      BY <2>19, <3>2, <3>3 DEF OwnersOK, KillRunning, ControlOK, Finalizing, files
  <2>20. CASE Crash
    BY <2>20 DEF Crash, Mishap
  <2>21. CASE SaveFails
    BY <2>21 DEF SaveFails, Mishap
  <2>22. CASE CopyFails
    <3>1. \A k \in In(table, "running") :
             k \in In(table', "running") /\ table'[k].run = table[k].run
      BY <2>22, CopyFailsTouches, OwnedAlters
    <3> QED
      BY <2>22, <2>d, <3>1, OwnedStays DEF OwnersOK, CopyFails, ControlOK, Finalizing, files
  <2>23. CASE ForkFails
    <3>1. /\ Owned(table, leader, jobOf) /\ UNCHANGED disk /\ phase = "copy" /\ back' = "none"
          /\ phase' = "down" => back = "load"
          /\ phase' # "down" => UNCHANGED table /\ phase' # "load"
      BY <2>23 DEF ForkFails, Mishap, Abort, Rest, Down, ControlOK, Finalizing, OwnersOK,
         books, files
    <3>2. Owned(table, leader', jobOf') /\ (back = "load" => Owned(disk.jobs, leader', jobOf'))
      BY <2>d, <3>1, OwnedStays DEF OwnersOK
    <3> QED
      BY <3>1, <3>2 DEF OwnersOK
  <2>24. ASSUME NEW why \in {"stop", "reload"}, Shutdown(why) PROVE OwnersOK'
    BY <2>24, <2>d, OwnedStays DEF OwnersOK, Shutdown, Mishap, ControlOK, Finalizing, control,
       books, files
  <2>25. ASSUME NEW j \in Ids, StartFails(j) PROVE OwnersOK'
    <3>1. \A k \in In(table, "running") :
             k \in In(table', "running") /\ table'[k].run = table[k].run
      BY <2>25, StartFailsTouches, OwnedAlters
    <3>2. /\ phase = "start" /\ phase' = "copy" /\ back' \in {"start", "save"}
          /\ UNCHANGED disk
      BY <2>25 DEF StartFails, BeginFinalize, Started
    <3>3. Owned(table', leader', jobOf')
      BY <2>d, <3>1, <3>2, OwnedStays DEF OwnersOK
    <3> QED
      BY <3>2, <3>3 DEF OwnersOK
  <2>26. ASSUME NEW r \in Runs, Exit(r) PROVE OwnersOK'
    BY <2>26, <2>d, OwnedStays DEF OwnersOK, Exit, ControlOK, Finalizing, control, books, files
  <2>27. ASSUME NEW r \in Runs, PidReused(r) PROVE OwnersOK'
    BY <2>27, <2>d, OwnedStays DEF OwnersOK, PidReused, ControlOK, Finalizing, control, books,
       files
  <2>28. ASSUME NEW j \in Ids, StrayGone(j) PROVE OwnersOK'
    BY <2>28, <2>d, OwnedStays DEF OwnersOK, StrayGone, ControlOK, Finalizing, control, books,
       files
  <2>29. CASE UNCHANGED vars
    BY <2>29, <2>d, OwnedStays DEF OwnersOK, vars, control, books, files
  <2> QED
    BY <2>1, <2>2, <2>3, <2>4, <2>5, <2>6, <2>7, <2>8, <2>9, <2>10, <2>11, <2>12, <2>13, <2>14,
       <2>15, <2>16, <2>17, <2>18, <2>19, <2>20, <2>21, <2>22, <2>23, <2>24, <2>25, <2>26, <2>27,
       <2>28, <2>29 DEF Next, Work, Request, Failure, Kernel
<1> QED
  BY <1>a, <1>b

\* what the step lemmas need of IInv
LEMMA InvParts == IInv => Typed /\ ControlOK /\ (phase # "down" => UpOK)
  BY Parts DEF IInv, Typed

(***************************************************************************)
(* The pool's books and the job table agree: no slot is given back twice by *)
(* _try_start and _finalize, lost, or not taken again at adoption, over    *)
(* crashes, failed writes and failed starts.  Not when a start fails and no *)
(* process is to be had for the copy of its output either.                 *)
(***************************************************************************)
THEOREM BooksAgree ==
  ASSUME ~({"start", "fork"} \subseteq Mishaps)
  PROVE  Spec => []BooksMatch
<1>1. Init => BooksOK
  BY EmptyTableType, FS_EmptySet, DaemonAssumption DEF Init, BooksOK
<1>2. IInv /\ BooksOK /\ [Next]_vars => BooksOK'
  BY InvParts, BooksStep
<1>3. IInv /\ BooksOK => BooksMatch
  BY DEF IInv, ControlOK, BooksOK, Adopting, BooksMatch
<1> QED
  BY <1>1, <1>2, <1>3, Invariance, PTL DEF Spec

(***************************************************************************)
(* Between handlers every process there is belongs to a running job that   *)
(* records it: over reloads, stops and failed starts none runs on after its *)
(* job is done, or beside another one of the same job.                     *)
(***************************************************************************)
THEOREM NoneOrphaned ==
  ASSUME ~({"start", "fork"} \subseteq Mishaps), {"crash", "save"} \cap Mishaps = {}
  PROVE  Spec => []NoOrphan
<1>1. Init => OwnersOK
  BY DEF Init, OwnersOK, Owned
<1>2. IInv /\ OwnersOK /\ [Next]_vars => OwnersOK'
  BY InvParts, OwnersStep
<1>3. IInv /\ OwnersOK => NoOrphan
  BY DEF OwnersOK, Owned, NoOrphan
<1> QED
  BY <1>1, <1>2, <1>3, Invariance, PTL DEF Spec

-----------------------------------------------------------------------------
(***************************************************************************)
(* The output.                                                             *)
(***************************************************************************)
\* a job that is done in the state file d is done in the table t, and not being
\* finalized; one that was started in d was started in t
Ahead(d, t, x) ==
  \A j \in DOMAIN d \cap DOMAIN t :
    /\ d[j].state = "done" => t[j].state = "done" /\ j # x
    /\ d[j].run # Off => t[j].run # Off

\* the table is ahead of the state file in this too
AheadOK == phase # "down" => Ahead(disk.jobs, table, cur)

\* an entry that goes on in its life keeps the table ahead
LEMMA AheadAlters ==
  ASSUME NEW d, NEW t, NEW u, NEW x, NEW y, NEW j \in DOMAIN t, Alters(t, u, j), Ahead(d, t, x),
         t[j].state = "done" => u[j].state = "done",
         t[j].run # Off => u[j].run # Off,
         y = x \/ (y = j /\ t[j].state # "done")
  PROVE  Ahead(d, u, y)
  BY DEF Ahead, Alters

\* ... so does forgetting finished jobs
LEMMA AheadTrim ==
  ASSUME NEW d, NEW t \in Tables, NEW x, Ahead(d, t, x)
  PROVE  Ahead(d, Trim(t), x)
  BY Trimming DEF Ahead

\* ... and going on with no job being finalized; a table is not behind itself
LEMMA AheadOff ==
  ASSUME NEW d \in Tables, NEW t, NEW x
  PROVE  /\ Ahead(d, t, x) => Ahead(d, t, Off)
         /\ Ahead(d, d, Off)
<1>1. Off \notin DOMAIN d
  BY TableType DEF Ids, Off
<1> QED
  BY <1>1 DEF Ahead

\* no step puts the table behind
LEMMA AheadStep ==
  ASSUME Typed, ControlOK, DiskOK, phase # "down" => UpOK, AheadOK, [Next]_vars
  PROVE  AheadOK'
<1> USE DaemonAssumption
<1>d. disk.jobs \in Tables /\ table \in Tables
  BY DEF Typed, JobsOK
<1>1. CASE Boot
  <2>1. table' = disk.jobs /\ UNCHANGED disk /\ cur' = Off
    BY <1>1 DEF Boot, ControlOK, Finalizing, files
  <2> QED
    BY <1>d, <2>1, AheadOff DEF AheadOK
<1>2. CASE Prune
  <2>1. table' = Trim(table) /\ UNCHANGED << disk, cur >> /\ phase # "down"
    BY <1>2 DEF Prune
  <2> QED
    BY <1>d, <2>1, AheadTrim DEF AheadOK
<1>3. CASE Sweep
  BY <1>3 DEF Sweep, Killed, Swept, AheadOK, ControlOK, Finalizing, books, files
<1>4. CASE Plan
  BY <1>4 DEF Plan, Started, AheadOK, ControlOK, Finalizing, books, files
<1>5. CASE OpenCopy
  BY <1>5 DEF OpenCopy, AheadOK, ControlOK, Finalizing, books, files
<1>6. CASE CopyDone
  BY <1>6 DEF CopyDone, AheadOK, ControlOK, Finalizing, books, files
<1>7. CASE Retire
  <2>1. table' = Trim(table) /\ UNCHANGED disk /\ cur' = Off /\ phase # "down"
    BY <1>7 DEF Retire
  <2> QED
    BY <1>d, <2>1, AheadTrim, AheadOff DEF AheadOK
<1>8. CASE Save
  <2>1. /\ phase # "down" /\ cur = Off
        /\ phase' # "down" => cur' = Off /\ UNCHANGED table /\ disk'.jobs \in {disk.jobs, table}
    BY <1>8 DEF Save, Rest, Down, ControlOK, Finalizing
  <2> QED
    BY <1>d, <2>1, AheadOff DEF AheadOK
<1>9. ASSUME NEW j \in Ids, LookOn(j) PROVE AheadOK'
  BY <1>9 DEF LookOn, Probing, AheadOK, ControlOK, Finalizing, books, files
<1>10. ASSUME NEW j \in Ids, TimeOut(j) PROVE AheadOK'
  <2>1. /\ UNCHANGED disk /\ UNCHANGED cur /\ phase # "down" /\ Ahead(disk.jobs, table, cur)
    BY <1>10 DEF TimeOut, Probing, ControlOK, Finalizing, AheadOK, files
  <2> QED
    BY <1>10, <2>1, TimeOutTouches, AheadAlters DEF AheadOK
<1>11. ASSUME NEW j \in Ids, HardKill(j) PROVE AheadOK'
  <2>1. /\ UNCHANGED disk /\ UNCHANGED cur /\ phase # "down" /\ Ahead(disk.jobs, table, cur)
    BY <1>11 DEF HardKill, Probing, ControlOK, Finalizing, AheadOK, files
  <2> QED
    BY <1>11, <2>1, HardKillTouches, AheadAlters DEF AheadOK
<1>12. ASSUME NEW j \in Ids, FindDead(j) PROVE AheadOK'
  <2>1. /\ UNCHANGED disk /\ cur' = j /\ phase # "down" /\ Ahead(disk.jobs, table, cur)
    BY <1>12 DEF FindDead, BeginFinalize, Probing, ControlOK, Finalizing, AheadOK, files
  <2> QED
    BY <1>12, <2>1, FindDeadTouches, AheadAlters DEF AheadOK
<1>13. ASSUME NEW j \in Ids, Adopt(j) PROVE AheadOK'
  BY <1>13 DEF Adopt, AheadOK, ControlOK, Finalizing, books, files
<1>14. ASSUME NEW j \in Ids, FindLost(j) PROVE AheadOK'
  <2>1. /\ UNCHANGED disk /\ cur' = j /\ phase # "down" /\ Ahead(disk.jobs, table, cur)
    BY <1>14 DEF FindLost, BeginFinalize, ControlOK, Finalizing, AheadOK, files
  <2> QED
    BY <1>14, <2>1, FindDeadTouches, AheadAlters DEF AheadOK
<1>15. ASSUME NEW j \in Ids, NEW r \in Runs, Start(j, r) PROVE AheadOK'
  <2>1. /\ UNCHANGED << disk, cur >> /\ phase # "down" /\ Ahead(disk.jobs, table, cur) /\ r # Off
    BY <1>15 DEF Start, AheadOK, Runs, Off
  <2> QED
    BY <1>15, <2>1, StartTouches, AheadAlters DEF AheadOK
<1>16. CASE Tick
  <2>1. /\ table' = Older(table) /\ disk'.jobs = Older(disk.jobs) /\ UNCHANGED cur
        /\ phase # "down"
    BY <1>16 DEF Tick, Typed, JobsOK
  <2>2. Ahead(disk.jobs, table, cur)
    BY <2>1 DEF AheadOK
  <2>3. Ahead(Older(disk.jobs), Older(table), cur)
    BY <1>d, <2>2, Aged DEF Ahead
  <2> QED
    BY <2>1, <2>3 DEF AheadOK
<1>17. CASE Submit
  <2>1. /\ nextId \in Ids \ DOMAIN table /\ nextId \notin DOMAIN disk.jobs
    <3>1. nextId \in Ids /\ UpOK
      BY <1>17 DEF Submit
    <3>2. nextId \notin DOMAIN table
      BY <1>d, <3>1, SoundWith DEF UpOK
    <3>3. disk.next <= nextId /\ DOMAIN disk.jobs \subseteq 1..(disk.next - 1)
      BY <3>1 DEF UpOK, Precedes, DiskOK, Sound
    <3>4. disk.next \in Int /\ nextId \in Int
      BY <3>1 DEF Typed, JobsOK
    <3> QED
      BY <3>1, <3>2, <3>3, <3>4
  <2>2. table' = With(table, nextId) /\ UNCHANGED << disk, cur >> /\ Ahead(disk.jobs, table, cur)
    BY <1>17 DEF Submit, AheadOK, files
  <2>3. /\ DOMAIN table' = DOMAIN table \cup {nextId}
        /\ \A k \in DOMAIN table : table'[k] = table[k]
    <3>1. table \in Tables /\ nextId \in Ids \ DOMAIN table
      BY <1>d, <2>1
    <3>2. /\ DOMAIN With(table, nextId) = DOMAIN table \cup {nextId}
          /\ With(table, nextId)[nextId] = NewJob
          /\ \A k \in DOMAIN table : With(table, nextId)[k] = table[k]
      BY <3>1, Joined
    <3> QED
      BY <2>2, <3>2
  <2>4. Ahead(disk.jobs, table', cur)
    BY <2>1, <2>2, <2>3 DEF Ahead
  <2> QED
    BY <2>2, <2>4 DEF AheadOK
<1>18. ASSUME NEW j \in Ids, KillQueued(j) PROVE AheadOK'
  <2>1. /\ UNCHANGED disk /\ cur' = j /\ phase # "down" /\ Ahead(disk.jobs, table, cur)
    BY <1>18 DEF KillQueued, BeginFinalize, ControlOK, Finalizing, AheadOK, files
  <2> QED
    BY <1>18, <2>1, KillQueuedTouches, AheadAlters DEF AheadOK
<1>19. ASSUME NEW j \in Ids, KillRunning(j) PROVE AheadOK'
  <2>1. /\ UNCHANGED disk /\ UNCHANGED cur /\ phase # "down" /\ Ahead(disk.jobs, table, cur)
    BY <1>19 DEF KillRunning, ControlOK, Finalizing, AheadOK, files
  <2> QED
    BY <1>19, <2>1, KillRunningTouches, AheadAlters DEF AheadOK
<1>20. CASE Crash
  BY <1>20 DEF Crash, Down, Mishap, AheadOK, ControlOK, Finalizing, books, files
<1>21. CASE SaveFails
  <2>1. /\ phase # "down" /\ cur = Off /\ UNCHANGED disk
        /\ phase' # "down" => cur' = Off /\ UNCHANGED table
    BY <1>21 DEF SaveFails, Mishap, Abort, Rest, Down, ControlOK, Finalizing, books, files
  <2> QED
    BY <2>1 DEF AheadOK
<1>22. CASE CopyFails
  <2>1. /\ UNCHANGED disk /\ UNCHANGED cur /\ phase # "down" /\ Ahead(disk.jobs, table, cur)
    BY <1>22 DEF CopyFails, ControlOK, Finalizing, AheadOK, files
  <2> QED
    BY <1>22, <2>1, CopyFailsTouches, AheadAlters DEF AheadOK
<1>23. CASE ForkFails
  <2>1. /\ phase # "down" /\ UNCHANGED disk
        /\ phase' # "down" => cur' = Off /\ UNCHANGED table
    BY <1>23 DEF ForkFails, Mishap, Abort, Rest, Down, ControlOK, Finalizing, books, files
  <2> QED
    BY <1>d, <2>1, AheadOff DEF AheadOK
<1>24. ASSUME NEW why \in {"stop", "reload"}, Shutdown(why) PROVE AheadOK'
  BY <1>24 DEF Shutdown, Mishap, AheadOK, ControlOK, Finalizing, books, files
<1>25. ASSUME NEW j \in Ids, StartFails(j) PROVE AheadOK'
  <2>1. /\ UNCHANGED disk /\ cur' = j /\ phase # "down" /\ Ahead(disk.jobs, table, cur)
    BY <1>25 DEF StartFails, BeginFinalize, ControlOK, Finalizing, AheadOK, files
  <2> QED
    BY <1>25, <2>1, StartFailsTouches, AheadAlters DEF AheadOK
<1>26. ASSUME NEW r \in Runs, Exit(r) PROVE AheadOK'
  <2>1. UNCHANGED << phase, disk, table, cur >>
    BY <1>26 DEF Exit, control, books, files
  <2> QED
    BY <2>1 DEF AheadOK
<1>27. ASSUME NEW r \in Runs, PidReused(r) PROVE AheadOK'
  <2>1. UNCHANGED << phase, disk, table, cur >>
    BY <1>27 DEF PidReused, control, books, files
  <2> QED
    BY <2>1 DEF AheadOK
<1>28. ASSUME NEW j \in Ids, StrayGone(j) PROVE AheadOK'
  <2>1. UNCHANGED << phase, disk, table, cur >>
    BY <1>28 DEF StrayGone, control, books, files
  <2> QED
    BY <2>1 DEF AheadOK
<1>29. CASE UNCHANGED vars
  BY <1>29 DEF vars, AheadOK, control, books, files
<1> QED
  BY <1>1, <1>2, <1>3, <1>4, <1>5, <1>6, <1>7, <1>8, <1>9, <1>10, <1>11, <1>12, <1>13, <1>14,
     <1>15, <1>16, <1>17, <1>18, <1>19, <1>20, <1>21, <1>22, <1>23, <1>24, <1>25, <1>26, <1>27,
     <1>28, <1>29 DEF Next, Work, Request, Failure, Kernel

-----------------------------------------------------------------------------
\* the output of a finished job is owed to its destination
Due(e)        == e.run # Off \/ e.reason = "error"
\* it is there, or the failure is on record and our copy, which i says is there, was kept
Safe(e, i, c) == c = "full" \/ (e.undelivered /\ i)

\* our copy is there while the job runs, unless an earlier daemon delivered it all
Settled(e, i, c) ==
  /\ e.state = "running" => i \/ c = "full"
  /\ e.state = "done" /\ Due(e) => Safe(e, i, c)

\* the output of every job in t but x is where it should be
Held(t, b, c, x) == \A j \in (DOMAIN t \cap Wanted) \ {x} : Settled(t[j], j \in b, c[j])
\* no job in t has its delivery recorded as failed
Sent(t)          == \A j \in DOMAIN t : ~t[j].undelivered

\* of the jobs that are not being finalized
TableHeld == phase # "down" => Held(table, buf, copy, cur)
\* of the job that is: our copy is there until the destination has it all
CurHeld ==
  cur \in Wanted =>
    /\ phase = "copy" /\ Due(table[cur]) => cur \in buf \/ copy[cur] = "full"
    /\ phase = "copying" => cur \in buf
    /\ phase = "retire" => Safe(table[cur], cur \in buf, copy[cur])
\* of the jobs that another daemon would find
DiskHeld == phase = "down" \/ "copy" \notin Mishaps => Held(disk.jobs, buf, copy, Off)
\* where deliveries cannot fail no failure is on record
AllSent  == "copy" \notin Mishaps => Sent(table) /\ Sent(disk.jobs)

\* the invariant of the output, with AheadOK
OutputOK == TableHeld /\ CurHeld /\ DiskHeld /\ AllSent

\* only CopyFails records a failure
LEMMA SentStep ==
  ASSUME Typed, ControlOK, phase # "down" => UpOK, AllSent, [Next]_vars
  PROVE  AllSent'
<1> USE DaemonAssumption
<1>d. /\ disk.jobs \in Tables /\ table \in Tables
      /\ \A j \in DOMAIN EmptyTable : FALSE
  BY EmptyTableType DEF Typed, JobsOK, EmptyTable
<1>1. CASE Boot
  BY <1>1 DEF Boot, AllSent, ControlOK, Finalizing, books, files
<1>2. CASE Prune
  <2>1. table' = Trim(table) /\ UNCHANGED disk
    BY <1>2 DEF Prune
  <2> QED
    BY <1>d, <2>1, Trimming DEF AllSent, Sent
<1>3. CASE Sweep
  BY <1>3 DEF Sweep, Killed, Swept, AllSent, ControlOK, Finalizing, books, files
<1>4. CASE Plan
  BY <1>4 DEF Plan, Started, AllSent, ControlOK, Finalizing, books, files
<1>5. CASE OpenCopy
  BY <1>5 DEF OpenCopy, AllSent, ControlOK, Finalizing, books, files
<1>6. CASE CopyDone
  BY <1>6 DEF CopyDone, AllSent, ControlOK, Finalizing, books, files
<1>7. CASE Retire
  <2>1. table' = Trim(table) /\ UNCHANGED disk
    BY <1>7 DEF Retire
  <2> QED
    BY <1>d, <2>1, Trimming DEF AllSent, Sent
<1>8. CASE Save
  <2>1. table' \in {table, EmptyTable} /\ disk'.jobs \in {disk.jobs, table}
    BY <1>8 DEF Save, Rest, Down
  <2> QED
    BY <1>d, <2>1 DEF AllSent, Sent
<1>9. ASSUME NEW j \in Ids, LookOn(j) PROVE AllSent'
  BY <1>9 DEF LookOn, Probing, AllSent, ControlOK, Finalizing, books, files
<1>10. ASSUME NEW j \in Ids, TimeOut(j) PROVE AllSent'
  <2>1. UNCHANGED disk
    BY <1>10 DEF TimeOut, files
  <2> QED
    BY <1>10, <2>1, TimeOutTouches DEF AllSent, Sent, Alters
<1>11. ASSUME NEW j \in Ids, HardKill(j) PROVE AllSent'
  <2>1. UNCHANGED disk
    BY <1>11 DEF HardKill, files
  <2> QED
    BY <1>11, <2>1, HardKillTouches DEF AllSent, Sent, Alters
<1>12. ASSUME NEW j \in Ids, FindDead(j) PROVE AllSent'
  <2>1. UNCHANGED disk
    BY <1>12 DEF FindDead, files
  <2> QED
    BY <1>12, <2>1, FindDeadTouches DEF AllSent, Sent, Alters
<1>13. ASSUME NEW j \in Ids, Adopt(j) PROVE AllSent'
  BY <1>13 DEF Adopt, AllSent, ControlOK, Finalizing, books, files
<1>14. ASSUME NEW j \in Ids, FindLost(j) PROVE AllSent'
  <2>1. UNCHANGED disk
    BY <1>14 DEF FindLost, files
  <2> QED
    BY <1>14, <2>1, FindDeadTouches DEF AllSent, Sent, Alters
<1>15. ASSUME NEW j \in Ids, NEW r \in Runs, Start(j, r) PROVE AllSent'
  <2>1. UNCHANGED disk
    BY <1>15 DEF Start, files
  <2> QED
    BY <1>15, <2>1, StartTouches DEF AllSent, Sent, Alters
<1>16. CASE Tick
  <2>1. table' = Older(table) /\ disk'.jobs = Older(disk.jobs)
    BY <1>16 DEF Tick, Typed, JobsOK
  <2> QED
    BY <1>d, <2>1, Aged DEF AllSent, Sent
<1>17. CASE Submit
  <2>1. nextId \in Ids \ DOMAIN table
    BY <1>17, SoundWith, <1>d DEF Submit, ControlOK, UpOK
  <2>2. table' = With(table, nextId) /\ UNCHANGED disk
    BY <1>17 DEF Submit
  <2>3. DOMAIN table' = DOMAIN table \cup {nextId} /\ table'[nextId] = NewJob
        /\ \A k \in DOMAIN table : table'[k] = table[k]
    <3>1. table \in Tables /\ nextId \in Ids \ DOMAIN table
      BY <1>d, <2>1
    <3>2. /\ DOMAIN With(table, nextId) = DOMAIN table \cup {nextId}
          /\ With(table, nextId)[nextId] = NewJob
          /\ \A k \in DOMAIN table : With(table, nextId)[k] = table[k]
      BY <3>1, Joined
    <3> QED
      BY <2>2, <3>2
  <2> QED
    BY <2>2, <2>3 DEF AllSent, Sent, NewJob
<1>18. ASSUME NEW j \in Ids, KillQueued(j) PROVE AllSent'
  <2>1. UNCHANGED disk
    BY <1>18 DEF KillQueued, files
  <2> QED
    BY <1>18, <2>1, KillQueuedTouches DEF AllSent, Sent, Alters
<1>19. ASSUME NEW j \in Ids, KillRunning(j) PROVE AllSent'
  <2>1. UNCHANGED disk
    BY <1>19 DEF KillRunning, files
  <2> QED
    BY <1>19, <2>1, KillRunningTouches DEF AllSent, Sent, Alters
<1>20. CASE Crash
  <2>1. table' \in {table, EmptyTable} /\ UNCHANGED disk
    BY <1>20 DEF Crash, Abort, Rest, Down, books, files
  <2> QED
    BY <1>d, <2>1 DEF AllSent, Sent
<1>21. CASE SaveFails
  <2>1. table' \in {table, EmptyTable} /\ UNCHANGED disk
    BY <1>21 DEF SaveFails, Abort, Rest, Down, books, files
  <2> QED
    BY <1>d, <2>1 DEF AllSent, Sent
<1>22. CASE CopyFails
  BY <1>22 DEF CopyFails, Mishap, AllSent
<1>23. CASE ForkFails
  <2>1. table' \in {table, EmptyTable} /\ UNCHANGED disk
    BY <1>23 DEF ForkFails, Abort, Rest, Down, books, files
  <2> QED
    BY <1>d, <2>1 DEF AllSent, Sent
<1>24. ASSUME NEW why \in {"stop", "reload"}, Shutdown(why) PROVE AllSent'
  BY <1>24 DEF Shutdown, Mishap, AllSent, ControlOK, Finalizing, books, files
<1>25. ASSUME NEW j \in Ids, StartFails(j) PROVE AllSent'
  <2>1. UNCHANGED disk
    BY <1>25 DEF StartFails, files
  <2> QED
    BY <1>25, <2>1, StartFailsTouches DEF AllSent, Sent, Alters
<1>26. ASSUME NEW r \in Runs, Exit(r) PROVE AllSent'
  <2>1. UNCHANGED << disk, table >>
    BY <1>26 DEF Exit, books, files
  <2> QED
    BY <2>1 DEF AllSent
<1>27. ASSUME NEW r \in Runs, PidReused(r) PROVE AllSent'
  <2>1. UNCHANGED << disk, table >>
    BY <1>27 DEF PidReused, books, files
  <2> QED
    BY <2>1 DEF AllSent
<1>28. ASSUME NEW j \in Ids, StrayGone(j) PROVE AllSent'
  <2>1. UNCHANGED << disk, table >>
    BY <1>28 DEF StrayGone, books, files
  <2> QED
    BY <2>1 DEF AllSent
<1>29. CASE UNCHANGED vars
  BY <1>29 DEF vars, AllSent, books, files
<1> QED
  BY <1>1, <1>2, <1>3, <1>4, <1>5, <1>6, <1>7, <1>8, <1>9, <1>10, <1>11, <1>12, <1>13, <1>14,
     <1>15, <1>16, <1>17, <1>18, <1>19, <1>20, <1>21, <1>22, <1>23, <1>24, <1>25, <1>26, <1>27,
     <1>28, <1>29 DEF Next, Work, Request, Failure, Kernel

\* a step that does not touch the output, nor begin to finalize
LEMMA HeldSame ==
  ASSUME TableHeld, CurHeld, DiskHeld, UNCHANGED << table, disk, buf, copy, cur >>,
         phase' = phase \/ (phase # "down" /\ phase' \notin {"down", "copy", "copying", "retire"})
  PROVE  TableHeld' /\ CurHeld' /\ DiskHeld'
  BY DEF TableHeld, CurHeld, DiskHeld


\* one entry of the table changes; what is held of the others stays
LEMMA HeldAlters ==
  ASSUME NEW t, NEW u, NEW b, NEW b2, NEW c, NEW x, NEW y, NEW j \in DOMAIN t, Alters(t, u, j),
         Held(t, b, c, x), b \subseteq b2, x \in {y, Off},
         j \in Wanted => y = j \/ Settled(u[j], j \in b2, c[j])
  PROVE  Held(u, b2, c, y)
<1>1. Off \notin Wanted
  BY DaemonAssumption DEF Ids, Off
<1>2. ASSUME NEW k \in (DOMAIN u \cap Wanted) \ {y} PROVE Settled(u[k], k \in b2, c[k])
  <2>1. CASE k = j
    BY <1>2, <2>1
  <2>2. CASE k # j
    <3>1. u[k] = t[k] /\ k \in (DOMAIN t \cap Wanted) \ {x}
      BY <1>1, <1>2, <2>2 DEF Alters
    <3>2. Settled(t[k], k \in b, c[k])
      BY <3>1 DEF Held
    <3> QED
      BY <3>1, <3>2 DEF Settled, Safe
  <2> QED
    BY <2>1, <2>2
<1> QED
  BY <1>2 DEF Held

\* more is in our directory and at the destinations
LEMMA HeldMore ==
  ASSUME NEW t, NEW b, NEW c, NEW b2, NEW c2, NEW x, Held(t, b, c, x), b \subseteq b2,
         \A j \in (DOMAIN t \cap Wanted) \ {x} : c[j] = "full" => c2[j] = "full"
  PROVE  Held(t, b2, c2, x)
  BY DEF Held, Settled, Safe

\* a tick passes
LEMMA HeldOlder ==
  ASSUME NEW t \in Tables, NEW b, NEW c, NEW x, Held(t, b, c, x)
  PROVE  Held(Older(t), b, c, x)
  BY Aged DEF Held, Settled, Safe, Due

\* Our copy is made when the job is spawned or its start fails, and dropped
\* only when the destination has all of it, or with a job that is forgotten.
\* What the state file still calls running, though it has been delivered and
\* dropped, has its output at the destination.
LEMMA HeldStep ==
  ASSUME "fork" \notin Mishaps,
         "copy" \notin Mishaps \/ {"crash", "save"} \cap Mishaps = {},
         Typed, ControlOK, DiskOK, phase # "down" => UpOK, AheadOK, OutputOK, [Next]_vars
  PROVE  TableHeld' /\ CurHeld' /\ DiskHeld'
<1> USE DaemonAssumption
<1>d. /\ disk.jobs \in Tables /\ table \in Tables
      /\ DOMAIN disk.jobs \subseteq Ids /\ DOMAIN table \subseteq Ids
      /\ Off \notin Wanted /\ Wanted \subseteq Ids /\ copy \in [Ids -> {"none", "partial", "full"}]
  BY TableType DEF Typed, JobsOK, MiscOK, Ids, Off
<1>o. TableHeld /\ CurHeld /\ DiskHeld /\ AllSent
  BY DEF OutputOK
<1>r. \A j \in DOMAIN disk.jobs : disk.jobs[j].state = "running" => disk.jobs[j].run # Off
  BY DEF DiskOK, Sound, EntryOK
<1> DEFINE Goal == TableHeld' /\ CurHeld' /\ DiskHeld'
<1> HIDE DEF Goal
<1>1. CASE Boot
  <2>1. table' = disk.jobs /\ UNCHANGED << disk, buf, copy >> /\ cur' = Off /\ phase = "down"
    BY <1>1 DEF Boot, ControlOK, Finalizing, files
  <2> QED
    BY <1>d, <1>o, <2>1 DEF Goal, TableHeld, CurHeld, DiskHeld
<1>2. CASE Prune
  <2>1. /\ table' = Trim(table) /\ UNCHANGED << disk, cur, copy >> /\ cur = Off
        /\ phase # "down" /\ phase' # "down" /\ buf' = buf \ Trimmed(table)
    BY <1>2 DEF Prune, ControlOK, Finalizing
  <2>2. Held(table', buf', copy, Off)
    <3>1. \A j \in DOMAIN table' : j \in DOMAIN table \ Trimmed(table) /\ table'[j] = table[j]
      BY <1>d, <2>1, Trimming
    <3>2. Held(table, buf, copy, Off)
      BY <1>o, <2>1 DEF TableHeld
    <3> QED
      BY <2>1, <3>1, <3>2 DEF Held, Settled, Safe
  <2>3. "copy" \notin Mishaps => Held(disk.jobs, buf', copy, Off)
    <3> SUFFICES ASSUME "copy" \notin Mishaps, NEW j \in DOMAIN disk.jobs \cap Wanted
                 PROVE  Settled(disk.jobs[j], j \in buf', copy[j])
      BY DEF Held
    <3>1. Settled(disk.jobs[j], j \in buf, copy[j]) /\ ~disk.jobs[j].undelivered
      BY <1>d, <1>o DEF DiskHeld, Held, AllSent, Sent
    <3>2. CASE j \in Trimmed(table) /\ disk.jobs[j].state = "running"
      <4>1. j \in DOMAIN table /\ table[j].state = "done" /\ ~table[j].undelivered
        BY <1>o, <3>2 DEF Trimmed, In, AllSent, Sent
      <4>2. Due(table[j])
        BY <1>r, <2>1, <3>2, <4>1 DEF AheadOK, Ahead, Due
      <4>3. copy[j] = "full"
        BY <1>d, <1>o, <2>1, <4>1, <4>2 DEF TableHeld, Held, Settled, Safe
      <4> QED
        BY <3>1, <4>3 DEF Settled, Safe
    <3> QED
      BY <2>1, <3>1, <3>2 DEF Settled, Safe
  <2> QED
    BY <1>d, <2>1, <2>2, <2>3 DEF Goal, TableHeld, CurHeld, DiskHeld
<1>3. CASE Sweep
  <2>1. /\ UNCHANGED << table, disk, buf, copy, cur >>
        /\ \/ phase' = phase
           \/ (phase # "down" /\ phase' \notin {"down", "copy", "copying", "retire"})
    BY <1>3 DEF Sweep, Killed, Swept, control, books, files
  <2> QED
    BY <1>o, <2>1, HeldSame DEF Goal
<1>4. CASE Plan
  <2>1. /\ UNCHANGED << table, disk, buf, copy, cur >>
        /\ \/ phase' = phase
           \/ (phase # "down" /\ phase' \notin {"down", "copy", "copying", "retire"})
    BY <1>4 DEF Plan, Started, control, books, files
  <2> QED
    BY <1>o, <2>1, HeldSame DEF Goal
<1>5. CASE OpenCopy
  <2>1. /\ UNCHANGED << table, disk, cur, buf >> /\ phase # "down" /\ phase' = "copying"
        /\ cur \in Wanted /\ cur \in buf /\ copy' = [copy EXCEPT ![cur] = "partial"]
    BY <1>5 DEF OpenCopy, HasOutput, books
  <2>2. \A j \in Wanted \ {cur} : copy'[j] = copy[j]
    BY <1>d, <2>1
  <2>3. Held(table, buf, copy', cur)
    BY <1>o, <2>1, <2>2 DEF TableHeld, Held
  <2>4. "copy" \notin Mishaps => Held(disk.jobs, buf, copy', Off)
    <3> SUFFICES ASSUME "copy" \notin Mishaps, NEW j \in DOMAIN disk.jobs \cap Wanted
                 PROVE  Settled(disk.jobs[j], j \in buf, copy'[j])
      BY DEF Held
    <3>1. Settled(disk.jobs[j], j \in buf, copy[j])
      BY <1>d, <1>o DEF DiskHeld, Held
    <3>2. CASE j = cur
      <4>1. disk.jobs[j].state # "done"
        BY <2>1, <3>2, Entries, <1>d DEF AheadOK, Ahead
      <4> QED
        BY <2>1, <3>2, <4>1 DEF Settled
    <3> QED
      BY <2>2, <3>1, <3>2
  <2> QED
    BY <2>1, <2>3, <2>4 DEF Goal, TableHeld, CurHeld, DiskHeld
<1>6. CASE CopyDone
  <2>1. /\ UNCHANGED << table, disk, cur, buf >> /\ phase # "down" /\ phase' = "retire"
        /\ copy' = [copy EXCEPT ![cur] = "full"]
    BY <1>6 DEF CopyDone, books
  <2>2. \A j \in Wanted : copy'[j] = IF j = cur THEN "full" ELSE copy[j]
    BY <1>d, <2>1
  <2>3. Held(table, buf, copy', cur) /\ ("copy" \notin Mishaps => Held(disk.jobs, buf, copy', Off))
    BY <1>o, <2>1, <2>2, HeldMore DEF TableHeld, DiskHeld
  <2> QED
    BY <2>1, <2>2, <2>3 DEF Goal, TableHeld, CurHeld, DiskHeld, Safe
<1>7. CASE Retire
  <2>1. /\ table' = Trim(table) /\ UNCHANGED << disk, copy >> /\ cur' = Off
        /\ phase \in {"copy", "retire"} /\ phase' \notin {"down", "copy", "copying", "retire"}
        /\ buf' = (IF table[cur].undelivered THEN buf ELSE buf \ {cur}) \ Trimmed(table)
    BY <1>7 DEF Retire, ControlOK, Finalizing
  <2>2. /\ cur \in DOMAIN table /\ table[cur].state = "done"
        /\ cur \in Wanted /\ Due(table[cur]) =>
              copy[cur] = "full" \/ (table[cur].undelivered /\ cur \in buf)
    BY <1>7, <1>o, <2>1, Entries DEF Retire, HasOutput, ControlOK, Finalizing, CurHeld, Safe
  <2>3. Held(table, buf, copy, cur)
    BY <1>o, <2>1 DEF TableHeld
  <2>4. Held(table', buf', copy, Off)
    <3> SUFFICES ASSUME NEW j \in DOMAIN table' \cap Wanted
                 PROVE  Settled(table'[j], j \in buf', copy[j])
      BY DEF Held
    <3>1. j \in DOMAIN table \ Trimmed(table) /\ table'[j] = table[j]
      BY <1>d, <2>1, Trimming
    <3>2. CASE j = cur
      BY <2>1, <2>2, <3>1, <3>2 DEF Settled, Safe
    <3>3. CASE j # cur
      BY <2>1, <2>3, <3>1, <3>3 DEF Held, Settled, Safe
    <3> QED
      BY <3>2, <3>3
  <2>5. "copy" \notin Mishaps => Held(disk.jobs, buf', copy, Off)
    <3> SUFFICES ASSUME "copy" \notin Mishaps, NEW j \in DOMAIN disk.jobs \cap Wanted
                 PROVE  Settled(disk.jobs[j], j \in buf', copy[j])
      BY DEF Held
    <3>1. Settled(disk.jobs[j], j \in buf, copy[j]) /\ ~disk.jobs[j].undelivered
      BY <1>d, <1>o DEF DiskHeld, Held, AllSent, Sent
    <3>2. CASE j \in Trimmed(table) \cup {cur} /\ disk.jobs[j].state = "running"
      <4>1. j \in DOMAIN table /\ table[j].state = "done" /\ ~table[j].undelivered
        BY <1>o, <2>2, <3>2 DEF Trimmed, In, AllSent, Sent
      <4>2. Due(table[j])
        BY <1>r, <2>1, <3>2, <4>1 DEF AheadOK, Ahead, Due
      <4>3. copy[j] = "full"
        BY <2>2, <2>3, <4>1, <4>2 DEF Held, Settled, Safe
      <4> QED
        BY <3>1, <4>3 DEF Settled, Safe
    <3> QED
      BY <2>1, <3>1, <3>2 DEF Settled, Safe
  <2> QED
    BY <1>d, <2>1, <2>4, <2>5 DEF Goal, TableHeld, CurHeld, DiskHeld
<1>8. CASE Save
  <2>1. /\ phase # "down" /\ cur = Off /\ cur' = Off /\ UNCHANGED << buf, copy >>
        /\ disk'.jobs \in {disk.jobs, table}
        /\ phase' = "down" => disk'.jobs = table
        /\ phase' # "down" => UNCHANGED table
    BY <1>8 DEF Save, Rest, Down, ControlOK, Finalizing
  <2> QED
    BY <1>d, <1>o, <2>1 DEF Goal, TableHeld, CurHeld, DiskHeld
<1>9. ASSUME NEW j \in Ids, LookOn(j) PROVE Goal
  <2>1. /\ UNCHANGED << table, disk, buf, copy, cur >>
        /\ \/ phase' = phase
           \/ (phase # "down" /\ phase' \notin {"down", "copy", "copying", "retire"})
    BY <1>9 DEF LookOn, Probing, control, books, files
  <2> QED
    BY <1>o, <2>1, HeldSame DEF Goal
<1>10. ASSUME NEW j \in Ids, TimeOut(j) PROVE Goal
  <2>1. /\ UNCHANGED << disk, cur, buf, copy >> /\ cur = Off /\ phase # "down"
        /\ phase' \notin {"down", "copy", "copying", "retire"}
    BY <1>10 DEF TimeOut, Probing, ControlOK, Finalizing, files
  <2>2. j \in Wanted => Settled(table[j], j \in buf, copy[j])
    BY <1>10, <1>d, <1>o, <2>1, TimeOutTouches DEF TableHeld, Held
  <2>3. Held(table', buf, copy, Off)
    BY <1>10, <1>o, <2>1, <2>2, TimeOutTouches, HeldAlters DEF TableHeld, Settled
  <2> QED
    BY <1>d, <1>o, <2>1, <2>3 DEF Goal, TableHeld, CurHeld, DiskHeld
<1>11. ASSUME NEW j \in Ids, HardKill(j) PROVE Goal
  <2>1. /\ UNCHANGED << disk, cur, buf, copy >> /\ cur = Off /\ phase # "down"
        /\ phase' \notin {"down", "copy", "copying", "retire"}
    BY <1>11 DEF HardKill, Probing, ControlOK, Finalizing, files
  <2>2. j \in Wanted => Settled(table[j], j \in buf, copy[j])
    BY <1>11, <1>d, <1>o, <2>1, HardKillTouches DEF TableHeld, Held
  <2>3. Held(table', buf, copy, Off)
    BY <1>11, <1>o, <2>1, <2>2, HardKillTouches, HeldAlters DEF TableHeld, Settled
  <2> QED
    BY <1>d, <1>o, <2>1, <2>3 DEF Goal, TableHeld, CurHeld, DiskHeld
<1>12. ASSUME NEW j \in Ids, FindDead(j) PROVE Goal
  <2>1. /\ UNCHANGED << disk, buf, copy >> /\ cur = Off /\ cur' = j /\ phase # "down"
        /\ phase' = "copy"
    BY <1>12 DEF FindDead, BeginFinalize, Probing, ControlOK, Finalizing, files
  <2>2. j \in Wanted => j \in buf \/ copy[j] = "full"
    BY <1>12, <1>d, <1>o, <2>1, FindDeadTouches DEF TableHeld, Held, Settled
  <2>3. Held(table', buf, copy, j)
    BY <1>12, <1>o, <2>1, FindDeadTouches, HeldAlters DEF TableHeld
  <2> QED
    BY <1>o, <2>1, <2>2, <2>3 DEF Goal, TableHeld, CurHeld, DiskHeld
<1>13. ASSUME NEW j \in Ids, Adopt(j) PROVE Goal
  <2>1. /\ UNCHANGED << table, disk, buf, copy, cur >>
        /\ \/ phase' = phase
           \/ (phase # "down" /\ phase' \notin {"down", "copy", "copying", "retire"})
    BY <1>13 DEF Adopt, control, books, files
  <2> QED
    BY <1>o, <2>1, HeldSame DEF Goal
<1>14. ASSUME NEW j \in Ids, FindLost(j) PROVE Goal
  <2>1. /\ UNCHANGED << disk, buf, copy >> /\ cur = Off /\ cur' = j /\ phase # "down"
        /\ phase' = "copy"
    BY <1>14 DEF FindLost, BeginFinalize, ControlOK, Finalizing, files
  <2>2. j \in Wanted => j \in buf \/ copy[j] = "full"
    BY <1>14, <1>d, <1>o, <2>1, FindDeadTouches DEF TableHeld, Held, Settled
  <2>3. Held(table', buf, copy, j)
    BY <1>14, <1>o, <2>1, FindDeadTouches, HeldAlters DEF TableHeld
  <2> QED
    BY <1>o, <2>1, <2>2, <2>3 DEF Goal, TableHeld, CurHeld, DiskHeld
<1>15. ASSUME NEW j \in Ids, NEW r \in Runs, Start(j, r) PROVE Goal
  <2>1. /\ UNCHANGED << disk, copy, cur >> /\ buf' = buf \cup {j} /\ cur = Off
        /\ phase # "down" /\ phase' \notin {"down", "copy", "copying", "retire"}
    BY <1>15 DEF Start, Started, ControlOK, Finalizing
  <2>2. Settled(table'[j], j \in buf', copy[j])
    BY <1>15, <2>1, StartTouches DEF Settled
  <2>3. Held(table', buf', copy, Off)
    BY <1>15, <1>o, <2>1, <2>2, StartTouches, HeldAlters DEF TableHeld
  <2>4. "copy" \notin Mishaps => Held(disk.jobs, buf', copy, Off)
    BY <1>o, <2>1, HeldMore DEF DiskHeld
  <2> QED
    BY <1>d, <2>1, <2>3, <2>4 DEF Goal, TableHeld, CurHeld, DiskHeld
<1>16. CASE Tick
  <2>1. /\ table' = Older(table) /\ disk'.jobs = Older(disk.jobs) /\ UNCHANGED << cur, buf, copy >>
        /\ cur = Off /\ phase # "down" /\ phase' # "down"
    BY <1>16 DEF Tick, Typed, JobsOK, ControlOK, Finalizing
  <2> QED
    BY <1>d, <1>o, <2>1, HeldOlder DEF Goal, TableHeld, CurHeld, DiskHeld
<1>17. CASE Submit
  <2>1. /\ nextId \in Ids \ DOMAIN table /\ nextId \notin DOMAIN disk.jobs
    <3>1. nextId \in Ids /\ UpOK
      BY <1>17 DEF Submit
    <3>2. nextId \notin DOMAIN table
      BY <1>d, <3>1, SoundWith DEF UpOK
    <3>3. disk.next <= nextId /\ DOMAIN disk.jobs \subseteq 1..(disk.next - 1)
      BY <3>1 DEF UpOK, Precedes, DiskOK, Sound
    <3>4. disk.next \in Int /\ nextId \in Int
      BY <3>1 DEF Typed, JobsOK
    <3> QED
      BY <3>1, <3>2, <3>3, <3>4
  <2>2. /\ table' = With(table, nextId) /\ UNCHANGED << disk, cur, buf >>
        /\ cur = Off /\ phase # "down" /\ phase' # "down"
        /\ copy' = [copy EXCEPT ![nextId] = "none"]
    BY <1>17 DEF Submit, ControlOK, Finalizing
  <2>3. /\ DOMAIN table' = DOMAIN table \cup {nextId} /\ table'[nextId] = NewJob
        /\ \A k \in DOMAIN table : table'[k] = table[k]
    <3>1. table \in Tables /\ nextId \in Ids \ DOMAIN table
      BY <1>d, <2>1
    <3>2. /\ DOMAIN With(table, nextId) = DOMAIN table \cup {nextId}
          /\ With(table, nextId)[nextId] = NewJob
          /\ \A k \in DOMAIN table : With(table, nextId)[k] = table[k]
      BY <3>1, Joined
    <3> QED
      BY <2>2, <3>2
  <2>4. \A k \in DOMAIN table \cup DOMAIN disk.jobs : copy'[k] = copy[k]
    BY <1>d, <2>1, <2>2
  <2>5. Held(table', buf, copy', Off)
    BY <1>o, <2>1, <2>2, <2>3, <2>4 DEF TableHeld, Held, Settled, NewJob
  <2>6. "copy" \notin Mishaps => Held(disk.jobs, buf, copy', Off)
    BY <1>o, <2>4 DEF DiskHeld, Held
  <2> QED
    BY <1>d, <2>2, <2>5, <2>6 DEF Goal, TableHeld, CurHeld, DiskHeld
<1>18. ASSUME NEW j \in Ids, KillQueued(j) PROVE Goal
  <2>1. /\ UNCHANGED << disk, buf, copy >> /\ cur = Off /\ cur' = j /\ phase # "down"
        /\ phase' = "copy"
    BY <1>18 DEF KillQueued, BeginFinalize, ControlOK, Finalizing, files
  <2>2. ~Due(table'[j])
    BY <1>18, KillQueuedTouches, <2>1 DEF UpOK, Sound, EntryOK, Due
  <2>3. Held(table', buf, copy, j)
    BY <1>18, <1>o, <2>1, KillQueuedTouches, HeldAlters DEF TableHeld
  <2> QED
    BY <1>o, <2>1, <2>2, <2>3 DEF Goal, TableHeld, CurHeld, DiskHeld
<1>19. ASSUME NEW j \in Ids, KillRunning(j) PROVE Goal
  <2>1. /\ UNCHANGED << disk, cur, buf, copy >> /\ cur = Off /\ phase # "down"
        /\ phase' \notin {"down", "copy", "copying", "retire"}
    BY <1>19 DEF KillRunning, ControlOK, Finalizing, files
  <2>2. j \in Wanted => Settled(table[j], j \in buf, copy[j])
    BY <1>19, <1>d, <1>o, <2>1, KillRunningTouches DEF TableHeld, Held
  <2>3. Held(table', buf, copy, Off)
    BY <1>19, <1>o, <2>1, <2>2, KillRunningTouches, HeldAlters DEF TableHeld, Settled
  <2> QED
    BY <1>d, <1>o, <2>1, <2>3 DEF Goal, TableHeld, CurHeld, DiskHeld
<1>20. CASE Crash
  <2>1. /\ "copy" \notin Mishaps /\ phase' = "down" /\ cur' = Off
        /\ UNCHANGED << disk, buf, copy >>
    BY <1>20 DEF Crash, Mishap, Down, files
  <2> QED
    BY <1>d, <1>o, <2>1 DEF Goal, TableHeld, CurHeld, DiskHeld
<1>21. CASE SaveFails
  <2>1. /\ "copy" \notin Mishaps /\ phase = "save" /\ cur = Off /\ cur' = Off
        /\ UNCHANGED << disk, buf, copy >>
        /\ phase' # "down" => UNCHANGED table
    BY <1>21 DEF SaveFails, Mishap, Abort, Rest, Down, ControlOK, Finalizing, books, files
  <2> QED
    BY <1>d, <1>o, <2>1 DEF Goal, TableHeld, CurHeld, DiskHeld
<1>22. CASE CopyFails
  <2>1. /\ UNCHANGED << disk, cur, buf, copy >> /\ phase # "down" /\ phase' = "retire"
        /\ cur \in Wanted => cur \in buf
        /\ "copy" \in Mishaps
    BY <1>22, <1>o DEF CopyFails, Mishap, HasOutput, CurHeld, files
  <2>2. Held(table', buf, copy, cur)
    BY <1>22, <1>o, <2>1, CopyFailsTouches, HeldAlters DEF TableHeld
  <2> QED
    BY <1>22, <2>1, <2>2, CopyFailsTouches DEF Goal, TableHeld, CurHeld, DiskHeld, Safe
<1>23. CASE ForkFails
  BY <1>23 DEF ForkFails, Mishap
<1>24. ASSUME NEW why \in {"stop", "reload"}, Shutdown(why) PROVE Goal
  <2>1. /\ UNCHANGED << table, disk, buf, copy, cur >>
        /\ \/ phase' = phase
           \/ (phase # "down" /\ phase' \notin {"down", "copy", "copying", "retire"})
    BY <1>24 DEF Shutdown, Mishap, control, books, files
  <2> QED
    BY <1>o, <2>1, HeldSame DEF Goal
<1>25. ASSUME NEW j \in Ids, StartFails(j) PROVE Goal
  <2>1. /\ UNCHANGED << disk, copy >> /\ buf' = buf \cup {j}
        /\ cur = Off /\ cur' = j /\ phase # "down" /\ phase' = "copy"
    BY <1>25 DEF StartFails, BeginFinalize, ControlOK, Finalizing
  <2>2. Held(table', buf', copy, j)
    BY <1>25, <1>o, <2>1, StartFailsTouches, HeldAlters DEF TableHeld
  <2>3. "copy" \notin Mishaps => Held(disk.jobs, buf', copy, Off)
    BY <1>o, <2>1, HeldMore DEF DiskHeld
  <2> QED
    BY <2>1, <2>2, <2>3 DEF Goal, TableHeld, CurHeld, DiskHeld
<1>26. ASSUME NEW r \in Runs, Exit(r) PROVE Goal
  <2>1. /\ UNCHANGED << table, disk, buf, copy, cur >>
        /\ \/ phase' = phase
           \/ (phase # "down" /\ phase' \notin {"down", "copy", "copying", "retire"})
    BY <1>26 DEF Exit, control, books, files
  <2> QED
    BY <1>o, <2>1, HeldSame DEF Goal
<1>27. ASSUME NEW r \in Runs, PidReused(r) PROVE Goal
  <2>1. /\ UNCHANGED << table, disk, buf, copy, cur >>
        /\ \/ phase' = phase
           \/ (phase # "down" /\ phase' \notin {"down", "copy", "copying", "retire"})
    BY <1>27 DEF PidReused, control, books, files
  <2> QED
    BY <1>o, <2>1, HeldSame DEF Goal
<1>28. ASSUME NEW j \in Ids, StrayGone(j) PROVE Goal
  <2>1. /\ UNCHANGED << table, disk, buf, copy, cur >>
        /\ \/ phase' = phase
           \/ (phase # "down" /\ phase' \notin {"down", "copy", "copying", "retire"})
    BY <1>28 DEF StrayGone, control, books, files
  <2> QED
    BY <1>o, <2>1, HeldSame DEF Goal
<1>29. CASE UNCHANGED vars
  <2>1. /\ UNCHANGED << table, disk, buf, copy, cur >>
        /\ \/ phase' = phase
           \/ (phase # "down" /\ phase' \notin {"down", "copy", "copying", "retire"})
    BY <1>29 DEF vars, control, books, files
  <2> QED
    BY <1>o, <2>1, HeldSame DEF Goal
<1> QED
  BY <1>1, <1>2, <1>3, <1>4, <1>5, <1>6, <1>7, <1>8, <1>9, <1>10, <1>11, <1>12, <1>13, <1>14,
     <1>15, <1>16, <1>17, <1>18, <1>19, <1>20, <1>21, <1>22, <1>23, <1>24, <1>25, <1>26, <1>27,
     <1>28, <1>29 DEF Next, Work, Request, Failure, Kernel, Goal

(***************************************************************************)
(* Once a job that asked for its output is finished, its destination holds *)
(* all of it, or the failure is on record and our copy is there            *)
(* (Daemon._retire_output).  Not when there is no process for the copy, nor *)
(* when deliveries may fail and the daemon crash or be unable to save.     *)
(***************************************************************************)
THEOREM OutputIsKept ==
  ASSUME "fork" \notin Mishaps,
         "copy" \notin Mishaps \/ {"crash", "save"} \cap Mishaps = {}
  PROVE  Spec => []OutputKept
<1>1. Init => AheadOK /\ OutputOK
  <2>1. DOMAIN EmptyTable = {}
    BY DEF EmptyTable
  <2>2. Off \notin Wanted
    BY DaemonAssumption DEF Ids, Off
  <2> QED
    BY <2>1, <2>2 DEF Init, AheadOK, OutputOK, TableHeld, CurHeld, DiskHeld, AllSent, Held, Sent
<1>2. IInv /\ AheadOK /\ OutputOK /\ [Next]_vars => AheadOK' /\ OutputOK'
  <2> SUFFICES ASSUME IInv, AheadOK, OutputOK, [Next]_vars PROVE AheadOK' /\ OutputOK'
    OBVIOUS
  <2>1. Typed /\ ControlOK /\ DiskOK /\ (phase # "down" => UpOK) /\ AllSent
    BY InvParts DEF IInv, OutputOK
  <2>2. AheadOK'
    BY <2>1, AheadStep
  <2>3. TableHeld' /\ CurHeld' /\ DiskHeld' /\ AllSent'
    BY <2>1, HeldStep, SentStep
  <2> QED
    BY <2>2, <2>3 DEF OutputOK
<1>3. IInv /\ OutputOK => OutputKept
  <2> SUFFICES ASSUME IInv, OutputOK, phase = "idle", NEW j \in In(table, "done") \cap Wanted,
                      table[j].run # Off \/ table[j].reason = "error"
               PROVE  copy[j] = "full" \/ (table[j].undelivered /\ j \in buf)
    BY DEF OutputKept
  <2>1. cur = Off /\ j # Off
    BY DaemonAssumption DEF IInv, ControlOK, Finalizing, Ids, Off
  <2>2. Held(table, buf, copy, Off)
    BY <2>1 DEF OutputOK, TableHeld
  <2> QED
    BY <2>1, <2>2 DEF Held, Settled, Due, Safe, In
<1> QED
  BY <1>1, <1>2, <1>3, Invariance, PTL DEF Spec

==============================================================================
