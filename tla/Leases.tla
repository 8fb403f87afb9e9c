------------------------------- MODULE Leases -------------------------------
(***************************************************************************)
(* What the scheduler promises its users, whatever its policy: a job runs    *)
(* on a lease of cpus and GPUs that nobody else has, which it is given       *)
(* whole, keeps unchanged until it is over, and gives back whole; a lease of *)
(* the entire machine is given only while there is no other.               *)
(*                                                                         *)
(* There are no nodes, queues, passes, budgets, restarts or books here: the  *)
(* steps of Scheduler that only move those are stutters.                    *)
(***************************************************************************)
CONSTANTS
  Tenants,   \* who may hold a lease
  Cpus,
  Gpus,
  NoLease

VARIABLES
  stage,     \* tenant |-> "absent", "queued" or "running"
  lease      \* tenant |-> what it holds

Lease == [cpus : SUBSET Cpus, gpus : SUBSET Gpus, exclusive : BOOLEAN]

Init ==
  /\ stage = [t \in Tenants |-> "absent"]
  /\ lease = [t \in Tenants |-> NoLease]

Apply(t) ==
  /\ stage[t] = "absent"
  /\ stage' = [stage EXCEPT ![t] = "queued"]
  /\ UNCHANGED lease

\* only a tenant that holds nothing may walk away
Withdraw(t) ==
  /\ stage[t] = "queued" /\ lease[t] = NoLease
  /\ stage' = [stage EXCEPT ![t] = "absent"]
  /\ UNCHANGED lease

MayShareWith(l, m) ==
  l.cpus \cap m.cpus = {} /\ l.gpus \cap m.gpus = {} /\ ~l.exclusive /\ ~m.exclusive

Grant(t) ==
  /\ stage[t] = "queued" /\ lease[t] = NoLease
  /\ \E l \in Lease :
        /\ \A u \in Tenants \ {t} : lease[u] # NoLease => MayShareWith(l, lease[u])
        /\ lease' = [lease EXCEPT ![t] = l]
  /\ UNCHANGED stage

\* nobody runs without a lease
Begin(t) ==
  /\ stage[t] = "queued" /\ lease[t] # NoLease
  /\ stage' = [stage EXCEPT ![t] = "running"]
  /\ UNCHANGED lease

\* it has ended, or could not be started
Return(t) ==
  /\ lease[t] # NoLease
  /\ stage' = [stage EXCEPT ![t] = "absent"]
  /\ lease' = [lease EXCEPT ![t] = NoLease]

Next == \E t \in Tenants : Apply(t) \/ Withdraw(t) \/ Grant(t) \/ Begin(t) \/ Return(t)

Spec == Init /\ [][Next]_<< stage, lease >>

=============================================================================
