---------------------------- MODULE MCScheduler ----------------------------
(***************************************************************************)
(* Small machines and workloads for Scheduler.                             *)
(***************************************************************************)
EXTENDS Scheduler, TLC

Request_(cpu, gpus, mem) ==
  [ cpu |-> cpu, gpus |-> gpus, mem |-> mem, exclusive |-> FALSE, localMem |-> FALSE,
    localGpu |-> FALSE, floor |-> NoFloor ]

(* Two nodes of two cpus and two GiB each, one GPU whose wiring is unknown. *)
FourCpus  == (0 :> {0, 1}) @@ (1 :> {2, 3})
TwoByTwo  == (0 :> 2) @@ (1 :> 2)
OneGpu    == {0}
NoLinks   == [p \in {} |-> 0]
NoNodes   == [g \in {} |-> 0]

(* A small job, one with the GPU, one that needs a whole node and a budget   *)
(* that spans both, and one that needs the machine.                         *)
MixedJobs  == {"small", "gpu", "wide", "whole"}
MixedAsk   == [ small |-> Request_(1, 0, 1), gpu |-> Request_(1, 1, 1),
                wide |-> Request_(2, 0, 3),
                whole |-> [Request_(4, 0, 4) EXCEPT !.exclusive = TRUE] ]
MixedLimit == [small |-> 2, gpu |-> 1, wide |-> 2, whole |-> 1]
Longer     == {2}

(* A machine without GPUs, and a job submitted with --numa-local.            *)
NoGpus     == {}
LocalJobs  == {"small", "local"}
LocalAsk   == [ small |-> Request_(1, 0, 1),
                local |-> [Request_(1, 0, 1) EXCEPT !.localMem = TRUE, !.localGpu = TRUE] ]
LocalLimit == [small |-> 1, local |-> 1]

(* Two GPUs on each node, those of node 1 joined by NVLink, and a job that    *)
(* wants two on the node of its cpus.                                       *)
FourGpus  == 0..3
TwoPairs  == (0 :> 0) @@ (1 :> 0) @@ (2 :> 1) @@ (3 :> 1)
PairLinks == ({0, 1} :> [rank |-> 3, lanes |-> 0]) @@ ({2, 3} :> [rank |-> 0, lanes |-> 1])
PairJobs  == {"half", "small", "pair"}
PairAsk   == [ half |-> Request_(2, 0, 1), small |-> Request_(1, 0, 1),
               pair |-> [Request_(1, 2, 1) EXCEPT !.localGpu = TRUE] ]
PairLimit == [half |-> 2, small |-> 1, pair |-> 1]

Fifo        == {FifoStrict}
Easy        == {EasyBackfill}
NoChange    == {}
AllPolicies == {FifoStrict, EasyBackfill, StrictBackfill}

=============================================================================
