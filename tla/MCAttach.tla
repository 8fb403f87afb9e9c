------------------------------ MODULE MCAttach ------------------------------
(***************************************************************************)
(* Two clients that may follow one job.  Jobs share nothing here, so a       *)
(* second one would add states and no case: the first may write nothing too. *)
(***************************************************************************)
EXTENDS Attach, TLC

OneJob     == {"job"}
TwoClients == {"ann", "bob"}
Both       == [c \in TwoClients |-> OneJob]
Outputs    == [j \in OneJob |-> 2]

=============================================================================
