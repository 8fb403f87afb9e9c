------------------------------ MODULE MCDaemon ------------------------------
(***************************************************************************)
(* Small workloads and the mishaps of each run for Daemon.                 *)
(***************************************************************************)
EXTENDS Daemon

\* what an administrator and the users' own commands and directories do
Restarts == {"reload", "stop", "start", "copy"}

\* what loses the daemon's memory, or a write of it, or ends a tick.  A failed copy is left to
\* Restarts: with a crash between dropping a finished job's directory and saving that, the
\* output that was kept for it is gone, whatever retention (Daemon_proofs, OutputIsKept)
Crashes == {"crash", "reload", "save"}
Deaths  == {"crash", "fork"}

\* no process is to be had: a start fails, and a copy cannot be made
NoForks == {"start", "fork"}
Nothing == {}

FirstJob == {1}
NoJob    == {}

=============================================================================
