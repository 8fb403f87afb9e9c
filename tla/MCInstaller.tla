----------------------------- MODULE MCInstaller -----------------------------
(***************************************************************************)
(* Two bin directories, two admin groups, the daemon and its client.         *)
(***************************************************************************)
EXTENDS Installer, TLC

TwoDirs   == {"/opt/bin", "/usr/local/bin"}
TwoGroups == {"sudo", "wheel"}
TwoEntries == {"dispatch", "hpc-batchd"}
==============================================================================
