------------------------------ MODULE MCDaemon ------------------------------
(***************************************************************************)
(* Instances of Daemon for TLC: every state is reachable in each of them,  *)
(* the runs differ in where a SIGUSR1 may arrive.                          *)
(***************************************************************************)
EXTENDS Daemon

AllPlaces == Places
QuietStart == Running \cup {"ending", "restart"}
QuietReload == QuietStart \ {"reload_fun", "reloaded"}
=============================================================================
