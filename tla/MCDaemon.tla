------------------------------ MODULE MCDaemon ------------------------------
(***************************************************************************)
(* Instance of Daemon: three instances and two clients, so that instances  *)
(* race for the lock and the path, a signal of one hits the socket of      *)
(* another, and a client waits while another one is served.  Liveness is   *)
(* checked with two instances, without symmetry.                           *)
(***************************************************************************)
EXTENDS Daemon, TLC

Symmetry == Permutations(Instances) \cup Permutations(Clients)
=============================================================================
