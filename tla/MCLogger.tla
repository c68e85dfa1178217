------------------------------ MODULE MCLogger ------------------------------
(***************************************************************************)
(* Instance of Logger: two threads, traces of two lines and two runs, so   *)
(* that a call waits for a trace and a cut trace is followed by a new run. *)
(***************************************************************************)
EXTENDS Logger
=============================================================================
