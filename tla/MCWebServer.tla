---------------------------- MODULE MCWebServer ----------------------------
(***************************************************************************)
(* Instance of WebServer: three clients for two places (the listening      *)
(* socket counts), so that connections overlap, wait behind a consumed     *)
(* edge, and are refused.  Liveness is checked with two clients, without   *)
(* symmetry.                                                               *)
(***************************************************************************)
EXTENDS WebServer, TLC

MCScripts == {<<"file">>, <<"root">>, <<"head", "tail">>}

Symmetry == Permutations(Clients)
=============================================================================
