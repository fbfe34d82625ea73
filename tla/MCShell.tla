------------------------------- MODULE MCShell -------------------------------
(* The main loop with one status that no part of the shell itself gives.   *)
EXTENDS Shell
=============================================================================
