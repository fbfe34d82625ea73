----------------------------- MODULE MCExecutor -----------------------------
(* Every kind of program.                                                  *)
EXTENDS Executor

MCPrograms == {"source", "yes", "cat", "head", "quit"}
=============================================================================
