------------------------------- MODULE MCStdio -------------------------------
(* Lines of up to three commands with up to two here-documents.            *)
EXTENDS Stdio
=============================================================================
