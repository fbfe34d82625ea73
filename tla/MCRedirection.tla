---------------------------- MODULE MCRedirection ----------------------------
(* Two files, and the lines of redirections on them.                       *)
EXTENDS Redirection

Entry == [op : Op, file : Files] \union [op : Op \ {"<<"}, file : {NULL}]

\* Lines of three redirections that mix the input lists with two outputs.
ThreeRedirections ==
  {<<[op |-> "<<", file |-> "h"], [op |-> "<", file |-> "f"], [op |-> ">>", file |-> "h"]>>,
   <<[op |-> ">", file |-> "f"], [op |-> "<<", file |-> "h"], [op |-> ">>", file |-> "h"]>>}

\* They, and every line of at most two redirections.
MCLines ==
  {<<>>} \union {<<e>> : e \in Entry} \union (Entry \X Entry) \union ThreeRedirections
=============================================================================
