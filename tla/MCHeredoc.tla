----------------------------- MODULE MCHeredoc ------------------------------
(* Heredoc with the command lines of each TLC run.                         *)
EXTENDS Heredoc

eof == [delim |-> "EOF", quoted |-> FALSE]
quotedEof == [delim |-> "EOF", quoted |-> TRUE]

\* One command with two heredocs; a pipeline of two commands that share a
\* delimiter; one that quotes it in the second; one with too many heredocs.
MCLines == {<<<<eof, eof>>>>, <<<<eof>>, <<eof>>>>, <<<<eof>>, <<quotedEof>>>>,
            <<<<eof>>, <<>>, <<eof, eof, eof>>>>}
=============================================================================
