-------------------------------- MODULE Stdio --------------------------------
(***************************************************************************)
(* The shell's stdout buffer.  The expander reports an ambiguous redirect  *)
(* with printf in the shell itself; the processes of the line are forked   *)
(* after that, each with a copy of whatever the buffer holds.              *)
(***************************************************************************)
EXTENDS Naturals

CONSTANTS MaxCommands, \* bound: commands of a line
          MaxHeredocs  \* bound: here-documents of a line

ASSUME BoundsAssumption == MaxCommands \in Nat \ {0} /\ MaxHeredocs \in Nat

VARIABLES
  linePc,       \* "prompt", "expander", "heredocs", "exec", "wait", "exited"
  tty,      \* stdout is a terminal: line-buffered
  n,        \* commands of the line
  i,        \* the command to expand or to fork for next
  bad,      \* commands with an ambiguous redirect; also names its message
  buf,      \* messages in the shell's buffer
  copies,   \* processes of the line that are not over: command -> its buffer
  heredocs, \* here-documents read for the line
  told      \* message -> how often it has been written

stdoutVars == <<linePc, tty, n, i, bad, buf, copies, heredocs, told>>

Commands == 1 .. MaxCommands

StdoutTypes ==
  /\ linePc \in {"prompt", "expander", "heredocs", "exec", "wait", "exited"}
  /\ tty \in BOOLEAN /\ n \in 0 .. MaxCommands /\ i \in 1 .. n + 1
  /\ bad \subseteq 1 .. n /\ buf \subseteq bad
  /\ DOMAIN copies \subseteq 1 .. n /\ \A c \in DOMAIN copies : copies[c] \subseteq bad
  /\ heredocs \in 0 .. MaxHeredocs
  /\ told \in [Commands -> 0 .. MaxHeredocs + MaxCommands + 1]

\* write(2) of the messages in ms.
Written(ms) == [m \in Commands |-> told[m] + (IF m \in ms THEN 1 ELSE 0)]

StdoutInit ==
  /\ linePc = "prompt" /\ tty \in BOOLEAN /\ n = 0 /\ i = 1 /\ bad = {}
  /\ buf = {} /\ copies = [c \in {} |-> {}] /\ heredocs = 0
  /\ told = [m \in Commands |-> 0]

NextLine ==
  /\ linePc = "prompt" /\ linePc' = "expander"
  /\ n' \in Commands /\ bad' \in SUBSET (1 .. n') /\ i' = 1
  /\ heredocs' = 0 /\ told' = [m \in Commands |-> 0]
  /\ UNCHANGED <<tty, buf, copies>>

\* The message ends in a newline, and a terminal has it at once.
PrintfAmbiguous(c) ==
  IF tty THEN told' = Written(buf \union {c}) /\ buf' = {}
         ELSE buf' = buf \union {c} /\ UNCHANGED told

\* One turn of the expander's loop, with process_redirs.
Expand ==
  /\ linePc = "expander" /\ i <= n /\ i' = i + 1
  /\ IF i \in bad THEN PrintfAmbiguous(i) ELSE UNCHANGED <<buf, told>>
  /\ UNCHANGED <<linePc, tty, n, bad, copies, heredocs>>

Expanded ==
  /\ linePc = "expander" /\ i > n
  /\ linePc' = "heredocs" /\ i' = 1
  /\ UNCHANGED <<tty, n, bad, buf, copies, heredocs, told>>

\* child_heredoc_process leaves with exit, which writes its copy, or is killed.
ChildHeredoc ==
  /\ linePc = "heredocs" /\ heredocs < MaxHeredocs
  /\ heredocs' = heredocs + 1 /\ (told' = Written(buf) \/ UNCHANGED told)
  /\ UNCHANGED <<linePc, tty, n, i, bad, buf, copies>>

\* executor: a here-document was interrupted, or the only command is run by the
\* shell itself, and nothing more is forked; or the pipeline is.
Executor ==
  /\ linePc = "heredocs"
  /\ \/ linePc' = "wait" /\ (heredocs > 0 \/ n = 1)
     \/ linePc' = "exec"
  /\ UNCHANGED <<tty, n, i, bad, buf, copies, heredocs, told>>

ForkHandler ==
  /\ linePc = "exec"
  /\ copies' = [c \in DOMAIN copies \union {i} |-> IF c = i THEN buf ELSE copies[c]]
  /\ i' = i + 1
  /\ linePc' = IF i = n THEN "wait" ELSE linePc
  /\ UNCHANGED <<tty, n, bad, buf, heredocs, told>>

\* A builtin, a command not found or a redirection that failed ends in exit,
\* which writes the copy.  execve drops it, and so does a signal.
ChildProcess(c) ==
  /\ c \in DOMAIN copies
  /\ told' = Written(copies[c]) \/ UNCHANGED told
  /\ copies' = [d \in DOMAIN copies \ {c} |-> copies[d]]
  /\ UNCHANGED <<linePc, tty, n, i, bad, buf, heredocs>>

\* Mutant: the shell leaves with _exit.
FlushNotAtExit ==
  /\ linePc = "wait" /\ DOMAIN copies = {}
  /\ linePc' = "exited"
  /\ UNCHANGED <<tty, n, i, bad, buf, copies, heredocs, told>>

\* readline writes its prompt through the same buffer and flushes it; exit
\* flushes it at the end.
Flush ==
  /\ linePc = "wait" /\ DOMAIN copies = {}
  /\ told' = Written(buf) /\ buf' = {}
  /\ linePc' \in {"prompt", "exited"}
  /\ UNCHANGED <<tty, n, i, bad, copies, heredocs>>

StdoutNext ==
  \/ NextLine \/ Expand \/ Expanded \/ ChildHeredoc \/ Executor \/ ForkHandler
  \/ (\E c \in Commands : ChildProcess(c)) \/ Flush

StdoutSpec == StdoutInit /\ [][StdoutNext]_stdoutVars

----------------------------------------------------------------------------
(* Properties.                                                             *)

\* Every ambiguous redirect of a line has been reported by the time the shell
\* prompts again or ends, however many processes came and went in between; on
\* a terminal it is reported once, for the buffer is empty when a process is
\* forked.
EachTold ==
  /\ StdoutTypes
  /\ linePc \in {"prompt", "exited"} => \A m \in bad : told[m] > 0
  /\ tty => \A m \in Commands : told[m] <= 1

\* Each is reported once wherever stdout goes, as it would be by ft_putstr_fd,
\* which notes, 7 asks for in the place of printf.
ToldOnce == \A m \in Commands : told[m] <= 1
=============================================================================
