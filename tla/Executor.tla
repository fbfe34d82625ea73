------------------------------ MODULE Executor ------------------------------
(***************************************************************************)
(* The pipeline executor: exec_loop and everything it calls, run for one   *)
(* command line after another.                                             *)
(*                                                                         *)
(* The shell (process 0) creates the pipe between command i and i+1, forks *)
(* command i, closes what only the child needs, goes on to the next        *)
(* command and finally reaps every child.  Pipe k is the pipe between      *)
(* command k and command k+1, so a file descriptor is named by the number  *)
(* of its pipe: rd[p] and wr[p] are the read and write ends process p      *)
(* holds besides its descriptors 0 and 1, which are in[p] and out[p] (0    *)
(* stands for whatever the shell itself has there).                        *)
(*                                                                         *)
(* What the launched programs do with their descriptors, and what the      *)
(* kernel answers them, is external: five kinds of program suffice to tell *)
(* a correctly wired pipeline from one that never ends.                    *)
(***************************************************************************)
EXTENDS Integers

CONSTANTS MaxCmds,    \* longest pipeline
          Programs,   \* the kinds of program a command can run
          MaxSignals  \* how many Ctrl-C / Ctrl-\ the user types per line

ASSUME MaxCmdsAssumption == MaxCmds \in Nat \ {0}
ASSUME ProgramsAssumption ==
  Programs \subseteq {"source", "yes", "cat", "head", "quit"}
ASSUME MaxSignalsAssumption == MaxSignals \in Nat

Cmd == 1 .. MaxCmds
Proc == 0 .. MaxCmds
Shell == 0
PipeCap == 1          \* how much an external pipe buffers before a write blocks

VARIABLES
  pc,          \* the shell: "prompt", "pipe", "fork", "close" or "wait"
  n, prog,     \* the command line: number of commands and what each one runs
  cur,         \* exec_loop's cmd
  prev,        \* the pipe whose read end is prev_pipe[0]; 0 when it is -1
  last,        \* last_pid, as a command number; 0 when it is -1
  rd, wr,      \* pipe ends held besides descriptors 0 and 1
  in, out,     \* descriptors 0 and 1 of each child
  st,          \* life cycle of each child
  ws,          \* wait status of each ended child
  buf,         \* bytes in each pipe
  lastStatus, anySigInt, lastSigQuit,   \* locals of wait_all_children
  status,      \* shell->last_exit_status
  sigs         \* keyboard signals typed so far during this line

vars == <<pc, n, prog, cur, prev, last, rd, wr, in, out, st, ws, buf,
          lastStatus, anySigInt, lastSigQuit, status, sigs>>
kernel == <<rd, wr, in, out, st, ws, buf>>
line == <<n, prog>>
waiting == <<lastStatus, anySigInt, lastSigQuit>>

WaitStatus == {"exit0", "exit1", "SIGINT", "SIGQUIT", "SIGPIPE"}

\* A child is "forked" (SIGINT and SIGQUIT still ignored), then "sigset"
\* (default dispositions, pipes not yet in place), then its program runs.
Running == {"read", "write", "quit"}
Alive == {"forked", "sigset"} \union Running
Stages == {"none", "zombie", "reaped"} \union Alive

\* WEXITSTATUS, or 128 + WTERMSIG.
Code(w) == CASE w = "exit0"   -> 0
             [] w = "exit1"   -> 1
             [] w = "SIGINT"  -> 130
             [] w = "SIGQUIT" -> 131
             [] w = "SIGPIPE" -> 141

TypeOK ==
  /\ pc \in {"prompt", "pipe", "fork", "close", "wait"}
  /\ n \in Cmd /\ prog \in [Cmd -> Programs]
  /\ cur \in Cmd /\ prev \in Proc /\ last \in Proc
  /\ rd \in [Proc -> SUBSET Cmd] /\ wr \in [Proc -> SUBSET Cmd]
  /\ in \in [Cmd -> Proc] /\ out \in [Cmd -> Proc]
  /\ st \in [Cmd -> Stages] /\ ws \in [Cmd -> WaitStatus]
  /\ buf \in [Cmd -> 0 .. PipeCap]
  /\ lastStatus \in WaitStatus
  /\ anySigInt \in BOOLEAN /\ lastSigQuit \in BOOLEAN
  /\ status \in {0, 1, 130, 131, 141}
  /\ sigs \in 0 .. MaxSignals

----------------------------------------------------------------------------
(* The shell's side of exec_loop.                                          *)

Init ==
  /\ pc = "prompt" /\ n = 1 /\ prog \in [Cmd -> Programs]
  /\ cur = 1 /\ prev = 0 /\ last = 0
  /\ rd = [p \in Proc |-> {}] /\ wr = [p \in Proc |-> {}]
  /\ in = [c \in Cmd |-> 0] /\ out = [c \in Cmd |-> 0]
  /\ st = [c \in Cmd |-> "none"] /\ ws = [c \in Cmd |-> "exit0"]
  /\ buf = [c \in Cmd |-> 0]
  /\ lastStatus = "exit0" /\ anySigInt = FALSE /\ lastSigQuit = FALSE
  /\ status = 0 /\ sigs = 0

HasNext == cur < n

\* The prompt hands a parsed line to exec_loop (prev_pipe and last_pid are -1).
ExecLoop ==
  /\ pc = "prompt"
  /\ n' \in Cmd /\ prog' \in [Cmd -> Programs]
  /\ \A c \in Cmd : c > n' => prog'[c] = prog[c]
  /\ pc' = "pipe" /\ sigs' = 0
  /\ UNCHANGED <<cur, prev, last, kernel, waiting, status>>

Without(S, k) == S \ {k}

\* pipe() succeeds, or there is no next command and none is needed.
PreparePipe ==
  /\ pc = "pipe"
  /\ IF HasNext
     THEN /\ rd' = [rd EXCEPT ![Shell] = @ \union {cur}]
          /\ wr' = [wr EXCEPT ![Shell] = @ \union {cur}]
          /\ buf' = [buf EXCEPT ![cur] = 0]
     ELSE UNCHANGED <<rd, wr, buf>>
  /\ pc' = "fork"
  /\ UNCHANGED <<line, cur, prev, last, in, out, st, ws, waiting, status, sigs>>

\* Mutant: the error path forgets prev_pipe.
PreparePipeFailsLeaks ==
  /\ pc = "pipe" /\ HasNext
  /\ status' = 1 /\ pc' = "wait"
  /\ UNCHANGED <<line, cur, prev, last, kernel, waiting, sigs>>

\* pipe() fails: the previous read end is closed and the loop gives up.
PreparePipeFails ==
  /\ pc = "pipe" /\ HasNext
  /\ rd' = [rd EXCEPT ![Shell] = Without(@, prev)]
  /\ status' = 1
  /\ pc' = "wait"
  /\ UNCHANGED <<line, cur, prev, last, wr, in, out, st, ws, buf, waiting, sigs>>

\* The child starts with the shell's descriptors and its ignored signals.
ForkHandler ==
  /\ pc = "fork"
  /\ st' = [st EXCEPT ![cur] = "forked"]
  /\ rd' = [rd EXCEPT ![cur] = rd[Shell]]
  /\ wr' = [wr EXCEPT ![cur] = wr[Shell]]
  /\ pc' = "close"
  /\ UNCHANGED <<line, cur, prev, last, in, out, ws, buf, waiting, status, sigs>>

\* fork() fails: both pipes are closed and the loop gives up.
ForkHandlerFails ==
  /\ pc = "fork"
  /\ rd' = [rd EXCEPT ![Shell] =
                  Without(IF HasNext THEN Without(@, cur) ELSE @, prev)]
  /\ wr' = [wr EXCEPT ![Shell] = IF HasNext THEN Without(@, cur) ELSE @]
  /\ status' = 1
  /\ pc' = "wait"
  /\ UNCHANGED <<line, cur, prev, last, in, out, st, ws, buf, waiting, sigs>>

\* Mutant: the shell keeps the write end of the pipe it just handed out.
HandleParentPipesKeepsWriter ==
  /\ pc = "close"
  /\ rd' = [rd EXCEPT ![Shell] = Without(@, prev)]
  /\ IF HasNext THEN prev' = cur /\ cur' = cur + 1 /\ pc' = "pipe"
     ELSE UNCHANGED <<prev, cur>> /\ pc' = "wait"
  /\ last' = cur
  /\ UNCHANGED <<line, wr, in, out, st, ws, buf, waiting, status, sigs>>

\* The shell drops the read end it gave to cur and the write end of the new
\* pipe, whose read end becomes prev_pipe[0] for the next command.
HandleParentPipes ==
  /\ pc = "close"
  /\ rd' = [rd EXCEPT ![Shell] = Without(@, prev)]
  /\ IF HasNext
     THEN /\ wr' = [wr EXCEPT ![Shell] = Without(@, cur)]
          /\ prev' = cur /\ cur' = cur + 1 /\ pc' = "pipe"
     ELSE UNCHANGED <<wr, prev, cur>> /\ pc' = "wait"
  /\ last' = cur
  /\ UNCHANGED <<line, in, out, st, ws, buf, waiting, status, sigs>>

\* Mutant: the status is that of whichever child is reaped last.
WaitLoopAnyPid(c) ==
  /\ pc = "wait" /\ st[c] = "zombie"
  /\ st' = [st EXCEPT ![c] = "reaped"]
  /\ anySigInt' = (anySigInt \/ ws[c] = "SIGINT")
  /\ lastSigQuit' = (lastSigQuit \/ ws[c] = "SIGQUIT")
  /\ lastStatus' = ws[c]
  /\ UNCHANGED <<pc, line, cur, prev, last, rd, wr, in, out, ws, buf, status, sigs>>

\* One iteration of wait_loop: waitpid(-1) returns some ended child.
WaitLoop(c) ==
  /\ pc = "wait" /\ st[c] = "zombie"
  /\ st' = [st EXCEPT ![c] = "reaped"]
  /\ anySigInt' = (anySigInt \/ ws[c] = "SIGINT")
  /\ lastSigQuit' = (lastSigQuit \/ (c = last /\ ws[c] = "SIGQUIT"))
  /\ lastStatus' = IF c = last THEN ws[c] ELSE lastStatus
  /\ UNCHANGED <<pc, line, cur, prev, last, rd, wr, in, out, ws, buf, status, sigs>>

\* Mutant: wait only for the last command.
UpdateExitStatusEarly ==
  /\ pc = "wait"
  /\ last # 0 => st[last] = "reaped"
  /\ status' = IF lastSigQuit THEN 131 ELSE Code(lastStatus)
  /\ pc' = "prompt"
  /\ cur' = 1 /\ prev' = 0 /\ last' = 0
  /\ st' = [c \in Cmd |-> "none"] /\ ws' = [c \in Cmd |-> "exit0"]
  /\ buf' = [c \in Cmd |-> 0]
  /\ lastStatus' = "exit0" /\ anySigInt' = FALSE /\ lastSigQuit' = FALSE
  /\ UNCHANGED <<line, rd, wr, in, out, sigs>>

\* waitpid() has no child left: update_exit_status, and back to the prompt.
\* The locals of exec_loop and wait_all_children go out of scope.
UpdateExitStatus ==
  /\ pc = "wait"
  /\ \A c \in Cmd : st[c] \in {"none", "reaped"}
  /\ status' = IF lastSigQuit THEN 131 ELSE Code(lastStatus)
  /\ pc' = "prompt"
  /\ cur' = 1 /\ prev' = 0 /\ last' = 0
  /\ st' = [c \in Cmd |-> "none"] /\ ws' = [c \in Cmd |-> "exit0"]
  /\ buf' = [c \in Cmd |-> 0]
  /\ lastStatus' = "exit0" /\ anySigInt' = FALSE /\ lastSigQuit' = FALSE
  /\ UNCHANGED <<line, rd, wr, in, out, sigs>>

ParentStep ==
  \/ PreparePipe \/ PreparePipeFails \/ ForkHandler \/ ForkHandlerFails
  \/ HandleParentPipes \/ UpdateExitStatus
  \/ \E c \in Cmd : WaitLoop(c)

----------------------------------------------------------------------------
(* The child's side: child_process up to the point where its program runs. *)

parent == <<pc, line, cur, prev, last, waiting, status, sigs>>

SetupChildSignals(c) ==
  /\ st[c] = "forked"
  /\ st' = [st EXCEPT ![c] = "sigset"]
  /\ UNCHANGED <<parent, rd, wr, in, out, ws, buf>>

FirstStep(k) == CASE k = "quit"              -> "quit"
                  [] k \in {"cat", "head"}   -> "read"
                  [] k \in {"source", "yes"} -> "write"

\* Mutant: the child forgets the read end of its own output pipe.
SetupPipesKeepsReader(c) ==
  /\ st[c] = "sigset"
  /\ in' = [in EXCEPT ![c] = IF c > 1 THEN c - 1 ELSE @]
  /\ out' = [out EXCEPT ![c] = IF c < n THEN c ELSE @]
  /\ rd' = [rd EXCEPT ![c] = IF c > 1 THEN Without(@, c - 1) ELSE @]
  /\ wr' = [wr EXCEPT ![c] = IF c < n THEN Without(@, c) ELSE @]
  /\ st' = [st EXCEPT ![c] = FirstStep(prog[c])]
  /\ UNCHANGED <<parent, ws, buf>>

\* dup2 the ends onto 0 and 1 and close every other copy; the child's own
\* prev_pipe[0] is the read end of pipe c-1, its curr_pipe is pipe c.
SetupPipes(c) ==
  /\ st[c] = "sigset"
  /\ in' = [in EXCEPT ![c] = IF c > 1 THEN c - 1 ELSE @]
  /\ out' = [out EXCEPT ![c] = IF c < n THEN c ELSE @]
  /\ rd' = [rd EXCEPT ![c] =
                  Without(IF c > 1 THEN Without(@, c - 1) ELSE @,
                          IF c < n THEN c ELSE 0)]
  /\ wr' = [wr EXCEPT ![c] = IF c < n THEN Without(@, c) ELSE @]
  /\ st' = [st EXCEPT ![c] = FirstStep(prog[c])]
  /\ UNCHANGED <<parent, ws, buf>>

----------------------------------------------------------------------------
(* External: the kernel's pipes and the programs in the pipeline.          *)

HasReader(k) == \/ \E p \in Proc : k \in rd[p]
                \/ \E c \in Cmd : in[c] = k
HasWriter(k) == \/ \E p \in Proc : k \in wr[p]
                \/ \E c \in Cmd : out[c] = k

\* The processes in D end with wait status w; the kernel closes their
\* descriptors.
End(D, w) ==
  /\ st' = [c \in Cmd |-> IF c \in D THEN "zombie" ELSE st[c]]
  /\ ws' = [c \in Cmd |-> IF c \in D THEN w ELSE ws[c]]
  /\ rd' = [p \in Proc |-> IF p \in D THEN {} ELSE rd[p]]
  /\ wr' = [p \in Proc |-> IF p \in D THEN {} ELSE wr[p]]
  /\ in' = [c \in Cmd |-> IF c \in D THEN 0 ELSE in[c]]
  /\ out' = [c \in Cmd |-> IF c \in D THEN 0 ELSE out[c]]

Goto(c, s) == st' = [st EXCEPT ![c] = s] /\ UNCHANGED <<rd, wr, in, out, ws>>

\* A command that does no pipe I/O: a redirection error, a builtin, true...
Quit(c) ==
  /\ st[c] = "quit"
  /\ \E w \in {"exit0", "exit1"} : End({c}, w)
  /\ UNCHANGED <<parent, buf>>

AfterWrite(c) == IF prog[c] = "source" THEN End({c}, "exit0")
                 ELSE Goto(c, FirstStep(prog[c]))
AfterRead(c)  == IF prog[c] = "head" THEN End({c}, "exit0") ELSE Goto(c, "write")

\* write() blocks on a full pipe and raises SIGPIPE on one nobody reads.
Write(c) ==
  /\ st[c] = "write"
  /\ \/ out[c] = 0 /\ AfterWrite(c) /\ UNCHANGED buf
     \/ /\ out[c] # 0 /\ ~HasReader(out[c])
        /\ End({c}, "SIGPIPE") /\ UNCHANGED buf
     \/ /\ out[c] # 0 /\ HasReader(out[c]) /\ buf[out[c]] < PipeCap
        /\ buf' = [buf EXCEPT ![out[c]] = @ + 1]
        /\ AfterWrite(c)
  /\ UNCHANGED parent

\* read() blocks on an empty pipe until no process holds its write end.
Read(c) ==
  /\ st[c] = "read" /\ in[c] # 0
  /\ \/ /\ buf[in[c]] > 0
        /\ buf' = [buf EXCEPT ![in[c]] = @ - 1]
        /\ AfterRead(c)
     \/ /\ buf[in[c]] = 0 /\ ~HasWriter(in[c])
        /\ End({c}, "exit0") /\ UNCHANGED buf
  /\ UNCHANGED parent

\* The first command reads the terminal: a line, or end-of-file.
ReadTerminal(c) ==
  /\ st[c] = "read" /\ in[c] = 0
  /\ AfterRead(c) \/ End({c}, "exit0")
  /\ UNCHANGED <<parent, buf>>

\* Ctrl-C or Ctrl-\ reaches every process of the line.  The shell ignores
\* both, and so does a child that has not reached setup_child_signals.
Keyboard(s) ==
  /\ pc # "prompt" /\ sigs < MaxSignals
  /\ sigs' = sigs + 1
  /\ End({c \in Cmd : st[c] \in {"sigset"} \union Running}, s)
  /\ UNCHANGED <<pc, line, cur, prev, last, waiting, status, buf>>

ChildStep(c) ==
  SetupChildSignals(c) \/ SetupPipes(c) \/ Quit(c) \/ Write(c) \/ Read(c)

Next ==
  \/ ExecLoop
  \/ ParentStep
  \/ \E c \in Cmd : ChildStep(c) \/ ReadTerminal(c)
  \/ \E s \in {"SIGINT", "SIGQUIT"} : Keyboard(s)

\* The kernel schedules the shell and every runnable child.  Nothing makes
\* the user enter a line, answer a read of the terminal or press a key.
Fairness == WF_vars(ParentStep) /\ \A c \in Cmd : WF_vars(ChildStep(c))

Spec == Init /\ [][Next]_vars /\ Fairness

----------------------------------------------------------------------------
(* Properties.                                                             *)

\* While a program runs it holds its two ends of the pipeline and no other:
\* the stray copies inherited over fork (its own pipe's read end, the write
\* end behind it) are what keeps a reader from ever seeing end-of-file.
ProgramHoldsOnlyItsEnds ==
  \A c \in Cmd : st[c] \in Running =>
    /\ rd[c] = {} /\ wr[c] = {}
    /\ in[c] = c - 1
    /\ out[c] = IF c < n THEN c ELSE 0

\* The shell holds no pipe end once it has stopped launching, whichever of
\* pipe() and fork() failed on the way; so no descriptor leaks across lines.
ShellHoldsNoPipe ==
  pc \in {"wait", "prompt"} => rd[Shell] = {} /\ wr[Shell] = {}

\* Whatever the order in which the children die and are reaped, and whether
\* or not all of them could be launched, the line's status is that of the
\* last command that was launched (0 when none was).
StatusOfLastLaunched ==
  [][pc = "wait" /\ pc' = "prompt" =>
       status' = IF last = 0 THEN 0 ELSE Code(ws[last])]_vars

\* A line that by its nature ends: its first command does not read the
\* terminal, and some command after the last endless one stops by itself.
FiniteLine ==
  /\ prog[1] \notin {"cat", "head"}
  /\ \A c \in 1 .. n : prog[c] = "yes" =>
        \E d \in c + 1 .. n : prog[d] \in {"source", "head", "quit"}

\* Such a line brings the prompt back: no reader waits for an end-of-file
\* that a forgotten descriptor holds up, no writer survives its reader.
FiniteLineReturns == pc # "prompt" /\ FiniteLine ~> pc = "prompt"

----------------------------------------------------------------------------
(* What the executor promises, without descriptors, signals or waitpid.    *)

Job == INSTANCE Job WITH
  phase   <- IF pc = "prompt" THEN "prompt" ELSE
             IF pc = "wait" THEN "wait" ELSE "launch",
  stage   <- [c \in Cmd |-> IF st[c] = "none" THEN "idle" ELSE
                            IF st[c] \in Alive THEN "running" ELSE "ended"],
  outcome <- ws,
  Outcomes <- WaitStatus

JobSpec == Job!Spec
=============================================================================
