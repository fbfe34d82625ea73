------------------------------ MODULE Heredoc -------------------------------
(***************************************************************************)
(* Here-documents: what executor() does with them before, and right after, *)
(* the commands of a line run.                                             *)
(*                                                                         *)
(* For every << of the line, in order, the shell forks a child that reads  *)
(* the body from the terminal into a temporary file; the commands later    *)
(* open those files, and cleanup_heredocs unlinks them.  The shell and the *)
(* child interleave with Ctrl-C, whose effect depends on the SIGINT        *)
(* disposition each of them has at that moment, with failing system calls  *)
(* and with the child being killed.                                        *)
(*                                                                         *)
(* A node is [delim, quoted]: the raw delimiter, quotes included, is the   *)
(* pair.  A temporary file's name is that raw delimiter and the node's     *)
(* index in its command; the shell's pid, the rest of it, never changes.   *)
(***************************************************************************)
EXTENDS Naturals, Sequences, SequencesExt, FiniteSets

CONSTANTS Lines,         \* command lines: a sequence of nodes per command
          Delims,        \* delimiters, quotes aside
          MAX_HEREDOCS,  \* exec.h: heredocs allowed in one command
          MaxBody,       \* bounds: lines typed into one heredoc,
          MaxLines,      \* command lines typed,
          MaxSignals,    \* Ctrl-C typed per command line,
          MaxFailures    \* steps in which system calls fail, and killed children

Node == [delim : Delims, quoted : BOOLEAN]

ASSUME LinesAssumption == Lines \subseteq Seq(Seq(Node))
ASSUME BoundsAssumption ==
  /\ MAX_HEREDOCS \in Nat /\ MaxBody \in Nat
  /\ MaxLines \in Nat /\ MaxSignals \in Nat /\ MaxFailures \in Nat

VARIABLES
  pc,        \* the shell: "prompt", "next", "wait", "run", "exited"
  input,     \* the line's heredocs, as the parser left them
  cmd, idx,  \* process_heredocs's cmd, process_cmd_heredocs's current and index
  status,    \* shell->last_exit_status
  sigint,    \* the shell's SIGINT disposition, which a child inherits
  child,     \* where the heredoc child stands, or its wait status
  childSig,  \* the child's SIGINT disposition
  g,         \* the child's g_received_signal = SIGINT
  stdin,     \* is the child's descriptor 0 open
  typed,     \* what readline returned
  fs,        \* temporary files: name -> the lines written
  signals, failures, lines,    \* the bounded counters
  count,     \* history: lines the user typed into each node of the line
  faults,    \* history: the calls that failed in each node's child
  stale,     \* history: temporary files there when the line was typed
  ctrlC      \* history: Ctrl-C reached the heredoc prompt during this line

shell == <<pc, input, cmd, idx, status, sigint, lines, stale>>
proc == <<child, childSig, g, stdin, typed>>
hist == <<count, faults>>
vars == <<shell, proc, fs, signals, failures, hist, ctrlC>>

\* What the child is doing, in the order of child_heredoc_process.
Reading == {"top", "readline", "check", "write"}
Busy == Reading \union {"forked", "opened", "armed", "expand", "replace", "copy"}
Ended == {"exit0", "exit130", "killed"}

Code(s) == CASE s = "exit0" -> 0 [] s = "exit130" -> 130 [] s = "killed" -> 137

\* generate_tmpfile_name.  The ".final" twin gets a third component.
TmpName(c, i) == <<input[c][i], i>>
Final(name) == Append(name, "final")
NodesOf(l) == UNION {{<<c, i>> : i \in 1 .. Len(l[c])} : c \in DOMAIN l}
Names(l) == {<<l[n[1]][n[2]], n[2]>> : n \in NodesOf(l)}
\* The files of the nodes before (cmd, idx).
Done == {TmpName(n[1], n[2]) : n \in
           {m \in NodesOf(input) : m[1] < cmd \/ (m[1] = cmd /\ m[2] < idx)}}

ThisNode == <<cmd, idx>>
Current == TmpName(cmd, idx)
CreateFile(f, name, text) ==
  [x \in DOMAIN f \union {name} |-> IF x = name THEN text ELSE f[x]]
Unlink(f, names) == [x \in DOMAIN f \ names |-> f[x]]

\* A line in a file: the k-th of those typed into node n; its form is "typed",
\* "expanded", or "damaged" when failing calls lost some of its text.
Written(n, k, form) == [node |-> n, line |-> k, form |-> form]
Whole(n, k, form) == [j \in 1 .. k |-> Written(n, j, form)]

\* The calls of a child whose failure its exit status does not tell: the writes
\* of heredoc_loop; expand_heredoc_content's opens; its reads and writes; the
\* opens of replace_heredoc_file, of the file it truncates and of the one it
\* reads; the reads and writes of copy_expanded_file.
Calls == {"write", "expand", "lines", "truncate", "read", "copy"}

\* What is in a file after lines s were read and written with calls failing:
\* some of them, in order, of which some have lost text.
Picks(n) == UNION {{m \in [1 .. k -> 1 .. n] : \A i, j \in 1 .. k : i < j => m[i] < m[j]} :
                     k \in 0 .. n}
LeftOf(s) ==
  {[j \in DOMAIN m |-> IF j \in damaged THEN [s[m[j]] EXCEPT !.form = "damaged"] ELSE s[m[j]]] :
     m \in Picks(Len(s)), damaged \in SUBSET DOMAIN s}

\* What lines s are expanded to.  One after a damaged line may be read as the
\* end of that line, whose newline is lost, and expanded to something else.
Expansions(s) ==
  {[j \in DOMAIN s |->
      IF s[j].form = "damaged" \/ j \in joined THEN [s[j] EXCEPT !.form = "damaged"]
                                            ELSE [s[j] EXCEPT !.form = "expanded"]] :
     joined \in SUBSET {j \in DOMAIN s : j > 1 /\ s[j - 1].form = "damaged"}}

TypeOK ==
  /\ pc \in {"prompt", "next", "wait", "run", "exited"}
  /\ input \in Lines \union {<<>>}
  /\ cmd \in Nat \ {0} /\ idx \in Nat \ {0}
  /\ status \in {0, 1, 2, 130, 137}
  /\ sigint \in {"ignore", "prompt"}
  /\ child \in {"none"} \union Busy \union Ended
  /\ childSig \in {"ignore", "prompt", "heredoc"}
  /\ g \in BOOLEAN /\ stdin \in BOOLEAN /\ ctrlC \in BOOLEAN
  /\ typed \in {"nothing", "body", "delimiter", "eof"}
  /\ signals \in 0 .. MaxSignals /\ failures \in 0 .. MaxFailures
  /\ lines \in 0 .. MaxLines
  /\ \A name \in DOMAIN fs : Len(fs[name]) <= MaxBody
  /\ \A n \in DOMAIN faults : faults[n] \subseteq Calls

Init ==
  /\ pc = "prompt" /\ input = <<>> /\ cmd = 1 /\ idx = 1
  /\ status = 0 /\ sigint = "prompt"
  /\ child = "none" /\ childSig = "ignore" /\ g = FALSE /\ stdin = TRUE
  /\ typed = "nothing" /\ fs = <<>>
  /\ signals = 0 /\ failures = 0 /\ lines = 0
  /\ count = <<>> /\ faults = <<>> /\ stale = {} /\ ctrlC = FALSE

Fail == failures < MaxFailures /\ failures' = failures + 1
FailIn(call) ==
  /\ Fail
  /\ faults' = [faults EXCEPT ![ThisNode] = @ \union {call}] /\ UNCHANGED count

----------------------------------------------------------------------------
(* The shell.                                                              *)

\* process_input ignores SIGINT, and executor starts process_heredocs.
NewLine ==
  /\ pc = "prompt" /\ lines < MaxLines
  /\ input' \in Lines
  /\ cmd' = 1 /\ idx' = 1 /\ pc' = "next" /\ sigint' = "ignore"
  /\ lines' = lines + 1 /\ signals' = 0
  /\ count' = [n \in NodesOf(input') |-> 0] /\ faults' = [n \in NodesOf(input') |-> {}]
  /\ stale' = DOMAIN fs /\ ctrlC' = FALSE
  /\ UNCHANGED <<status, proc, fs, failures>>

AtNode == pc = "next" /\ cmd <= Len(input) /\ idx <= Len(input[cmd])
TooMany == idx = 1 /\ Len(input[cmd]) > MAX_HEREDOCS

\* heredoc_max: the shell itself exits, with 2.
HeredocMax ==
  /\ AtNode /\ TooMany
  /\ pc' = "exited" /\ status' = 2
  /\ UNCHANGED <<input, cmd, idx, sigint, lines, stale, proc, fs, signals,
                 failures, hist, ctrlC>>

\* The child inherits the disposition; whatever g_received_signal it also
\* inherits is reset before it is read.
ForkHeredoc ==
  /\ AtNode /\ ~TooMany
  /\ pc' = "wait"
  /\ child' = "forked" /\ childSig' = sigint /\ g' = FALSE /\ stdin' = TRUE
  /\ typed' = "nothing"
  /\ UNCHANGED <<input, cmd, idx, status, sigint, lines, stale, fs, signals,
                 failures, hist, ctrlC>>

\* fork() fails: executor returns at once, $? untouched, nothing unlinked.
ForkHeredocFails ==
  /\ AtNode /\ ~TooMany /\ Fail
  /\ pc' = "prompt"
  /\ UNCHANGED <<input, cmd, idx, status, sigint, lines, stale, proc, fs,
                 signals, hist, ctrlC>>

NextCommand ==
  /\ pc = "next" /\ cmd <= Len(input) /\ idx > Len(input[cmd])
  /\ cmd' = cmd + 1 /\ idx' = 1
  /\ UNCHANGED <<pc, input, status, sigint, lines, stale, proc, fs, signals,
                 failures, hist, ctrlC>>

\* parent_wait_heredoc, then the next node or executor's early return.
ParentWaitHeredoc ==
  /\ pc = "wait" /\ child \in Ended
  /\ sigint' = "prompt"
  /\ IF child = "exit0"
     THEN idx' = idx + 1 /\ pc' = "next" /\ UNCHANGED status
     ELSE pc' = "prompt" /\ status' = Code(child) /\ UNCHANGED idx
  /\ child' = "none" /\ childSig' = "ignore" /\ g' = FALSE /\ stdin' = TRUE
  /\ typed' = "nothing"
  /\ UNCHANGED <<input, cmd, lines, stale, fs, signals, failures, hist, ctrlC>>

\* Every heredoc is in its file: the commands run (see Executor).
StartCommands ==
  /\ pc = "next" /\ cmd > Len(input)
  /\ pc' = "run"
  /\ UNCHANGED <<input, cmd, idx, status, sigint, lines, stale, proc, fs,
                 signals, failures, hist, ctrlC>>

\* The commands have ended; each of the line's files is unlinked.
CleanupHeredocs ==
  /\ pc = "run"
  /\ status' \in {0, 1}
  /\ fs' = Unlink(fs, Names(input))
  /\ pc' = "prompt"
  /\ UNCHANGED <<input, cmd, idx, sigint, lines, stale, proc, signals,
                 failures, hist, ctrlC>>

----------------------------------------------------------------------------
(* The child.                                                              *)

Goto(s) == child' = s /\ UNCHANGED <<childSig, g, stdin, typed>>
NotShell == UNCHANGED <<shell, signals>>

\* Mutant: open without O_TRUNC.
OpenTmpFileKeepsText ==
  /\ child = "forked" /\ Goto("opened")
  /\ fs' = IF Current \in DOMAIN fs THEN fs ELSE CreateFile(fs, Current, <<>>)
  /\ NotShell /\ UNCHANGED <<failures, hist, ctrlC>>

\* create_heredoc_file's open, which truncates a file left by an older line.
OpenTmpFile ==
  /\ child = "forked" /\ Goto("opened")
  /\ fs' = CreateFile(fs, Current, <<>>)
  /\ NotShell /\ UNCHANGED <<failures, hist, ctrlC>>

OpenTmpFileFails ==
  /\ child = "forked" /\ Fail /\ Goto("exit130")
  /\ NotShell /\ UNCHANGED <<fs, hist, ctrlC>>

SetupHeredocSignals ==
  /\ child = "opened"
  /\ child' = "armed" /\ childSig' = "heredoc"
  /\ NotShell /\ UNCHANGED <<g, stdin, typed, fs, failures, hist, ctrlC>>

ResetReceivedSignal ==
  /\ child = "armed"
  /\ child' = "top" /\ g' = FALSE
  /\ NotShell /\ UNCHANGED <<childSig, stdin, typed, fs, failures, hist, ctrlC>>

\* Mutant: handle_heredoc_interrupt without its unlink.
InterruptedKeepsFile == Goto("exit130") /\ UNCHANGED fs

Interrupted == fs' = Unlink(fs, {Current}) /\ Goto("exit130")

HeredocLoopTop ==
  /\ child = "top"
  /\ IF g THEN Interrupted ELSE Goto("readline") /\ UNCHANGED fs
  /\ NotShell /\ UNCHANGED <<failures, hist, ctrlC>>

\* readline returns what the user types, or NULL once descriptor 0 is closed.
UserTypes(what) ==
  /\ child = "readline" /\ stdin
  /\ what = "body" => count[ThisNode] < MaxBody
  /\ child' = "check" /\ typed' = what
  /\ count' = [count EXCEPT ![ThisNode] = IF what = "body" THEN @ + 1 ELSE @]
  /\ NotShell /\ UNCHANGED <<childSig, g, stdin, fs, failures, faults, ctrlC>>

ReadlineClosed ==
  /\ child = "readline" /\ ~stdin
  /\ child' = "check" /\ typed' = "eof"
  /\ NotShell /\ UNCHANGED <<childSig, g, stdin, fs, failures, hist, ctrlC>>

AfterBody == IF input[cmd][idx].quoted THEN "exit0" ELSE "expand"

\* Mutant: the interrupt is only looked for before readline.
CheckHeredocLineNoSignal ==
  /\ child = "check"
  /\ Goto(IF typed = "body" THEN "write" ELSE AfterBody)
  /\ NotShell /\ UNCHANGED <<fs, failures, hist, ctrlC>>

\* An end-of-file only warns: the body ends there.
CheckHeredocLine ==
  /\ child = "check"
  /\ IF g THEN Interrupted
     ELSE /\ Goto(IF typed = "body" THEN "write" ELSE AfterBody)
          /\ UNCHANGED fs
  /\ NotShell /\ UNCHANGED <<failures, hist, ctrlC>>

WriteLine ==
  /\ child = "write" /\ Goto("top")
  /\ fs' = [fs EXCEPT ![Current] = Append(@, Written(ThisNode, count[ThisNode], "typed"))]
  /\ NotShell /\ UNCHANGED <<failures, hist, ctrlC>>

\* heredoc_loop does not look at what its two writes return: a line, or its
\* newline, that could not be written is lost, in part or whole, and the loop
\* goes on.
WriteLineFails ==
  /\ child = "write" /\ FailIn("write") /\ Goto("top")
  /\ \/ UNCHANGED fs
     \/ fs' = [fs EXCEPT ![Current] = Append(@, Written(ThisNode, count[ThisNode], "damaged"))]
  /\ NotShell /\ UNCHANGED ctrlC

\* expand_heredoc_content: the expanded lines go to the ".final" file...
ExpandToFinal ==
  /\ child = "expand" /\ Goto("replace")
  /\ \E text \in Expansions(fs[Current]) : fs' = CreateFile(fs, Final(Current), text)
  /\ NotShell /\ UNCHANGED <<failures, hist, ctrlC>>

\* ...or what is left of them when a read or a write of process_heredoc_lines
\* fails, which nothing looks at...
ExpandToFinalCut ==
  /\ child = "expand" /\ FailIn("lines") /\ Goto("replace")
  /\ \E text \in Expansions(fs[Current]) : \E left \in LeftOf(text) :
       fs' = CreateFile(fs, Final(Current), left)
  /\ NotShell /\ UNCHANGED ctrlC

\* ...but the body stays as typed when one of the two files cannot be opened;
\* an empty ".final" may be left...
ExpandFails ==
  /\ child = "expand" /\ FailIn("expand") /\ Goto("exit0")
  /\ UNCHANGED fs \/ fs' = CreateFile(fs, Final(Current), <<>>)
  /\ NotShell /\ UNCHANGED ctrlC

\* ...then replace_heredoc_file opens ".final" and truncates the temporary
\* file...
ReplaceHeredocFile ==
  /\ child = "replace" /\ Goto("copy")
  /\ fs' = [fs EXCEPT ![Current] = <<>>]
  /\ NotShell /\ UNCHANGED <<failures, hist, ctrlC>>

\* ...without a look at either before both are done: a temporary file that
\* cannot be opened keeps what was typed, one whose ".final" cannot be opened is
\* empty.  ".final" is unlinked in every case, and the child exits 0...
ReplaceHeredocFileFails ==
  /\ child = "replace" /\ Goto("exit0")
  /\ \/ FailIn("truncate") /\ fs' = Unlink(fs, {Final(Current)})
     \/ FailIn("read") /\ fs' = Unlink([fs EXCEPT ![Current] = <<>>], {Final(Current)})
  /\ NotShell /\ UNCHANGED ctrlC

\* ...and copies the expanded lines back...
CopyExpandedFile ==
  /\ child = "copy" /\ Goto("exit0")
  /\ fs' = Unlink([fs EXCEPT ![Current] = fs[Final(Current)]], {Final(Current)})
  /\ NotShell /\ UNCHANGED <<failures, hist, ctrlC>>

\* ...or what its unchecked reads and writes leave of them.
CopyExpandedFileCut ==
  /\ child = "copy" /\ FailIn("copy") /\ Goto("exit0")
  /\ \E left \in LeftOf(fs[Final(Current)]) :
       fs' = Unlink([fs EXCEPT ![Current] = left], {Final(Current)})
  /\ NotShell /\ UNCHANGED ctrlC

----------------------------------------------------------------------------
(* Outside the program: the keyboard, and a kill -9 of the child.          *)

\* Mutant: the handler forgets close(STDIN_FILENO).
SigHandlerHeredocKeepsStdin ==
  /\ g' = (g \/ (child \in Busy /\ childSig # "ignore"))
  /\ UNCHANGED stdin

\* The handlers' effect on the child: sig_handler_prompt only sets the flag,
\* sig_handler_heredoc also closes descriptor 0 to get out of readline.
SigHandlerHeredoc ==
  /\ g' = (g \/ (child \in Busy /\ childSig # "ignore"))
  /\ stdin' = (stdin /\ ~(child \in Busy /\ childSig = "heredoc"))

CtrlC ==
  /\ pc \notin {"prompt", "exited"} /\ signals < MaxSignals
  /\ signals' = signals + 1
  /\ SigHandlerHeredoc
  /\ ctrlC' = (ctrlC \/ child \in Reading)
  /\ UNCHANGED <<shell, child, childSig, typed, fs, failures, hist>>

Kill ==
  /\ child \in Busy /\ Fail /\ Goto("killed")
  /\ NotShell /\ UNCHANGED <<fs, hist, ctrlC>>

ShellStep == HeredocMax \/ ForkHeredoc \/ NextCommand \/ ParentWaitHeredoc
             \/ StartCommands \/ CleanupHeredocs
ChildStep == OpenTmpFile \/ SetupHeredocSignals \/ ResetReceivedSignal
             \/ HeredocLoopTop \/ ReadlineClosed \/ CheckHeredocLine \/ WriteLine
             \/ ExpandToFinal \/ ReplaceHeredocFile \/ CopyExpandedFile
Silent == WriteLineFails \/ ExpandToFinalCut \/ ExpandFails
          \/ ReplaceHeredocFileFails \/ CopyExpandedFileCut
Failure == ForkHeredocFails \/ OpenTmpFileFails \/ Silent \/ Kill

Next ==
  \/ NewLine \/ ShellStep \/ ChildStep \/ Failure \/ CtrlC
  \/ \E what \in {"body", "delimiter", "eof"} : UserTypes(what)

\* The shell and its child are scheduled; nobody has to type anything.
Spec == Init /\ [][Next]_vars /\ WF_vars(ShellStep) /\ WF_vars(ChildStep)

----------------------------------------------------------------------------
(* Properties.                                                             *)

\* A Ctrl-C typed at the heredoc prompt, at whatever point of heredoc_loop
\* it lands and whatever is then typed or fails, keeps the line's commands
\* from running, and leaves 130 in $? (137 if the child is killed as well).
InterruptAborts ==
  ctrlC => /\ pc # "run"
           /\ pc = "prompt" => status \in {130, 137}

\* How the body of node n was left: expanded if its delimiter is unquoted,
\* unless its expansion could not be carried out; and whole, unless a call that
\* reads or writes that form of it failed.
Form(n) == IF input[n[1]][n[2]].quoted \/ faults[n] \intersect {"expand", "truncate"} # {}
           THEN "typed" ELSE "expanded"
Intact(n) == IF Form(n) = "typed" THEN "write" \notin faults[n] ELSE faults[n] = {}

\* Some of the k lines typed into node n, in order and each at most once.
LinesOf(n, k, form) == [node : {n}, line : 1 .. k, form : {form, "damaged"}]
Part(s, n, k, form) ==
  /\ s \in Seq(LinesOf(n, k, form))
  /\ \A i, j \in DOMAIN s : i < j => s[i].line < s[j].line

\* When the commands run, the file each will open for node (c, i) holds what
\* was typed into the last node of the line with the same name: two commands
\* of a pipeline using one delimiter at one index share one file.  It holds
\* every line of it, expanded if and only if the delimiter is unquoted, when no
\* call failed in that node's child, whatever failed elsewhere.  Calls that do
\* fail there (heredoc_loop, expand_heredoc_content, replace_heredoc_file and
\* copy_expanded_file check none of their reads and writes, and the child exits
\* 0) cost lines of that body or its expansion, and never bring in a line of
\* another body, of an older line, a line twice or out of order; and the body is
\* empty if ".final" could not be read after the file was truncated for it.
BodyReachesCommand ==
  pc = "run" => \A n \in NodesOf(input) :
    LET name == TmpName(n[1], n[2])
        same == {m \in NodesOf(input) : TmpName(m[1], m[2]) = name}
        l == CHOOSE m \in same : \A o \in same : o[1] <= m[1]
    IN /\ name \in DOMAIN fs
       /\ Part(fs[name], l, count[l], Form(l))
       /\ Intact(l) => fs[name] = Whole(l, count[l], Form(l))
       /\ "read" \in faults[l] => fs[name] = <<>>

\* Which files a line adds or removes, kills aside.  A line whose commands
\* ran leaves none of its own; one that was given up leaves those of the
\* nodes already read, for executor returns without cleanup_heredocs, minus
\* the one whose reading was interrupted.
LeftoverFiles ==
  /\ pc' = "prompt" /\ pc = "run" /\ failures = 0 => DOMAIN fs' = stale \ Names(input)
  /\ pc' \in {"prompt", "exited"} /\ pc \in {"next", "wait"} /\ failures' = 0 =>
       DOMAIN fs' = (stale \union Done) \ (IF pc = "wait" THEN {Current} ELSE {})
FilesLeftBehind == [][LeftoverFiles]_vars

\* A Ctrl-C at the heredoc prompt brings back the shell's prompt, though the
\* user types nothing more: closing descriptor 0 gets the child out of
\* readline.
InterruptReturns == ctrlC ~> pc = "prompt"
=============================================================================
