---------------------------- MODULE Redirection -----------------------------
(***************************************************************************)
(* The redirections of one command: parse_redir's lists, handle_redirections*)
(* in the process that applies them, and exec_builtin_parent around it.    *)
(*                                                                         *)
(* A forked child applies them for a program, and for a line made of       *)
(* nothing but redirections; the shell itself does for cd, export, unset   *)
(* and exit, and then has to get its own descriptors back.  Meanwhile other*)
(* programs may create, remove or protect the files.                       *)
(***************************************************************************)
EXTENDS Naturals, Sequences, SequencesExt

CONSTANTS Files,       \* file names
          Lines,       \* redirections as written: sequences of [op, file]
          Limits,      \* values of RLIMIT_NOFILE
          MaxLines,    \* bounds: command lines,
          MaxOutside   \* and changes to the files by other programs

NULL == "NULL"         \* the file of an ambiguous redirect (expand_redir_file)
Op == {"<", "<<", ">", ">>"}

ASSUME LinesAssumption == Lines \subseteq Seq([op : Op, file : Files \union {NULL}])
ASSUME BoundsAssumption ==
  /\ "tty" \notin Files /\ NULL \notin Files
  /\ Limits \subseteq Nat /\ MaxLines \in Nat /\ MaxOutside \in Nat

\* What the command is: a program, nothing, a builtin the shell runs itself
\* (cd, export, unset), an exit that exits, an exit with too many arguments.
Kinds == {"program", "nothing", "builtin", "exit", "exitTooMany"}

\* A file, or what is at its path: "protected" has no permission for us,
\* "nodir" is a path whose directory does not exist.
FileKinds == {"absent", "plain", "directory", "protected", "nodir"}
Readable == {"plain", "directory"}
Writable == {"plain", "absent"}

VARIABLES
  pc,       \* where the line stands
  kind, line,
  me,       \* the process that applies the redirections
  fd,       \* descriptors 0 and 1 of each process
  saved,    \* exec_builtin_parent's original_stdin and original_stdout: what
            \* each is a duplicate of, or NULL
  k,        \* how far handle_all_output_redirections is
  fs, text, \* what is at each path, and the contents
  status,   \* shell->last_exit_status
  limit, lines, outside,
  before,   \* history: fs and text when the line was typed
  touched,  \* history: files the line opened for writing
  stuck     \* history: an exit that did not exit has run

vars == <<pc, kind, line, me, fd, saved, k, fs, text, status, limit, lines,
          outside, before, touched, stuck>>
disk == <<fs, text>>
fixed == <<kind, line, me, limit, lines, outside, before>>

----------------------------------------------------------------------------
(* parse_redir: three lists, one counter.                                  *)

InputOps == {"<"}
HeredocOps == {"<<"}
OutputOps == {">", ">>"}

\* Mutant: one counter per list.
ListOfPerList(r, ops) ==
  LET l == SelectSeq(r, LAMBDA e : e.op \in ops)
  IN [i \in DOMAIN l |-> [file |-> l[i].file, append |-> l[i].op = ">>", index |-> i]]

\* redir_add_back of each node whose operator is one of ops.
ListOf(r, ops) ==
  LET node(i) == [file |-> r[i].file, append |-> r[i].op = ">>", index |-> i]
      list[i \in 0 .. Len(r)] ==
        IF i = 0 THEN <<>>
        ELSE IF r[i].op \in ops THEN Append(list[i - 1], node(i)) ELSE list[i - 1]
  IN list[Len(r)]

Outputs == ListOf(line, OutputOps)

\* check_redir and validate_input pick the list whose last node was written
\* last, and look at that node only.  A sequence of length 0 or 1.
LastInput ==
  LET hd == ListOf(line, HeredocOps)
      in == ListOf(line, InputOps)
  IN IF hd = <<>> /\ in = <<>> THEN <<>>
     ELSE IF in = <<>> \/ (hd # <<>> /\ Last(hd).index > Last(in).index)
          THEN <<Last(hd).file>> ELSE <<Last(in).file>>

----------------------------------------------------------------------------
Descriptors == [in : Files \union {"tty"}, out : Files \union {"tty"}]
Backups == [in : Files \union {"tty", NULL}, out : Files \union {"tty", NULL}]
NoBackup == [in |-> NULL, out |-> NULL]

TypeOK ==
  /\ pc \in {"prompt", "backup", "backupOut", "validate", "input", "outputs",
             "run", "failed", "restore", "exited"}
  /\ kind \in Kinds /\ line \in Lines \union {<<>>}
  /\ me \in {"shell", "child"}
  /\ fd \in [{"shell", "child"} -> Descriptors]
  /\ saved \in Backups
  /\ k \in Nat
  /\ fs \in [Files -> FileKinds]
  /\ \A f \in Files : fs[f] # "plain" => text[f] = <<>>
  /\ status \in {0, 1} /\ touched \subseteq Files /\ stuck \in BOOLEAN
  /\ limit \in Limits /\ lines \in 0 .. MaxLines /\ outside \in 0 .. MaxOutside

Content(f) == [x \in Files |-> IF f[x] = "plain" THEN <<"old">> ELSE <<>>]

Init ==
  /\ pc = "prompt" /\ kind = "nothing" /\ line = <<>> /\ me = "child"
  /\ fd = [p \in {"shell", "child"} |-> [in |-> "tty", out |-> "tty"]]
  /\ saved = NoBackup /\ k = 1
  /\ fs \in [Files -> FileKinds] /\ text = Content(fs)
  /\ status = 0 /\ limit \in Limits /\ lines = 0 /\ outside = 0
  /\ before = <<fs, text>> /\ touched = {} /\ stuck = FALSE

InShell == {"builtin", "exit", "exitTooMany"}

\* executor picks exec_builtin_parent, or forks a child with a copy of the
\* descriptors; only exec_builtin_parent backs them up, and not for exit.
NewLine ==
  /\ pc = "prompt" /\ lines < MaxLines /\ lines' = lines + 1
  /\ kind' \in Kinds /\ line' \in Lines
  /\ me' = IF kind' \in InShell THEN "shell" ELSE "child"
  /\ fd' = [fd EXCEPT !["child"] = fd["shell"]]
  /\ pc' = IF kind' = "builtin" THEN "backup" ELSE "validate"
  /\ k' = 1 /\ before' = <<fs, text>> /\ touched' = {}
  /\ UNCHANGED <<saved, disk, status, limit, outside, stuck>>

\* Descriptors in use: 0, 1, 2 and the backups.
Held(d) == IF d = NULL THEN 0 ELSE 1
InUse == 3 + Held(saved.in) + Held(saved.out)
CanOpen == InUse + 1 <= limit

\* setup_fd_backup: two dup calls.
DupStdin ==
  /\ pc = "backup" /\ pc' = "backupOut"
  /\ saved' = IF CanOpen THEN [saved EXCEPT !.in = fd["shell"].in] ELSE saved
  /\ UNCHANGED <<fixed, fd, k, disk, status, touched, stuck>>

DupOfStdout == IF CanOpen THEN [saved EXCEPT !.out = fd["shell"].out] ELSE saved

\* Mutant: the duplicate of descriptor 0 is not closed when the second dup fails.
DupStdoutKeepsStdin ==
  /\ pc = "backupOut" /\ saved' = DupOfStdout
  /\ IF NULL \in {saved'.in, saved'.out}
     THEN pc' = "prompt" /\ status' = 1
     ELSE pc' = "validate" /\ UNCHANGED status
  /\ UNCHANGED <<fixed, fd, k, disk, touched, stuck>>

\* When either has failed the other is closed, and the builtin does not run.
DupStdout ==
  /\ pc = "backupOut"
  /\ IF NULL \in {DupOfStdout.in, DupOfStdout.out}
     THEN saved' = NoBackup /\ pc' = "prompt" /\ status' = 1
     ELSE saved' = DupOfStdout /\ pc' = "validate" /\ UNCHANGED status
  /\ UNCHANGED <<fixed, fd, k, disk, touched, stuck>>

\* Mutant: the result of validate_input is dropped.
ValidateInputIgnored ==
  /\ pc = "validate"
  /\ pc' = IF LastInput # <<>> /\ LastInput[1] # NULL /\ fs[LastInput[1]] \in Readable
           THEN "input" ELSE "outputs"
  /\ UNCHANGED <<fixed, fd, saved, k, disk, status, touched, stuck>>

\* access(F_OK) and access(R_OK) on the last input, before anything is opened.
ValidateInput ==
  /\ pc = "validate"
  /\ pc' = IF LastInput = <<>> THEN "outputs"
           ELSE IF LastInput[1] # NULL /\ fs[LastInput[1]] \in Readable THEN "input"
           ELSE "failed"
  /\ UNCHANGED <<fixed, fd, saved, k, disk, status, touched, stuck>>

\* handle_input_redirections: open, dup2 onto 0, close.  The file may no
\* longer be what ValidateInput saw.
HandleInputRedirections ==
  /\ pc = "input"
  /\ IF fs[LastInput[1]] \in Readable /\ CanOpen
     THEN fd' = [fd EXCEPT ![me].in = LastInput[1]] /\ pc' = "outputs"
     ELSE pc' = "failed" /\ UNCHANGED fd
  /\ UNCHANGED <<fixed, saved, k, disk, status, touched, stuck>>

\* One iteration of handle_all_output_redirections: every file is created,
\* and truncated unless appended to; the last one becomes descriptor 1.
CanOpenOutput == /\ Outputs[k].file # NULL /\ CanOpen
                 /\ fs[Outputs[k].file] \in Writable

\* Mutant: only the last output file is truncated.
HandleLastOutputRedirection ==
  /\ pc = "outputs" /\ k <= Len(Outputs) /\ CanOpenOutput
  /\ LET f == Outputs[k].file IN
     /\ fs' = [fs EXCEPT ![f] = "plain"]
     /\ text' = [text EXCEPT ![f] = IF Outputs[k].append \/ k < Len(Outputs) THEN @ ELSE <<>>]
     /\ touched' = touched \union {f}
     /\ fd' = [fd EXCEPT ![me].out = IF k = Len(Outputs) THEN f ELSE @]
  /\ k' = k + 1
  /\ UNCHANGED <<pc, fixed, saved, status, stuck>>

HandleOutputRedirection ==
  /\ pc = "outputs" /\ k <= Len(Outputs) /\ CanOpenOutput
  /\ LET f == Outputs[k].file IN
     /\ fs' = [fs EXCEPT ![f] = "plain"]
     /\ text' = [text EXCEPT ![f] = IF Outputs[k].append THEN @ ELSE <<>>]
     /\ touched' = touched \union {f}
     /\ fd' = [fd EXCEPT ![me].out = IF k = Len(Outputs) THEN f ELSE @]
  /\ k' = k + 1
  /\ UNCHANGED <<pc, fixed, saved, status, stuck>>

HandleOutputRedirectionFails ==
  /\ pc = "outputs" /\ k <= Len(Outputs) /\ ~CanOpenOutput
  /\ pc' = "failed"
  /\ UNCHANGED <<fixed, fd, saved, k, disk, status, touched, stuck>>

RedirectionsDone ==
  /\ pc = "outputs" /\ k > Len(Outputs)
  /\ pc' = "run"
  /\ UNCHANGED <<fixed, fd, saved, k, disk, status, touched, stuck>>

\* The command runs and writes to descriptor 1.  (A file removed meanwhile
\* keeps no name: what is written is lost.)
Output(out) == IF out # "tty" /\ fs[out] = "plain"
               THEN text' = [text EXCEPT ![out] = Append(@, "out")]
               ELSE UNCHANGED text

After == IF kind = "builtin" THEN "restore" ELSE "prompt"

Run ==
  /\ pc = "run" /\ kind # "exit"
  /\ IF kind \in {"program", "builtin"} THEN Output(fd[me].out) ELSE UNCHANGED text
  /\ status' = IF kind = "exitTooMany" THEN 1 ELSE 0
  /\ stuck' = (stuck \/ kind = "exitTooMany")
  /\ pc' = After
  /\ UNCHANGED <<fixed, fd, saved, k, fs, touched>>

RunExit ==
  /\ pc = "run" /\ kind = "exit" /\ pc' = "exited"
  /\ UNCHANGED <<fixed, fd, saved, k, disk, status, touched, stuck>>

\* Mutant: exec_builtin_parent returns as soon as a redirection fails.
FailedWithoutRestore ==
  /\ pc = "failed"
  /\ status' = IF kind = "nothing" THEN 0 ELSE 1
  /\ stuck' = (stuck \/ kind \in {"exit", "exitTooMany"})
  /\ pc' = "prompt"
  /\ UNCHANGED <<fixed, fd, saved, k, disk, touched>>

\* child_process exits 1, or 0 when there is no command; the parent sets 1.
Failed ==
  /\ pc = "failed"
  /\ status' = IF kind = "nothing" THEN 0 ELSE 1
  /\ stuck' = (stuck \/ kind \in {"exit", "exitTooMany"})
  /\ pc' = After
  /\ UNCHANGED <<fixed, fd, saved, k, disk, touched>>

RestoreFd ==
  /\ pc = "restore"
  /\ fd' = [fd EXCEPT !["shell"] = saved] /\ saved' = NoBackup
  /\ pc' = "prompt"
  /\ UNCHANGED <<fixed, k, disk, status, touched, stuck>>

\* Another program changes what is at a path.
Outside(f) ==
  /\ pc \notin {"prompt", "exited"} /\ outside < MaxOutside
  /\ outside' = outside + 1
  /\ \E s \in FileKinds \ {fs[f]} :
       /\ fs' = [fs EXCEPT ![f] = s]
       /\ text' = [text EXCEPT ![f] = IF s = "plain" THEN <<"new">> ELSE <<>>]
  /\ UNCHANGED <<pc, kind, line, me, fd, saved, k, status, limit, lines,
                 before, touched, stuck>>

Next ==
  \/ NewLine \/ DupStdin \/ DupStdout \/ ValidateInput \/ HandleInputRedirections
  \/ HandleOutputRedirection \/ HandleOutputRedirectionFails \/ RedirectionsDone
  \/ Run \/ RunExit \/ Failed \/ RestoreFd
  \/ \E f \in Files : Outside(f)

Spec == Init /\ [][Next]_vars

----------------------------------------------------------------------------
(* What the line says, read from left to right.                            *)

LastFile(ops) == LET S == {i \in DOMAIN line : line[i].op \in ops}
                 IN IF S = {} THEN fd["shell"][IF ops = OutputOps THEN "out" ELSE "in"]
                    ELSE line[CHOOSE i \in S : \A j \in S : j <= i].file

\* A program runs with the input written last and the output written last,
\* whichever of the two input lists holds it, and only when every redirection
\* that is opened could be.
RunsAsWritten ==
  /\ TypeOK
  /\ pc = "run" /\ me = "child" =>
       fd["child"] = [in |-> LastFile(InputOps \union HeredocOps), out |-> LastFile(OutputOps)]

\* What the files and $? should be after the line, if nobody interferes and
\* there are descriptors to spare: the last input is checked before anything
\* is written; then the outputs are opened from left to right up to the first
\* that cannot be; and the command runs if all could be.
Expected ==
  LET f0 == before[1]
      ins == {i \in DOMAIN line : line[i].op \in InputOps \union HeredocOps}
      outs == {i \in DOMAIN line : line[i].op \in OutputOps}
      Good(i, kinds) == line[i].file # NULL /\ f0[line[i].file] \in kinds
      inputOk == \A i \in ins : (\A j \in ins : j <= i) => Good(i, Readable)
      opened == {i \in outs : inputOk /\ \A j \in outs : j <= i => Good(j, Writable)}
      runs == inputOk /\ opened = outs
      On(f) == {i \in opened : line[i].file = f}
      kept(f) == IF \E i \in On(f) : line[i].op = ">" THEN <<>> ELSE before[2][f]
      written(f) == /\ runs /\ kind \in {"program", "builtin"}
                    /\ \E i \in On(f) : \A j \in outs : j <= i
  IN [fs |-> [f \in Files |-> IF On(f) # {} THEN "plain" ELSE f0[f]],
      text |-> [f \in Files |-> IF written(f) THEN Append(kept(f), "out") ELSE kept(f)],
      status |-> IF kind = "nothing" THEN 0
                 ELSE IF runs /\ kind # "exitTooMany" THEN 0 ELSE 1]

OutcomeAsWritten ==
  [][/\ pc \in {"run", "failed"} /\ pc' \in {"prompt", "restore"}
     /\ outside = 0 /\ ~stuck /\ limit >= 6
     => <<fs', text', status'>> = <<Expected.fs, Expected.text, Expected.status>>]_vars

\* No output file is created or truncated before the input is in place, even
\* when the input disappears between access and open: cat < missing > f
\* leaves f alone.
InputBeforeOutputs ==
  pc # "prompt" /\ me = "child" /\ touched # {} /\ LastInput # <<>> =>
    fd["child"].in = LastInput[1]

\* At the prompt the shell holds no backup, not one of the two either, and has
\* its own input and output again after any builtin that failed or succeeded;
\* an exit that did not exit is the exception, for nothing restores what it
\* redirected.
ShellDescriptors ==
  pc = "prompt" => /\ saved = NoBackup
                   /\ ~stuck => fd["shell"] = [in |-> "tty", out |-> "tty"]
=============================================================================
