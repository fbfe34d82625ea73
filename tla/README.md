# minishell in TLA+

A verification project for the shell in this repository (C, a POSIX-like shell
with pipelines, here-documents, redirections, expansion, seven builtins and the
signal behaviour of an interactive shell). Every definition is translated from
`src/srcs`; `PROJECT.json` names for each the lines it stands for.

- [The system](#the-system): parts, state, operations, interactions
- [Modules](#modules): which models what, and how it corresponds to the code
- [Runs](#runs): what TLC checks, the bounds, the fairness
- [Proofs](#proofs): what TLAPS proves, from what, and how
- [Findings](#findings)
- [What is not modelled](#what-is-not-modelled) and [what is left](#what-is-left)

To repeat a run: `tlc -config MCHeredoc.cfg MCHeredoc`; a proof: `tlapm
HeredocProofs.tla`.

## The system

One process reads a line with readline, makes tokens, commands and expanded
words of it, reads its here-documents, and runs it: one of `cd`, `export`,
`unset`, `exit` on its own in the process itself, everything else in forked
children. What outlives a line is the `t_shell` struct (the environment list,
`last_exit_status`, the pointers to the current line's data), the process's
current directory, descriptors 0 and 1 and signal dispositions, temporary files
in /tmp, and one global, `g_received_signal`, which the handlers set.

| Part | Code | State | Operations |
| --- | --- | --- | --- |
| Main loop, signals | `main.c`, `main_utils.c`, `exec/signal/`, `exec/utils/cleanup.c` | `t_shell`'s pointers, dispositions of SIGINT and SIGQUIT, `g_received_signal`, `$?` | a line from prompt to prompt, the handlers, the exits |
| Lexer, parser | `parsing/lexer/`, `parsing/parser/` | tokens with their segments; commands, each with arguments and three redirection lists | tokenising a line; the command list and syntax errors; who owns and frees the segments |
| Expander | `parsing/expander/`, `builtins_exec.c` | the words of each command, argv | `$NAME`, `$?`, quotes, word splitting, ambiguous redirects |
| Here-documents | `exec/redirection/heredoc*.c`, `get_next_line.c` | temporary files, the reading child, its descriptor 0, the reader's kept rest | reading, expanding, replacing and unlinking a file; Ctrl-C |
| Redirections | `exec/redirection/` (the rest), `exec/builtins/builtins_parent.c` | descriptors 0 and 1, their backups | checking the input, opening the outputs, restoring |
| Pipeline executor | `exec/executor/` | pipes, children, wait statuses | pipe, fork, close, the child's set-up, the wait loop |
| Finding programs | `try_paths.c`, `exec_cmd.c`, `exec_helper.c` | how far along PATH, the file in hand | the search along PATH; 126 and 127 |
| Environment | `exec/utils/*env*.c`, `ft_export*.c`, `ft_unset.c`, `ft_update_pwd.c` | `shell->env` | init, export, unset, update by cd, the table for execve |
| cd | `ft_builtin_cd.c`, `ft_cd_utils*.c`, `ft_pwd_utils.c` | current directory, PWD, OLDPWD | the logical and the direct chdir |
| exit | `ft_exit.c`, `ft_atoll.c` | - | its arguments, numbers, when it does not exit |
| SHLVL | `utils_env_init.c`, `ft_atoi.c`, `ft_itoa.c` | one variable, from shell to shell | reading, adding one, writing back |
| export without arguments | `ft_export_utils.c`, `env_to_array.c` | an array of strings | listing the environment in order |
| echo, pwd, env | `exec/builtins/` | - | output |

Where they meet:

- *Main loop and executor* share `$?`, the dispositions and the line's heap
  objects. The executor ignores SIGINT and SIGQUIT while children run; the wait
  loop and the here-document wait both bring the prompt's handlers back before
  the line is over.
- *Here-documents and redirections* share the temporary files: by name, and the
  name is made of the pid, the raw delimiter and the index in the command, not
  of the command.
- *Parser and redirections* share a counter: inputs and here-documents are two
  lists, and which one wins is decided by the number each node got.
- *cd and the environment* share PWD and OLDPWD; `cd` believes PWD as text.
- *Lexer, parser and expander* hand a line on: the parser takes the segments of
  each word out of its token, the expander takes quotes and blanks for what the
  lexer saw, so each has to rely on what the other never makes.
- *Expander and executor* share the stdout buffer: the one `printf` of the
  shell is followed by `fork`; and `$?`, which an ambiguous redirect changes in
  the middle of a line.
- *Children* inherit everything: pipe ends, dispositions, the buffer.

What is hard about it, by kind (`PROJECT.json` lists each at its line, with the
property that covers it):

- order: children die and are reaped in any order; a signal comes at any
  moment, in particular between a fork and the child's `setup_child_signals`,
  between a handler's installation and the reset of the flag, and between
  `readline` and the check after it;
- failure half-way: `pipe`, `fork`, `open`, `dup` failing after part of the
  work; a here-document interrupted after others were read;
- text that is stale: a file checked with `access` and opened later, PWD after
  the directory is gone, a file from an earlier line under the same name;
- resources that are not given back: a pipe end too many makes a line hang; a
  backup that is not restored loses the terminal; a pointer freed on one path
  and not on another;
- long sequences of legal calls: export, unset, cd and nested shells in any
  order on one list;
- boundaries: the last digit of `long long` and of `int`, a read that ends in
  the middle of a line, an empty word, a quote at the end of the line.

What makes each part correct, in short: a pipeline's program holds its own two
ends and nothing else, so that lines end; `$?` is the last command's; Ctrl-C at
a here-document aborts, ends and leaves a status; a command's files are what was
written left to right, and the shell has its descriptors back; the environment
is a map; PWD leads to where the shell is; every line's memory is freed once and
no keyboard signal ends the shell. A line becomes the commands its text says, or
is refused with 2; each word reaches its command expanded, split and complete; a
program that is there is found; a number means itself or is refused.

## Modules

Each module's variables and actions carry the names of the fields and functions
they model. `MC...` modules only give constants their values. A definition
commented `Mutant:` is a plausible bug in the definition that follows it; no
specification uses it, and putting it in place makes the named property fail
(`mutants` in `PROJECT.json`), so each property is known to depend on the code.

**Executor** (`exec_loop` and all it calls). The shell is process 0, command i
is process i; pipe k runs from command k to k+1. `rd[p]`, `wr[p]` are the ends
process p holds besides its descriptors `in[p]`, `out[p]`. One action per call:
`PreparePipe`, `ForkHandler`, `HandleParentPipes`, `WaitLoop`,
`UpdateExitStatus`, each failing call an action too; `SetupChildSignals` and
`SetupPipes` in the child. What programs do with their descriptors, and what the
kernel answers, is external: five kinds suffice (`source` writes once, `yes`
writes forever, `cat` copies, `head` reads once, `quit` does no pipe I/O; a
command whose redirections replace its ends behaves as `quit`). `Job` is the
abstract specification: commands launched left to right, each ending once, the
status that of the last one launched. `Executor` implements it (`JobSpec`), with
a command's stage read from its life cycle.

**Heredoc** (`process_heredocs`, the reading child, `cleanup_heredocs`). Names are
`<<node, index>>`: the delimiter with its quotes, and the index, so that sharing a
file is possible exactly where the code makes it so. `fs` maps names to lines; a
line of a body records the node it was typed into, which of that node's it is, and
whether it is as typed, expanded, or damaged. `sigint` and `childSig` are
dispositions; `CtrlC` acts by them. The calls nothing checks fail in actions of
their own, after which the child goes on as the code does: `WriteLineFails` (the two
writes of `heredoc_loop`), `ExpandFails` and `ExpandToFinalCut` (the opens, the
reads and writes of `expand_heredoc_content`), `ReplaceHeredocFileFails` (the two
opens of `replace_heredoc_file`, the second of which truncates the file before the
first is looked at) and `CopyExpandedFileCut`. What reads and writes that fail leave
is any of the lines in order, some with text missing (`LeftOf`); `HeredocContent`
has the same by characters. `faults` records which calls failed for which node.

**Redirection** (`parse_redir`'s lists, `handle_redirections`,
`exec_builtin_parent`). `ListOf` is the three lists with the counter; one action per
system call of the check, the opens and the two `dup` (`DupStdin`, `DupStdout`, of
which the second closes what there is when either failed); `Outside` is any other
program changing a file between two of them. `exit` is not backed up, as in the
code.

**Environment**, **EnvMap** (`shell->env`). The list is a sequence of nodes, `First`
is where the code's `strcmp` walk stops. `EnvMap` is a map from names to values, and
what each argument of a builtin does to it; `Environment` implements it (`MapSpec`).
An empty list stays empty in a relative `cd`, because the new OLDPWD node is
appended through a copy of the head; an absolute `cd` whose `getcwd` fails keeps
PWD. `export NAME+=x` binds the joined value, frees a string twice and aborts the
process; it is modelled as that (`aborted`). `Nested` starts the shell within
itself: `env_to_tab`, then `init_env`.

**Cd** (`builtin_cd`). Directories have identities apart from their names, so
that a directory removed and made again is another one; PWD is a sequence of
segments. `Walk` is what `chdir` does (external), `Normalize` and
`MakeAbsolutePath` what the code does to text. `Mkdir` and `Rmdir` happen at any
time, also between the two `chdir` and `getcwd`.

**Shell** (`main`, `minishell_loop`, `process_input`, the signal set-up). One
action per step of a line, with the executor reduced to its effect on
dispositions, `$?` and the heap. Four heap objects stand for what `t_shell`
points to; `Free` is any group of frees together with the pointers they reset,
and freeing a dangling pointer aborts. `SigInt`, `SigQuit` come at any moment.

**Stdio** (the `printf` in `expand_redir_file`). The buffer as a set of
messages; `fork` copies it, `exit` writes it, `execve` and signals drop it.

**Lexer** (`lexer` and all it calls). `i` is the position both loops share; one
action per turn of either: a run of blanks or an operator in the loop over
tokens, a quoted or an unquoted part in the loop over a word. `TokensAsWritten`
compares the tokens with a definition of the whole line by positions: which
quote is open at each character, where words begin and end.

**Parser** (`parser` and all it calls), on token types: a word is named by its
place in the list of tokens, for its text decides nothing here. One action per
kind of token (`AddArg`, `ParseRedir`, `HandlePipe`), per refusal and per return.
`segments` is the tokens that still own theirs, `freed` counts how often each was
freed; `AddArg` hands them to the argument, `SyntaxError` and `ResetLoop` free.

**Expander** (`expander` and all it calls, `args_to_array`). One action per argument
and per redirection file; the text is characters. The reference for the words is the
whole word expanded and then split (`WordsAsSplit`), for a quoted text it is what a
here-document's own expander would make of the same text (`SameAsHeredoc`).

**FrontEnd** composes the three: the lexer's tokens are the parser's input, the
parser's commands the expander's. Each step is a step of one of the instances;
`PartsFit` says that what a part hands on is what the next one takes for
granted, `CommandsAsTyped` compares the end with the typed line alone, and the
properties of the lexer and the expander are checked here, on what each is really
given.

**PathSearch** (`try_paths`, `exec_cmd`, `exec_helper`). One action per `access`,
`stat` and `execve`, `i` being `try_paths`' index into PATH; `Change` is any other
process replacing a file between two of them, `touched` which ones. A child ends
as the program at `ran` (or `sh` reading it) or with a `code` of its own.

**Exit** (`builtin_exit`, `is_valid_exit_arg`, `ft_atoll_safe`). Arguments are
characters, the width of `long long` a constant. One action for each way through the
checks (`NoArgument`, `InvalidArgument`, `ValidArgument`) and for each digit
(`ReadDigit`), so that each overflow test comes before its multiplication, as in the
code; `written` is the number without a limit, for the properties alone.

**HeredocContent** (`expand_heredoc_content`, `get_next_line`,
`copy_expanded_file`): what `Heredoc` takes for one step. `read` returns any
number of bytes up to the buffer, and every call may fail; `res` is the static
rest that `get_next_line` keeps between calls.

**ShellLevel** (`init_shlvl`, `ft_atoi`, `ft_itoa`): shells within shells, on an
`int` of scaled width with the code's wrap; `Decimal` is `ft_itoa`'s loop over the
digits, from the last one.

**Listing** (`export_onl`, `sort_strings`, `env_to_array`): the strings `NAME=value`
and the pointer sort, one action per comparison.

**Command** composes the last five and `PathSearch` for the runs. They share no state with
each other, and one process works through each of them alone, so one is at work
(`command`) and the variables of the others are at rest; its steps are those of the
instances.

**InOrder** defines the members of a set of numbers in their order, from which
`Parser` says what a line's commands are and in which order.

**...Proofs** modules hold the theorems of the module they extend; `ShellProofs`
those of `Shell` and `Stdio`, `CommandProofs` those of `Command`, its parts and `Cd`,
`FrontEndProofs` those of `FrontEnd` with its three parts.

The modules meet at the interfaces above, each with the others reduced to what it
can observe: `Shell` sees a pipeline as two dispositions and a status, `Executor`
sees redirections as a program's kind and the search for it as one step, `Heredoc`
sees the pipeline as one step that returns 0 or 1 and the expansion of a file as
three that may each fail, `Redirection` sees what the parser made of a line as its
lists. `FrontEnd` INSTANCEs its parts unreduced.

## Runs

| Run | Instance | Distinct states | Shows |
| --- | --- | --- | --- |
| `executor` | 3 commands of 5 kinds, failing pipe and fork, 1 signal | 1 294 172 | programs and the shell hold the right ends; a line that can end does; the status; `Executor` implements `Job` |
| `heredoc` | 4 shapes of line, 2 lines, 2 Ctrl-C a line, 2 failures | 2 426 146 | abort, bodies, files left, the prompt comes back |
| `redirection` | every line of at most 2 redirections and two of 3, 2 files in 5 states, 3 to 6 descriptors, 1 outside change | 2 747 863 | what a command runs with and what it leaves; the shell's own descriptors |
| `environment` | 4 names, 5 values, up to 2 arguments, 3 initial environments | 334 615 | no double nodes; `Environment` implements `EnvMap` |
| `cd` | /a/b, /r/s and a link /l to /r/s; /a/b made again; arguments of up to 3 segments; HOME set or not | 268 450 | PWD leads to the directory; `cd ..` leaves a removed one |
| `shell` | unbounded lines and signals | 996 | memory, `$?`, survival |
| `stdio` | 3 commands, 2 here-documents | 2 612 | every message, once on a terminal |
| `parser` | every list of up to 5 tokens | 39 959 | which lines are refused; commands; segments freed once |
| `front_end` | every line of up to 4 of 8 characters and of 5 of 5, every list of up to 4 tokens, and lines for each part of the expander | 346 405 | lexer, parser and expander together: tokens, words, ambiguous redirects, memory, the line ends |
| `command` | see below | 2 024 794 | the search for a program, exit, the listing, nested shells, the expansion of a here-document |
| `cd_unset`, `stdio_redirected` | as `cd`, `stdio` | - | the two [findings](#findings) |

`command` gives each of its parts an instance of its own: PATH unset or of up to
two directories, seven kinds of file and one change to them; `exit` with up to
two arguments of up to 4 characters, and with one number of up to 5 digits, the
largest 2047; up to four of five names with three kinds of value; two shells
within each other, `int` up to 127; bodies of up to 5 characters, buffers of 2
and 3, two failures.

A type invariant is checked inside a property (`PartsFit`, `EachTold`,
`RunsAsWritten`, `PwdLeadsToCwd`, `ExitLeavesNumber`, `EnvironmentListed`, `BodyExpanded`) or
proved (`TypeCorrect`, below); it has no line of its own in the runs.

*The bounds and why they are enough.*
Three commands are the fewest with a middle one, which has both a pipe before it and
a pipe behind it, and a stray end inherited past a neighbour. One byte of pipe
buffer makes both blocking and SIGPIPE happen. One signal is enough for each order
of a signal and a step; the status and the ends are proved for any number of
commands and signals. A here-document instance needs two nodes to share a name, a
second line to meet a leftover of the first, and two body lines to be interrupted in
the middle, twice; two failures, to lose a line and then fail to expand or to
replace what is left, or one in each of two bodies; `MAX_HEREDOCS` is scaled from 16
to 2 and one line goes past it. Two redirections make every pair of lists, same file
or not; the lines of three put a here-document between the input lists and two
outputs. Three to six descriptors are the limits at which none, one, two or all of
the two `dup` calls and the `open` fit. One line is enough there: what it leaves the
next, the descriptors, is proved for all lines (`DescriptorsRestored`). Four names
are those the shell treats apart; any other behaves as SHLVL does once the shell has
started. Three initial environments are without PWD, with names lacking a value, and
empty.

In `FrontEnd` the alphabet has one character of each class the code tests for,
both quotes and every operator. Lines of four characters make a quoted operator
inside a word, `>>` against `> >`, and an open quote after each; the fifth, without
operators, lets `$` and a name stand between quotes. Five tokens make two commands with
a redirection each, an operator at every place it can be wrong, and the counter
past the first list. Two arguments of two segments put a split value before,
behind and next to a quoted one; values of three characters have blanks at
either end and in the middle; three commands set `$?` and read it later; quoted
texts of five characters hold two names with something between.

In `Command`, two directories are the fewest with an earlier and a later one, and
one change is enough for each pair of looks at a file to disagree. Widths are
scaled (`LLongMax` 2047, `IntMax` 127): the code compares with `LLONG_MAX / 10` and
the last digit, which `Parameters` of `Exit` keeps, and the inputs go beyond the
limits on both sides; what exit leaves is proved for any width. Buffers of 2 and
3 cut a body of five at every place, as `read` may return less anyway. `SHLVL` gets
every text of two characters and every number around the limits, and the second
shell reads what the first one wrote. Four names are enough for a bubble sort
that has to carry one from either end to the other.
The bounds `MaxLines`, `MaxSignals`, `MaxChanges`, `MaxFailures`, `MaxOutside`, `MaxBody`,
`MaxArgs`, `MaxShells` limit what users, the system or other programs do, never what
the shell does.

*Restrictions that are not bounds.* Where a module is given only what the part
before it makes, an assumption says so (`TokenLists` in `Parser`, `Written` in
`Expander`), and `PartsFit` says that the part before makes nothing else, which
is proved (`EachPartFits`). An initial environment has no name
twice (`EnvironsAssumption`): the code passes both of a caller's duplicates on,
and the map is not promised for them. In `Cd` the user does not set PWD by hand and
directories are not renamed; the link is only ever an argument of one segment,
for `cd link/..` does take PWD and the directory apart. `UpThroughLink` says when
exactly, and is the hypothesis of the theorem; the instance's only such string is
`../../a` behind /l, where both come out in the same place.

*Deadlock* is checked for `Executor` and `Cd`, where the user can always go on.
It is not where the shell may end (`Shell`, `Stdio`, `Heredoc`, `Redirection`,
`Environment` through its abort) or the lines are used up, nor where what is
modelled is a function that returns (`Parser`, `FrontEnd`, `Command`).

*Fairness.* `Executor` assumes weak fairness of the shell's steps and of each
child's: the kernel schedules every runnable process, and blocking is in the
guards. `Heredoc` assumes it of the shell and of its child; `FrontEnd` and `Command` of
the one process there is (`LineReturns` and `CommandEnds` are about loops whose exit is
a matter of arithmetic on positions), in `Command` of the child's own steps and not
of those who change its files. Nothing is assumed
of the user (typing, Ctrl-C, answering a read of the terminal), of other
programs, or of failures. The other modules state safety only and assume nothing.

## Proofs

| Theorem | For all | Property |
| --- | --- | --- |
| `ExecutorProofs!TypeCorrect`, `OnlyItsEnds`, `NoPipeLeft`, `LastLaunchedGivesStatus` | lengths of pipelines, programs, numbers of signals | the executor's safety properties |
| `ExecutorProofs!ImplementsJob` | the same | `Spec => JobSpec` |
| `HeredocProofs!InterruptedLineAborts`, `BodiesReachCommands`, `TypeCorrect` | lines, delimiters and bounds | `InterruptAborts`, `BodyReachesCommand`, `TypeOK` |
| `HeredocProofs!LeftByLines` | the same | `Spec => FilesLeftBehind` |
| `RedirectionProofs!DescriptorsRestored`, `InputComesFirst` | files, lines, limits and bounds | `ShellDescriptors`, `InputBeforeOutputs` |
| `RedirectionProofs!RedirectedAsWritten`, `OutcomeIsAsWritten` | the same | `RunsAsWritten`, `Spec => OutcomeAsWritten` |
| `EnvironmentProofs!TypeCorrect`, `OneNodeEach`, `ImplementsMap` | names, values, arguments, initial environments | `TypeOK`, `OneNodePerKey`, `Spec => MapSpec` |
| `ShellProofs!TypeCorrect`, `LinesFreeOnce`, `StatusKept`, `InterruptSeen`, `NeverKilled` | statuses | the properties of `Shell` |
| `ShellProofs!AmbiguousReported` | numbers of commands and here-documents | `EachTold` of `Stdio` |
| `ParserProofs!TypeCorrect`, `ParserAcceptsPipelines`, `SegmentsHaveOneOwner` | lines of any length | `TypeOK`, `AcceptsPipelines`, `SegmentsFreedOnce` |
| `ParserProofs!CommandsWritten` | the same | `CommandsAsWritten` |
| `FrontEndProofs!EachPartFits`, `SegmentsOfLineFreedOnce` | lines, environments, statuses | `PartsFit`, `SegmentsFreedOnce` |
| `FrontEndProofs!LinesReadAsWritten` | the same | `TokensAsWritten` |
| `FrontEndProofs!AmbiguousRedirections`, `QuotesExpandAsHeredoc` | the same | `AmbiguousRedirect`, `SameAsHeredoc` |
| `FrontEndProofs!WordsSplitAndReach` | the same | `WordsAsSplit` |
| `FrontEndProofs!CommandsTyped` | the same | `CommandsAsTyped` |
| `CommandProofs!TypeCorrect`, `SteadyProgramIsRun`, `StatusIsTrue` | PATH of any length, files, numbers of changes | `TypeOK`, `SteadyProgramRuns`, `StatusTellsWhy` of `PathSearch` |
| `CommandProofs!ExitStatus` | widths of `long long`, arguments | `ExitLeavesNumber` |
| `CommandProofs!ExportListsAll` | environments, orders of characters | `EnvironmentListed` |
| `CommandProofs!BodiesExpanded` | bodies, expansions of a line, buffer sizes, ways `read` cuts, failing calls | `BodyExpanded` |
| `CommandProofs!NextLevels` | widths of `int` whose largest value is 9 or more, texts in SHLVL, numbers of shells | `NextLevel` |
| `CommandProofs!CdUpLeaves` | trees, links, arguments, values of HOME | `CdUpMoves` of `Cd` |
| `CommandProofs!PwdFollows` | the same, links that lead down; no argument goes up through one | `PwdLeadsToCwd` |

They rest on the named `ASSUME`s of the modules and nothing else, each as weak
as the code allows; TLC evaluates them in every run. What they ask of a constant:
that bounds are natural numbers; that `NULL` is none of the values; in `Exit` that
7 is the last digit of the largest number, as it is of every two's complement
width of which the code's 64 is one; in `Listing` that different characters have
different codes; in `HeredocContent` that a body that is not empty ends in a
newline, as `heredoc_loop` leaves it when its writes succeed, and that a line expanded is text; in
`Cd` that the directories are a tree (`Tree`), of which those there at the start
are one with no name twice in a directory, and that a link has no directory's
name; in `FrontEnd` the parameters of `Lexer` and `Expander`, that
no character that is plain to the lexer is a blank to the expander, that `$?` is
0 or 1 where it is looked at, and that a line that reaches the lexer is
not empty.

*The invariants.* None of the properties but `OneNodePerKey` is inductive alone.

- Executor: `IInv` adds `CursorInv` (which commands have been launched, as a
  function of where exec_loop stands), `FdInv` (which ends the shell holds at
  each point, and that a child holds no more than the shell did when it forked)
  and `WaitInv` (what the wait loop's locals say about the children reaped so
  far). The ends a program holds follow from those the shell held at the fork;
  the status from the locals once every child is reaped. The refinement reads
  `Job`'s variables from the same invariant, one step of `Next` at a time.
- Heredoc: `ChildInv` says that the child reads with its own handler in place;
  `Aborting` that after a Ctrl-C either the flag is set, or the child has ended
  and not with 0, or the line is over with such a status. For the bodies,
  `BodyInv` says what the file and its `.final` hold at each point of the child's
  work and which calls may have failed by then: a part of the lines typed, in
  order, and all of them, each whole, unless a call failed that makes them (`Kept`).
  A part stays one when a line is added to it (`PartGrows`), when calls lose some
  of it (`PartLeft`) and when it is expanded (`PartExpands`).
  `DoneInv` says that the file of a node that was read keeps its body unless a later
  command's node of the same name has been read or is being read (`Shadowed`);
  when the commands run nothing shadows the last node of a name, which exists
  because a line is finite. `DirInv` names the files there are while nothing has
  failed.
- Redirection: `BackupInv` places the backup (whole exactly while a builtin
  applies its redirections, and equal to the shell's own descriptors; half at most
  between the two `dup`), `FdInv`
  says whose descriptors change where; `InputInv` that nothing has been touched
  up to the outputs, and that the input is in place from there on. `AppliedInv`
  says what the process has in place at each point of `handle_redirections`,
  descriptor 1 being that of the last output once all are open; `DiskInv` that
  the files are what the outputs opened so far made of them, one after the other,
  that those could be opened, and that with descriptors to spare only a file
  stops a line. `ListMade` is the lemma behind both: the code's list of the
  nodes of some operators is those redirections in the order they were typed.
- Environment: no name twice, with the types. The work is in the lemmas on the
  five list operations, each of which keeps a list free of duplicates and
  changes the value of one name; the `ImageOf...` lemmas turn them into steps of
  the map. `NoDuplicates` is what makes removing one node remove the name.
- Shell: `HeapInv` says which pointers are null at each point of the loop,
  `SignalInv` from where on both handlers are in place, `PromptInv` that the
  flag says exactly whether Ctrl-C came at this prompt.
- Stdio: `BufferInv` says that the buffer is empty and every message written once
  the line is over (`BufferFlushed`); that on a terminal nothing is ever left in
  a buffer (`OnTerminal`); that elsewhere the shell's buffer keeps what was
  reported up to its own flush, and that each process writes a message at most
  once (`InFile`).
- Parser: `GrammarSoFar` says that the tokens read are the beginning of a
  pipeline, and that the current command is empty exactly after a pipe or at
  the start; `UnreadOwn` that each token has its segments until it is read;
  `CommandsSoFar` that the commands are what the tokens before the current one
  say. One token more changes the last command in one place, or begins one,
  which is what the lemmas on `InOrder` are for.
- FrontEnd: `IInv` has an invariant for each part and one for what goes through
  all. `LexInv`: tokens end in one END, a word has begun with a character of its
  own and an unquoted segment ends only where no other can begin. `ParseInv`:
  one part is done before the next begins. `ExpandInv`: what the expander has
  not come to is as it was written (`Ahead`), a word in double quotes has become
  its text expanded (`QuotesExpanded`), `$?` is what it was when the command was
  begun (`StatusSeen`), which outputs are opened under which names
  (`Opened`), and that the values in front of it are those of the lists that
  the arguments behind it became, one after the other (`ListsSpliced`). `FreedInv`: exactly the words behind the expander are freed, until
  `reset_loop` frees the rest. That the two expansions of a text agree goes
  character by character: a turn of either loop does the same (`SameTurns`).
- Words: `expand_arg_to_list` appends characters to the last node of a list that
  always has one, `Words` counts where a word begins in the whole text.
  `ListFor` is the list the loops have made when they have read some of the
  pieces; one piece more makes the same difference to both (`OnePiece`), a
  quoted segment counting as an empty piece and then its text (`QuotedText`).
  Then by argument (`ArgsSplit`): the values are the words, and the first
  argument that ends in a blank is where argv ends (`CutBehind`).
- Tokens: the definition of a whole line goes by positions, with which quote is
  open at each, and the code reads ahead to the closing quote. `SpellInv` says
  that no quote is open between two segments and that the tokens so far are the
  literals that end before this position; `SegmentsInv` that the segments so far,
  typed out, are the piece of the line read so far.
- Typed line: `PlacesInv` gives each token the place it was typed at (`Placed`):
  one behind the other, nothing but blanks between two, a word from where one can
  begin to where it must end. So the n-th part between pipes has the words that
  `Parser` counts into the n-th command (`PipesCounted`, `ArgumentsAre`), which
  are kept while the expander works (`LineWritten`). `PlainDone` says that the
  commands behind the expander are as they were handed to it if the line has no
  `$`: then a text is expanded to itself, an unquoted segment has no blank
  to be split at (`NoBlanks`), and so each argument leaves one node (`OneNodeEach`).
- PathSearch: `NotPassed` says that the search has not gone beyond a program
  that nobody touches, and what it does once it is there. `FoundInv` and `MissingInv`
  say that what the search holds was there when it looked, and that while it holds
  nothing there was nothing where it looked, both but for what others changed.
- Exit: `ReadSoFar` says that `res` is the number read so far and that it fits,
  with the sign that was read; that a last digit of 7 or less (8 for a negative
  number) does not overflow needs only `Parameters`.
- Listing: `ListingInv` says that a sweep has carried the greatest string behind
  the ones it passed, that what earlier sweeps left at the end is in order and
  greater than the rest, that the array is still a permutation of the
  environment, and that what is out is the visible part of it in order.
- HeredocContent: while lines are read, `Reading` says that the body is some whole
  lines, then the buffer, then what is still to be read; and that what is written
  is those lines expanded, but for what a failing write lost (`Embeds`: each
  character in its place, some missing). A loop's round moves one line across.
  It needs that a text of whole lines followed by another is expanded part by
  part (`ExpandedJoined`), and one line as the code does it (`ExpandedLine`).
  `Written` and `Copied` say the same of the second loop, by offset.
- ShellLevel: the types are enough. What is needed is arithmetic: what a width
  keeps of a sum or a product depends only on what it keeps of its parts
  (`WrapOver`), so `ft_atoi`, which wraps at each digit, gives what the width
  keeps of the number written (`ReadAs`); and `ft_itoa`'s digits are read back as
  the number (`LevelReadBack`), the least `int` through its size as a `long`.
- Cd: `TreeInv` says what other processes keep true of the disk: the directories
  there are a tree, no name is there twice in one, and the shell is in one that
  was made. `cd ..` by text then leads to a directory that is there, and by the
  system to the parent, which is another one. For PWD, `PwdInv` says that it has
  no dots and is, once its links are replaced as text (`Resolved`), the system's
  path of the shell's directory; that speaks of no directory's presence, so that
  neither `mkdir` nor `rmdir` disturbs it. A segment of the string changes text
  and place together (`StepTogether`), except for `..` behind a link, and a path
  with the text of a directory that is there leads to it (`TextLeads`).
- Command: `CommandInv` is that of the part at work and the others' initial
  states.

*Induction.* The induction theorems of the library take the predicate as an
operator, which cannot be instantiated here; but the least counterexample of a
given predicate can be had from the well-foundedness of < on the numbers
(`NatLessThanWellFounded`), once for each predicate. `LeastNat`, `UpTo` and
`Folding` in the proofs are the forms needed: the least number with a property,
a function defined by recursion up to a length, and a loop over a sequence. They
carry the lemmas on expansion, on splitting, on the lexer's positions, on folded
lists and on sorting. What stays out of reach is `SelectSeq`, whose definition the
prover does not expand (the properties that are proved do without it), and
recursive operators.

*Model-checked only.* Liveness (`FiniteLineReturns`, `InterruptReturns`,
`LineReturns`, `CommandEnds`) is beyond the prover. Every other property of a
passing run is stated by a theorem. Of `PwdLeadsToCwd` what is proved is all that
holds: where an argument goes up through a link (`UpThroughLink`), or a link's own
target has a `..` in it, the code's text and the system's way part. Without links
neither can be.

## Findings

1. `cd_unset` (code bug). After `unset PWD` in a directory that has been
   removed, every `cd`, even `cd /`, silently returns 1: `save_current_pwd` has
   nothing to copy and `builtin_cd` gives up before trying. `notes` (item 6,
   test 2) has such a session move up. With PWD set it does (`CdUpMoves`).
2. `stdio_redirected` (code against its notes). `notes` (item 7) asks for
   `ft_putstr_fd` in the place of `printf` in an error message; the message for an
   ambiguous redirect still uses `printf`, and with stdout not a terminal it is
   written again by every child that ends in `exit`.

Met while modelling, and part of the models. None contradicts a text of the
repository, so none is a finding; where a property describes it, it is named.

- `export NAME+=x` aborts the shell (double free); `exit` with too many arguments
  leaves its redirections in place; a status 1 set for a failed `pipe` or `fork`
  is overwritten; SHLVL wraps at the largest `int` (`NextLevel`).
- Two commands of a pipeline that use one delimiter share one file
  (`BodyReachesCommand`); the files of an interrupted line's earlier
  here-documents stay in /tmp (`FilesLeftBehind`); a body reaches its command
  unexpanded, empty or cut short when a call fails while it is written, expanded
  or copied back, and the commands run (`BodyReachesCommand`, `BodyExpanded`).
- An unquoted value that ends in a blank (`export A="x "; echo $A b`) leaves a
  word without a value. Copied into argv it ends it, so `b` is lost
  (`WordsAsSplit` says when words arrive). After an ambiguous input that is not the
  last, the outputs are opened under their unexpanded names (`AmbiguousRedirect`),
  and the names of files keep their quotes (`File` in `FrontEnd`).
- A directory with the name of the command, earlier in PATH, hides the program
  behind it and gives 126 (`Executable` counts it); a script without an
  interpreter is started again with `sh` and without its arguments.

## What is not modelled

- Output of echo, pwd and env: one pass over arguments or state, which changes
  nothing.
- The functions of `libft` and of the lists that copy, join, split, print or free
  (all but `ft_atoi`, `ft_itoa`, `ft_strcmp`): the models use sequences for them.
- `dup_env` and its helpers in `env_duplicate.c`, and `sig_handler_exec`: called or
  installed nowhere.
- Failing `close` and `unlink`, whose results the code does not look at.
- Failing `malloc`: the models assume memory. The code tests it in some places
  and not in others, and what happens after most of the tests is an exit.
- Reading a line in readline, the terminal's modes and the kernel's side of
  pipes, files and signals are external; the models have what the code relies on.

## What is left

Composition: a `Line` module in which `Shell`'s steps for here-documents and
pipelines are those of `Heredoc` and `Executor`, for `$?` and the dispositions
across the three. Each is reduced in the others now to what it can observe.
