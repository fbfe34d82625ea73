------------------------------- MODULE Command -------------------------------
(***************************************************************************)
(* What goes on behind one command, in the parts that share no state with  *)
(* any other and that one process works through alone: the search for a    *)
(* program, exit, export without arguments, a shell within the shell, and  *)
(* the expansion of a here-document.  One of them is at work; the          *)
(* variables of the others are at rest.                                    *)
(***************************************************************************)
EXTENDS PathSearch

CONSTANTS LLongMax, ArgLists, Statuses,           \* Exit's
          Code, Envs,                             \* Listing's
          IntMax, Texts, MaxShells,               \* ShellLevel's
          BodyChar, Bodies, ExpandLine(_),        \* HeredocContent's
          BufferSize, CopySize, MaxFailures

VARIABLES
  command,                                        \* the part at work
  args, last, exitAt, exitIndex, sign, res, exitCode, exitStatus, written,   \* Exit's
  env, arr, round, j, listing, out,               \* Listing's
  levels, number,                                 \* ShellLevel's
  body, tmpfile, final, offset, buffer, contentAt, failed   \* HeredocContent's

exitVars == <<args, last, exitAt, exitIndex, sign, res, exitCode, exitStatus, written>>
listingVars == <<env, arr, round, j, listing, out>>
levelVars == <<levels, number>>
contentVars == <<body, tmpfile, final, offset, buffer, contentAt, failed>>
commandVars == <<vars, command, exitVars, listingVars, levelVars, contentVars>>

Ex == INSTANCE Exit WITH at <- exitAt, i <- exitIndex, code <- exitStatus
Li == INSTANCE Listing WITH i <- round
Lv == INSTANCE ShellLevel
Hd == INSTANCE HeredocContent WITH at <- contentAt, Char <- BodyChar

ASSUME ExitParameters == Ex!Parameters
ASSUME ListingParameters == Li!Parameters
ASSUME ShellLevelParameters == Lv!Parameters
ASSUME HeredocContentParameters == Hd!Parameters

----------------------------------------------------------------------------
\* No search: as after one that found nothing.
NoSearch ==
  /\ word = "name" /\ path = NULL /\ files = [p \in Places |-> "none"] /\ touched = <<>>
  /\ at = "done" /\ i = 1 /\ denied = NULL /\ found = NULL /\ ran = NULL /\ code = 127

NoExit ==
  /\ args = NULL /\ last = NULL /\ exitAt = NULL /\ exitIndex = NULL /\ sign = NULL /\ res = NULL
  /\ exitCode = NULL /\ exitStatus = NULL /\ written = NULL
NoListing == env = NULL /\ arr = NULL /\ round = NULL /\ j = NULL /\ listing = NULL /\ out = NULL
NoShell == levels = NULL /\ number = NULL
NoHeredoc ==
  /\ body = NULL /\ tmpfile = NULL /\ final = NULL /\ offset = NULL /\ buffer = NULL
  /\ contentAt = NULL /\ failed = NULL

CommandInit ==
  \/ command = "program" /\ Init /\ NoExit /\ NoListing /\ NoShell /\ NoHeredoc
  \/ command = "exit" /\ NoSearch /\ Ex!Init /\ NoListing /\ NoShell /\ NoHeredoc
  \/ command = "export" /\ NoSearch /\ NoExit /\ Li!Init /\ NoShell /\ NoHeredoc
  \/ command = "minishell" /\ NoSearch /\ NoExit /\ NoListing /\ Lv!Init /\ NoHeredoc
  \/ command = "<<" /\ NoSearch /\ NoExit /\ NoListing /\ NoShell /\ Hd!Init

Program ==
  /\ command = "program" /\ Next
  /\ UNCHANGED <<command, exitVars, listingVars, levelVars, contentVars>>
BuiltinExit ==
  /\ command = "exit" /\ Ex!Next
  /\ UNCHANGED <<command, vars, listingVars, levelVars, contentVars>>
ExportOnl ==
  /\ command = "export" /\ Li!Next
  /\ UNCHANGED <<command, vars, exitVars, levelVars, contentVars>>
NestedShell ==
  /\ command = "minishell" /\ Lv!Next
  /\ UNCHANGED <<command, vars, exitVars, listingVars, contentVars>>
ExpandHeredocContent ==
  /\ command = "<<" /\ Hd!Next
  /\ UNCHANGED <<command, vars, exitVars, listingVars, levelVars>>

CommandNext == Program \/ BuiltinExit \/ ExportOnl \/ NestedShell \/ ExpandHeredocContent

CommandSpec ==
  /\ CommandInit /\ [][CommandNext]_commandVars
  /\ WF_commandVars((Program /\ Search) \/ ExpandHeredocContent)

----------------------------------------------------------------------------
(* The properties of each part, while it is at work; those of PathSearch   *)
(* are its own.                                                            *)

\* The status of exit is that of the line before without an argument, the
\* number modulo 256 where long long can hold it, and 2 for anything else,
\* whatever follows; it returns, with 1, only with more than one argument and a
\* number that fits (ft_atoll.c:39-77, ft_exit.c:15-82).
ExitLeavesNumber ==
  command = "exit" => Ex!TypeOK /\ Ex!OutcomeOfArguments /\ Ex!NumberGivesStatus

\* Each name of the environment is declared once, with the value it has or
\* none, only _ with a value is not; and in the order of the strings KEY=VALUE,
\* so that A1 comes before A (env_to_array.c:15-51, ft_export_utils.c:36-77).
EnvironmentListed ==
  command = "export" => Li!TypeOK /\ Li!DeclaresEnvironment /\ Li!SortedAsStrings

\* A shell within another has the next level, but at the limits of an int, and
\* after a negative one, 1; and the level written is read back as it was
\* (utils_env_init.c:49-72, ft_atoi.c:15-38, ft_itoa.c:38-65).
NextLevel == [][command = "minishell" => Lv!NextLevelStep]_commandVars

\* Wherever read cuts a body, what is written, buffered and still to be read is
\* together the expanded body; what each failing call leaves of it is what the
\* command reads, and no buffer or file is left behind
\* (get_next_line.c, heredoc_content.c, heredoc_process.c:15-32).
BodyExpanded ==
  command = "<<" =>
    Hd!TypeOK /\ Hd!NothingLostBetweenReads /\ Hd!WhatTheCommandReads /\ Hd!NothingLeftBehind

\* The child of a command becomes a program or exits, whatever others do to the
\* files it looks at; and the loops over a here-document's lines and over what
\* read returns end, whatever fails (exec_cmd.c:66-94, get_next_line.c).
CommandEnds == <>(at = "done" /\ (command = "<<" => contentAt = "done"))
=============================================================================
