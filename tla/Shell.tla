-------------------------------- MODULE Shell --------------------------------
(***************************************************************************)
(* The main loop: from prompt to prompt, with Ctrl-C and Ctrl-\ at any     *)
(* moment, the objects that live from line to line, and $?.  What a        *)
(* pipeline and a here-document do is in Executor and Heredoc; here they   *)
(* are a status and the time they take.                                    *)
(***************************************************************************)
EXTENDS Naturals

CONSTANT Codes  \* statuses a command may report, beyond those named below

ASSUME CodesAssumption == Codes \subseteq 0 .. 255

Pointers == {"input", "tokens", "commands", "env"}  \* fields of t_shell

VARIABLES
  pc,       \* where the loop is; "exited", "killed" or "aborted" at the end
  sigint,   \* what SIGINT does: "default", "prompt" (sig_handler_prompt), "ignore"
  sigquit,  \* what SIGQUIT does: "default" or "ignore"
  g,        \* g_received_signal is SIGINT
  status,   \* shell->last_exit_status
  heap,     \* each pointer: "null", "live", or "dangling" once freed and kept
  lost,     \* pointers overwritten or dropped while their object was live
  hit,      \* Ctrl-C reached the handler since this prompt was made ready
  before    \* status when this prompt was made ready

vars == <<pc, sigint, sigquit, g, status, heap, lost, hit, before>>

Status == Codes \union {0, 1, 2, 130, 131}

TypeOK ==
  /\ pc \in {"start", "arm", "clear", "readline", "check", "line", "ignore", "lexer",
             "parser", "expander", "executor", "heredoc", "pipeline", "waited",
             "reset", "cleanup", "exited", "killed", "aborted"}
  /\ sigint \in {"default", "prompt", "ignore"} /\ sigquit \in {"default", "ignore"}
  /\ g \in BOOLEAN /\ hit \in BOOLEAN
  /\ status \in Status /\ before \in Status
  /\ heap \in [Pointers -> {"null", "live", "dangling"}]
  /\ lost \subseteq Pointers

Ended == {"exited", "killed", "aborted"}
signals == <<sigint, sigquit, g, hit>>
memory == <<heap, lost>>

----------------------------------------------------------------------------
(* The heap.                                                               *)

\* p = malloc(...)
Allocate(p) ==
  /\ lost' = IF heap[p] = "live" THEN lost \union {p} ELSE lost
  /\ heap' = [heap EXCEPT ![p] = "live"]

\* Frees what ps point to (null is skipped), resets the pointers of nulled and
\* goes on at next.  Freeing what was freed before aborts the process.
Free(ps, nulled, next) ==
  /\ pc' = IF \E p \in ps : heap[p] = "dangling" THEN "aborted" ELSE next
  /\ heap' = [p \in Pointers |->
                IF p \in nulled THEN "null"
                ELSE IF p \in ps /\ heap[p] = "live" THEN "dangling"
                ELSE heap[p]]
  /\ UNCHANGED lost

----------------------------------------------------------------------------
(* main and minishell_loop.                                                *)

Init ==
  /\ pc = "start" /\ sigint = "default" /\ sigquit = "default"
  /\ g = FALSE /\ hit = FALSE /\ status = 0 /\ before = 0
  /\ heap = [p \in Pointers |-> "null"] /\ lost = {}

InitShell ==
  /\ pc = "start" /\ pc' = "arm"
  /\ Allocate("env")
  /\ UNCHANGED <<signals, status, before>>

\* Mutant: only SIGINT.
SetupPromptSignalNoQuit ==
  /\ pc = "arm" /\ sigint' = "prompt" /\ pc' = "clear"
  /\ UNCHANGED <<sigquit, g, hit, status, before, memory>>

\* setup_prompt_signal: two calls of sigaction.
SetupPromptSignal ==
  /\ pc = "arm"
  /\ \/ sigint # "prompt" /\ sigint' = "prompt" /\ UNCHANGED <<pc, sigquit>>
     \/ sigint = "prompt" /\ sigquit' = "ignore" /\ pc' = "clear" /\ UNCHANGED sigint
  /\ UNCHANGED <<g, hit, status, before, memory>>

\* Mutant: main.c:49 is dropped.
ClearNothing ==
  /\ pc = "clear" /\ pc' = "readline"
  /\ hit' = FALSE /\ before' = status
  /\ UNCHANGED <<sigint, sigquit, g, status, memory>>

\* g_received_signal = 0, just before readline.
Clear ==
  /\ pc = "clear" /\ pc' = "readline"
  /\ g' = FALSE /\ hit' = FALSE /\ before' = status
  /\ UNCHANGED <<sigint, sigquit, status, memory>>

\* Readline returns a line, or NULL at the end of the input.
Readline ==
  /\ pc = "readline" /\ pc' = "check"
  /\ \/ Allocate("input")
     \/ heap' = [heap EXCEPT !["input"] = "null"] /\ UNCHANGED lost
  /\ UNCHANGED <<signals, status, before>>

\* Mutant: a failed command's status is kept.
CheckInterruptedKeepsFailure ==
  /\ pc = "check" /\ pc' = "line"
  /\ g' = FALSE
  /\ status' = IF g /\ status = 0 THEN 130 ELSE status
  /\ UNCHANGED <<sigint, sigquit, hit, before, memory>>

CheckInterruptedSignal ==
  /\ pc = "check" /\ pc' = "line"
  /\ g' = FALSE
  /\ status' = IF g /\ status # 131 THEN 130 ELSE status
  /\ UNCHANGED <<sigint, sigquit, hit, before, memory>>

\* is_exit_command.
ExitCommand ==
  /\ pc = "line" /\ heap["input"] = "live"
  /\ Free({"input"}, {"input"}, "cleanup")
  /\ UNCHANGED <<signals, status, before>>

Line ==
  /\ pc = "line"
  /\ \/ heap["input"] = "null" /\ pc' = "cleanup"             \* end of input
     \/ heap["input"] = "live" /\ pc' \in {"ignore", "reset"}  \* reset: empty
  /\ UNCHANGED <<signals, status, before, memory>>

\* process_input.
IgnoreInterrupt ==
  /\ pc = "ignore" /\ sigint' = "ignore" /\ pc' = "lexer"
  /\ UNCHANGED <<sigquit, g, hit, status, before, memory>>

\* An unclosed quote gives no tokens and leaves status alone.
Lexer ==
  /\ pc = "lexer"
  /\ \/ Allocate("tokens") /\ pc' = "parser"
     \/ heap' = [heap EXCEPT !["tokens"] = "null"] /\ pc' = "reset" /\ UNCHANGED lost
  /\ UNCHANGED <<signals, status, before>>

Parser ==
  /\ pc = "parser"
  /\ \/ Allocate("commands") /\ pc' = "expander" /\ UNCHANGED status
     \/ /\ heap' = [heap EXCEPT !["commands"] = "null"] /\ UNCHANGED lost
        /\ status' = 2 /\ pc' = "reset"
  /\ UNCHANGED <<signals, before>>

\* An ambiguous redirect already sets the status that later words of the line see.
Expander ==
  /\ pc = "expander" /\ pc' = "executor"
  /\ status' \in {status, 1}
  /\ UNCHANGED <<signals, before, memory>>

----------------------------------------------------------------------------
(* executor.                                                               *)

\* A here-document is read by a child of its own; too many end the shell.
ForkHeredoc ==
  /\ pc = "executor" /\ pc' = "heredoc"
  /\ sigint' = "ignore" /\ sigquit' = "ignore"
  /\ UNCHANGED <<g, hit, status, before, memory>>

HeredocMax ==
  /\ pc = "executor"
  /\ Free(Pointers, Pointers, "exited")
  /\ UNCHANGED <<signals, status, before>>

\* From here on the line runs with the prompt's handlers.
ParentWaitHeredoc ==
  /\ pc = "heredoc"
  /\ sigint' = "prompt" /\ sigquit' = "ignore"
  /\ \/ pc' = "executor" /\ UNCHANGED status
     \/ pc' = "reset" /\ status' \in Status \ {0}
  /\ UNCHANGED <<g, hit, before, memory>>

\* A pipeline: setup_exec_signals, and every child.
ExecLoop ==
  /\ pc = "executor" /\ pc' = "pipeline"
  /\ sigint' = "ignore" /\ sigquit' = "ignore"
  /\ UNCHANGED <<g, hit, status, before, memory>>

\* wait_all_children brings the prompt's handlers back before update_exit_status.
WaitAllChildren ==
  /\ pc = "pipeline" /\ pc' = "waited"
  /\ sigint' = "prompt" /\ sigquit' = "ignore"
  /\ UNCHANGED <<g, hit, status, before, memory>>

UpdateExitStatus ==
  /\ pc = "waited" /\ pc' = "reset"
  /\ status' \in Status
  /\ UNCHANGED <<signals, before, memory>>

\* cd, export, unset, or an exit with too many arguments, on its own; or a fork
\* that failed for a here-document, which leaves status alone.
ExecBuiltinParent ==
  /\ pc = "executor" /\ pc' = "reset"
  /\ status' \in {0, 1, status}
  /\ UNCHANGED <<signals, before, memory>>

\* exit on its own: cleanup_shell, and exit().
BuiltinExit ==
  /\ pc = "executor"
  /\ Free(Pointers, Pointers, "exited")
  /\ UNCHANGED <<signals, status, before>>

\* Mutant: a line that was not parsed leaves its tokens.
ResetLoopKeepsTokens ==
  /\ pc = "reset"
  /\ Free({"input", "commands"}, {"input", "commands"}, "arm")
  /\ UNCHANGED <<signals, status, before>>

ResetLoop ==
  /\ pc = "reset"
  /\ Free({"commands", "tokens", "input"}, {"commands", "tokens", "input"}, "arm")
  /\ UNCHANGED <<signals, status, before>>

\* cleanup_exit, and main's return.
CleanupExit ==
  /\ pc = "cleanup"
  /\ Free(Pointers, Pointers \ {"env"}, "exited")
  /\ UNCHANGED <<signals, status, before>>

----------------------------------------------------------------------------
(* The terminal.                                                           *)

SigInt ==
  /\ pc \notin Ended
  /\ \/ /\ sigint = "prompt"
        /\ g' = TRUE /\ hit' = TRUE /\ UNCHANGED pc
     \/ /\ sigint = "default"
        /\ pc' = "killed" /\ UNCHANGED <<g, hit>>
  /\ UNCHANGED <<sigint, sigquit, status, before, memory>>

SigQuit ==
  /\ pc \notin Ended /\ sigquit = "default"
  /\ pc' = "killed"
  /\ UNCHANGED <<signals, status, before, memory>>

Next ==
  \/ InitShell \/ SetupPromptSignal \/ Clear \/ Readline \/ CheckInterruptedSignal
  \/ ExitCommand \/ Line \/ IgnoreInterrupt \/ Lexer \/ Parser \/ Expander
  \/ ForkHeredoc \/ HeredocMax \/ ParentWaitHeredoc
  \/ ExecLoop \/ WaitAllChildren \/ UpdateExitStatus \/ ExecBuiltinParent \/ BuiltinExit
  \/ ResetLoop \/ CleanupExit
  \/ SigInt \/ SigQuit

Spec == Init /\ [][Next]_vars

----------------------------------------------------------------------------
(* Properties.                                                             *)

\* Once the first prompt is ready, neither Ctrl-C nor Ctrl-\ ends the shell, at
\* whatever moment of a line they come.
ShellSurvives == [](pc = "readline" => [](pc # "killed"))

\* Whichever way a line ends - not lexed, not parsed, run, or the shell's last -
\* what it allocated is freed exactly once: nothing is overwritten, freed
\* twice, or left when the shell exits.
FreedExactlyOnce ==
  /\ lost = {} /\ pc # "aborted"
  /\ pc = "exited" => \A p \in Pointers : heap[p] # "live"

\* What $? says when the line is expanded is what the last line left, unless
\* Ctrl-C was pressed at this very prompt: a Ctrl-C that came late in the line
\* before, when the handler was back already, does not count as one.
PromptKeepsStatus ==
  pc = "line" => status \in IF hit THEN {130, before} ELSE {before}

\* And a Ctrl-C at the prompt that came before the check is not forgotten,
\* except after Ctrl-\ ended the command before it.
InterruptGives130 ==
  [][pc = "check" /\ pc' = "line" /\ hit /\ before # 131 => status' = 130]_vars
=============================================================================
