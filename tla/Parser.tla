------------------------------- MODULE Parser -------------------------------
(***************************************************************************)
(* parser: a list of tokens becomes a list of commands, or a syntax error; *)
(* and what is freed, and by whom, of the segments that go from the tokens *)
(* to the arguments.  A word is named by its place in the list of tokens.  *)
(***************************************************************************)
EXTENDS Naturals, Sequences, SequencesExt, InOrder

Redirections == {"REDIRECT_IN", "REDIRECT_OUT", "APPEND", "HEREDOC"}
Types == Redirections \union {"WORD", "PIPE", "END"}

\* What lexer returns.
TokenLists == {l \in Seq(Types) : l # <<>> /\ \A k \in DOMAIN l : l[k] = "END" <=> k = Len(l)}

Redir == [file : Nat, append : BOOLEAN, index : Nat]
Command == [args : Seq(Nat), input_redirection : Seq(Redir), output_redirection : Seq(Redir),
            heredoc : Seq(Redir), redir_counter : Nat]

VARIABLES
  tokens,    \* the types of the tokens
  curr,      \* the token the loop is at
  commands,  \* the list head; the last one is curr_cmd
  segments,  \* the tokens that still point to their segments
  freed,     \* how often the segments of each token were freed
  parsing,   \* "start", "loop", "parsed", "rejected", or "reset" after reset_loop
  status,    \* shell->last_exit_status
  before     \* its value when the line came

vars == <<tokens, curr, commands, segments, freed, parsing, status, before>>
memory == <<segments, freed>>

TypeOK ==
  /\ tokens \in TokenLists /\ curr \in DOMAIN tokens
  /\ commands \in Seq(Command)
  /\ segments \subseteq DOMAIN tokens /\ freed \in [DOMAIN tokens -> Nat]
  /\ parsing \in {"start", "loop", "parsed", "rejected", "reset"}
  /\ status \in 0 .. 255 /\ before \in 0 .. 255

----------------------------------------------------------------------------
(* The current command, and memory.                                        *)

EmptyCommand ==
  [args |-> <<>>, input_redirection |-> <<>>, output_redirection |-> <<>>,
   heredoc |-> <<>>, redir_counter |-> 0]

CurrCmd == commands[Len(commands)]
Update(command) == commands' = [commands EXCEPT ![Len(commands)] = command]

IsEmpty(command) ==
  /\ command.args = <<>> /\ command.heredoc = <<>>
  /\ command.input_redirection = <<>> /\ command.output_redirection = <<>>

\* The list a redirection goes to.
ListName(type) ==
  CASE type = "REDIRECT_IN" -> "input_redirection"
    [] type = "HEREDOC" -> "heredoc"
    [] OTHER -> "output_redirection"

\* The arguments of all commands.
Held == {w \in DOMAIN tokens : \E c \in DOMAIN commands : Contains(commands[c].args, w)}

\* How often a list of owners frees each word.
Once(words) == [w \in DOMAIN tokens |-> IF w \in words THEN 1 ELSE 0]
Freed(times) == freed' = [w \in DOMAIN tokens |-> freed[w] + times[w]]

\* free_commands
FreeCommands == commands' = <<>> /\ Freed(Once(Held)) /\ UNCHANGED segments

----------------------------------------------------------------------------
(* The loop.                                                               *)

Init ==
  /\ tokens \in TokenLists /\ curr = 1 /\ commands = <<>>
  /\ segments = DOMAIN tokens /\ freed = [w \in DOMAIN tokens |-> 0]
  /\ parsing = "start" /\ status \in 0 .. 255 /\ before = status

\* if_pipe: the line begins with a pipe.
IfPipe ==
  /\ parsing = "start" /\ tokens[1] = "PIPE"
  /\ parsing' = "rejected" /\ status' = 2
  /\ UNCHANGED <<tokens, curr, commands, memory, before>>

CreateHead ==
  /\ parsing = "start" /\ tokens[1] # "PIPE"
  /\ commands' = <<EmptyCommand>> /\ parsing' = "loop"
  /\ UNCHANGED <<tokens, curr, memory, status, before>>

\* Mutant: the token keeps its pointer to the segments.
AddArgShared ==
  /\ parsing = "loop" /\ tokens[curr] = "WORD"
  /\ Update([CurrCmd EXCEPT !.args = Append(@, curr)])
  /\ curr' = curr + 1
  /\ UNCHANGED <<tokens, memory, parsing, status, before>>

AddArg ==
  /\ parsing = "loop" /\ tokens[curr] = "WORD"
  /\ Update([CurrCmd EXCEPT !.args = Append(@, curr)])
  /\ segments' = segments \ {curr}
  /\ curr' = curr + 1
  /\ UNCHANGED <<tokens, freed, parsing, status, before>>

\* Mutant: *curr_token is not moved to the file.
ParseRedirStays ==
  /\ parsing = "loop" /\ tokens[curr] \in Redirections /\ tokens[curr + 1] = "WORD"
  /\ LET redir == [file |-> curr + 1, append |-> tokens[curr] = "APPEND",
                   index |-> CurrCmd.redir_counter]
     IN  Update([CurrCmd EXCEPT ![ListName(tokens[curr])] = Append(@, redir),
                                !.redir_counter = @ + 1])
  /\ curr' = curr + 1
  /\ UNCHANGED <<tokens, memory, parsing, status, before>>

ParseRedir ==
  /\ parsing = "loop" /\ tokens[curr] \in Redirections /\ tokens[curr + 1] = "WORD"
  /\ LET redir == [file |-> curr + 1, append |-> tokens[curr] = "APPEND",
                   index |-> CurrCmd.redir_counter]
     IN  Update([CurrCmd EXCEPT ![ListName(tokens[curr])] = Append(@, redir),
                                !.redir_counter = @ + 1])
  /\ curr' = curr + 2
  /\ UNCHANGED <<tokens, memory, parsing, status, before>>

\* Mutant: only the end of the line is looked for.
MisplacedPipeAtEnd == tokens[curr + 1] = "END"

\* A pipe after nothing, or before nothing.
MisplacedPipe == IsEmpty(CurrCmd) \/ tokens[curr + 1] = "END"

HandlePipe ==
  /\ parsing = "loop" /\ tokens[curr] = "PIPE" /\ ~MisplacedPipe
  /\ commands' = Append(commands, EmptyCommand)
  /\ curr' = curr + 1
  /\ UNCHANGED <<tokens, memory, parsing, status, before>>

\* process_token returned 0, from parse_redir or handle_pipe.
SyntaxError ==
  /\ parsing = "loop"
  /\ \/ tokens[curr] \in Redirections /\ tokens[curr + 1] # "WORD"
     \/ tokens[curr] = "PIPE" /\ MisplacedPipe
  /\ FreeCommands /\ parsing' = "rejected" /\ status' = 2
  /\ UNCHANGED <<tokens, curr, before>>

Parsed ==
  /\ parsing = "loop" /\ tokens[curr] = "END"
  /\ parsing' = "parsed"
  /\ UNCHANGED <<tokens, curr, commands, memory, status, before>>

\* reset_loop: free_commands of shell->commands, free_tokens of every token
\* that still points to segments.  Of a line that was run the arguments have
\* none any more: expander has freed them, which FrontEnd adds.
ResetLoop ==
  /\ parsing \in {"parsed", "rejected"} /\ parsing' = "reset"
  /\ commands' = <<>> /\ segments' = {}
  /\ Freed([w \in DOMAIN tokens |-> Once(Held)[w] + Once(segments)[w]])
  /\ UNCHANGED <<tokens, curr, status, before>>

Next ==
  \/ IfPipe \/ CreateHead \/ AddArg \/ ParseRedir \/ HandlePipe \/ SyntaxError \/ Parsed
  \/ ResetLoop

Spec == Init /\ [][Next]_vars

----------------------------------------------------------------------------
(* Properties.                                                             *)

\* A pipeline: no pipe at either end or after another, and a word after every
\* redirection operator.
IsPipeline ==
  /\ tokens[1] # "PIPE"
  /\ \A k \in DOMAIN tokens :
       /\ tokens[k] = "PIPE" => tokens[k + 1] \notin {"PIPE", "END"}
       /\ tokens[k] \in Redirections => tokens[k + 1] = "WORD"

\* The parser looks one token ahead and at what the current command holds;
\* that decides what the grammar says: a line is refused exactly when it is no
\* pipeline, with status 2, and any other leaves $? alone.
AcceptsPipelines ==
  /\ parsing = "parsed" => IsPipeline /\ status = before
  /\ parsing = "rejected" => ~IsPipeline /\ status = 2 /\ commands = <<>>

\* Which command a token belongs to.
CommandOf(k) == 1 + Cardinality({m \in 1 .. k - 1 : tokens[m] = "PIPE"})

\* What the first n tokens say of the c-th command.
Part(c, n) == {k \in 1 .. n : CommandOf(k) = c}
WordsIn(c, n) == {k \in Part(c, n) : tokens[k] = "WORD" /\ (k > 1 => tokens[k - 1] \notin Redirections)}
RedirsIn(c, n, types) == {k \in Part(c, n) : tokens[k] \in types}

WrittenRedir(c, k) ==
  [file |-> k + 1, append |-> tokens[k] = "APPEND",
   index |-> Cardinality(RedirsIn(c, k - 1, Redirections))]
WrittenRedirs(c, n, types) ==
  LET places == InOrder(RedirsIn(c, n, types)) IN [r \in DOMAIN places |-> WrittenRedir(c, places[r])]

WrittenCommand(c, n) ==
  [args |-> InOrder(WordsIn(c, n)),
   input_redirection |-> WrittenRedirs(c, n, {"REDIRECT_IN"}),
   output_redirection |-> WrittenRedirs(c, n, {"REDIRECT_OUT", "APPEND"}),
   heredoc |-> WrittenRedirs(c, n, {"HEREDOC"}),
   redir_counter |-> Cardinality(RedirsIn(c, n, Redirections))]

\* One command for each part between two pipes, in order; its arguments are
\* the words that follow no operator, and the index that orders the three
\* lists against each other counts its redirections from the left.
CommandsAsWritten ==
  parsing = "parsed" =>
    commands = [c \in 1 .. CommandOf(Len(tokens)) |-> WrittenCommand(c, Len(tokens))]

\* The segments of a word belong to the token or to the argument made of it,
\* never to both, until they are freed, once - whether the line is run, refused
\* at once or refused half-way, when some words have moved and others have not.
SegmentsFreedOnce ==
  /\ Held \cap segments = {}
  /\ \A w \in DOMAIN tokens : freed[w] = IF w \in Held \union segments THEN 0 ELSE 1
  /\ parsing = "reset" => Held \union segments = {}
=============================================================================
