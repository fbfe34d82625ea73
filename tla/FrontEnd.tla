------------------------------- MODULE FrontEnd -------------------------------
(***************************************************************************)
(* process_input up to the executor: lexer, parser and expander, each      *)
(* working on what the one before it made of the line, and reset_loop,     *)
(* which frees what they left.  The steps are those of Lexer, Parser and   *)
(* Expander; this module says how one part's result becomes the next one's *)
(* input, and who frees the segments that go through all three.            *)
(***************************************************************************)
EXTENDS Naturals, Sequences, SequencesExt, InOrder

CONSTANTS NULL, Plain, Inputs, Envs,  \* as in Lexer and Expander
          Statuses,    \* what $? may be before a line
          EnvsFor(_)   \* the environments in which a line is typed

VARIABLES
  input, i, tokens, start, wordSegments, lexing,   \* Lexer's
  curr, parsed, segments, freed, parsing,          \* Parser's; parsed is its commands
  commands, c, arg, expanding, written, seen,      \* Expander's; arg is its curr
  env, status, before                              \* shell->env, $?, $? when the line came

lexVars == <<input, i, tokens, start, wordSegments, lexing>>
parVars == <<curr, parsed, segments, freed, parsing, before>>
expVars == <<commands, c, arg, expanding, written, seen, env>>
vars == <<lexVars, parVars, expVars, status>>

\* All the parser looks at in a token.
types == [k \in DOMAIN tokens |-> tokens[k].type]

Lex == INSTANCE Lexer WITH segments <- wordSegments
Par == INSTANCE Parser WITH tokens <- types, commands <- parsed
Exp == INSTANCE Expander WITH curr <- arg

ASSUME LexerParameters == Lex!Parameters /\ Plain \subseteq Exp!Char \ Exp!Blanks
ASSUME ExpanderParameters == Exp!Parameters
ASSUME StatusesAssumption == Statuses \subseteq {0, 1}
ASSUME InputsAssumption == \A l \in Inputs : l # <<>> /\ EnvsFor(l) \subseteq Envs

TypeOK ==
  /\ parsing = "wait" => Lex!TypeOK
  /\ parsing # "wait" /\ expanding = "wait" => Par!TypeOK
  /\ expanding # "wait" => Exp!TypeOK
  /\ status \in {0, 1, 2} /\ before \in Statuses

Init ==
  /\ Lex!Init /\ env \in EnvsFor(input) /\ status \in Statuses /\ before = status
  /\ curr = 1 /\ parsed = <<>> /\ segments = {} /\ freed = <<>> /\ parsing = "wait"
  /\ commands = <<>> /\ c = 1 /\ arg = 1 /\ expanding = "wait" /\ written = <<>> /\ seen = <<>>

----------------------------------------------------------------------------
LexerStep == Lex!Next /\ UNCHANGED <<parVars, expVars, status>>

\* The lexer returned tokens; every word of them owns its segments.
StartParser ==
  /\ lexing = "done" /\ parsing = "wait"
  /\ segments' = DOMAIN tokens /\ freed' = [w \in DOMAIN tokens |-> 0] /\ parsing' = "start"
  /\ UNCHANGED <<lexVars, expVars, curr, parsed, status, before>>

ParserStep ==
  /\ UNCHANGED <<lexVars, expVars>>
  /\ \/ Par!IfPipe \/ Par!CreateHead \/ Par!AddArg \/ Par!ParseRedir
     \/ Par!HandlePipe \/ Par!SyntaxError \/ Par!Parsed

\* Mutant: file names lose their quotes, as arguments do.
FileUnquoted(redir) == SelectSeq(tokens[redir.file].literal, LAMBDA ch : ch \notin {"'", "\""})

\* create_redir_node copies the literal, quotes and all.
File(redir) == tokens[redir.file].literal

\* Mutant: add_arg sets the token's segments to NULL before it moves them.
HandedNothing(command) ==
  [args |-> [a \in DOMAIN command.args |-> [segments |-> <<>>, value |-> NULL]],
   input_redirection |-> <<>>, output_redirection |-> <<>>]

\* The commands as the expander gets them: add_arg moves the segments of the
\* word, a redirection copies its literal.
Handed(command) ==
  LET files(list) == [r \in DOMAIN list |-> File(list[r])]
  IN  [args |-> [a \in DOMAIN command.args |->
                   [segments |-> tokens[command.args[a]].segments, value |-> NULL]],
       input_redirection |-> files(command.input_redirection),
       output_redirection |-> files(command.output_redirection)]

StartExpander ==
  /\ parsing = "parsed" /\ expanding = "wait"
  /\ written' = [k \in DOMAIN parsed |-> Handed(parsed[k])] /\ commands' = written'
  /\ c' = 1 /\ arg' = 1 /\ seen' = <<status>> /\ expanding' = "args"
  /\ UNCHANGED <<lexVars, parVars, env, status>>

\* The token of the argument the expander is at: those behind it are as parsed.
Word == LET words == parsed[c].args
        IN  words[Len(words) - (Len(commands[c].args) - arg)]

\* Mutant: only an argument that becomes other nodes is freed.
ExpandArgFreesSome ==
  /\ Exp!ExpandArg
  /\ freed' = [freed EXCEPT ![Word] = @ + IF arg' = arg + 1 THEN 0 ELSE 1]
  /\ UNCHANGED <<lexVars, curr, parsed, segments, parsing, before>>

\* The node is replaced, and freed with its segments.
ExpandArg ==
  /\ Exp!ExpandArg
  /\ freed' = [freed EXCEPT ![Word] = @ + 1]
  /\ UNCHANGED <<lexVars, curr, parsed, segments, parsing, before>>

ExpanderStep == (Exp!ArgsDone \/ Exp!Redirs) /\ UNCHANGED <<lexVars, parVars>>

\* After a line that was refused.
ResetRefused == parsing = "rejected" /\ UNCHANGED <<lexVars, expVars>> /\ Par!ResetLoop

\* After a line that was run: the arguments have no segments any more.
ResetLoop ==
  /\ expanding = "done" /\ parsing = "parsed" /\ parsing' = "reset"
  /\ parsed' = <<>> /\ segments' = {} /\ Par!Freed(Par!Once(segments))
  /\ UNCHANGED <<lexVars, expVars, curr, status, before>>

Next ==
  \/ LexerStep \/ StartParser \/ ParserStep \/ StartExpander
  \/ ExpandArg \/ ExpanderStep \/ ResetRefused \/ ResetLoop

Spec == Init /\ [][Next]_vars /\ WF_vars(Next)

----------------------------------------------------------------------------
(* Properties.                                                             *)

\* What each part was modelled to be given, it is given by the one before it,
\* whatever the line: one END, at the end of the tokens, so that the parser's
\* look-ahead never leaves the list; no command before the parser has begun;
\* and in every argument at least one segment, no unquoted one empty or next to
\* another (lexer.c:32-55, lexer_segments.c, parser.c:60-89).
PartsFit ==
  /\ TypeOK
  /\ lexing = "done" => types \in Par!TokenLists
  /\ parsing = "start" => Par!Init
  /\ \A k \in DOMAIN written : Exp!Written(written[k])

\* The places of a line where an unquoted character of S stands.
BareAt(S) == {k \in DOMAIN input : Lex!Bare(k, S)}

\* A quote that opens or closes, and so is no part of the word.
Delimits(k) == input[k] \in Lex!Quotes /\ (Lex!Open[k] = "none" \/ Lex!Open[k + 1] = "none")

\* Where words end, and where they begin.
Separators == BareAt(Lex!Blanks \union Lex!Operators)
WordStarts == {k \in DOMAIN input \ Separators : k = 1 \/ k - 1 \in Separators}

\* The places of the word that begins at k.
WordFrom(k) == {m \in k .. Len(input) : k .. m \cap Separators = {}}

\* The last thing before k is < or >, or the second of two.
BehindArrow(k) == \E a \in BareAt({"<", ">"}) : a < k /\ a + 1 .. k - 1 \subseteq BareAt(Lex!Blanks)

\* Where the words of the n-th part between pipes begin: its arguments, and its
\* files.
StartsIn(n) == {k \in WordStarts : Cardinality({p \in BareAt({"|"}) : p < k}) = n - 1}
ArgumentsIn(n) == {k \in StartsIn(n) : ~BehindArrow(k)}
FilesIn(n) == {k \in StartsIn(n) : BehindArrow(k)}

\* The characters at some places, in order.
TextAt(places) == LET p == InOrder(places) IN [n \in DOMAIN p |-> input[p[n]]]

\* From the characters of a line to its commands.  A line that reaches the
\* executor has a command for each part between pipes that are not quoted,
\* and, if it has no variable, each command has exactly the words typed there, a
\* quoted blank or operator being a character like any other and "" a word; a
\* word behind < or > is a file instead, under the name that was typed with
\* its quotes (lexer.c, parser.c, expander.c; parser_redir.c:15-29).
CommandsAsTyped ==
  expanding = "done" /\ parsing = "parsed" =>
    /\ Len(commands) = 1 + Cardinality(BareAt({"|"}))
    /\ ~Contains(input, "$") =>
         \A n \in DOMAIN commands :
           LET words == InOrder(ArgumentsIn(n))
               delimiters == {k \in DOMAIN input : Delimits(k)}
           IN  /\ Exp!Values(commands[n].args)
                    = [w \in DOMAIN words |-> TextAt(WordFrom(words[w]) \ delimiters)]
               /\ Range(commands[n].input_redirection) \union Range(commands[n].output_redirection)
                    \subseteq {TextAt(WordFrom(k)) : k \in FilesIn(n)}

\* What the lexer reads ahead for is what reading one character at a time
\* gives, and it refuses exactly the lines that end in a quote; the segments of
\* a word are its text without the quotes that delimit, each under the quote it
\* stood in (lexer.c:32-55, lexer_segments.c).
TokensAsWritten == parsing = "wait" => Lex!TokensAsWritten /\ Lex!SegmentsSpellWord

\* The values an argument leaves in the list are the words its text splits
\* into, and the command is given all of them, but for those after an argument
\* that ends in an unquoted blank (expander.c:39-65, expander_word.c,
\* builtins_exec.c:30-50).
WordsAsSplit == Exp!WordsAsSplit /\ Exp!WordsReachCommand

\* Double quotes and here-documents expand a text alike, in two pieces of code
\* (expander_process.c:72-99, heredoc_expand.c).
SameAsHeredoc == Exp!SameAsHeredoc

\* What an ambiguous redirection does to the rest of its line: $? is 1 in the
\* commands after it, and only there; the outputs of its own command are opened
\* under the names they stand for unless it is an input before the last
\* (expander.c:67-80, handle_redirection.c:69-139).
AmbiguousRedirect ==
  /\ expanding = "redirs" => Exp!StatusDuringLine
  /\ expanding = "done" => Exp!OutputsOpenedExpanded

\* Whatever is typed, the loops over characters, tokens, words and redirections
\* end: the line is refused or comes to the executor, and is reset.
LineReturns == <>(lexing = "unclosed" \/ parsing = "reset")

\* The segments of every word are freed once before the next prompt, by the
\* parser, the expander or reset_loop, and not before the expander has read
\* them (parser_free.c, parser_utils.c:48-70, expander.c:39-65).
SegmentsFreedOnce ==
  /\ parsing # "wait" /\ expanding = "wait" => Par!SegmentsFreedOnce
  /\ \A w \in DOMAIN freed : freed[w] <= 1
  /\ parsing = "reset" => \A w \in DOMAIN freed : freed[w] = 1
  /\ expanding = "args" /\ arg <= Len(commands[c].args) => freed[Word] = 0
=============================================================================
