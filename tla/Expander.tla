------------------------------ MODULE Expander ------------------------------
(***************************************************************************)
(* expander: in every command of a line, each argument's segments become   *)
(* the words that variables, quotes and blanks make of them, in place in   *)
(* the list of arguments; then the names of the files it redirects.        *)
(***************************************************************************)
EXTENDS Integers, Sequences, SequencesExt

CONSTANTS NULL,   \* the pointer
          Envs    \* environments: functions from names to values

Blanks == {" ", "\t"}          \* handle_unquoted's; '\n' is one more
Digits == {"0", "1"}
Letters == {"a", "b", "x"}     \* with the underscore
Alnum == Letters \union Digits
Quoted == {"\"", "'", "|", "<", ">"}   \* which the lexer leaves in quotes only
Char == Alnum \union Blanks \union Quoted \union {"$", "?", "/"}
Text == Seq(Char)

Segment == [quote : {"none", "single", "double"}, value : Text]
Status == 0 .. 1

\* A node of an argument list: segments before it is expanded, then a value.
Arg == [segments : Seq(Segment) \union {NULL}, value : Text \union {NULL}]
Command == [args : Seq(Arg), input_redirection : Seq(Text \union {NULL}),
            output_redirection : Seq(Text \union {NULL})]

\* The lexer never makes two unquoted segments touch, and no empty one.
Written(command) ==
  \A a \in DOMAIN command.args :
    LET s == command.args[a].segments IN
      /\ command.args[a].value = NULL /\ s # <<>>
      /\ \A j \in DOMAIN s :
           s[j].quote = "none" => s[j].value # <<>> /\ (j > 1 => s[j - 1].quote # "none")

Parameters ==
  /\ NULL \notin Text
  /\ \A e \in Envs : \A k \in DOMAIN e : k \in Text /\ e[k] \in Text

VARIABLES
  commands,   \* shell->commands
  c,          \* the command expander is at
  curr,       \* the argument process_arg_list is at
  expanding,  \* "args", "redirs", or "done"
  status,     \* shell->last_exit_status
  env,        \* shell->env
  written,    \* commands as they came
  seen        \* $? when each command's arguments were begun

vars == <<commands, c, curr, expanding, status, env, written, seen>>

TypeOK ==
  /\ commands \in Seq(Command) /\ c \in 1 .. Len(commands) + 1
  /\ curr \in Nat \ {0} /\ expanding \in {"args", "redirs", "done"}
  /\ status \in Status /\ env \in Envs /\ written \in Seq(Command) /\ seen \in Seq(Status)

----------------------------------------------------------------------------
(* expand_text: variables, everywhere but in single quotes.                *)

\* The characters of the decimal number.
Itoa(n) == <<IF n = 0 THEN "0" ELSE "1">>

\* get_var_len at the k-th character.
VarLen(str, k) ==
  IF str[k] = "?" THEN 1
  ELSE (CHOOSE m \in k .. Len(str) + 1 :
          /\ m <= Len(str) => str[m] \notin Alnum
          /\ \A l \in k .. m - 1 : str[l] \in Alnum) - k

\* With $? = st.
FetchValue(key, st) ==
  IF key = <<"?">> THEN Itoa(st)
  ELSE IF key \in DOMAIN env THEN env[key] ELSE <<>>

\* What a loop over a text makes of it, whose turn at the k-th character adds
\* turn[k].adds and leaves the index at turn[k].next.
Loop(turn) ==
  LET from[k \in 1 .. Len(turn) + 1] ==
        IF k > Len(turn) THEN <<>> ELSE turn[k].adds \o from[turn[k].next]
  IN  from[1]

\* append_char, the skipped digit, append_var.
ExpandTurn(str, k, st) ==
  IF str[k] # "$" \/ k = Len(str) THEN [adds |-> <<str[k]>>, next |-> k + 1]
  ELSE IF str[k + 1] \in Digits THEN [adds |-> <<>>, next |-> k + 2]
  ELSE LET len == VarLen(str, k + 1)
           key == SubSeq(str, k + 1, k + len)
       IN  [adds |-> IF len = 0 THEN <<"$">> ELSE FetchValue(key, st), next |-> k + 1 + len]

ExpandTextAt(str, st) == Loop([k \in DOMAIN str |-> ExpandTurn(str, k, st)])
ExpandText(str) == ExpandTextAt(str, status)

\* Mutant: a digit begins a name.
ExpandDollarDigitNames(line, k) ==
  CASE line[k + 1] = "?" -> [adds |-> Itoa(status), next |-> k + 2]
    [] line[k + 1] \in Alnum ->
         LET len == VarLen(line, k + 1)
         IN  [adds |-> FetchValue(SubSeq(line, k + 1, k + len), status), next |-> k + 1 + len]
    [] OTHER -> [adds |-> <<"$">>, next |-> k + 1]

\* expand_dollar: the same for a line of a here-document, written anew.
ExpandDollar(line, k) ==
  CASE line[k + 1] = "?" -> [adds |-> Itoa(status), next |-> k + 2]
    [] line[k + 1] \in Letters ->
         LET len == VarLen(line, k + 1)
         IN  [adds |-> FetchValue(SubSeq(line, k + 1, k + len), status), next |-> k + 1 + len]
    [] line[k + 1] \in Digits -> [adds |-> <<>>, next |-> k + 2]
    [] OTHER -> [adds |-> <<"$">>, next |-> k + 1]

ExpandHeredocLine(line) ==
  Loop([k \in DOMAIN line |->
          IF line[k] # "$" \/ k = Len(line) THEN [adds |-> <<line[k]>>, next |-> k + 1]
          ELSE ExpandDollar(line, k)])

----------------------------------------------------------------------------
(* expand_arg_to_list: the values of the nodes an argument becomes.        *)

List == Seq(Text \union {NULL}) \ {<<>>}

AppendVal(list, str) ==
  Append(Front(list), IF Last(list) = NULL THEN str ELSE Last(list) \o str)

\* Mutant: the new node is begun even after one that is still empty.
UnquotedCharEmptyWords(ch) ==
  [list \in List |-> IF ch \in Blanks THEN Append(list, NULL) ELSE AppendVal(list, <<ch>>)]

\* A blank after a value begins a new node; the value may never come.
UnquotedChar(ch) ==
  [list \in List |-> IF ch \notin Blanks THEN AppendVal(list, <<ch>>)
                     ELSE IF Last(list) # NULL THEN Append(list, NULL) ELSE list]

HandleUnquoted(list, val) ==
  LET upTo[k \in 0 .. Len(val)] == IF k = 0 THEN list ELSE UnquotedChar(val[k])[upTo[k - 1]]
  IN  upTo[Len(val)]

ProcessSegment(seg) ==
  [list \in List |->
     CASE seg.quote = "single" -> AppendVal(list, seg.value)
       [] seg.quote = "double" -> AppendVal(list, ExpandText(seg.value))
       [] seg.quote = "none" -> HandleUnquoted(list, ExpandText(seg.value))]

ExpandArgToList(segments) ==
  LET upTo[k \in 0 .. Len(segments)] ==
        IF k = 0 THEN <<NULL>> ELSE ProcessSegment(segments[k])[upTo[k - 1]]
      list == upTo[Len(segments)]
  IN  IF list = <<NULL>> THEN <<>> ELSE list

Nodes(list) == [a \in DOMAIN list |-> [segments |-> NULL, value |-> list[a]]]

----------------------------------------------------------------------------
(* process_redirs.                                                         *)

\* expand_redir_file: NULL if ambiguous.  The text is the token's, quotes
\* included.
ExpandRedirFile(file) ==
  IF ~Contains(file, "$") THEN file
  ELSE LET expanded == ExpandText(file)
       IN  IF expanded = <<>> \/ Contains(expanded, " ") THEN NULL ELSE expanded

ProcessRedirs(list) == [r \in DOMAIN list |-> ExpandRedirFile(list[r])]

----------------------------------------------------------------------------
(* expander.                                                               *)

Init ==
  /\ written \in Seq(Command) /\ \A k \in DOMAIN written : Written(written[k])
  /\ commands = written /\ env \in Envs /\ status \in Status
  /\ c = 1 /\ curr = 1 /\ seen = <<status>>
  /\ expanding = IF written = <<>> THEN "done" ELSE "args"

\* One round of process_arg_list, splice_args included.
ExpandArg ==
  /\ expanding = "args" /\ curr <= Len(commands[c].args)
  /\ \E list \in {ExpandArgToList(commands[c].args[curr].segments)} :
       /\ commands' = [commands EXCEPT ![c].args =
                         SubSeq(@, 1, curr - 1) \o Nodes(list) \o SubSeq(@, curr + 1, Len(@))]
       /\ curr' = curr + Len(list)
  /\ UNCHANGED <<c, expanding, status, env, written, seen>>

ArgsDone ==
  /\ expanding = "args" /\ curr > Len(commands[c].args)
  /\ expanding' = "redirs"
  /\ UNCHANGED <<commands, c, curr, status, env, written, seen>>

NextCommand ==
  /\ c' = c + 1 /\ curr' = 1
  /\ IF c = Len(commands) THEN expanding' = "done" /\ UNCHANGED seen
     ELSE expanding' = "args" /\ seen' = Append(seen, status')

\* Mutant: each line begins with the status 0 it will have if all goes well.
RedirsExpandedResets ==
  /\ expanding = "redirs"
  /\ LET in == ProcessRedirs(commands[c].input_redirection)
         out == ProcessRedirs(commands[c].output_redirection)
     IN  /\ commands' = [commands EXCEPT ![c].input_redirection = in,
                                         ![c].output_redirection = out]
         /\ status' = IF Contains(in \o out, NULL) THEN 1 ELSE 0
  /\ NextCommand /\ UNCHANGED <<env, written>>

\* The outputs are not expanded when an input is ambiguous.
Redirs ==
  /\ expanding = "redirs"
  /\ LET in == ProcessRedirs(commands[c].input_redirection)
         out == IF Contains(in, NULL) THEN commands[c].output_redirection
                ELSE ProcessRedirs(commands[c].output_redirection)
     IN  /\ commands' = [commands EXCEPT ![c].input_redirection = in,
                                         ![c].output_redirection = out]
         /\ status' = IF Contains(in \o out, NULL) THEN 1 ELSE status
  /\ NextCommand /\ UNCHANGED <<env, written>>

Next == ExpandArg \/ ArgsDone \/ Redirs

Spec == Init /\ [][Next]_vars

----------------------------------------------------------------------------
(* What the words of a command should be.                                  *)

\* The text of an argument after expansion, one piece for each character; a
\* quoted segment begins with a piece of its own, so that "" is a word.
Pieces(segments) ==
  LET Of(seg) ==
        LET text == IF seg.quote = "single" THEN seg.value ELSE ExpandText(seg.value)
            ofText == [k \in DOMAIN text |-> [ch |-> <<text[k]>>, bare |-> seg.quote = "none"]]
        IN  IF seg.quote = "none" THEN ofText ELSE <<[ch |-> <<>>, bare |-> FALSE]>> \o ofText
  IN  FlattenSeq([k \in DOMAIN segments |-> Of(segments[k])])

\* Words end at bare blanks.
Splits(piece) == piece.bare /\ piece.ch[1] \in Blanks

\* How many words have begun by the k-th piece.
Begun(p, k) == Cardinality({j \in 1 .. k : ~Splits(p[j]) /\ (j > 1 => Splits(p[j - 1]))})

\* The words: the maximal runs of pieces without a bare blank.
WordsIn(p) ==
  [w \in 1 .. Begun(p, Len(p)) |->
     FlattenSeq([k \in DOMAIN p |-> IF ~Splits(p[k]) /\ Begun(p, k) = w THEN p[k].ch ELSE <<>>])]

Words(segments) == WordsIn(Pieces(segments))

WordsOf(args) == FlattenSeq([a \in DOMAIN args |-> Words(args[a].segments)])

Values(args) == [a \in DOMAIN args |-> args[a].value]

NotNull(values) ==
  FlattenSeq([a \in DOMAIN values |-> IF values[a] = NULL THEN <<>> ELSE <<values[a]>>])

\* args_to_array: what the command is given ends at the first NULL.
ArgsToArray(args) ==
  SubSeq(Values(args), 1, SelectInSeq(Append(Values(args), NULL), LAMBDA v : v = NULL) - 1)

\* The arguments of the command at c have just been expanded.
ArgsExpanded == expanding = "redirs"

\* When a command's arguments are expanded, the nodes that have a value are,
\* in order, the words its text splits into: quoted blanks do not split, ""
\* is a word, and a value that is only blanks leaves none
\* (expander.c:39-65, expander_word.c).
WordsAsSplit ==
  ArgsExpanded => NotNull(Values(commands[c].args)) = WordsOf(written[c].args)

\* An argument that yields a word and then ends in a bare blank.
EndsInBlank(arg) ==
  LET p == Pieces(arg.segments) IN WordsIn(p) # <<>> /\ Splits(p[Len(p)])

\* The command is given all of its words, except after an argument that ends
\* in an unquoted blank: that one leaves a node without a value, and the
\* arguments after it are lost (expander_word.c:24-30, builtins_exec.c:30-50).
WordsReachCommand ==
  ArgsExpanded =>
    LET args == written[c].args
        cut == {a \in DOMAIN args : EndsInBlank(args[a])}
        upTo == IF cut = {} THEN Len(args) ELSE CHOOSE a \in cut : \A b \in cut : a <= b
    IN  ArgsToArray(commands[c].args) = WordsOf(SubSeq(args, 1, upTo))

\* Text in double quotes becomes what the same text becomes in a line of a
\* here-document, though other code expands it (expander_process.c:72-99,
\* heredoc_expand.c).
SameAsHeredoc ==
  ArgsExpanded =>
    \A a \in DOMAIN written[c].args :
      LET s == written[c].args[a].segments
      IN  Len(s) = 1 /\ s[1].quote = "double"
            => \E b \in DOMAIN commands[c].args :
                 commands[c].args[b].value = ExpandHeredocLine(s[1].value)

\* $? in a command of a line is the status of the line before, or 1 once a
\* redirection of an earlier command was ambiguous (expander.c:67-80).
StatusDuringLine ==
  \A k \in DOMAIN seen :
    seen[k] = IF \E j \in 1 .. k - 1 : Contains(commands[j].input_redirection, NULL)
                                     \/ Contains(commands[j].output_redirection, NULL)
              THEN 1 ELSE seen[1]

\* validate_input looks at the last input only, so a command
\* without here-documents goes on to its outputs if that one has a name.  They
\* are then opened under the names they stand for, unless an input before was
\* ambiguous, which leaves the outputs as they were written
\* (expander.c:75-77, handle_redirection.c:69-139).
OutputsOpenedExpanded ==
  \A k \in 1 .. c - 1 :
    LET in == commands[k].input_redirection
        out == commands[k].output_redirection
    IN  in = <<>> \/ Last(in) # NULL
          => \/ \A r \in DOMAIN out :
                 out[r] # NULL /\ Contains(written[k].output_redirection[r], "$")
                   => out[r] = ExpandTextAt(written[k].output_redirection[r], seen[k])
             \/ Len(in) > 1 /\ Contains(Front(in), NULL)
=============================================================================
