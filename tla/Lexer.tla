-------------------------------- MODULE Lexer --------------------------------
(***************************************************************************)
(* lexer: a line of characters becomes a list of tokens, and each word a   *)
(* list of segments, one for every quoted and every unquoted part of it.   *)
(***************************************************************************)
EXTENDS Naturals, Sequences, SequencesExt

CONSTANTS Plain,   \* characters that mean nothing to the lexer
          Inputs   \* the lines

Blanks == {" "}                \* stands for all six of is_whitespace
Operators == {"|", "<", ">"}
Quotes == {"'", "\""}
Char == Plain \union Blanks \union Operators \union Quotes

\* What the constants stand for.
Parameters ==
  /\ Plain \cap (Blanks \union Operators \union Quotes) = {}
  /\ Inputs \subseteq Seq(Char)

Types == {"WORD", "PIPE", "REDIRECT_IN", "REDIRECT_OUT", "APPEND", "HEREDOC", "END"}
Segment == [quote : {"none", "single", "double"}, value : Seq(Char)]
Token == [type : Types, literal : Seq(Char), segments : Seq(Segment)]

VARIABLES
  input,     \* the line
  i,         \* how many of its characters are read
  tokens,    \* the list made so far; empty again when NULL is returned
  start,     \* where the word being read begins
  segments,  \* and its segments so far
  lexing     \* "tokens", "word", "done", or "unclosed": NULL was returned

vars == <<input, i, tokens, start, segments, lexing>>

TypeOK ==
  /\ input \in Seq(Char) /\ i \in 0 .. Len(input) /\ start \in 0 .. i
  /\ tokens \in Seq(Token) /\ segments \in Seq(Segment)
  /\ lexing \in {"tokens", "word", "done", "unclosed"}

----------------------------------------------------------------------------
(* Characters.                                                             *)

AtEnd == i = Len(input)
Next1 == input[i + 1]
At(S) == ~AtEnd /\ Next1 \in S

\* Where the run of characters outside S that begins after the first k ends.
RunEnd(k, S) ==
  CHOOSE j \in k .. Len(input) :
    /\ j < Len(input) => input[j + 1] \in S
    /\ \A l \in k .. j - 1 : input[l + 1] \notin S

Between(from, to) == SubSeq(input, from + 1, to)

QuoteType(c) == IF c = "'" THEN "single" ELSE "double"

GetOpType(op) ==
  CASE op = <<"<", "<">> -> "HEREDOC"
    [] op = <<">", ">">> -> "APPEND"
    [] op = <<"<">> -> "REDIRECT_IN"
    [] op = <<">">> -> "REDIRECT_OUT"
    [] op = <<"|">> -> "PIPE"

CreateToken(type, literal, segs) ==
  [type |-> type, literal |-> literal, segments |-> segs]

----------------------------------------------------------------------------
(* The loop over tokens.                                                   *)

Init ==
  /\ input \in Inputs /\ i = 0 /\ tokens = <<>>
  /\ start = 0 /\ segments = <<>> /\ lexing = "tokens"

\* Mutant: the index is not moved.
SkipNothing == lexing = "tokens" /\ At(Blanks) /\ UNCHANGED vars

SkipWhitespace ==
  /\ lexing = "tokens" /\ At(Blanks)
  /\ i' = RunEnd(i, Char \ Blanks)
  /\ UNCHANGED <<input, tokens, start, segments, lexing>>

HandleOperator ==
  /\ lexing = "tokens" /\ At(Operators)
  /\ LET twice == /\ Next1 # "|" /\ i + 2 <= Len(input) /\ input[i + 2] = Next1
         end == i + (IF twice THEN 2 ELSE 1)
         op == Between(i, end)
     IN  i' = end /\ tokens' = Append(tokens, CreateToken(GetOpType(op), op, <<>>))
  /\ UNCHANGED <<input, start, segments, lexing>>

HandleWord ==
  /\ lexing = "tokens" /\ ~AtEnd /\ ~At(Blanks \union Operators)
  /\ start' = i /\ segments' = <<>> /\ lexing' = "word"
  /\ UNCHANGED <<input, i, tokens>>

End ==
  /\ lexing = "tokens" /\ AtEnd
  /\ tokens' = Append(tokens, CreateToken("END", <<>>, <<>>))
  /\ lexing' = "done"
  /\ UNCHANGED <<input, i, start, segments>>

----------------------------------------------------------------------------
(* The loop over a word's segments: extract_segment, until the word ends.  *)

\* Mutant: the text begins with the quote itself.
QuotedSegmentWithQuote ==
  /\ lexing = "word" /\ At(Quotes)
  /\ LET close == RunEnd(i + 1, {Next1}) IN
       /\ close < Len(input)
       /\ segments' = Append(segments, [quote |-> QuoteType(Next1), value |-> Between(i, close)])
       /\ i' = close + 1
  /\ UNCHANGED <<input, tokens, start, lexing>>

QuotedSegment ==
  /\ lexing = "word" /\ At(Quotes)
  /\ LET close == RunEnd(i + 1, {Next1}) IN
       /\ close < Len(input)
       /\ segments' = Append(segments, [quote |-> QuoteType(Next1), value |-> Between(i + 1, close)])
       /\ i' = close + 1
  /\ UNCHANGED <<input, tokens, start, lexing>>

\* handle_word frees the word, lexer the tokens before it.
UnclosedQuote ==
  /\ lexing = "word" /\ At(Quotes)
  /\ RunEnd(i + 1, {Next1}) = Len(input)
  /\ tokens' = <<>> /\ segments' = <<>> /\ lexing' = "unclosed"
  /\ UNCHANGED <<input, i, start>>

GetUnquotedLen(k) == RunEnd(k, Blanks \union Operators \union Quotes)

UnquotedSegment ==
  /\ lexing = "word" /\ ~AtEnd /\ ~At(Blanks \union Operators \union Quotes)
  /\ i' = GetUnquotedLen(i)
  /\ segments' = Append(segments, [quote |-> "none", value |-> Between(i, i')])
  /\ UNCHANGED <<input, tokens, start, lexing>>

EndWord ==
  /\ lexing = "word" /\ (AtEnd \/ At(Blanks \union Operators))
  /\ tokens' = Append(tokens, CreateToken("WORD", Between(start, i), segments))
  /\ lexing' = "tokens"
  /\ UNCHANGED <<input, i, start, segments>>

Next ==
  \/ SkipWhitespace \/ HandleOperator \/ HandleWord \/ End
  \/ QuotedSegment \/ UnclosedQuote \/ UnquotedSegment \/ EndWord

Spec == Init /\ [][Next]_vars

----------------------------------------------------------------------------
(* Properties.  The reference reads one character at a time.               *)

\* The quote that is open behind a character.
OpenBehind(open, ch) ==
  CASE open = "none" /\ ch \in Quotes -> ch
    [] open = ch -> "none"
    [] OTHER -> open

\* The quote that is open before each character, and at the end of the line.
Open[k \in 1 .. Len(input) + 1] ==
  IF k = 1 THEN "none" ELSE OpenBehind(Open[k - 1], input[k - 1])

Bare(k, S) == input[k] \in S /\ Open[k] = "none"

\* Whether character k goes on with the token character k - 1 belongs to.
Joins(k, literals) ==
  /\ k > 1
  /\ IF Bare(k, Operators)
     THEN Bare(k - 1, Operators) /\ Last(literals) = <<input[k]>> /\ input[k] # "|"
     ELSE ~Bare(k - 1, Blanks \union Operators)

\* The literals before character k, and that character.
WithCharacter(literals, k) ==
  IF Bare(k, Blanks) THEN literals
  ELSE IF Joins(k, literals)
  THEN Append(Front(literals), Append(Last(literals), input[k]))
  ELSE Append(literals, <<input[k]>>)

\* The literals of the tokens that the first k characters are made of.
Literals[k \in 0 .. Len(input)] ==
  IF k = 0 THEN <<>> ELSE WithCharacter(Literals[k - 1], k)

\* Cutting by runs, segments and look-ahead gives the same tokens as reading
\* character by character with one quote open at most; and a line is refused
\* exactly when a quote is open at its end.
TokensAsWritten ==
  /\ lexing = "done" =>
       /\ Open[Len(input) + 1] = "none"
       /\ [k \in DOMAIN tokens |-> tokens[k].literal] = Append(Literals[Len(input)], <<>>)
  /\ lexing = "unclosed" => Open[Len(input) + 1] # "none"

\* A segment as it was typed.
Typed(s) ==
  CASE s.quote = "none" -> s.value
    [] s.quote = "single" -> <<"'">> \o s.value \o <<"'">>
    [] s.quote = "double" -> <<"\"">> \o s.value \o <<"\"">>

\* What the expander gets of a word, its segments, is the whole word and
\* nothing but the word; two unquoted segments never touch, so a variable's
\* name is never cut in two; and no operator is left in an unquoted one.
SegmentsSpellWord ==
  \A k \in DOMAIN tokens :
    LET s == tokens[k].segments IN
      /\ tokens[k].type = "WORD" => FlattenSeq([j \in DOMAIN s |-> Typed(s[j])]) = tokens[k].literal
      /\ \A j \in DOMAIN s :
           s[j].quote = "none" =>
             /\ s[j].value # <<>>
             /\ \A c \in DOMAIN s[j].value : s[j].value[c] \notin Operators \union Quotes \union Blanks
             /\ j > 1 => s[j - 1].quote # "none"
=============================================================================
