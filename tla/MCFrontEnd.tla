------------------------------ MODULE MCFrontEnd ------------------------------
(* Lines of every shape for the lexer, of every kind of token for the parser,  *)
(* and for each part of the expander.                                          *)
EXTENDS FrontEnd

CONSTANT MaxLen, MaxTokens

Between(texts, separator) ==
  FoldLeft(LAMBDA line, text : IF line = <<>> THEN text ELSE line \o separator \o text, <<>>, texts)
Spaced(texts) == Between(texts, <<" ">>)

\* Every line of up to MaxLen characters of every kind, and one character
\* longer without operators.
Short ==
  (BoundedSeq({"a", "$", " ", "|", "<", ">", "'", "\""}, MaxLen)
     \union BoundedSeq({"a", "$", " ", "'", "\""}, MaxLen + 1)) \ {<<>>}

\* Every list of up to MaxTokens tokens.
Tokens ==
  {Spaced(l) : l \in BoundedSeq({<<"b">>, <<"|">>, <<"<">>, <<">">>, <<">", ">">>, <<"<", "<">>},
                                MaxTokens) \ {<<>>}}

\* One or two words, the first of one or two parts, with a value of up to three characters.
Var == <<"$", "a">>
Double(text) == <<"\"">> \o text \o <<"\"">>
Single(text) == <<"'">> \o text \o <<"'">>
Words ==
  LET unquoted == {Var, <<"b">>, <<"b">> \o Var}
      quoted == {Double(Var), Double(<<>>), Single(Var)}
      words == unquoted \union quoted
                 \union {p \o q : p \in quoted, q \in unquoted \union quoted}
                 \union {p \o q : p \in unquoted, q \in quoted}
  IN  words \union {p \o <<" ">> \o q : p \in words, q \in unquoted \union quoted}
Values == [{<<"a">>} -> BoundedSeq({"x", " "}, 3)]

\* One quoted word of up to five characters.
Texts == {Double(t) : t \in BoundedSeq({"a", "0", "?", "$", "/"}, 5)}
TwoNames ==
  [n \in {<<"a">>, <<"0", "a">>, <<"a", "0">>} |->
     CASE n = <<"a">> -> <<"x", " ">> [] n = <<"0", "a">> -> <<"b">> [] OTHER -> <<"/">>]

\* Up to three commands that print $?, the first two with up to two inputs and
\* one output each.
Lines ==
  LET files == {<<"x">>, Var}
      ins == {<<"<">> \o f : f \in files}
      outs == {<<">">> \o f : f \in files \union {<<"$", "?">>}}
      redirs == {Spaced(in \o out) : in \in BoundedSeq(ins, 2), out \in BoundedSeq(outs, 1)}
      commandSet == {Spaced(<<<<"$", "?">>, r>>) : r \in redirs}
      last == <<"$", "?">>
  IN  {Between(l, <<"|">>) : l \in {<<k>> : k \in commandSet}
                                     \union {<<k, m, last>> : k, m \in commandSet}}
Files == {[n \in {<<"a">>} |-> v] : v \in {<<>>, <<"b">>, <<"b", " ", "b">>}}

MCInputs == Short \union Tokens \union Words \union Texts \union Lines
MCEnvs == Values \union Files \union {TwoNames}
MCEnvsFor(line) ==
  IF ~Contains(line, "$") THEN {TwoNames}
  ELSE (IF line \in Words THEN Values ELSE {}) \union (IF line \in Lines THEN Files ELSE {})
         \union (IF line \in Texts THEN {TwoNames} ELSE {})
         \union (IF line \in Short THEN {[n \in {<<"a">>} |-> <<"b", " ", "b">>]} ELSE {})
=============================================================================
