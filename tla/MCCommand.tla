------------------------------ MODULE MCCommand ------------------------------
(* What each part of Command is given.                                     *)
EXTENDS Command, SequencesExt

CONSTANTS MaxArgLen, MaxDigits, MaxBodyLen

\* No PATH, or one of up to two directories, which may be the same.
MCPaths == {NULL, <<>>, <<"bin">>, <<"bin", "bin">>, <<"bin", "usr">>}

\* exit with up to two arguments of every shape, the second any, or with one
\* number, with or without a sign.
MCArgLists ==
  {<<>>} \union {<<a>> : a \in BoundedSeq({" ", "+", "-", "1", "x"}, MaxArgLen)}
    \union {<<a, b>> : a \in BoundedSeq({" ", "-", "9", "x"}, MaxArgLen), b \in {<<>>, <<"1">>}}
    \union {<<s \o n>> : s \in {<<>>, <<"-">>, <<"+">>},
                         n \in BoundedSeq({"0", "1", "2", "4", "7", "8"}, MaxDigits) \ {<<>>}}

\* Environments of up to four of five names, some with one name the beginning
\* of another, in any order and with every kind of value.
MCCode ==
  [c \in {"1", "=", "A", "_"} |->
     CASE c = "1" -> 49 [] c = "=" -> 61 [] c = "A" -> 65 [] c = "_" -> 95]
MCKeys == {<<"A">>, <<"A", "1">>, <<"A", "A">>, <<"_">>, <<"_", "1">>}
MCValues == {NULL, <<>>, <<"1", "=", "1">>}
MCEnvs ==
  UNION {{[n \in DOMAIN keys |-> [key |-> keys[n], value |-> values[n]]] :
            keys \in {k \in [1 .. len -> MCKeys] : \A m, n \in 1 .. len : k[m] = k[n] => m = n},
            values \in [1 .. len -> MCValues]} : len \in 0 .. 4}

\* SHLVL: texts of up to two characters of every kind, the numbers around the
\* limits of an int and of its multiples, and none at all.
Numbers ==
  {<<"9">>, <<"1", "0">>, <<"9", "9">>, <<"1", "0", "0">>, <<"1", "3", "0">>, <<"3", "8", "4">>,
   <<"1", "0", "0", "0">>, <<"0", "1", "2", "7">>}
    \union {<<"1", "2", d>> : d \in {"5", "6", "7", "8", "9", "x"}}
    \union {<<"2", "5", d>> : d \in {"4", "5", "6", "7"}}
MCTexts ==
  {NULL} \union BoundedSeq({" ", "+", "-", "1", "x"}, 2)
    \union {s \o n : s \in {<<>>, <<"-">>}, n \in Numbers}
    \union {<<" ", "-", "1">>, <<"-", " ", "1">>}

\* Bodies of up to MaxBodyLen characters.  $a stands for bbb and $0 for nothing, so
\* that a read can cut a name, and lines grow and shrink when expanded.
MCBodyChar == {"$", "a", "0", "b", "\n"}
MCBodies ==
  {b \in BoundedSeq(MCBodyChar \ {"b"}, MaxBodyLen) : b = <<>> \/ Last(b) = "\n"}
MCExpandLine(line) ==
  FlattenSeq([k \in DOMAIN line |->
    LET name(l) == line[l] = "$" /\ l < Len(line) /\ line[l + 1] \in {"a", "0"} IN
    CASE name(k) /\ line[k + 1] = "a" -> <<"b", "b", "b">>
      [] name(k) /\ line[k + 1] = "0" -> <<>>
      [] k > 1 /\ name(k - 1) -> <<>>
      [] OTHER -> <<line[k]>>])
=============================================================================
