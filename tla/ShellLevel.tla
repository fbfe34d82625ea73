------------------------------ MODULE ShellLevel ------------------------------
(***************************************************************************)
(* init_shlvl: the number in SHLVL, counted up by every shell that is      *)
(* started within another; in int arithmetic of a limited width, through   *)
(* ft_atoi and ft_itoa, which check nothing.                               *)
(***************************************************************************)
EXTENDS Integers, Sequences, SequencesExt

CONSTANTS NULL,      \* SHLVL is not in the environment
          IntMax,    \* INT_MAX
          Texts,     \* what the user may give SHLVL
          MaxShells  \* how many shells run within each other

DigitChars == <<"0", "1", "2", "3", "4", "5", "6", "7", "8", "9">>
Digits == {DigitChars[d] : d \in 1 .. 10}
Blanks == {" "}          \* and the five from 9 to 13
Char == Digits \union Blanks \union {"+", "-", "x"}   \* "x" is any other

Parameters ==
  IntMax \in Nat /\ IntMax >= 9 /\ Texts \subseteq Seq(Char) \union {NULL} /\ MaxShells \in Nat

CInt == -IntMax - 1 .. IntMax

VARIABLES
  levels,   \* SHLVL of each shell, the one that runs the others first
  number    \* init_shlvl's int in the shell started last

vars == <<levels, number>>

TypeOK == levels \in Seq(Seq(Char) \union {NULL}) /\ levels # <<>> /\ number \in CInt

----------------------------------------------------------------------------
\* What the compiled program makes of an int that overflows.
Wrap(n) == ((n + IntMax + 1) % (2 * (IntMax + 1))) - IntMax - 1

\* How many characters are read once those of S are skipped after the first k.
Skip(str, k, S) ==
  CHOOSE j \in k .. Len(str) :
    /\ j < Len(str) => str[j + 1] \notin S
    /\ \A l \in k .. j - 1 : str[l + 1] \in S

DigitValue(c) == CHOOSE d \in 0 .. 9 : DigitChars[d + 1] = c

\* The sign of a text, and the digits after it.
Signed(str) ==
  LET k == Skip(str, 0, Blanks)
      hasSign == k < Len(str) /\ str[k + 1] \in {"+", "-"}
      first == IF hasSign THEN k + 1 ELSE k
  IN  [sign |-> IF hasSign /\ str[k + 1] = "-" THEN -1 ELSE 1,
       digits |-> SubSeq(str, first + 1, Skip(str, first, Digits))]

FtAtoi(str) ==
  LET s == Signed(str)
      num[k \in 0 .. Len(s.digits)] ==
        IF k = 0 THEN 0 ELSE Wrap(Wrap(num[k - 1] * 10) + DigitValue(s.digits[k]))
  IN  Wrap(s.sign * num[Len(s.digits)])

\* The digits, from the last one; -INT_MIN is a long.
Decimal[nb \in 0 .. IntMax + 1] ==
  LET units == DigitChars[(nb % 10) + 1]
  IN  IF nb < 10 THEN <<units>> ELSE Append(Decimal[nb \div 10], units)

FtItoa(n) == IF n < 0 THEN <<"-">> \o Decimal[-n] ELSE Decimal[n]

\* Mutant: a negative number is counted up too.
IncrementedNegative(n) == Wrap(n + 1)

Incremented(n) == Wrap((IF n < 0 THEN 0 ELSE n) + 1)

----------------------------------------------------------------------------
\* The first shell is started from outside, with any text.
Init ==
  /\ \E t \in Texts : number = IF t = NULL THEN 1 ELSE Incremented(FtAtoi(t))
  /\ levels = <<FtItoa(number)>>

\* A shell is started within the last one.
InitShlvl ==
  /\ Len(levels) < MaxShells
  /\ number' = IF Last(levels) = NULL THEN 1 ELSE Incremented(FtAtoi(Last(levels)))
  /\ levels' = Append(levels, FtItoa(number'))

\* export SHLVL=text, or unset SHLVL, in the last shell.
SetShlvl == \E t \in Texts : levels' = Append(Front(levels), t) /\ UNCHANGED number

Leave == Len(levels) > 1 /\ levels' = Front(levels) /\ UNCHANGED number

Next == InitShlvl \/ SetShlvl \/ Leave

Spec == Init /\ [][Next]_vars

----------------------------------------------------------------------------
(* Properties.                                                             *)

\* The number a text begins with, without a limit, or 0.
Written(str) ==
  LET s == Signed(str)
      n[k \in 0 .. Len(s.digits)] ==
        IF k = 0 THEN 0 ELSE n[k - 1] * 10 + DigitValue(s.digits[k])
  IN  s.sign * n[Len(s.digits)]

\* A shell within another has the next level: one more than the number its
\* SHLVL begins with, and 1 for a negative one or none.  At INT_MAX it goes
\* round to the least int; beyond, the number is taken modulo the width first.
\* What it writes is read back as the same number, the least int included, so
\* that a shell within begins where it stopped
\* (utils_env_init.c:49-72, ft_atoi.c:15-38, ft_itoa.c:38-65).
NextLevelStep ==
  Len(levels') > Len(levels) =>
    LET old == IF Last(levels) = NULL THEN 0 ELSE Written(Last(levels))
        new == Written(Last(levels'))
    IN  /\ new = number' /\ new \in CInt /\ FtAtoi(Last(levels')) = new
        /\ -IntMax <= old /\ old < 0 => new = 1
        /\ 0 <= old /\ old < IntMax => new = old + 1
        /\ old = IntMax => new = -IntMax - 1
        /\ \/ new = 1
           \/ (new - old - 1) % (2 * (IntMax + 1)) = 0
=============================================================================
