-------------------------------- MODULE Exit --------------------------------
(***************************************************************************)
(* builtin_exit: its arguments, the number in the first, in arithmetic of  *)
(* a limited width, and the status the process leaves.                     *)
(***************************************************************************)
EXTENDS Integers, Sequences

CONSTANTS NULL,      \* no value
          LLongMax,  \* LLONG_MAX
          ArgLists,  \* the arguments after "exit"
          Statuses   \* what $? may be

DigitChars == <<"0", "1", "2", "3", "4", "5", "6", "7", "8", "9">>
Digits == {DigitChars[d] : d \in 1 .. 10}
Blanks == {" "}          \* and the five from 9 to 13
Signs == {"+", "-"}
Char == Digits \union Blanks \union Signs \union {"x"}   \* "x" is any other

\* char - '0'
DigitValue(c) == CHOOSE d \in 0 .. 9 : DigitChars[d + 1] = c

\* ft_atoll_safe's 8 is the last digit of LLONG_MIN.
Parameters ==
  /\ NULL \notin Int
  /\ LLongMax \in Nat /\ LLongMax % 10 = 7
  /\ ArgLists \subseteq Seq(Seq(Char)) /\ Statuses \subseteq 0 .. 255

VARIABLES
  args,      \* args + 1
  last,      \* shell->last_exit_status
  at,        \* "check", "atoll", "digits", "finish", "exited" or "returned"
  i,         \* the characters of the first argument ft_atoll_safe has read
  sign, res, \* its variables
  exitCode,  \* exit_code of builtin_exit
  code,      \* what exit(3) leaves, or what builtin_exit returns
  written    \* the number whose digits have been read, without a limit

vars == <<args, last, at, i, sign, res, exitCode, code, written>>

ULLong == 0 .. 2 * LLongMax + 1
LLong == -LLongMax - 1 .. LLongMax

TypeOK ==
  /\ args \in Seq(Seq(Char)) /\ last \in 0 .. 255
  /\ at \in {"check", "atoll", "digits", "finish", "exited", "returned"}
  /\ i \in Nat /\ sign \in {1, -1} /\ res \in ULLong /\ written \in Nat
  /\ exitCode \in LLong \union 0 .. 255 \union {NULL}
  /\ code \in 0 .. 255 \union {NULL}
  /\ code # NULL <=> at \in {"exited", "returned"}

Init ==
  /\ args \in ArgLists /\ last \in Statuses /\ at = "check"
  /\ i = 0 /\ sign = 1 /\ res = 0 /\ exitCode = NULL /\ code = NULL /\ written = 0

----------------------------------------------------------------------------
Arg == args[1]

\* How many characters are read once those of S are skipped after the first k.
Skip(str, k, S) ==
  CHOOSE j \in k .. Len(str) :
    /\ j < Len(str) => str[j + 1] \notin S
    /\ \A l \in k .. j - 1 : str[l + 1] \in S

AfterSign(str, k) == IF k < Len(str) /\ str[k + 1] \in Signs THEN k + 1 ELSE k

IsValidExitArg(str) ==
  LET number == AfterSign(str, Skip(str, 0, Blanks))
      end == Skip(str, number, Digits)
  IN  end > number /\ Skip(str, end, Blanks) = Len(str)

\* unsigned long long, and its conversion to long long
Wrap(n) == n % (2 * (LLongMax + 1))
Signed(n) == IF n > LLongMax THEN n - 2 * (LLongMax + 1) ELSE n

\* exit(n % 256): C's remainder, of which the parent gets the low byte.
LowByte(n) == (IF n < 0 THEN -((-n) % 256) ELSE n % 256) % 256

CheckOverflowPos(digit) ==
  \/ res > LLongMax \div 10
  \/ res = LLongMax \div 10 /\ digit > LLongMax % 10

\* Mutant: the limit of the positive numbers.
CheckOverflowNegAsPos(digit) ==
  \/ res > LLongMax \div 10
  \/ res = LLongMax \div 10 /\ digit > 7

CheckOverflowNeg(digit) ==
  \/ res > (LLongMax + 1) \div 10
  \/ res = (LLongMax + 1) \div 10 /\ digit > 8

Leave(how, status) == at' = how /\ code' = status

----------------------------------------------------------------------------
NoArgument ==
  /\ at = "check" /\ args = <<>>
  /\ exitCode' = last /\ at' = "finish"
  /\ UNCHANGED <<args, last, i, sign, res, code, written>>

InvalidArgument ==
  /\ at = "check" /\ args # <<>> /\ ~IsValidExitArg(Arg)
  /\ Leave("exited", 2)
  /\ UNCHANGED <<args, last, i, sign, res, exitCode, written>>

ValidArgument ==
  /\ at = "check" /\ args # <<>> /\ IsValidExitArg(Arg)
  /\ at' = "atoll"
  /\ UNCHANGED <<args, last, i, sign, res, exitCode, code, written>>

\* skip_whitespace and get_sign.
GetSign ==
  /\ at = "atoll"
  /\ LET k == Skip(Arg, 0, Blanks) IN
       /\ i' = AfterSign(Arg, k)
       /\ sign' = IF k < Len(Arg) /\ Arg[k + 1] = "-" THEN -1 ELSE 1
  /\ at' = "digits"
  /\ UNCHANGED <<args, last, res, exitCode, code, written>>

AtDigit == i < Len(Arg) /\ Arg[i + 1] \in Digits

\* One round of the loop; exit_with_error on overflow.
ReadDigit ==
  /\ at = "digits" /\ AtDigit
  /\ LET digit == DigitValue(Arg[i + 1])
         overflow == IF sign = 1 THEN CheckOverflowPos(digit) ELSE CheckOverflowNeg(digit)
     IN  /\ written' = written * 10 + digit
         /\ IF overflow THEN Leave("exited", 2) /\ UNCHANGED <<i, res>>
            ELSE res' = Wrap(res * 10 + digit) /\ i' = i + 1 /\ UNCHANGED <<at, code>>
  /\ UNCHANGED <<args, last, sign, exitCode>>

Convert ==
  /\ at = "digits" /\ ~AtDigit
  /\ exitCode' = Signed(Wrap(res * sign)) /\ at' = "finish"
  /\ UNCHANGED <<args, last, i, sign, res, code, written>>

\* handle_too_many_args, or do_exit.
Finish ==
  /\ at = "finish"
  /\ IF Len(args) > 1 THEN Leave("returned", 1) ELSE Leave("exited", LowByte(exitCode))
  /\ UNCHANGED <<args, last, i, sign, res, exitCode, written>>

Next ==
  \/ NoArgument \/ InvalidArgument \/ ValidArgument \/ GetSign \/ ReadDigit \/ Convert
  \/ Finish

Spec == Init /\ [][Next]_vars

----------------------------------------------------------------------------
(* Properties.                                                             *)

\* blank* sign? digit+ blank*
IsNumeral(str) ==
  \E a, b, c \in 0 .. Len(str) :
    /\ b = a \/ (b = a + 1 /\ str[b] \in Signs)
    /\ b < c
    /\ \A k \in DOMAIN str :
         /\ k <= a \/ k > c => str[k] \in Blanks
         /\ b < k /\ k <= c => str[k] \in Digits

\* exit without an argument leaves the status before it; with a first argument
\* that is no number it exits whatever follows; it goes on, with 1, only with
\* more than one argument and a number that fits (ft_exit.c:15-82).
OutcomeOfArguments ==
  /\ at = "exited" =>
       CASE args = <<>> -> code = last
         [] args # <<>> /\ ~IsNumeral(Arg) -> code = 2
         [] args # <<>> /\ IsNumeral(Arg) -> Len(args) > 1 => sign * written \notin LLong
  /\ at = "returned" =>
       Len(args) > 1 /\ IsNumeral(Arg) /\ sign * written \in LLong /\ code = 1

\* The number that was read, where it can be represented, is the status modulo
\* 256, LLONG_MIN and LLONG_MAX included; any other number ends in 2, and no
\* intermediate value wraps (ft_atoll.c:39-77, ft_exit.c:54-82).
NumberGivesStatus ==
  at = "exited" /\ args # <<>> /\ IsValidExitArg(Arg) =>
    code = IF sign * written \in LLong THEN (sign * written) % 256 ELSE 2
=============================================================================
