---------------------------- MODULE ParserProofs ----------------------------
(***************************************************************************)
(* The parser on token lists of any length: which are refused, and who     *)
(* frees the segments.                                                     *)
(***************************************************************************)
EXTENDS Parser, SequenceTheorems, FiniteSetTheorems, TLAPS

\* Every list the lexer returns ends in END and has no other.
LEMMA TokensEnd ==
  ASSUME TypeOK
  PROVE  /\ tokens \in Seq(Types) /\ tokens # <<>> /\ curr \in 1 .. Len(tokens)
         /\ \A k \in DOMAIN tokens : tokens[k] = "END" <=> k = Len(tokens)
  BY DEF TypeOK, TokenLists

----------------------------------------------------------------------------
(* Types.                                                                  *)

\* The loop runs on a list of commands that is not empty.
HasCommand == parsing = "loop" => commands # <<>>

\* What becomes of the command a redirection is added to.
Redirected(redir) ==
  [CurrCmd EXCEPT ![ListName(tokens[curr])] = Append(@, redir), !.redir_counter = @ + 1]

\* A sequence with an element more.
LEMMA Longer ==
  ASSUME NEW T, NEW s \in Seq(T), NEW e \in T
  PROVE  Append(s, e) \in Seq(T) /\ Append(s, e) # <<>>
  BY AppendProperties

\* Update replaces the last command, and nothing else.
LEMMA LastReplaced ==
  ASSUME commands \in Seq(Command), commands # <<>>, NEW new \in Command, Update(new)
  PROVE  /\ commands' \in Seq(Command) /\ commands' # <<>> /\ Len(commands') = Len(commands)
         /\ commands'[Len(commands)] = new /\ Len(commands) \in DOMAIN commands
         /\ \A c \in DOMAIN commands : c # Len(commands) => commands'[c] = commands[c]
  BY DEF Update

\* ft_calloc makes a command.
LEMMA EmptyIsCommand == EmptyCommand \in Command
  BY DEF EmptyCommand, Command

\* A redirection more leaves a command one.
LEMMA RedirectedCommand ==
  ASSUME CurrCmd \in Command, NEW redir \in Redir
  PROVE  /\ Redirected(redir) \in Command /\ Redirected(redir).args = CurrCmd.args
         /\ ~IsEmpty(Redirected(redir))
<1> DEFINE cmd == CurrCmd
           new == Redirected(redir)
<1>1. /\ cmd.args \in Seq(Nat) /\ cmd.input_redirection \in Seq(Redir)
      /\ cmd.output_redirection \in Seq(Redir) /\ cmd.heredoc \in Seq(Redir)
      /\ cmd.redir_counter \in Nat /\ cmd.redir_counter + 1 \in Nat
  BY DEF Command
<1>2. CASE ListName(tokens[curr]) = "input_redirection"
  <2>1. new = [cmd EXCEPT !.input_redirection = Append(@, redir), !.redir_counter = @ + 1]
    BY <1>2 DEF Redirected
  <2>2. Append(cmd.input_redirection, redir) \in Seq(Redir) /\ new.input_redirection # <<>>
    BY <1>1, <2>1, Longer DEF Command
  <2>3. QED
    BY <1>1, <2>1, <2>2 DEF IsEmpty, Command
<1>3. CASE ListName(tokens[curr]) = "heredoc"
  <2>1. new = [cmd EXCEPT !.heredoc = Append(@, redir), !.redir_counter = @ + 1]
    BY <1>3 DEF Redirected
  <2>2. Append(cmd.heredoc, redir) \in Seq(Redir) /\ new.heredoc # <<>>
    BY <1>1, <2>1, Longer DEF Command
  <2>3. QED
    BY <1>1, <2>1, <2>2 DEF IsEmpty, Command
<1>4. CASE ListName(tokens[curr]) = "output_redirection"
  <2>1. new = [cmd EXCEPT !.output_redirection = Append(@, redir), !.redir_counter = @ + 1]
    BY <1>4 DEF Redirected
  <2>2. Append(cmd.output_redirection, redir) \in Seq(Redir) /\ new.output_redirection # <<>>
    BY <1>1, <2>1, Longer DEF Command
  <2>3. QED
    BY <1>1, <2>1, <2>2 DEF IsEmpty, Command
<1>5. QED
  BY <1>2, <1>3, <1>4 DEF ListName

\* So does an argument more.
LEMMA AddedCommand ==
  ASSUME CurrCmd \in Command, NEW w \in Nat
  PROVE  LET new == [CurrCmd EXCEPT !.args = Append(@, w)]
         IN  new \in Command /\ new.args = Append(CurrCmd.args, w) /\ ~IsEmpty(new)
<1> DEFINE cmd == CurrCmd
           new == [cmd EXCEPT !.args = Append(@, w)]
<1>1. /\ cmd.args \in Seq(Nat) /\ cmd.input_redirection \in Seq(Redir)
      /\ cmd.output_redirection \in Seq(Redir) /\ cmd.heredoc \in Seq(Redir)
      /\ cmd.redir_counter \in Nat
  BY DEF Command
<1>2. Append(cmd.args, w) \in Seq(Nat) /\ Append(cmd.args, w) # <<>>
  BY <1>1, Longer
<1>3. QED
  BY <1>1, <1>2 DEF IsEmpty, Command

\* A redirection that is parsed ends before END, and is added to the current
\* command.
LEMMA RedirParsed ==
  ASSUME TypeOK, HasCommand, ParseRedir
  PROVE  /\ commands \in Seq(Command) /\ commands # <<>> /\ CurrCmd \in Command
         /\ curr \in Nat /\ curr + 2 \in DOMAIN tokens
         /\ \E redir \in Redir : Redirected(redir) \in Command /\ Update(Redirected(redir))
<1>1. commands \in Seq(Command) /\ commands # <<>>
  BY DEF ParseRedir, TypeOK, HasCommand
<1>2. CurrCmd \in Command
  BY <1>1 DEF CurrCmd
<1>3. curr \in Nat /\ curr + 1 \in Nat /\ curr + 2 \in DOMAIN tokens
  <2>1. curr \in 1 .. Len(tokens) /\ tokens[curr] # "END" /\ tokens[curr + 1] # "END"
    BY TokensEnd DEF ParseRedir, Redirections
  <2>2. curr # Len(tokens) /\ curr + 1 # Len(tokens)
    BY <2>1, TokensEnd
  <2>3. QED
    BY <2>1, <2>2, TokensEnd
<1> DEFINE redir == [file |-> curr + 1, append |-> tokens[curr] = "APPEND",
                     index |-> CurrCmd.redir_counter]
<1>4. redir \in Redir
  BY <1>2, <1>3 DEF Redir, Command
<1>5. Redirected(redir) \in Command
  BY <1>2, <1>4, RedirectedCommand
<1>6. Update(Redirected(redir))
  BY DEF ParseRedir, Redirected
<1>7. QED
  BY <1>1, <1>2, <1>3, <1>4, <1>5, <1>6

\* The types hold at first,
LEMMA TypesInit == Init => TypeOK /\ HasCommand
  BY DEF Init, TypeOK, TokenLists, HasCommand

\* and every step keeps them.
LEMMA TypesNext == TypeOK /\ HasCommand /\ [Next]_vars => (TypeOK /\ HasCommand)'
<1> SUFFICES ASSUME TypeOK, HasCommand, [Next]_vars PROVE TypeOK' /\ HasCommand'
  OBVIOUS
<1> USE DEF TypeOK, HasCommand, memory
<1>1. CASE IfPipe
  BY <1>1 DEF IfPipe
<1>2. CASE CreateHead
  BY <1>2 DEF CreateHead, EmptyCommand, Command
<1>3. CASE AddArg
  <2>1. CurrCmd \in Command /\ curr \in Nat /\ curr + 1 \in DOMAIN tokens
    BY <1>3, TokensEnd DEF AddArg, CurrCmd
  <2>2. [CurrCmd EXCEPT !.args = Append(@, curr)] \in Command
    BY <2>1, AddedCommand
  <2>3. QED
    BY <1>3, <2>1, <2>2 DEF AddArg, Update
<1>4. CASE ParseRedir
  BY <1>4, RedirParsed, LastReplaced DEF ParseRedir
<1>5. CASE HandlePipe
  <2>1. curr + 1 \in DOMAIN tokens
    <3>1. curr \in 1 .. Len(tokens) /\ tokens[curr] # "END"
      BY <1>5, TokensEnd DEF HandlePipe
    <3>2. curr # Len(tokens) /\ tokens \in Seq(Types)
      BY <3>1, TokensEnd
    <3>3. QED
      BY <3>1, <3>2
  <2>2. commands' \in Seq(Command) /\ commands' # <<>>
    BY <1>5, EmptyIsCommand, Longer DEF HandlePipe
  <2>3. QED
    BY <1>5, <2>1, <2>2 DEF HandlePipe
<1>6. CASE SyntaxError
  BY <1>6 DEF SyntaxError, FreeCommands, Freed, Once
<1>7. CASE Parsed
  BY <1>7 DEF Parsed
<1>8. CASE ResetLoop
  BY <1>8 DEF ResetLoop, Freed, Once
<1>9. CASE UNCHANGED vars
  BY <1>9 DEF vars
<1>10. QED
  BY <1>1, <1>2, <1>3, <1>4, <1>5, <1>6, <1>7, <1>8, <1>9 DEF Next

----------------------------------------------------------------------------
(* Which lines are refused.                                                *)

\* The tokens before curr are the beginning of a pipeline, but for a pipe that
\* may follow the pipe before curr; that the current command is empty tells.
GrammarSoFar ==
  parsing = "loop" =>
    /\ tokens[1] # "PIPE"
    /\ curr > 1 => tokens[curr - 1] \notin Redirections
    /\ IsEmpty(CurrCmd) <=> curr = 1 \/ tokens[curr - 1] = "PIPE"
    /\ \A k \in 1 .. curr - 1 :
         /\ tokens[k] \in Redirections => tokens[k + 1] = "WORD"
         /\ tokens[k] = "PIPE" => tokens[k + 1] # "END"
         /\ tokens[k] = "PIPE" /\ k + 1 < curr => tokens[k + 1] # "PIPE"

BeforeLoop == parsing = "start" => curr = 1 /\ commands = <<>>

StatusKept == parsing \in {"start", "loop"} => status = before

GInv == TypeOK /\ HasCommand /\ BeforeLoop /\ GrammarSoFar /\ StatusKept /\ AcceptsPipelines

\* The invariant holds at first,
LEMMA GrammarInit == Init => GInv
  BY TypesInit DEF Init, GInv, BeforeLoop, GrammarSoFar, StatusKept, AcceptsPipelines

\* and every step keeps it.
LEMMA GrammarNext == GInv /\ [Next]_vars => GInv'
<1> SUFFICES ASSUME GInv, [Next]_vars PROVE (BeforeLoop /\ GrammarSoFar /\ StatusKept /\ AcceptsPipelines)'
  BY TypesNext DEF GInv
<1>a. /\ TypeOK /\ HasCommand /\ curr \in 1 .. Len(tokens) /\ tokens \in Seq(Types)
      /\ \A k \in DOMAIN tokens : tokens[k] = "END" <=> k = Len(tokens)
  BY TokensEnd DEF GInv
<1> USE DEF BeforeLoop, GrammarSoFar, StatusKept, AcceptsPipelines
<1>1. CASE IfPipe
  BY <1>1, <1>a DEF IfPipe, GInv, IsPipeline, TypeOK, HasCommand
<1>2. CASE CreateHead
  <2>1. curr = 1 /\ IsEmpty(CurrCmd)'
    BY <1>2 DEF CreateHead, EmptyCommand, CurrCmd, IsEmpty, GInv
  <2>2. QED
    BY <1>2, <2>1 DEF CreateHead, GInv
<1>3. CASE AddArg
  <2>1. commands \in Seq(Command) /\ commands # <<>> /\ CurrCmd \in Command /\ curr \in Nat
    BY <1>3, <1>a DEF AddArg, TypeOK, HasCommand, CurrCmd
  <2>2. ~IsEmpty(CurrCmd)'
    BY <1>3, <2>1, AddedCommand, LastReplaced DEF AddArg, CurrCmd, IsEmpty
  <2>3. QED
    BY <1>3, <1>a, <2>1, <2>2 DEF AddArg, GInv, Redirections
<1>4. CASE ParseRedir
  <2>1. PICK redir \in Redir : Update(Redirected(redir))
    BY <1>4, <1>a, RedirParsed
  <2>2. ~IsEmpty(CurrCmd)'
    BY <1>4, <1>a, <2>1, RedirParsed, RedirectedCommand, LastReplaced DEF CurrCmd, IsEmpty
  <2>3. /\ parsing = "loop" /\ parsing' = "loop" /\ curr' = curr + 2
        /\ tokens[curr] \in Redirections /\ tokens[curr + 1] = "WORD"
        /\ UNCHANGED <<tokens, status, before>>
    BY <1>4 DEF ParseRedir
  <2>4. curr \in Nat \ {0}
    BY <1>a
  <2>5. ASSUME NEW k \in 1 .. curr' - 1
        PROVE  /\ tokens[k] \in Redirections => tokens[k + 1] = "WORD"
               /\ tokens[k] = "PIPE" => tokens[k + 1] # "END"
               /\ tokens[k] = "PIPE" /\ k + 1 < curr' => tokens[k + 1] # "PIPE"
    <3>1. CASE k < curr
      BY <2>3, <2>4, <3>1 DEF GInv, Redirections
    <3>2. CASE k = curr
      BY <2>3, <3>2 DEF Redirections
    <3>3. CASE k = curr + 1
      BY <2>3, <3>3 DEF Redirections
    <3>4. QED
      BY <2>3, <2>4, <3>1, <3>2, <3>3
  <2>6. curr' > 1 /\ curr' - 1 = curr + 1
    BY <2>3, <2>4
  <2>7. QED
    BY <2>2, <2>3, <2>5, <2>6 DEF GInv, Redirections
<1>5. CASE HandlePipe
  <2>1. IsEmpty(CurrCmd)'
    BY <1>5, <1>a, EmptyIsCommand, AppendProperties
    DEF HandlePipe, TypeOK, CurrCmd, EmptyCommand, IsEmpty
  <2>2. QED
    BY <1>5, <1>a, <2>1 DEF HandlePipe, MisplacedPipe, GInv, Redirections
<1>6. CASE SyntaxError
  <2>1. ~IsPipeline
    <3>1. CASE tokens[curr] \in Redirections /\ tokens[curr + 1] # "WORD"
      BY <1>a, <3>1 DEF IsPipeline
    <3>2. CASE tokens[curr] = "PIPE" /\ IsEmpty(CurrCmd)
      <4>1. curr > 1 /\ tokens[curr - 1] = "PIPE"
        BY <1>6, <1>a, <3>2 DEF SyntaxError, GInv
      <4>2. curr - 1 \in DOMAIN tokens /\ tokens[(curr - 1) + 1] = "PIPE"
        BY <1>a, <3>2, <4>1
      <4>3. QED
        BY <4>1, <4>2 DEF IsPipeline
    <3>3. CASE tokens[curr] = "PIPE" /\ tokens[curr + 1] = "END"
      BY <1>a, <3>3 DEF IsPipeline
    <3>4. QED
      BY <1>6, <3>1, <3>2, <3>3 DEF SyntaxError, MisplacedPipe
  <2>2. QED
    BY <1>6, <2>1 DEF SyntaxError, FreeCommands, IsPipeline
<1>7. CASE Parsed
  <2>1. curr = Len(tokens) /\ tokens[curr] = "END"
    BY <1>7, <1>a DEF Parsed
  <2>2. IsPipeline
    BY <1>7, <1>a, <2>1 DEF Parsed, IsPipeline, GInv, Redirections
  <2>3. QED
    BY <1>7, <2>2 DEF Parsed, GInv, IsPipeline
<1>8. CASE ResetLoop
  BY <1>8 DEF ResetLoop
<1>9. CASE UNCHANGED vars
  BY <1>9 DEF vars, GInv, IsPipeline, CurrCmd, IsEmpty
<1>10. QED
  BY <1>1, <1>2, <1>3, <1>4, <1>5, <1>6, <1>7, <1>8, <1>9 DEF Next

\* However long the line, it is refused exactly when it is no pipeline, with
\* status 2, and otherwise leaves $? alone.
THEOREM ParserAcceptsPipelines == Spec => []AcceptsPipelines
<1>1. GInv => AcceptsPipelines
  BY DEF GInv
<1>2. QED
  BY GrammarInit, GrammarNext, <1>1, PTL DEF Spec

----------------------------------------------------------------------------
(* A set of numbers in order.                                              *)

\* Smaller members have smaller ranks, and each rank is taken once.
LEMMA Ranks ==
  ASSUME NEW S \in SUBSET Nat, IsFiniteSet(S)
  PROVE  /\ Cardinality(S) \in Nat
         /\ \A k \in S : Rank(S, k) \in 1 .. Cardinality(S)
         /\ \A k, m \in S : k < m => Rank(S, k) < Rank(S, m)
         /\ \A n \in 1 .. Cardinality(S) : \E k \in S : Rank(S, k) = n
<1> DEFINE upTo(k) == {m \in S : m <= k}
           rank == [k \in S |-> Rank(S, k)]
           N == Cardinality(S)
<1>1. N \in Nat
  BY FS_CardinalityType
<1>2. ASSUME NEW k \in S
      PROVE  IsFiniteSet(upTo(k)) /\ Rank(S, k) \in 1 .. N
  <2>1. upTo(k) \in SUBSET S /\ upTo(k) # {}
    OBVIOUS
  <2>2. IsFiniteSet(upTo(k)) /\ Cardinality(upTo(k)) <= N /\ Cardinality(upTo(k)) \in Nat
    BY <2>1, FS_Subset, FS_CardinalityType
  <2>3. Cardinality(upTo(k)) # 0
    BY <2>1, <2>2, FS_EmptySet
  <2>4. Rank(S, k) = Cardinality(upTo(k))
    BY DEF Rank
  <2> HIDE DEF upTo, N
  <2>5. QED
    BY <1>1, <2>2, <2>3, <2>4
<1>3. ASSUME NEW k \in S, NEW m \in S, k < m PROVE Rank(S, k) < Rank(S, m)
  <2>1. upTo(k) \in SUBSET upTo(m) /\ m \in upTo(m) /\ m \notin upTo(k)
    <3>1. \A a, b, c \in Nat : /\ b < c /\ a <= b => a <= c
                               /\ a < b => ~(b <= a)
                               /\ a <= a
      OBVIOUS
    <3>2. k \in Nat /\ m \in Nat /\ \A l \in S : l \in Nat
      OBVIOUS
    <3>3. \A l \in S : l <= k => l <= m
      BY <1>3, <3>1, <3>2
    <3>4. m <= m /\ ~(m <= k)
      BY <1>3, <3>1, <3>2
    <3>5. QED
      BY <3>3, <3>4
  <2>2. /\ Cardinality(upTo(k)) <= Cardinality(upTo(m))
        /\ Cardinality(upTo(m)) = Cardinality(upTo(k)) => upTo(m) = upTo(k)
    BY <1>2, <2>1, FS_Subset
  <2>3. Cardinality(upTo(k)) # Cardinality(upTo(m))
    BY <2>1, <2>2
  <2>4. Rank(S, k) = Cardinality(upTo(k)) /\ Rank(S, m) = Cardinality(upTo(m))
    BY DEF Rank
  <2>5. Rank(S, k) \in Nat /\ Rank(S, m) \in Nat
    <3>1. Rank(S, k) \in 1 .. N /\ Rank(S, m) \in 1 .. N
      BY <1>2
    <3> HIDE DEF N
    <3>2. QED
      BY <1>1, <3>1
  <2> HIDE DEF upTo
  <2>6. QED
    BY <2>2, <2>3, <2>4, <2>5
<1>4. rank \in Injection(S, 1 .. N)
  <2>1. rank \in [S -> 1 .. N]
    BY <1>2
  <2>2. ASSUME NEW k \in S, NEW m \in S, rank[k] = rank[m] PROVE k = m
    <3>1. ~(k < m) /\ ~(m < k)
      <4>1. Rank(S, k) = Rank(S, m) /\ Rank(S, k) \in Nat
        <5>1. Rank(S, k) \in 1 .. N
          BY <1>2
        <5> HIDE DEF N
        <5>2. QED
          BY <1>1, <2>2, <5>1
      <4>2. \A a \in Nat : ~(a < a)
        OBVIOUS
      <4>3. QED
        BY <1>3, <4>1, <4>2
    <3>2. k \in Nat /\ m \in Nat
      OBVIOUS
    <3>3. QED
      BY <3>1, <3>2
  <2>3. QED
    BY <2>1, <2>2 DEF Injection, IsInjective
<1>5. IsFiniteSet(1 .. N) /\ Cardinality(1 .. N) = N
  BY <1>1, FS_Interval
<1>6. rank \in Surjection(S, 1 .. N)
  BY <1>4, <1>5, FS_Injection
<1>7. \A n \in 1 .. N : \E k \in S : rank[k] = n
  BY <1>6 DEF Surjection
<1>8. QED
  BY <1>1, <1>2, <1>3, <1>7

\* Each member has its place, and the places follow the order.
LEMMA Ordered ==
  ASSUME NEW S \in SUBSET Nat, IsFiniteSet(S)
  PROVE  /\ InOrder(S) \in Seq(S) /\ Len(InOrder(S)) = Cardinality(S) /\ Cardinality(S) \in Nat
         /\ \A n \in 1 .. Cardinality(S) : InOrder(S)[n] \in S /\ Rank(S, InOrder(S)[n]) = n
         /\ \A k \in S : Rank(S, k) \in 1 .. Cardinality(S) /\ InOrder(S)[Rank(S, k)] = k
<1> DEFINE N == Cardinality(S)
<1>1. /\ N \in Nat
      /\ \A k \in S : Rank(S, k) \in 1 .. N
      /\ \A k, m \in S : k < m => Rank(S, k) < Rank(S, m)
      /\ \A n \in 1 .. N : \E k \in S : Rank(S, k) = n
  BY Ranks
<1>2. \A k, m \in S : Rank(S, k) = Rank(S, m) => k = m
  <2> SUFFICES ASSUME NEW k \in S, NEW m \in S, Rank(S, k) = Rank(S, m) PROVE k = m
    OBVIOUS
  <2>1. ~(k < m) /\ ~(m < k)
    BY <1>1
  <2>2. k \in Nat /\ m \in Nat
    OBVIOUS
  <2>3. QED
    BY <2>1, <2>2
<1>3. ASSUME NEW n \in 1 .. N PROVE InOrder(S)[n] \in S /\ Rank(S, InOrder(S)[n]) = n
  <2>1. InOrder(S)[n] = CHOOSE k \in S : Rank(S, k) = n
    BY DEF InOrder
  <2>2. QED
    BY <1>1, <2>1
<1>4. DOMAIN InOrder(S) = 1 .. N /\ InOrder(S) = [n \in 1 .. N |-> InOrder(S)[n]]
  BY DEF InOrder
<1>5. InOrder(S) \in Seq(S) /\ Len(InOrder(S)) = N
  BY <1>1, <1>3, <1>4
<1>6. ASSUME NEW k \in S PROVE InOrder(S)[Rank(S, k)] = k
  BY <1>1, <1>2, <1>3
<1>7. QED
  BY <1>1, <1>3, <1>5, <1>6

\* Nothing has no order.
LEMMA OrderedEmpty == InOrder({}) = <<>>
<1>1. Cardinality({}) = 0
  BY FS_EmptySet
<1>2. InOrder({}) \in Seq({}) /\ Len(InOrder({})) = 0
  BY <1>1, FS_EmptySet, Ordered
<1>3. QED
  BY <1>2

\* A number beyond all others comes last.
LEMMA OrderedAppend ==
  ASSUME NEW S \in SUBSET Nat, IsFiniteSet(S), NEW k \in Nat, \A m \in S : m < k
  PROVE  /\ InOrder(S \union {k}) = Append(InOrder(S), k)
         /\ \A m \in S : Rank(S \union {k}, m) = Rank(S, m)
<1> DEFINE T == S \union {k}
           N == Cardinality(S)
<1>1. T \in SUBSET Nat /\ IsFiniteSet(T) /\ Cardinality(T) = N + 1 /\ N \in Nat
  BY FS_AddElement, FS_CardinalityType
<1>2. ASSUME NEW m \in S PROVE Rank(T, m) = Rank(S, m)
  <2>1. {l \in T : l <= m} = {l \in S : l <= m}
    OBVIOUS
  <2>2. QED
    BY <2>1 DEF Rank
<1>3. Rank(T, k) = N + 1
  <2>1. {l \in T : l <= k} = T
    <3>1. \A l \in T : l <= k
      <4>1. \A l \in S : l <= k
        OBVIOUS
      <4>2. QED
        BY <4>1
    <3>2. QED
      BY <3>1
  <2>2. QED
    BY <1>1, <2>1 DEF Rank
<1>4. ASSUME NEW n \in 1 .. N PROVE InOrder(T)[n] = InOrder(S)[n]
  <2>1. InOrder(S)[n] \in S /\ Rank(S, InOrder(S)[n]) = n
    BY Ordered
  <2>2. Rank(T, InOrder(S)[n]) = n /\ InOrder(S)[n] \in T
    BY <1>2, <2>1
  <2>3. InOrder(T)[Rank(T, InOrder(S)[n])] = InOrder(S)[n]
    BY <1>1, <2>2, Ordered
  <2>4. QED
    BY <2>2, <2>3
<1>5. InOrder(T)[N + 1] = k
  <2>1. InOrder(T)[Rank(T, k)] = k
    BY <1>1, Ordered
  <2>2. QED
    BY <1>3, <2>1
<1>6. /\ InOrder(T) \in Seq(Nat) /\ Len(InOrder(T)) = N + 1
      /\ InOrder(S) \in Seq(Nat) /\ Len(InOrder(S)) = N
  <2>1. InOrder(S) \in Seq(S) /\ Len(InOrder(S)) = N
    BY Ordered
  <2>2. InOrder(T) \in Seq(T) /\ Len(InOrder(T)) = N + 1
    <3> HIDE DEF T
    <3>1. QED
      BY <1>1, Ordered
  <2>3. ASSUME NEW A \in SUBSET Nat, NEW x \in Seq(A) PROVE x \in Seq(Nat)
    <3>1. x \in [1 .. Len(x) -> A] /\ Len(x) \in Nat
      OBVIOUS
    <3>2. x \in [1 .. Len(x) -> Nat]
      BY <3>1
    <3>3. QED
      BY <3>1, <3>2
  <2> HIDE DEF T, N
  <2>4. QED
    BY <1>1, <2>1, <2>2, <2>3
<1>7. Append(InOrder(S), k) \in Seq(Nat) /\ Len(Append(InOrder(S), k)) = N + 1
  BY <1>6
<1>8. \A n \in 1 .. N + 1 : InOrder(T)[n] = Append(InOrder(S), k)[n]
  <2>1. \A n \in 1 .. N : Append(InOrder(S), k)[n] = InOrder(S)[n]
    BY <1>1, <1>6
  <2>2. Append(InOrder(S), k)[N + 1] = k
    BY <1>1, <1>6
  <2>3. \A n \in 1 .. N + 1 : n \in 1 .. N \/ n = N + 1
    BY <1>1
  <2>4. QED
    BY <1>4, <1>5, <2>1, <2>2, <2>3
<1>9. InOrder(T) = Append(InOrder(S), k)
  <2> HIDE DEF T
  <2> DEFINE a == InOrder(T)
             b == Append(InOrder(S), k)
  <2>1. a \in Seq(Nat) /\ b \in Seq(Nat) /\ Len(a) = Len(b) /\ \A n \in 1 .. Len(a) : a[n] = b[n]
    BY <1>6, <1>7, <1>8
  <2> HIDE DEF a, b
  <2>2. a = b
    BY <2>1
  <2>3. QED
    BY <2>2 DEF a, b
<1>10. QED
  BY <1>2, <1>9

----------------------------------------------------------------------------
(* What the commands are.                                                  *)

\* The commands are what the tokens before the n-th say.
SoFar(n) == commands = [c \in 1 .. CommandOf(n) |-> WrittenCommand(c, n - 1)]

CommandsSoFar ==
  /\ parsing = "loop" => SoFar(curr)
  /\ parsing = "parsed" => SoFar(curr) /\ curr = Len(tokens)

WInv == GInv /\ CommandsSoFar

\* Places of a line are finitely many.
LEMMA FinitePart ==
  ASSUME NEW n \in Nat, NEW S \in SUBSET (1 .. n)
  PROVE  IsFiniteSet(S) /\ Cardinality(S) \in Nat /\ S \in SUBSET Nat
<1>1. IsFiniteSet(1 .. n) /\ 1 .. n \in SUBSET Nat
  BY FS_Interval
<1>2. IsFiniteSet(S)
  BY <1>1, FS_Subset
<1>3. QED
  BY <1>1, <1>2, FS_CardinalityType

\* Only a pipe begins another command.
LEMMA CommandOfNext ==
  ASSUME NEW n \in Nat \ {0}
  PROVE  /\ CommandOf(n) \in Nat \ {0}
         /\ CommandOf(n + 1) = IF tokens[n] = "PIPE" THEN CommandOf(n) + 1 ELSE CommandOf(n)
<1> DEFINE pipes == {m \in 1 .. n - 1 : tokens[m] = "PIPE"}
           next == {m \in 1 .. (n + 1) - 1 : tokens[m] = "PIPE"}
<1>1. IsFiniteSet(pipes) /\ Cardinality(pipes) \in Nat
  <2>1. n - 1 \in Nat /\ pipes \in SUBSET (1 .. n - 1)
    OBVIOUS
  <2>2. QED
    BY <2>1, FinitePart
<1>2. next = IF tokens[n] = "PIPE" THEN pipes \union {n} ELSE pipes
  <2>1. (n + 1) - 1 = n /\ \A m \in 1 .. n : m \in 1 .. n - 1 \/ m = n
    OBVIOUS
  <2>2. 1 .. n - 1 \subseteq 1 .. n /\ n \in 1 .. n
    OBVIOUS
  <2>3. QED
    BY <2>1, <2>2
<1>3. n \notin pipes
  OBVIOUS
<1>4. Cardinality(next) = IF tokens[n] = "PIPE" THEN Cardinality(pipes) + 1 ELSE Cardinality(pipes)
  BY <1>1, <1>2, <1>3, FS_AddElement
<1>5. CommandOf(n) = 1 + Cardinality(pipes) /\ CommandOf(n + 1) = 1 + Cardinality(next)
  BY DEF CommandOf
<1> HIDE DEF pipes, next
<1>6. QED
  BY <1>1, <1>4, <1>5

\* Later tokens belong to no earlier command.
LEMMA CommandOfGrows ==
  ASSUME NEW n \in Nat \ {0}, NEW k \in 1 .. n
  PROVE  CommandOf(k) <= CommandOf(n) /\ CommandOf(k) \in Nat \ {0} /\ CommandOf(n) \in Nat \ {0}
<1> DEFINE pipes(l) == {m \in 1 .. l - 1 : tokens[m] = "PIPE"}
<1>1. pipes(k) \in SUBSET pipes(n) /\ pipes(n) \in SUBSET (1 .. n - 1) /\ n - 1 \in Nat
  OBVIOUS
<1>2. IsFiniteSet(pipes(n)) /\ Cardinality(pipes(n)) \in Nat
  BY <1>1, FinitePart
<1>3. Cardinality(pipes(k)) <= Cardinality(pipes(n)) /\ Cardinality(pipes(k)) \in Nat
  BY <1>1, <1>2, FS_Subset, FS_CardinalityType
<1>4. CommandOf(k) = 1 + Cardinality(pipes(k)) /\ CommandOf(n) = 1 + Cardinality(pipes(n))
  BY DEF CommandOf
<1> HIDE DEF pipes
<1>5. QED
  BY <1>2, <1>3, <1>4

\* One token more in a part of the line.
LEMMA PartNext ==
  ASSUME NEW c, NEW n \in Nat \ {0}
  PROVE  /\ Part(c, n - 1) \in SUBSET (1 .. n - 1) /\ n - 1 \in Nat
         /\ Part(c, n) = IF CommandOf(n) = c THEN Part(c, n - 1) \union {n} ELSE Part(c, n - 1)
<1>1. n - 1 \in Nat /\ \A m : m \in 1 .. n <=> m \in 1 .. n - 1 \/ m = n
  OBVIOUS
<1>2. QED
  BY <1>1 DEF Part

\* One token more: the words.
LEMMA WordsNext ==
  ASSUME NEW c, NEW n \in Nat \ {0}
  PROVE  /\ IsFiniteSet(WordsIn(c, n - 1)) /\ WordsIn(c, n - 1) \in SUBSET Nat
         /\ \A m \in WordsIn(c, n - 1) : m < n
         /\ WordsIn(c, n) =
              IF CommandOf(n) = c /\ tokens[n] = "WORD" /\ (n > 1 => tokens[n - 1] \notin Redirections)
              THEN WordsIn(c, n - 1) \union {n} ELSE WordsIn(c, n - 1)
<1>1. /\ Part(c, n - 1) \in SUBSET (1 .. n - 1) /\ n - 1 \in Nat
      /\ Part(c, n) = IF CommandOf(n) = c THEN Part(c, n - 1) \union {n} ELSE Part(c, n - 1)
  BY PartNext
<1>2. WordsIn(c, n - 1) \in SUBSET (1 .. n - 1)
  BY <1>1 DEF WordsIn
<1>3. IsFiniteSet(WordsIn(c, n - 1)) /\ WordsIn(c, n - 1) \in SUBSET Nat
  <2>1. n - 1 \in Nat
    OBVIOUS
  <2>2. QED
    BY <1>2, <2>1, FinitePart
<1>4. \A m \in 1 .. n - 1 : m < n
  OBVIOUS
<1>5. QED
  BY <1>1, <1>2, <1>3, <1>4 DEF WordsIn

\* One token more: the redirections.
LEMMA RedirsNext ==
  ASSUME NEW c, NEW n \in Nat \ {0}, NEW types
  PROVE  /\ IsFiniteSet(RedirsIn(c, n - 1, types)) /\ RedirsIn(c, n - 1, types) \in SUBSET Nat
         /\ \A m \in RedirsIn(c, n - 1, types) : m < n
         /\ Cardinality(RedirsIn(c, n - 1, types)) \in Nat
         /\ RedirsIn(c, n, types) =
              IF CommandOf(n) = c /\ tokens[n] \in types
              THEN RedirsIn(c, n - 1, types) \union {n} ELSE RedirsIn(c, n - 1, types)
<1>1. /\ Part(c, n - 1) \in SUBSET (1 .. n - 1) /\ n - 1 \in Nat
      /\ Part(c, n) = IF CommandOf(n) = c THEN Part(c, n - 1) \union {n} ELSE Part(c, n - 1)
  BY PartNext
<1>2. RedirsIn(c, n - 1, types) \in SUBSET (1 .. n - 1)
  BY <1>1 DEF RedirsIn
<1>3. /\ IsFiniteSet(RedirsIn(c, n - 1, types)) /\ RedirsIn(c, n - 1, types) \in SUBSET Nat
      /\ Cardinality(RedirsIn(c, n - 1, types)) \in Nat
  <2>1. n - 1 \in Nat
    OBVIOUS
  <2>2. QED
    BY <1>2, <2>1, FinitePart
<1>4. \A m \in 1 .. n - 1 : m < n
  OBVIOUS
<1>5. QED
  BY <1>1, <1>2, <1>3, <1>4 DEF RedirsIn

\* Sequences are equal that have the same length and the same elements.
LEMMA SameSequence ==
  ASSUME NEW T, NEW a \in Seq(T), NEW b \in Seq(T), Len(a) = Len(b),
         \A k \in 1 .. Len(a) : a[k] = b[k]
  PROVE  a = b
  OBVIOUS

\* What a redirection should be has its type.
LEMMA WrittenRedirIsRedir ==
  ASSUME NEW c, NEW k \in Nat \ {0}
  PROVE  WrittenRedir(c, k) \in Redir
<1>1. Cardinality(RedirsIn(c, k - 1, Redirections)) \in Nat
  BY RedirsNext
<1>2. k + 1 \in Nat
  OBVIOUS
<1>3. QED
  BY <1>1, <1>2 DEF WrittenRedir, Redir

\* One redirection more in one of the lists.
LEMMA WrittenRedirsNext ==
  ASSUME NEW c, NEW n \in Nat \ {0}, NEW types
  PROVE  /\ WrittenRedirs(c, n - 1, types) \in Seq(Redir)
         /\ WrittenRedirs(c, n, types) =
              IF CommandOf(n) = c /\ tokens[n] \in types
              THEN Append(WrittenRedirs(c, n - 1, types), WrittenRedir(c, n))
              ELSE WrittenRedirs(c, n - 1, types)
<1> DEFINE S == RedirsIn(c, n - 1, types)
           places == InOrder(S)
           list == [r \in DOMAIN places |-> WrittenRedir(c, places[r])]
<1>1. IsFiniteSet(S) /\ S \in SUBSET Nat /\ (\A m \in S : m < n) /\ S \in SUBSET (Nat \ {0})
  <2>1. IsFiniteSet(S) /\ S \in SUBSET Nat /\ \A m \in S : m < n
    BY RedirsNext
  <2>2. S \in SUBSET (Nat \ {0})
    BY DEF RedirsIn, Part
  <2>3. QED
    BY <2>1, <2>2
<1>2. WrittenRedirs(c, n - 1, types) = list
  BY DEF WrittenRedirs
<1>3. places \in Seq(Nat \ {0}) /\ Len(places) \in Nat
  <2>1. places \in Seq(S)
    BY <1>1, Ordered
  <2> HIDE DEF S, places
  <2>2. places \in [1 .. Len(places) -> S] /\ Len(places) \in Nat
    BY <2>1
  <2>3. places \in [1 .. Len(places) -> Nat \ {0}]
    BY <1>1, <2>2
  <2>4. QED
    BY <2>2, <2>3
<1>4. DOMAIN places = 1 .. Len(places) /\ \A r \in DOMAIN places : places[r] \in Nat \ {0}
  <2> HIDE DEF places
  <2>1. QED
    BY <1>3
<1>5. list \in Seq(Redir) /\ Len(list) = Len(places)
  <2>1. \A r \in 1 .. Len(places) : WrittenRedir(c, places[r]) \in Redir
    BY <1>4, WrittenRedirIsRedir
  <2> HIDE DEF places
  <2>2. list \in [1 .. Len(places) -> Redir]
    BY <1>4, <2>1
  <2>3. QED
    BY <1>3, <2>2
<1>6. ASSUME CommandOf(n) = c /\ tokens[n] \in types
      PROVE  WrittenRedirs(c, n, types) = Append(list, WrittenRedir(c, n))
  <2> DEFINE more == InOrder(S \union {n})
             longer == [r \in DOMAIN more |-> WrittenRedir(c, more[r])]
  <2>1. RedirsIn(c, n, types) = S \union {n}
    BY <1>6, RedirsNext
  <2>2. WrittenRedirs(c, n, types) = longer
    BY <2>1 DEF WrittenRedirs
  <2>3. more = Append(places, n)
    BY <1>1, OrderedAppend
  <2> HIDE DEF places, more
  <2>4. /\ DOMAIN more = 1 .. Len(places) + 1 /\ more[Len(places) + 1] = n
        /\ \A r \in 1 .. Len(places) : more[r] = places[r]
    BY <1>3, <2>3
  <2>5. \A r \in 1 .. Len(places) + 1 : r \in 1 .. Len(places) \/ r = Len(places) + 1
    BY <1>3
  <2>6. WrittenRedir(c, n) \in Redir
    BY WrittenRedirIsRedir
  <2>7. \A r \in 1 .. Len(places) : longer[r] = list[r]
    <3>1. \A r \in 1 .. Len(places) : r \in 1 .. Len(places) + 1
      BY <1>3
    <3>2. QED
      BY <1>4, <2>4, <3>1
  <2>8. longer[Len(places) + 1] = WrittenRedir(c, n)
    <3>1. Len(places) + 1 \in 1 .. Len(places) + 1
      BY <1>3
    <3>2. QED
      BY <2>4, <3>1
  <2>9. DOMAIN longer = 1 .. Len(places) + 1
    BY <2>4
  <2>10. longer \in Seq(Redir) /\ Len(longer) = Len(places) + 1
    <3>1. \A r \in 1 .. Len(places) : list[r] \in Redir
      BY <1>4, <1>5, WrittenRedirIsRedir
    <3>2. \A r \in 1 .. Len(places) + 1 : longer[r] \in Redir
      BY <2>5, <2>6, <2>7, <2>8, <3>1
    <3> HIDE DEF list
    <3>3. longer \in [1 .. Len(places) + 1 -> Redir] /\ Len(places) + 1 \in Nat
      BY <1>3, <2>9, <3>2
    <3>4. QED
      BY <3>3
  <2> HIDE DEF list, longer
  <2>11. /\ Append(list, WrittenRedir(c, n)) \in Seq(Redir)
         /\ Len(Append(list, WrittenRedir(c, n))) = Len(places) + 1
         /\ Append(list, WrittenRedir(c, n))[Len(places) + 1] = WrittenRedir(c, n)
         /\ \A r \in 1 .. Len(places) : Append(list, WrittenRedir(c, n))[r] = list[r]
    BY <1>5, <2>6, AppendProperties
  <2>12. \A r \in 1 .. Len(longer) : longer[r] = Append(list, WrittenRedir(c, n))[r]
    BY <2>5, <2>7, <2>8, <2>10, <2>11
  <2>13. longer = Append(list, WrittenRedir(c, n))
    BY <2>10, <2>11, <2>12, SameSequence
  <2>14. QED
    BY <2>2, <2>13
<1>7. ASSUME ~(CommandOf(n) = c /\ tokens[n] \in types)
      PROVE  WrittenRedirs(c, n, types) = list
  <2>1. RedirsIn(c, n, types) = S
    BY <1>7, RedirsNext
  <2>2. QED
    BY <2>1 DEF WrittenRedirs
<1>8. QED
  BY <1>2, <1>5, <1>6, <1>7

\* Commands field by field.
Fields(a, i, o, h, r) ==
  [args |-> a, input_redirection |-> i, output_redirection |-> o, heredoc |-> h, redir_counter |-> r]

WithArgs(cmd, list) == [cmd EXCEPT !.args = list]
WithIn(cmd, list, number) == [cmd EXCEPT !.input_redirection = list, !.redir_counter = number]
WithOut(cmd, list, number) == [cmd EXCEPT !.output_redirection = list, !.redir_counter = number]
WithDoc(cmd, list, number) == [cmd EXCEPT !.heredoc = list, !.redir_counter = number]

\* The fields of a command that gets an argument, an input, an output or a here-document.
LEMMA CommandFields ==
  ASSUME NEW cmd \in Command, NEW list, NEW number
  PROVE  /\ cmd = Fields(cmd.args, cmd.input_redirection, cmd.output_redirection, cmd.heredoc,
                         cmd.redir_counter)
         /\ WithArgs(cmd, list) =
              Fields(list, cmd.input_redirection, cmd.output_redirection, cmd.heredoc,
                     cmd.redir_counter)
         /\ WithIn(cmd, list, number) =
              Fields(cmd.args, list, cmd.output_redirection, cmd.heredoc, number)
         /\ WithOut(cmd, list, number) =
              Fields(cmd.args, cmd.input_redirection, list, cmd.heredoc, number)
         /\ WithDoc(cmd, list, number) =
              Fields(cmd.args, cmd.input_redirection, cmd.output_redirection, list, number)
<1> DEFINE a == cmd.args
           i == cmd.input_redirection
           o == cmd.output_redirection
           h == cmd.heredoc
           r == cmd.redir_counter
           withIn == [cmd EXCEPT !.input_redirection = list]
           withOut == [cmd EXCEPT !.output_redirection = list]
           withDoc == [cmd EXCEPT !.heredoc = list]
<1>1. cmd = Fields(a, i, o, h, r)
  BY DEF Command, Fields
<1> HIDE DEF a, i, o, h, r
<1>2. WithArgs(cmd, list) = Fields(list, i, o, h, r)
  BY <1>1 DEF Fields, WithArgs
<1>3. withIn = Fields(a, list, o, h, r)
  BY <1>1 DEF Fields
<1>4. withOut = Fields(a, i, list, h, r)
  BY <1>1 DEF Fields
<1>5. withDoc = Fields(a, i, o, list, r)
  BY <1>1 DEF Fields
<1> HIDE DEF withIn, withOut, withDoc
<1>6. [withIn EXCEPT !.redir_counter = number] = Fields(a, list, o, h, number)
  BY <1>3 DEF Fields
<1>7. [withOut EXCEPT !.redir_counter = number] = Fields(a, i, list, h, number)
  BY <1>4 DEF Fields
<1>8. [withDoc EXCEPT !.redir_counter = number] = Fields(a, i, o, list, number)
  BY <1>5 DEF Fields
<1>9. WithIn(cmd, list, number) = Fields(a, list, o, h, number)
  BY <1>6 DEF withIn, WithIn
<1>10. WithOut(cmd, list, number) = Fields(a, i, list, h, number)
  BY <1>7 DEF withOut, WithOut
<1>11. WithDoc(cmd, list, number) = Fields(a, i, o, list, number)
  BY <1>8 DEF withDoc, WithDoc
<1>12. QED
  BY <1>1, <1>2, <1>9, <1>10, <1>11 DEF a, i, o, h, r

\* What one token more says of a command: nothing unless it is an argument or a
\* redirection of it.
LEMMA WrittenNext ==
  ASSUME NEW c, NEW n \in Nat \ {0}
  PROVE  LET was == WrittenCommand(c, n - 1)
             now == WrittenCommand(c, n)
         IN  /\ was \in Command
             /\ CommandOf(n) # c => now = was
             /\ tokens[n] \in {"PIPE", "END"} => now = was
             /\ tokens[n] = "WORD" /\ n > 1 /\ tokens[n - 1] \in Redirections => now = was
             /\ CommandOf(n) = c /\ tokens[n] = "WORD" /\ (n > 1 => tokens[n - 1] \notin Redirections)
                  => now = [was EXCEPT !.args = Append(@, n)]
             /\ CommandOf(n) = c /\ tokens[n] \in Redirections
                  => /\ now = [was EXCEPT ![ListName(tokens[n])] = Append(@, WrittenRedir(c, n)),
                                          !.redir_counter = @ + 1]
                     /\ WrittenRedir(c, n) = [file |-> n + 1, append |-> tokens[n] = "APPEND",
                                              index |-> was.redir_counter]
<1> DEFINE was == WrittenCommand(c, n - 1)
           now == WrittenCommand(c, n)
           words(m) == WordsIn(c, m)
           in(m) == WrittenRedirs(c, m, {"REDIRECT_IN"})
           out(m) == WrittenRedirs(c, m, {"REDIRECT_OUT", "APPEND"})
           doc(m) == WrittenRedirs(c, m, {"HEREDOC"})
           all(m) == RedirsIn(c, m, Redirections)
<1>1. \A m : WrittenCommand(c, m) = [args |-> InOrder(words(m)), input_redirection |-> in(m),
                                     output_redirection |-> out(m), heredoc |-> doc(m),
                                     redir_counter |-> Cardinality(all(m))]
  BY DEF WrittenCommand
<1>2. /\ InOrder(words(n - 1)) \in Seq(Nat)
      /\ InOrder(words(n)) =
           IF CommandOf(n) = c /\ tokens[n] = "WORD" /\ (n > 1 => tokens[n - 1] \notin Redirections)
           THEN Append(InOrder(words(n - 1)), n) ELSE InOrder(words(n - 1))
  <2>1. /\ IsFiniteSet(words(n - 1)) /\ words(n - 1) \in SUBSET Nat
        /\ \A m \in words(n - 1) : m < n
        /\ words(n) =
             IF CommandOf(n) = c /\ tokens[n] = "WORD" /\ (n > 1 => tokens[n - 1] \notin Redirections)
             THEN words(n - 1) \union {n} ELSE words(n - 1)
    BY WordsNext
  <2>2. InOrder(words(n - 1) \union {n}) = Append(InOrder(words(n - 1)), n)
    BY <2>1, OrderedAppend
  <2>3. InOrder(words(n - 1)) \in Seq(words(n - 1))
    BY <2>1, Ordered
  <2> HIDE DEF words
  <2>4. InOrder(words(n - 1)) \in Seq(Nat)
    <3>1. /\ InOrder(words(n - 1)) \in [1 .. Len(InOrder(words(n - 1))) -> words(n - 1)]
          /\ Len(InOrder(words(n - 1))) \in Nat
      BY <2>3
    <3>2. InOrder(words(n - 1)) \in [1 .. Len(InOrder(words(n - 1))) -> Nat]
      BY <2>1, <3>1
    <3>3. QED
      BY <3>1, <3>2
  <2>5. QED
    BY <2>1, <2>2, <2>4
<1>3. ASSUME NEW types
      PROVE  /\ WrittenRedirs(c, n - 1, types) \in Seq(Redir)
             /\ WrittenRedirs(c, n, types) =
                  IF CommandOf(n) = c /\ tokens[n] \in types
                  THEN Append(WrittenRedirs(c, n - 1, types), WrittenRedir(c, n))
                  ELSE WrittenRedirs(c, n - 1, types)
  BY WrittenRedirsNext
<1>4. /\ in(n - 1) \in Seq(Redir) /\ out(n - 1) \in Seq(Redir) /\ doc(n - 1) \in Seq(Redir)
      /\ in(n) = IF CommandOf(n) = c /\ tokens[n] = "REDIRECT_IN"
                 THEN Append(in(n - 1), WrittenRedir(c, n)) ELSE in(n - 1)
      /\ out(n) = IF CommandOf(n) = c /\ tokens[n] \in {"REDIRECT_OUT", "APPEND"}
                  THEN Append(out(n - 1), WrittenRedir(c, n)) ELSE out(n - 1)
      /\ doc(n) = IF CommandOf(n) = c /\ tokens[n] = "HEREDOC"
                  THEN Append(doc(n - 1), WrittenRedir(c, n)) ELSE doc(n - 1)
  <2>1. tokens[n] = "REDIRECT_IN" <=> tokens[n] \in {"REDIRECT_IN"}
    OBVIOUS
  <2>2. tokens[n] = "HEREDOC" <=> tokens[n] \in {"HEREDOC"}
    OBVIOUS
  <2>3. QED
    BY <1>3, <2>1, <2>2
<1>5. /\ Cardinality(all(n - 1)) \in Nat
      /\ Cardinality(all(n)) = IF CommandOf(n) = c /\ tokens[n] \in Redirections
                               THEN Cardinality(all(n - 1)) + 1 ELSE Cardinality(all(n - 1))
  <2>1. /\ IsFiniteSet(all(n - 1)) /\ Cardinality(all(n - 1)) \in Nat
        /\ \A m \in all(n - 1) : m < n
        /\ all(n) = IF CommandOf(n) = c /\ tokens[n] \in Redirections
                    THEN all(n - 1) \union {n} ELSE all(n - 1)
    BY RedirsNext
  <2>2. n \notin all(n - 1)
    <3>1. ~(n < n)
      OBVIOUS
    <3>2. QED
      BY <2>1, <3>1
  <2>3. Cardinality(all(n - 1) \union {n}) = Cardinality(all(n - 1)) + 1
    BY <2>1, <2>2, FS_AddElement
  <2>4. QED
    BY <2>1, <2>3
<1>6. WrittenRedir(c, n) = [file |-> n + 1, append |-> tokens[n] = "APPEND",
                            index |-> Cardinality(all(n - 1))]
  BY DEF WrittenRedir
<1> HIDE DEF words, in, out, doc, all
<1> DEFINE args(m) == InOrder(words(m))
           count(m) == Cardinality(all(m))
<1>7. /\ was = Fields(args(n - 1), in(n - 1), out(n - 1), doc(n - 1), count(n - 1))
      /\ now = Fields(args(n), in(n), out(n), doc(n), count(n))
  BY <1>1 DEF Fields
<1>8. was \in Command
  BY <1>2, <1>4, <1>5, <1>7 DEF Command, Fields
<1>a. /\ was.args = args(n - 1) /\ was.input_redirection = in(n - 1)
      /\ was.output_redirection = out(n - 1) /\ was.heredoc = doc(n - 1)
      /\ was.redir_counter = count(n - 1)
  <2> HIDE DEF was, args, count
  <2>1. QED
    BY <1>7 DEF Fields
<1> HIDE DEF was, now, args, count
<1>9. ASSUME \/ CommandOf(n) # c
             \/ tokens[n] \in {"PIPE", "END"}
             \/ tokens[n] = "WORD" /\ n > 1 /\ tokens[n - 1] \in Redirections
      PROVE  now = was
  <2>1. args(n) = args(n - 1)
    BY <1>2, <1>9 DEF args
  <2>2. in(n) = in(n - 1) /\ out(n) = out(n - 1) /\ doc(n) = doc(n - 1)
    BY <1>4, <1>9
  <2>3. count(n) = count(n - 1)
    BY <1>5, <1>9 DEF count, Redirections
  <2>4. QED
    BY <1>7, <2>1, <2>2, <2>3
<1>10. ASSUME CommandOf(n) = c, tokens[n] = "WORD", n > 1 => tokens[n - 1] \notin Redirections
       PROVE  now = [was EXCEPT !.args = Append(@, n)]
  <2>1. args(n) = Append(args(n - 1), n)
    BY <1>2, <1>10 DEF args
  <2>2. in(n) = in(n - 1) /\ out(n) = out(n - 1) /\ doc(n) = doc(n - 1)
    BY <1>4, <1>10
  <2>3. count(n) = count(n - 1)
    BY <1>5, <1>10 DEF count, Redirections
  <2>4. WithArgs(was, Append(was.args, n)) =
          Fields(Append(was.args, n), was.input_redirection, was.output_redirection,
                 was.heredoc, was.redir_counter)
    BY <1>8, CommandFields
  <2>5. QED
    BY <1>7, <1>a, <2>1, <2>2, <2>3, <2>4 DEF WithArgs
<1>11. ASSUME CommandOf(n) = c, tokens[n] \in Redirections
       PROVE  now = [was EXCEPT ![ListName(tokens[n])] = Append(@, WrittenRedir(c, n)),
                                !.redir_counter = @ + 1]
  <2>1. args(n) = args(n - 1)
    BY <1>2, <1>11 DEF args, Redirections
  <2>2. count(n) = count(n - 1) + 1
    BY <1>5, <1>11 DEF count
  <2>3. CASE tokens[n] = "REDIRECT_IN"
    <3>1. /\ in(n) = Append(in(n - 1), WrittenRedir(c, n))
          /\ out(n) = out(n - 1) /\ doc(n) = doc(n - 1)
      BY <1>4, <1>11, <2>3
    <3>2. WithIn(was, Append(was.input_redirection, WrittenRedir(c, n)), was.redir_counter + 1) =
            Fields(was.args, Append(was.input_redirection, WrittenRedir(c, n)), was.output_redirection, was.heredoc,
                   was.redir_counter + 1)
      BY <1>8, CommandFields
    <3>3. now = [was EXCEPT !.input_redirection = Append(@, WrittenRedir(c, n)), !.redir_counter = @ + 1]
      BY <1>7, <1>a, <2>1, <2>2, <3>1, <3>2 DEF WithIn
    <3>4. ListName(tokens[n]) = "input_redirection"
      BY <2>3 DEF ListName
    <3>5. QED
      BY <3>3, <3>4
  <2>4. CASE tokens[n] = "HEREDOC"
    <3>1. /\ doc(n) = Append(doc(n - 1), WrittenRedir(c, n))
          /\ out(n) = out(n - 1) /\ in(n) = in(n - 1)
      BY <1>4, <1>11, <2>4
    <3>2. WithDoc(was, Append(was.heredoc, WrittenRedir(c, n)), was.redir_counter + 1) =
            Fields(was.args, was.input_redirection, was.output_redirection, Append(was.heredoc, WrittenRedir(c, n)),
                   was.redir_counter + 1)
      BY <1>8, CommandFields
    <3>3. now = [was EXCEPT !.heredoc = Append(@, WrittenRedir(c, n)), !.redir_counter = @ + 1]
      BY <1>7, <1>a, <2>1, <2>2, <3>1, <3>2 DEF WithDoc
    <3>4. ListName(tokens[n]) = "heredoc"
      BY <2>4 DEF ListName
    <3>5. QED
      BY <3>3, <3>4
  <2>5. CASE tokens[n] \in {"REDIRECT_OUT", "APPEND"}
    <3>1. /\ out(n) = Append(out(n - 1), WrittenRedir(c, n))
          /\ doc(n) = doc(n - 1) /\ in(n) = in(n - 1)
      BY <1>4, <1>11, <2>5
    <3>2. WithOut(was, Append(was.output_redirection, WrittenRedir(c, n)), was.redir_counter + 1) =
            Fields(was.args, was.input_redirection, Append(was.output_redirection, WrittenRedir(c, n)), was.heredoc,
                   was.redir_counter + 1)
      BY <1>8, CommandFields
    <3>3. now = [was EXCEPT !.output_redirection = Append(@, WrittenRedir(c, n)), !.redir_counter = @ + 1]
      BY <1>7, <1>a, <2>1, <2>2, <3>1, <3>2 DEF WithOut
    <3>4. ListName(tokens[n]) = "output_redirection"
      BY <2>5 DEF ListName
    <3>5. QED
      BY <3>3, <3>4
  <2>6. QED
    BY <1>11, <2>3, <2>4, <2>5 DEF Redirections
<1>12. was.redir_counter = Cardinality(all(n - 1))
  BY <1>a DEF count
<1>13. QED
  BY <1>6, <1>8, <1>9, <1>10, <1>11, <1>12 DEF was, now

\* Of a command that has not begun nothing is said.
LEMMA WrittenNone ==
  ASSUME NEW n \in Nat, NEW c \in Nat, \A k \in 1 .. n : CommandOf(k) < c
  PROVE  WrittenCommand(c, n) = EmptyCommand
<1>1. Part(c, n) = {}
  <2>1. \A k \in 1 .. n : CommandOf(k) # c
    <3>1. ~(c < c)
      OBVIOUS
    <3>2. QED
      BY <3>1
  <2>2. QED
    BY <2>1 DEF Part
<1>2. WordsIn(c, n) = {} /\ \A types : RedirsIn(c, n, types) = {}
  BY <1>1 DEF WordsIn, RedirsIn
<1>3. InOrder({}) = <<>> /\ Cardinality({}) = 0
  BY OrderedEmpty, FS_EmptySet
<1>4. \A types : WrittenRedirs(c, n, types) = <<>>
  BY <1>2, <1>3 DEF WrittenRedirs
<1>5. QED
  BY <1>2, <1>3, <1>4 DEF WrittenCommand, EmptyCommand

\* What the tokens say stays as it is; only how many are read changes.
LEMMA SoFarNext ==
  ASSUME tokens' = tokens, NEW n, n = curr'
  PROVE  SoFar(curr)' <=> commands' = [c \in 1 .. CommandOf(n) |-> WrittenCommand(c, n - 1)]
  BY DEF SoFar, CommandOf, WordsIn, Part, WrittenCommand, WrittenRedir, WrittenRedirs, RedirsIn

\* They stay so while the tokens and the commands do.
LEMMA StayWritten ==
  ASSUME UNCHANGED <<tokens, commands, parsing>>, CommandsAsWritten
  PROVE  CommandsAsWritten'
<1>1. SUFFICES ASSUME parsing = "parsed"
               PROVE  commands' = [c \in 1 .. CommandOf(Len(tokens)) |-> WrittenCommand(c, Len(tokens))]'
  BY DEF CommandsAsWritten
<1>2. commands = [c \in 1 .. CommandOf(Len(tokens)) |-> WrittenCommand(c, Len(tokens))]
  BY <1>1 DEF CommandsAsWritten
<1>3. CommandOf(Len(tokens))' = CommandOf(Len(tokens))
  BY DEF CommandOf
<1>4. \A c : WrittenCommand(c, Len(tokens))' = WrittenCommand(c, Len(tokens))
  BY DEF CommandOf, WordsIn, Part, WrittenCommand, WrittenRedir, WrittenRedirs, RedirsIn
<1>5. QED
  BY <1>2, <1>3, <1>4

\* The command being read is the last.
LEMMA LastCommand ==
  ASSUME NEW n \in Nat \ {0}, SoFar(n), commands \in Seq(Command)
  PROVE  /\ CommandOf(n) \in Nat \ {0} /\ Len(commands) = CommandOf(n)
         /\ CurrCmd = WrittenCommand(CommandOf(n), n - 1)
<1>1. CommandOf(n) \in Nat \ {0}
  BY CommandOfNext
<1> DEFINE L == CommandOf(n)
<1> HIDE DEF L
<1>2. commands = [c \in 1 .. L |-> WrittenCommand(c, n - 1)]
  BY DEF SoFar, L
<1>3. Len(commands) = L /\ L \in 1 .. L
  BY <1>1, <1>2 DEF L
<1>4. QED
  BY <1>1, <1>2, <1>3 DEF CurrCmd, L

\* The last command is rewritten as the tokens up to the m-th say.
LEMMA LastRewritten ==
  ASSUME NEW n \in Nat \ {0}, SoFar(n), commands \in Seq(Command), NEW new, Update(new),
         NEW m, CommandOf(m) = CommandOf(n), WrittenCommand(CommandOf(n), m - 1) = new,
         \A c \in 1 .. CommandOf(n) : c # CommandOf(n) => WrittenCommand(c, m - 1) = WrittenCommand(c, n - 1)
  PROVE  commands' = [c \in 1 .. CommandOf(m) |-> WrittenCommand(c, m - 1)]
<1>1. Len(commands) = CommandOf(n)
  BY LastCommand
<1>2. commands = [c \in 1 .. CommandOf(n) |-> WrittenCommand(c, n - 1)]
  BY DEF SoFar
<1>3. commands' = [commands EXCEPT ![CommandOf(n)] = new]
  BY <1>1 DEF Update
<1>4. commands' = [c \in 1 .. CommandOf(n) |-> WrittenCommand(c, m - 1)]
  BY <1>2, <1>3
<1>5. QED
  BY <1>4

\* The invariant holds at first,
LEMMA WrittenInit == Init => WInv
  BY GrammarInit DEF Init, WInv, CommandsSoFar

\* and every step keeps it.
LEMMA WrittenStep == WInv /\ [Next]_vars => WInv'
<1> SUFFICES ASSUME WInv, [Next]_vars PROVE CommandsSoFar'
  BY GrammarNext DEF WInv
<1>a. /\ commands \in Seq(Command) /\ curr \in Nat \ {0}
      /\ curr > 1 /\ parsing = "loop" => tokens[curr - 1] \notin Redirections
  <2>1. TypeOK /\ GrammarSoFar
    BY DEF WInv, GInv
  <2>2. QED
    BY <2>1, TokensEnd DEF TypeOK, GrammarSoFar
<1>b. parsing = "loop" => SoFar(curr)
  BY DEF WInv, CommandsSoFar
<1> DEFINE L == CommandOf(curr)
           Now(n) == commands' = [c \in 1 .. CommandOf(n) |-> WrittenCommand(c, n - 1)]
<1>1. CASE IfPipe
  BY <1>1 DEF IfPipe, CommandsSoFar
<1>2. CASE CreateHead
  <2>1. tokens' = tokens /\ curr' = 1 /\ commands' = <<EmptyCommand>> /\ parsing' = "loop"
    BY <1>2 DEF CreateHead, WInv, GInv, BeforeLoop
  <2>2. CommandOf(1) = 1
    <3>1. {m \in 1 .. 1 - 1 : tokens[m] = "PIPE"} = {}
      OBVIOUS
    <3>2. QED
      BY <3>1, FS_EmptySet DEF CommandOf
  <2>3. WrittenCommand(1, 1 - 1) = EmptyCommand
    BY WrittenNone
  <2>4. Now(1)
    BY <2>1, <2>2, <2>3
  <2> HIDE DEF Now
  <2>5. SoFar(curr)'
    BY <2>1, <2>4, SoFarNext DEF Now
  <2>6. QED
    BY <2>1, <2>5 DEF CommandsSoFar
<1>3. CASE AddArg
  <2>1. /\ parsing = "loop" /\ parsing' = "loop" /\ tokens' = tokens /\ curr' = curr + 1
        /\ tokens[curr] = "WORD" /\ Update([CurrCmd EXCEPT !.args = Append(@, curr)])
    BY <1>3 DEF AddArg
  <2>2. CurrCmd = WrittenCommand(L, curr - 1)
    BY <1>a, <1>b, <2>1, LastCommand
  <2>3. CommandOf(curr + 1) = L
    BY <1>a, <2>1, CommandOfNext
  <2>4. WrittenCommand(L, curr) = [WrittenCommand(L, curr - 1) EXCEPT !.args = Append(@, curr)]
    BY <1>a, <2>1, WrittenNext
  <2>5. \A c : c # L => WrittenCommand(c, curr) = WrittenCommand(c, curr - 1)
    BY <1>a, WrittenNext
  <2>6. (curr + 1) - 1 = curr
    BY <1>a
  <2>7. Update(WrittenCommand(L, curr))
    BY <2>1, <2>2, <2>4
  <2>8. Now(curr + 1)
    BY <1>a, <1>b, <2>1, <2>3, <2>5, <2>6, <2>7, LastRewritten
  <2> HIDE DEF Now
  <2>9. SoFar(curr)'
    BY <2>1, <2>8, SoFarNext DEF Now
  <2>10. QED
    BY <2>1, <2>9 DEF CommandsSoFar
<1>4. CASE ParseRedir
  <2> DEFINE redir == [file |-> curr + 1, append |-> tokens[curr] = "APPEND",
                       index |-> CurrCmd.redir_counter]
  <2>1. /\ parsing = "loop" /\ parsing' = "loop" /\ tokens' = tokens /\ curr' = curr + 2
        /\ tokens[curr] \in Redirections /\ tokens[curr + 1] = "WORD"
        /\ Update([CurrCmd EXCEPT ![ListName(tokens[curr])] = Append(@, redir), !.redir_counter = @ + 1])
    BY <1>4 DEF ParseRedir
  <2>2. CurrCmd = WrittenCommand(L, curr - 1)
    BY <1>a, <1>b, <2>1, LastCommand
  <2>3. /\ curr + 1 \in Nat \ {0} /\ (curr + 1) - 1 = curr /\ (curr + 1) + 1 = curr + 2
        /\ (curr + 2) - 1 = curr + 1 /\ curr + 1 > 1
    BY <1>a
  <2>4. CommandOf(curr + 1) = L /\ CommandOf(curr + 2) = L
    <3>1. CommandOf(curr + 1) = L
      BY <1>a, <2>1, CommandOfNext DEF Redirections
    <3>2. CommandOf((curr + 1) + 1) = CommandOf(curr + 1)
      BY <2>1, <2>3, CommandOfNext
    <3>3. QED
      BY <2>3, <3>1, <3>2
  <2>5. /\ WrittenRedir(L, curr) = redir
        /\ WrittenCommand(L, curr) =
             [CurrCmd EXCEPT ![ListName(tokens[curr])] = Append(@, redir), !.redir_counter = @ + 1]
    <3>1. WrittenRedir(L, curr) = [file |-> curr + 1, append |-> tokens[curr] = "APPEND",
                                   index |-> WrittenCommand(L, curr - 1).redir_counter]
      BY <1>a, <2>1, WrittenNext
    <3>2. WrittenCommand(L, curr) =
            [WrittenCommand(L, curr - 1) EXCEPT
               ![ListName(tokens[curr])] = Append(@, WrittenRedir(L, curr)), !.redir_counter = @ + 1]
      BY <1>a, <2>1, WrittenNext
    <3>3. QED
      BY <2>2, <3>1, <3>2
  <2>6. \A c : WrittenCommand(c, curr + 1) = WrittenCommand(c, curr)
    <3> SUFFICES ASSUME NEW c PROVE WrittenCommand(c, curr + 1) = WrittenCommand(c, curr)
      OBVIOUS
    <3>1. tokens[(curr + 1) - 1] \in Redirections
      BY <2>1, <2>3
    <3>2. WrittenCommand(c, curr + 1) = WrittenCommand(c, (curr + 1) - 1)
      BY <2>1, <2>3, <3>1, WrittenNext
    <3>3. QED
      BY <2>3, <3>2
  <2>7. \A c : c # L => WrittenCommand(c, curr) = WrittenCommand(c, curr - 1)
    BY <1>a, WrittenNext
  <2>8. Update(WrittenCommand(L, curr))
    BY <2>1, <2>5
  <2>9. Now(curr + 2)
    <3>1. WrittenCommand(L, (curr + 2) - 1) = WrittenCommand(L, curr)
      BY <2>3, <2>6
    <3>2. \A c : c # L => WrittenCommand(c, (curr + 2) - 1) = WrittenCommand(c, curr - 1)
      BY <2>3, <2>6, <2>7
    <3>3. SoFar(curr) /\ commands \in Seq(Command) /\ curr \in Nat \ {0}
      BY <1>a, <1>b, <2>1
    <3>4. QED
      BY <2>4, <2>8, <3>1, <3>2, <3>3, LastRewritten
  <2> HIDE DEF Now
  <2>10. SoFar(curr)'
    BY <2>1, <2>9, SoFarNext DEF Now
  <2>11. QED
    BY <2>1, <2>10 DEF CommandsSoFar
<1>5. CASE HandlePipe
  <2>1. /\ parsing = "loop" /\ parsing' = "loop" /\ tokens' = tokens /\ curr' = curr + 1
        /\ tokens[curr] = "PIPE" /\ commands' = Append(commands, EmptyCommand)
    BY <1>5 DEF HandlePipe
  <2>2. L \in Nat \ {0} /\ CommandOf(curr + 1) = L + 1
    BY <1>a, <2>1, CommandOfNext
  <2>3. \A c : WrittenCommand(c, curr) = WrittenCommand(c, curr - 1)
    BY <1>a, <2>1, WrittenNext
  <2>4. WrittenCommand(L + 1, curr) = EmptyCommand
    <3>1. \A k \in 1 .. curr : CommandOf(k) <= L /\ CommandOf(k) \in Nat
      BY <1>a, CommandOfGrows
    <3> HIDE DEF L
    <3>2. \A k \in 1 .. curr : CommandOf(k) < L + 1
      BY <2>2, <3>1
    <3>3. QED
      BY <1>a, <2>2, <3>2, WrittenNone
  <2>5. commands = [c \in 1 .. L |-> WrittenCommand(c, curr - 1)]
    BY <1>b, <2>1 DEF SoFar
  <2> HIDE DEF L
  <2>6. Append(commands, EmptyCommand) = [c \in 1 .. L + 1 |-> WrittenCommand(c, curr)]
    <3>1. Len(commands) = L
      BY <2>2, <2>5
    <3> DEFINE more == Append(commands, EmptyCommand)
    <3>2. /\ more \in Seq(Command) /\ Len(more) = L + 1 /\ more[L + 1] = EmptyCommand
          /\ \A c \in 1 .. L : more[c] = commands[c]
      BY <1>a, <3>1, EmptyIsCommand, AppendProperties
    <3> HIDE DEF more
    <3>3. more = [c \in 1 .. L + 1 |-> more[c]]
      BY <3>2
    <3>4. \A c \in 1 .. L + 1 : c \in 1 .. L \/ c = L + 1
      BY <2>2
    <3>5. \A c \in 1 .. L + 1 : more[c] = WrittenCommand(c, curr)
      BY <2>3, <2>4, <2>5, <3>2, <3>4
    <3>6. QED
      BY <3>3, <3>5 DEF more
  <2>7. Now(curr + 1)
    <3>1. (curr + 1) - 1 = curr
      BY <1>a
    <3>2. QED
      BY <2>1, <2>2, <2>6, <3>1
  <2> HIDE DEF Now
  <2>8. SoFar(curr)'
    BY <2>1, <2>7, SoFarNext DEF Now
  <2>9. QED
    BY <2>1, <2>8 DEF CommandsSoFar
<1>6. CASE SyntaxError
  BY <1>6 DEF SyntaxError, CommandsSoFar
<1>7. CASE Parsed
  <2>1. parsing = "loop" /\ parsing' = "parsed" /\ UNCHANGED <<tokens, curr, commands>> /\ tokens[curr] = "END"
    BY <1>7 DEF Parsed
  <2>2. curr = Len(tokens)
    BY <2>1, TokensEnd DEF WInv, GInv
  <2>3. SoFar(curr)'
    <3>1. Now(curr)
      BY <1>b, <2>1 DEF SoFar
    <3>2. QED
      BY <2>1, <3>1, SoFarNext
  <2>4. QED
    BY <2>1, <2>2, <2>3 DEF CommandsSoFar
<1>8. CASE ResetLoop
  BY <1>8 DEF ResetLoop, CommandsSoFar
<1>9. CASE UNCHANGED vars
  <2>1. UNCHANGED <<tokens, curr, commands, parsing>>
    BY <1>9 DEF vars
  <2>2. SoFar(curr)' <=> SoFar(curr)
    BY <2>1, SoFarNext DEF SoFar
  <2>3. QED
    BY <2>1, <2>2 DEF WInv, CommandsSoFar
<1>10. QED
  BY <1>1, <1>2, <1>3, <1>4, <1>5, <1>6, <1>7, <1>8, <1>9 DEF Next

\* At the end of the line the commands are what is written of them.
LEMMA CommandsAre == WInv => CommandsAsWritten
<1> SUFFICES ASSUME WInv, parsing = "parsed"
             PROVE  commands = [c \in 1 .. CommandOf(Len(tokens)) |-> WrittenCommand(c, Len(tokens))]
  BY DEF CommandsAsWritten
<1>1. /\ curr = Len(tokens) /\ curr \in Nat \ {0} /\ tokens[curr] = "END"
      /\ commands = [c \in 1 .. CommandOf(curr) |-> WrittenCommand(c, curr - 1)]
  <2>1. curr = Len(tokens) /\ SoFar(curr) /\ TypeOK
    BY DEF WInv, GInv, CommandsSoFar
  <2>2. QED
    BY <2>1, TokensEnd DEF SoFar
<1>2. \A c : WrittenCommand(c, curr) = WrittenCommand(c, curr - 1)
  BY <1>1, WrittenNext
<1>3. QED
  BY <1>1, <1>2

\* Whatever the line, its commands are what is written between the pipes: their
\* arguments, their redirections and the index that orders these.
THEOREM CommandsWritten == Spec => []CommandsAsWritten
  BY WrittenInit, WrittenStep, CommandsAre, PTL DEF Spec

\* What the arguments and the files of a command are: words of its own part,
\* and no word is an argument twice.
LEMMA WordsOfLine ==
  ASSUME WInv, parsing = "parsed"
  PROVE  /\ commands \in Seq(Command) /\ commands # <<>>
         /\ \A k \in DOMAIN commands : \A a \in DOMAIN commands[k].args :
              commands[k].args[a] \in DOMAIN tokens /\ tokens[commands[k].args[a]] = "WORD"
         /\ \A k, l \in DOMAIN commands :
              \A a \in DOMAIN commands[k].args, b \in DOMAIN commands[l].args :
                commands[k].args[a] = commands[l].args[b] => k = l /\ a = b
         /\ \A k \in DOMAIN commands :
              /\ \A r \in DOMAIN commands[k].input_redirection :
                   commands[k].input_redirection[r].file \in DOMAIN tokens
              /\ \A r \in DOMAIN commands[k].output_redirection :
                   commands[k].output_redirection[r].file \in DOMAIN tokens
<1> DEFINE n == curr - 1
<1>1. /\ commands \in Seq(Command) /\ curr = Len(tokens) /\ curr \in Nat \ {0} /\ DOMAIN tokens = 1 .. curr
      /\ commands = [c \in 1 .. CommandOf(curr) |-> WrittenCommand(c, n)]
  <2>1. curr = Len(tokens) /\ SoFar(curr) /\ TypeOK
    BY DEF WInv, GInv, CommandsSoFar
  <2>2. tokens \in Seq(Types) /\ curr \in 1 .. Len(tokens)
    BY <2>1, TokensEnd
  <2>3. QED
    BY <2>1, <2>2 DEF SoFar, TypeOK
<1>2. CommandOf(curr) \in Nat \ {0}
  BY <1>1, CommandOfNext
<1>3. commands # <<>>
  <2>1. 1 \in DOMAIN commands
    BY <1>1, <1>2
  <2>2. QED
    BY <2>1
<1>4. ASSUME NEW k \in DOMAIN commands
      PROVE  /\ commands[k].args = InOrder(WordsIn(k, n))
             /\ commands[k].input_redirection = WrittenRedirs(k, n, {"REDIRECT_IN"})
             /\ commands[k].output_redirection = WrittenRedirs(k, n, {"REDIRECT_OUT", "APPEND"})
  <2>1. commands[k] = WrittenCommand(k, n)
    BY <1>1
  <2>2. QED
    BY <2>1 DEF WrittenCommand
<1>5. ASSUME NEW k \in DOMAIN commands, NEW a \in DOMAIN commands[k].args
      PROVE  /\ commands[k].args[a] \in WordsIn(k, n)
             /\ Rank(WordsIn(k, n), commands[k].args[a]) = a
             /\ commands[k].args[a] \in DOMAIN tokens /\ tokens[commands[k].args[a]] = "WORD"
             /\ CommandOf(commands[k].args[a]) = k
  <2> DEFINE S == WordsIn(k, n)
  <2>1. IsFiniteSet(S) /\ S \in SUBSET Nat
    BY <1>1, WordsNext
  <2>2. /\ InOrder(S) \in Seq(S) /\ Len(InOrder(S)) = Cardinality(S) /\ Cardinality(S) \in Nat
        /\ \A m \in 1 .. Cardinality(S) : InOrder(S)[m] \in S /\ Rank(S, InOrder(S)[m]) = m
    BY <2>1, Ordered
  <2>3. \A w \in S : w \in 1 .. n /\ CommandOf(w) = k /\ tokens[w] = "WORD"
    BY DEF WordsIn, Part
  <2> HIDE DEF S
  <2>4. a \in 1 .. Cardinality(S) /\ commands[k].args = InOrder(S)
    BY <1>4, <2>2 DEF S
  <2>5. commands[k].args[a] \in S /\ Rank(S, commands[k].args[a]) = a
    BY <2>2, <2>4
  <2>6. \A w \in 1 .. n : w \in 1 .. curr
    BY <1>1
  <2>7. QED
    BY <1>1, <2>3, <2>5, <2>6 DEF S
<1>6. ASSUME NEW k \in DOMAIN commands, NEW types, NEW r \in DOMAIN WrittenRedirs(k, n, types)
      PROVE  WrittenRedirs(k, n, types)[r].file \in DOMAIN tokens
  <2> DEFINE S == RedirsIn(k, n, types)
             places == InOrder(S)
  <2>1. IsFiniteSet(S) /\ S \in SUBSET Nat
    BY <1>1, RedirsNext
  <2>2. places \in Seq(S)
    BY <2>1, Ordered
  <2>3. r \in DOMAIN places /\ WrittenRedirs(k, n, types)[r] = WrittenRedir(k, places[r])
    BY DEF WrittenRedirs
  <2>4. \A w \in S : w \in 1 .. n
    BY DEF RedirsIn, Part
  <2> HIDE DEF S, places
  <2>5. places[r] \in 1 .. n
    BY <2>2, <2>3, <2>4
  <2>6. WrittenRedir(k, places[r]).file = places[r] + 1
    BY DEF WrittenRedir
  <2>7. \A w \in 1 .. n : w + 1 \in 1 .. curr
    BY <1>1
  <2>8. QED
    BY <1>1, <2>3, <2>5, <2>6, <2>7
<1>7. QED
  BY <1>1, <1>3, <1>4, <1>5, <1>6

----------------------------------------------------------------------------
(* Who frees the segments.                                                 *)

\* The words not yet read still own theirs.
UnreadOwn ==
  parsing \in {"start", "loop"} => \A w \in DOMAIN tokens : w >= curr => w \in segments

MInv == TypeOK /\ HasCommand /\ BeforeLoop /\ UnreadOwn /\ SegmentsFreedOnce

\* Of a command list only the arguments count.
LEMMA NothingHeld == commands = <<>> => Held = {}
  BY DEF Held

\* A command changed in other fields holds the same words.
LEMMA SameHeld ==
  ASSUME commands \in Seq(Command), commands # <<>>, NEW new \in Command, Update(new),
         new.args = CurrCmd.args, tokens' = tokens
  PROVE  Held' = Held
<1>1. /\ DOMAIN commands' = DOMAIN commands
      /\ \A c \in DOMAIN commands : commands'[c].args = commands[c].args
  BY LastReplaced DEF CurrCmd, Update
<1>2. QED
  BY <1>1 DEF Held

\* What a longer list contains.
LEMMA ContainsAppend ==
  ASSUME NEW s \in Seq(Nat), NEW w \in Nat, NEW v
  PROVE  Contains(Append(s, w), v) <=> Contains(s, v) \/ v = w
<1>1. /\ Len(Append(s, w)) = Len(s) + 1 /\ Append(s, w)[Len(s) + 1] = w /\ Len(s) \in Nat
      /\ \A k \in 1 .. Len(s) : Append(s, w)[k] = s[k]
  BY AppendProperties
<1>2. \A k \in 1 .. Len(s) + 1 : k \in 1 .. Len(s) \/ k = Len(s) + 1
  BY <1>1
<1>3. 1 .. Len(s) \subseteq 1 .. Len(s) + 1 /\ Len(s) + 1 \in 1 .. Len(s) + 1
  BY <1>1
<1>4. QED
  BY <1>1, <1>2, <1>3, Zenon DEF Contains

\* An argument more is a word more.
LEMMA OneMoreHeld ==
  ASSUME commands \in Seq(Command), commands # <<>>, NEW new \in Command, Update(new),
         TypeOK, NEW w \in DOMAIN tokens, new.args = Append(CurrCmd.args, w), tokens' = tokens
  PROVE  Held' = Held \union {w}
<1>1. /\ DOMAIN commands' = DOMAIN commands /\ Len(commands) \in DOMAIN commands
      /\ commands'[Len(commands)].args = Append(commands[Len(commands)].args, w)
      /\ \A c \in DOMAIN commands : c # Len(commands) => commands'[c] = commands[c]
  BY LastReplaced DEF CurrCmd, Update
<1>2. commands[Len(commands)].args \in Seq(Nat) /\ w \in Nat
  <2>1. commands[Len(commands)] \in Command
    BY <1>1
  <2>2. commands[Len(commands)].args \in Seq(Nat)
    BY <2>1 DEF Command
  <2>3. DOMAIN tokens = 1 .. Len(tokens) /\ Len(tokens) \in Nat
    BY TokensEnd
  <2>4. QED
    BY <2>2, <2>3
<1>3. ASSUME NEW v
      PROVE  Contains(commands'[Len(commands)].args, v)
               <=> Contains(commands[Len(commands)].args, v) \/ v = w
  BY <1>1, <1>2, ContainsAppend
<1>4. ASSUME NEW v \in DOMAIN tokens
      PROVE  v \in Held' <=> v \in Held \/ v = w
  <2>1. v \in Held' <=> \E c \in DOMAIN commands : Contains(commands'[c].args, v)
    BY <1>1 DEF Held
  <2>2. v \in Held <=> \E c \in DOMAIN commands : Contains(commands[c].args, v)
    BY DEF Held
  <2>3. QED
    BY <1>1, <1>3, <2>1, <2>2
<1>5. QED
  BY <1>4 DEF Held

\* The invariant holds at first,
LEMMA MemoryInit == Init => MInv
  BY TypesInit, NothingHeld DEF Init, MInv, BeforeLoop, UnreadOwn, SegmentsFreedOnce

\* and every step keeps it.
LEMMA MemoryNext == MInv /\ [Next]_vars => MInv'
<1> SUFFICES ASSUME MInv, [Next]_vars PROVE (BeforeLoop /\ UnreadOwn /\ SegmentsFreedOnce)'
  BY TypesNext DEF MInv
<1>a. /\ TypeOK /\ HasCommand /\ BeforeLoop /\ UnreadOwn /\ SegmentsFreedOnce
      /\ curr \in 1 .. Len(tokens) /\ tokens \in Seq(Types)
  BY TokensEnd DEF MInv
<1> USE DEF BeforeLoop, UnreadOwn, SegmentsFreedOnce, memory
<1>1. CASE IfPipe
  BY <1>1, <1>a DEF IfPipe, Held
<1>2. CASE CreateHead
  <2>1. Held = {} /\ Held' = {}
    BY <1>2, <1>a, NothingHeld DEF CreateHead, Held, EmptyCommand, Contains
  <2>2. QED
    BY <1>2, <1>a, <2>1 DEF CreateHead
<1>3. CASE AddArg
  <2>1. commands \in Seq(Command) /\ commands # <<>> /\ CurrCmd \in Command
        /\ curr \in DOMAIN tokens /\ curr \in Nat
    BY <1>3, <1>a DEF AddArg, TypeOK, HasCommand, CurrCmd
  <2>2. Held' = Held \union {curr}
    BY <1>3, <1>a, <2>1, AddedCommand, OneMoreHeld DEF AddArg
  <2>3. curr \in segments
    BY <1>3, <1>a, <2>1 DEF AddArg
  <2>4. QED
    BY <1>3, <1>a, <2>1, <2>2, <2>3 DEF AddArg
<1>4. CASE ParseRedir
  <2>1. PICK redir \in Redir : Redirected(redir) \in Command /\ Update(Redirected(redir))
    BY <1>4, <1>a, RedirParsed
  <2>2. Held' = Held
    BY <1>4, <1>a, <2>1, RedirParsed, RedirectedCommand, SameHeld DEF ParseRedir
  <2>3. parsing = "loop" /\ curr' = curr + 2 /\ UNCHANGED <<tokens, parsing, segments, freed>>
    BY <1>4 DEF ParseRedir
  <2>4. ASSUME NEW w \in DOMAIN tokens, w >= curr + 2
        PROVE  w \in segments
    BY <1>a, <2>3, <2>4
  <2>5. QED
    BY <1>a, <2>2, <2>3, <2>4
<1>5. CASE HandlePipe
  <2>1. commands \in Seq(Command) /\ EmptyCommand.args = <<>>
    BY <1>a DEF TypeOK, EmptyCommand
  <2> DEFINE n == Len(commands) + 1
  <2>2. commands' = Append(commands, EmptyCommand) /\ tokens' = tokens
    BY <1>5 DEF HandlePipe
  <2>3. /\ DOMAIN commands' = DOMAIN commands \union {n} /\ commands'[n] = EmptyCommand
        /\ \A c \in DOMAIN commands : commands'[c] = commands[c]
    BY <2>1, <2>2, EmptyIsCommand, AppendProperties
  <2>4. \A w : ~Contains(EmptyCommand.args, w)
    BY <2>1 DEF Contains
  <2>5. Held' = Held
    BY <2>2, <2>3, <2>4 DEF Held
  <2>6. QED
    BY <1>5, <1>a, <2>5 DEF HandlePipe
<1>6. CASE SyntaxError
  <2>1. Held' = {}
    BY <1>6 DEF SyntaxError, FreeCommands, Held
  <2>2. QED
    BY <1>6, <1>a, <2>1 DEF SyntaxError, FreeCommands, Freed, Once, TypeOK
<1>7. CASE Parsed
  BY <1>7, <1>a DEF Parsed, Held
<1>8. CASE ResetLoop
  <2>1. Held' = {}
    BY <1>8 DEF ResetLoop, Held
  <2>2. QED
    BY <1>8, <1>a, <2>1 DEF ResetLoop, Freed, Once, TypeOK
<1>9. CASE UNCHANGED vars
  BY <1>9, <1>a DEF vars, Held
<1>10. QED
  BY <1>1, <1>2, <1>3, <1>4, <1>5, <1>6, <1>7, <1>8, <1>9 DEF Next

\* The segments of every word of every line have one owner until they are freed,
\* and are freed once, however far the parser came with the line.
THEOREM SegmentsHaveOneOwner == Spec => []SegmentsFreedOnce
<1>1. MInv => SegmentsFreedOnce
  BY DEF MInv
<1>2. QED
  BY MemoryInit, MemoryNext, <1>1, PTL DEF Spec

\* The parser keeps to the tokens of the line and to the types of its lists.
THEOREM TypeCorrect == Spec => []TypeOK
  BY TypesInit, TypesNext, PTL DEF Spec
=============================================================================
