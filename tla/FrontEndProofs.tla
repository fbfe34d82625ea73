---------------------------- MODULE FrontEndProofs ----------------------------
(***************************************************************************)
(* Lexer, parser and expander together, on lines of any length: what each  *)
(* is given by the one before it, who frees the segments, what an          *)
(* ambiguous redirection does, that double quotes and here-documents       *)
(* expand a text alike, which words a command is given, and that these are *)
(* what was typed between two pipes.                                       *)
(***************************************************************************)
EXTENDS FrontEnd, Integers, FiniteSetTheorems, SequenceTheorems, WellFoundedInduction, TLAPS

----------------------------------------------------------------------------
(* Numbers, and functions defined by recursion.                            *)

\* A set of natural numbers that is not empty has a least one.
LEMMA LeastNat ==
  ASSUME NEW S \in SUBSET Nat, S # {}
  PROVE  \E m \in S : \A n \in S : m <= n
<1> DEFINE R == {p \in Nat \X Nat : p[1] < p[2]}
<1>1. R = OpToRel(<, Nat)
  BY DEF OpToRel
<1>2. IsWellFoundedOn(R, Nat)
  BY <1>1, NatLessThanWellFounded, Zenon
<1>3. PICK m \in S : \A n \in S : ~(<<n, m>> \in R)
  <2> HIDE DEF R
  <2> QED
    BY <1>2, WFMin, Zenon
<1>4. \A n \in S : ~(n < m)
  BY <1>3
<1>5. QED
  BY <1>4

\* What holds at 0, and at each number if at the one before it, holds up to n.
LEMMA UpTo ==
  ASSUME NEW n \in Nat, NEW Good \in SUBSET (0 .. n), 0 \in Good,
         \A k \in 1 .. n : k - 1 \in Good => k \in Good
  PROVE  Good = 0 .. n
<1> DEFINE Bad == (0 .. n) \ Good
<1> SUFFICES ASSUME Bad # {} PROVE FALSE
  OBVIOUS
<1>1. Bad \in SUBSET Nat
  OBVIOUS
<1>2. PICK m \in Bad : \A l \in Bad : m <= l
  BY <1>1, LeastNat
<1>3. m \in 1 .. n /\ m - 1 \in 0 .. n /\ ~(m <= m - 1)
  BY <1>2
<1>4. m - 1 \in Good
  BY <1>2, <1>3
<1>5. QED
  BY <1>2, <1>3, <1>4

\* f[k] is made by the k-th step of f[k - 1].
Folds(n, base, step, f) == f = [k \in 0 .. n |-> IF k = 0 THEN base ELSE step[k][f[k - 1]]]

\* Such a function exists, and stays in S if every step does.
LEMMA Folding ==
  ASSUME NEW n \in Nat, NEW S, NEW base \in S, NEW step, \A k \in 1 .. n : step[k] \in [S -> S]
  PROVE  /\ \E f : Folds(n, base, step, f)
         /\ \A f : Folds(n, base, step, f) => \A k \in 0 .. n : f[k] \in S
<1> DEFINE Up(m, f) == f[0] = base /\ \A k \in 1 .. m : f[k] = step[k][f[k - 1]]
           Good == {m \in 0 .. n : \E f \in [0 .. n -> S] : Up(m, f)}
<1>1. 0 \in Good
  <2>1. [k \in 0 .. n |-> base] \in [0 .. n -> S] /\ Up(0, [k \in 0 .. n |-> base])
    OBVIOUS
  <2>2. 0 \in 0 .. n
    OBVIOUS
  <2> HIDE DEF Up
  <2>3. QED
    BY <2>1, <2>2
<1>2. ASSUME NEW m \in 1 .. n, m - 1 \in Good PROVE m \in Good
  <2>1. PICK g \in [0 .. n -> S] : Up(m - 1, g)
    BY <1>2
  <2> DEFINE f == [g EXCEPT ![m] = step[m][g[m - 1]]]
  <2>2. m \in 0 .. n /\ m - 1 \in 0 .. n
    OBVIOUS
  <2>3. step[m][g[m - 1]] \in S
    <3>1. g[m - 1] \in S
      BY <2>2
    <3>2. step[m] \in [S -> S]
      OBVIOUS
    <3>3. QED
      BY <3>1, <3>2
  <2>4. f \in [0 .. n -> S]
    BY <2>3
  <2>5. f[m] = step[m][g[m - 1]] /\ \A k \in 0 .. n : k # m => f[k] = g[k]
    BY <2>2
  <2> HIDE DEF f
  <2>6. f[0] = base
    BY <2>1, <2>5
  <2>7. ASSUME NEW k \in 1 .. m PROVE f[k] = step[k][f[k - 1]]
    <3>1. f[k - 1] = g[k - 1]
      BY <2>5
    <3>2. CASE k = m
      BY <2>5, <3>1, <3>2
    <3>3. CASE k # m
      <4>1. k \in 1 .. m - 1 /\ k \in 0 .. n
        BY <3>3
      <4>2. QED
        BY <2>1, <2>5, <3>1, <3>3, <4>1
    <3>4. QED
      BY <3>2, <3>3
  <2>8. QED
    BY <2>2, <2>4, <2>6, <2>7
<1>3. Good = 0 .. n
  <2> HIDE DEF Good
  <2>1. Good \in SUBSET (0 .. n)
    BY DEF Good
  <2>2. QED
    BY <1>1, <1>2, <2>1, UpTo
<1>4. \E f : Folds(n, base, step, f)
  <2>1. PICK f \in [0 .. n -> S] : Up(n, f)
    <3>1. n \in 0 .. n
      OBVIOUS
    <3> HIDE DEF Up
    <3>2. QED
      BY <1>3, <3>1
  <2>2. \A k \in 0 .. n : f[k] = IF k = 0 THEN base ELSE step[k][f[k - 1]]
    BY <2>1
  <2>3. f = [k \in 0 .. n |-> IF k = 0 THEN base ELSE step[k][f[k - 1]]]
    BY <2>2
  <2>4. QED
    BY <2>3 DEF Folds
<1>5. ASSUME NEW f, Folds(n, base, step, f) PROVE \A k \in 0 .. n : f[k] \in S
  <2> DEFINE Typed == {k \in 0 .. n : f[k] \in S}
  <2>1. \A k \in 0 .. n : f[k] = IF k = 0 THEN base ELSE step[k][f[k - 1]]
    BY <1>5 DEF Folds
  <2>2. 0 \in Typed
    <3>1. 0 \in 0 .. n
      OBVIOUS
    <3>2. f[0] = base
      BY <2>1, <3>1
    <3>3. QED
      BY <3>1, <3>2
  <2>3. ASSUME NEW k \in 1 .. n, k - 1 \in Typed PROVE k \in Typed
    <3>1. k \in 0 .. n /\ k # 0
      OBVIOUS
    <3>2. f[k] = step[k][f[k - 1]]
      BY <2>1, <3>1
    <3>3. step[k] \in [S -> S] /\ f[k - 1] \in S
      BY <2>3
    <3>4. QED
      BY <3>1, <3>2, <3>3
  <2>4. Typed = 0 .. n
    <3> HIDE DEF Typed
    <3>1. Typed \in SUBSET (0 .. n)
      BY DEF Typed
    <3>2. QED
      BY <2>2, <2>3, <3>1, UpTo
  <2>5. QED
    BY <2>4
<1>6. QED
  BY <1>4, <1>5

\* A loop whose turns each leave the index further on: from each index on it
\* makes a text.
Goes(n, turn, f) ==
  f = [k \in 1 .. n + 1 |-> IF k > n THEN <<>> ELSE turn[k].adds \o f[turn[k].next]]

\* A loop whose every turn moves on has a result, and it is text if every turn adds text.
LEMMA LoopEnds ==
  ASSUME NEW n \in Nat, NEW T, NEW turn,
         \A k \in 1 .. n : turn[k].adds \in Seq(T) /\ turn[k].next \in k + 1 .. n + 1
  PROVE  /\ \E f : Goes(n, turn, f)
         /\ \A f : Goes(n, turn, f) => \A k \in 1 .. n + 1 : f[k] \in Seq(T)
<1> DEFINE At(f, k) == IF k > n THEN <<>> ELSE turn[k].adds \o f[turn[k].next]
           Down(j, f) == \A k \in (n + 1) - j .. n + 1 : f[k] = At(f, k)
           Good == {j \in 0 .. n : \E f \in [1 .. n + 1 -> Seq(T)] : Down(j, f)}
<1>1. 0 \in Good
  <2> DEFINE f == [k \in 1 .. n + 1 |-> <<>>]
  <2>1. f \in [1 .. n + 1 -> Seq(T)] /\ Down(0, f)
    OBVIOUS
  <2>2. 0 \in 0 .. n
    OBVIOUS
  <2> HIDE DEF Down, f
  <2>3. QED
    BY <2>1, <2>2
<1>2. ASSUME NEW j \in 1 .. n, j - 1 \in Good PROVE j \in Good
  <2>1. PICK g \in [1 .. n + 1 -> Seq(T)] : Down(j - 1, g)
    BY <1>2
  <2> DEFINE m == (n + 1) - j
             f == [g EXCEPT ![m] = turn[m].adds \o g[turn[m].next]]
  <2>2. /\ m \in 1 .. n /\ turn[m].next \in m + 1 .. n + 1 /\ turn[m].next \in 1 .. n + 1
        /\ turn[m].adds \in Seq(T) /\ m \in 1 .. n + 1
    OBVIOUS
  <2>3. turn[m].adds \o g[turn[m].next] \in Seq(T)
    BY <2>2
  <2>4. f \in [1 .. n + 1 -> Seq(T)]
    BY <2>3
  <2>5. f[m] = turn[m].adds \o g[turn[m].next] /\ \A k \in 1 .. n + 1 : k # m => f[k] = g[k]
    BY <2>2
  <2>6. (n + 1) - (j - 1) = m + 1
    OBVIOUS
  <2> HIDE DEF f
  <2>7. ASSUME NEW k \in m .. n + 1 PROVE f[k] = At(f, k)
    <3>1. CASE k = m
      <4>1. turn[m].next # m /\ ~(m > n)
        BY <2>2
      <4>2. f[turn[m].next] = g[turn[m].next]
        BY <2>2, <2>5, <4>1
      <4>3. QED
        BY <2>5, <3>1, <4>1, <4>2
    <3>2. CASE k # m
      <4>1. k \in m + 1 .. n + 1 /\ k \in 1 .. n + 1
        BY <2>2, <3>2
      <4>2. g[k] = At(g, k)
        BY <2>1, <2>6, <4>1
      <4>3. CASE k > n
        BY <2>5, <3>2, <4>1, <4>2, <4>3
      <4>4. CASE ~(k > n)
        <5>1. k \in 1 .. n
          BY <4>1, <4>4
        <5>2. turn[k].next \in k + 1 .. n + 1
          BY <5>1
        <5>3. turn[k].next \in 1 .. n + 1 /\ turn[k].next # m
          BY <2>2, <4>1, <5>2
        <5>4. f[turn[k].next] = g[turn[k].next]
          BY <2>5, <5>3
        <5>5. QED
          BY <2>5, <3>2, <4>1, <4>2, <4>4, <5>4
      <4>5. QED
        BY <4>3, <4>4
    <3>3. QED
      BY <3>1, <3>2
  <2>8. Down(j, f) /\ j \in 0 .. n
    BY <2>7
  <2> HIDE DEF Down
  <2>9. QED
    BY <2>4, <2>8
<1>3. Good = 0 .. n
  <2> HIDE DEF Good
  <2>1. Good \in SUBSET (0 .. n)
    BY DEF Good
  <2>2. QED
    BY <1>1, <1>2, <2>1, UpTo
<1>4. \E f : Goes(n, turn, f)
  <2>1. PICK f \in [1 .. n + 1 -> Seq(T)] : Down(n, f)
    <3>1. n \in 0 .. n
      OBVIOUS
    <3> HIDE DEF Down
    <3>2. QED
      BY <1>3, <3>1
  <2>2. (n + 1) - n = 1
    OBVIOUS
  <2>3. \A k \in 1 .. n + 1 : f[k] = At(f, k)
    BY <2>1, <2>2
  <2>4. f = [k \in 1 .. n + 1 |-> At(f, k)]
    <3>1. f = [k \in 1 .. n + 1 |-> f[k]]
      BY <2>1
    <3> HIDE DEF At, Down
    <3>2. QED
      BY <2>3, <3>1
  <2>5. QED
    BY <2>4 DEF Goes
<1>5. ASSUME NEW f, Goes(n, turn, f) PROVE \A k \in 1 .. n + 1 : f[k] \in Seq(T)
  <2> DEFINE Typed == {j \in 0 .. n : \A k \in (n + 1) - j .. n + 1 : f[k] \in Seq(T)}
  <2>1. \A k \in 1 .. n + 1 : f[k] = At(f, k)
    BY <1>5 DEF Goes
  <2>2. 0 \in Typed
    <3>1. f[n + 1] = <<>>
      BY <2>1
    <3>2. 0 \in 0 .. n /\ \A k \in (n + 1) - 0 .. n + 1 : k = n + 1
      OBVIOUS
    <3>3. f[n + 1] \in Seq(T)
      BY <3>1
    <3>4. QED
      BY <3>2, <3>3
  <2>3. ASSUME NEW j \in 1 .. n, j - 1 \in Typed PROVE j \in Typed
    <3> DEFINE m == (n + 1) - j
    <3>1. m \in 1 .. n /\ turn[m].next \in m + 1 .. n + 1 /\ turn[m].adds \in Seq(T) /\ m \in 1 .. n + 1
      OBVIOUS
    <3>2. \A k \in m + 1 .. n + 1 : f[k] \in Seq(T)
      <4>1. (n + 1) - (j - 1) = m + 1
        OBVIOUS
      <4>2. QED
        BY <2>3, <4>1
    <3>3. f[m] = turn[m].adds \o f[turn[m].next]
      <4>1. ~(m > n) /\ f[m] = At(f, m)
        BY <2>1, <3>1
      <4>2. QED
        BY <4>1
    <3>4. f[m] \in Seq(T)
      BY <3>1, <3>2, <3>3
    <3>5. \A k \in m .. n + 1 : k = m \/ k \in m + 1 .. n + 1
      OBVIOUS
    <3>6. QED
      BY <3>2, <3>4, <3>5
  <2>4. Typed = 0 .. n
    <3> HIDE DEF Typed
    <3>1. Typed \in SUBSET (0 .. n)
      BY DEF Typed
    <3>2. QED
      BY <2>2, <2>3, <3>1, UpTo
  <2>5. n \in 0 .. n /\ (n + 1) - n = 1
    OBVIOUS
  <2>6. n \in Typed
    BY <2>4, <2>5
  <2>7. QED
    BY <2>5, <2>6
<1>6. QED
  BY <1>4, <1>5

----------------------------------------------------------------------------
(* Sequences.                                                              *)

\* SequencesExt.FlattenSeq, of no sequence and of one more.
LEMMA Flattened ==
  ASSUME NEW S, NEW seqs \in Seq(Seq(S))
  PROVE  \E f : /\ f[0] = <<>> /\ \A k \in 1 .. Len(seqs) : f[k] = f[k - 1] \o seqs[k]
                /\ \A k \in 0 .. Len(seqs) : f[k] \in Seq(S)
                /\ FlattenSeq(seqs) = f[Len(seqs)]
<1> DEFINE n == Len(seqs)
           step == [k \in 1 .. n |-> [t \in Seq(S) |-> t \o seqs[k]]]
           Is(g) == g = [k \in 1 .. n |-> IF k = 1 THEN seqs[k] ELSE g[k - 1] \o seqs[k]]
<1>1. n \in Nat /\ \A k \in 1 .. n : seqs[k] \in Seq(S)
  OBVIOUS
<1>2. FlattenSeq(seqs) = IF n = 0 THEN seqs ELSE (CHOOSE g : Is(g))[n]
  BY DEF FlattenSeq
<1> HIDE DEF n
<1>3. \A k \in 1 .. n : /\ step[k] \in [Seq(S) -> Seq(S)]
                        /\ \A t \in Seq(S) : step[k][t] = t \o seqs[k]
  BY <1>1
<1>4. PICK f : Folds(n, <<>>, step, f) /\ \A k \in 0 .. n : f[k] \in Seq(S)
  <2> HIDE DEF step
  <2>1. <<>> \in Seq(S)
    OBVIOUS
  <2>2. QED
    BY <1>1, <1>3, <2>1, Folding
<1>5. f = [k \in 0 .. n |-> IF k = 0 THEN <<>> ELSE step[k][f[k - 1]]]
  BY <1>4 DEF Folds
<1> HIDE DEF step
<1>6. f[0] = <<>>
  BY <1>1, <1>5
<1>7. ASSUME NEW k \in 1 .. n PROVE f[k] = f[k - 1] \o seqs[k]
  <2>1. k \in 0 .. n /\ k # 0 /\ k - 1 \in 0 .. n
    BY <1>1
  <2>2. f[k] = step[k][f[k - 1]]
    BY <1>5, <2>1
  <2>3. QED
    BY <1>3, <1>4, <2>1, <2>2
<1>8. CASE n = 0
  <2>1. seqs = <<>>
    BY <1>8 DEF n
  <2>2. FlattenSeq(seqs) = f[n]
    BY <1>2, <1>6, <1>8, <2>1
  <2>3. QED
    BY <1>4, <1>6, <1>7, <2>2 DEF n
<1>9. CASE n # 0
  <2> DEFINE h == [k \in 1 .. n |-> f[k]]
  <2>1. \A k \in 1 .. n : h[k] = IF k = 1 THEN seqs[k] ELSE h[k - 1] \o seqs[k]
    <3> SUFFICES ASSUME NEW k \in 1 .. n PROVE h[k] = IF k = 1 THEN seqs[k] ELSE h[k - 1] \o seqs[k]
      OBVIOUS
    <3>1. h[k] = f[k - 1] \o seqs[k]
      BY <1>7
    <3>2. CASE k = 1
      <4>1. h[k] = <<>> \o seqs[k]
        <5>1. k - 1 = 0
          BY <3>2
        <5> HIDE DEF h
        <5>2. QED
          BY <1>6, <3>1, <5>1
      <4>2. <<>> \o seqs[k] = seqs[k]
        <5> DEFINE t == seqs[k]
        <5>1. t \in Seq(S)
          BY <1>1
        <5> HIDE DEF t
        <5>2. <<>> \o t = t
          BY <5>1, ConcatEmptySeq
        <5>3. QED
          BY <5>2 DEF t
      <4>3. QED
        BY <3>2, <4>1, <4>2
    <3>3. CASE k # 1
      <4>1. k - 1 \in 1 .. n
        BY <1>1, <3>3
      <4>2. QED
        BY <3>1, <3>3, <4>1
    <3>4. QED
      BY <3>2, <3>3
  <2>2. h = [k \in 1 .. n |-> h[k]]
    OBVIOUS
  <2> HIDE DEF h
  <2>3. Is(h)
    BY <2>1, <2>2
  <2> DEFINE flat == CHOOSE g : Is(g)
  <2>4. Is(flat)
    <3> HIDE DEF Is
    <3>1. QED
      BY <2>3
  <2>5. FlattenSeq(seqs) = flat[n]
    BY <1>2, <1>9
  <2> HIDE DEF flat
  <2>6. \A k \in 1 .. n : flat[k] = IF k = 1 THEN seqs[k] ELSE flat[k - 1] \o seqs[k]
    BY <2>4
  <2>7. \A k \in 1 .. n : flat[k] = h[k]
    <3> DEFINE Good == {k \in 0 .. n : k # 0 => flat[k] = h[k]}
    <3>1. 0 \in Good
      BY <1>1
    <3>2. ASSUME NEW k \in 1 .. n, k - 1 \in Good PROVE k \in Good
      <4>1. k \in 0 .. n /\ (k # 1 => k - 1 \in 1 .. n /\ k - 1 # 0)
        BY <1>1
      <4>2. k # 1 => flat[k - 1] = h[k - 1]
        BY <3>2, <4>1
      <4>3. flat[k] = h[k]
        BY <2>1, <2>6, <4>2
      <4>4. QED
        BY <4>1, <4>3
    <3>3. Good = 0 .. n
      <4> HIDE DEF Good
      <4>1. Good \in SUBSET (0 .. n)
        BY DEF Good
      <4>2. QED
        BY <1>1, <3>1, <3>2, <4>1, UpTo
    <3>4. ASSUME NEW k \in 1 .. n PROVE flat[k] = h[k]
      <4>1. k \in 0 .. n /\ k # 0
        BY <1>1
      <4>2. QED
        BY <3>3, <4>1
    <3>5. QED
      BY <3>4
  <2>8. n \in 1 .. n
    BY <1>1, <1>9
  <2>9. FlattenSeq(seqs) = f[n]
    BY <2>5, <2>7, <2>8 DEF h
  <2>10. QED
    BY <1>4, <1>6, <1>7, <2>9 DEF n
<1>10. QED
  BY <1>8, <1>9

\* One sequence more.
LEMMA FlattenedOn ==
  ASSUME NEW S, NEW seqs \in Seq(Seq(S)), NEW last \in Seq(S)
  PROVE  FlattenSeq(Append(seqs, last)) = FlattenSeq(seqs) \o last /\ FlattenSeq(seqs) \in Seq(S)
<1> DEFINE longer == Append(seqs, last)
           n == Len(seqs)
           m == n + 1
<1>1. seqs \in Seq(Seq(S)) /\ n \in Nat
  OBVIOUS
<1>2. /\ longer \in Seq(Seq(S)) /\ Len(longer) = m /\ longer[m] = last
      /\ \A k \in 1 .. n : longer[k] = seqs[k]
  BY <1>1, AppendProperties
<1> HIDE DEF longer
<1>3. PICK f : /\ f[0] = <<>> /\ \A k \in 1 .. n : f[k] = f[k - 1] \o seqs[k]
               /\ \A k \in 0 .. n : f[k] \in Seq(S)
               /\ FlattenSeq(seqs) = f[n]
  BY Flattened
<1>4. PICK g : /\ g[0] = <<>> /\ \A k \in 1 .. m : g[k] = g[k - 1] \o longer[k]
               /\ FlattenSeq(longer) = g[m]
  <2> HIDE DEF m, n
  <2>1. QED
    BY <1>2, Flattened
<1>5. m \in 1 .. m /\ m - 1 = n /\ \A k \in 1 .. n : k \in 1 .. m
  BY <1>1
<1> HIDE DEF m, n
<1>6. g[n] = f[n]
  <2> DEFINE Good == {k \in 0 .. n : g[k] = f[k]}
  <2>1. 0 \in Good
    BY <1>1, <1>3, <1>4
  <2>2. ASSUME NEW k \in 1 .. n, k - 1 \in Good PROVE k \in Good
    <3>1. k \in 0 .. n /\ k \in 1 .. m /\ g[k - 1] = f[k - 1]
      BY <1>1, <1>5, <2>2
    <3>2. g[k] = g[k - 1] \o longer[k] /\ longer[k] = seqs[k]
      BY <1>2, <1>4, <3>1
    <3>3. f[k] = f[k - 1] \o seqs[k]
      BY <1>3
    <3>4. QED
      BY <3>1, <3>2, <3>3
  <2>3. Good = 0 .. n
    <3> HIDE DEF Good
    <3>1. Good \in SUBSET (0 .. n)
      BY DEF Good
    <3>2. QED
      BY <1>1, <2>1, <2>2, <3>1, UpTo
  <2>4. n \in 0 .. n
    BY <1>1
  <2>5. QED
    BY <2>3, <2>4
<1>7. g[m] = g[n] \o last
  BY <1>2, <1>4, <1>5
<1>8. f[n] \in Seq(S)
  <2>1. n \in 0 .. n
    BY <1>1
  <2>2. QED
    BY <1>3, <2>1
<1>9. QED
  BY <1>3, <1>4, <1>6, <1>7, <1>8 DEF longer

\* Nothing but empty sequences.
LEMMA FlattenedEmpty ==
  ASSUME NEW S, NEW seqs \in Seq(Seq(S)), \A k \in DOMAIN seqs : seqs[k] = <<>>
  PROVE  FlattenSeq(seqs) = <<>>
<1> DEFINE n == Len(seqs)
<1>1. n \in Nat /\ \A k \in 1 .. n : seqs[k] = <<>>
  OBVIOUS
<1>2. PICK f : /\ f[0] = <<>> /\ \A k \in 1 .. n : f[k] = f[k - 1] \o seqs[k]
               /\ FlattenSeq(seqs) = f[n]
  BY Flattened
<1> HIDE DEF n
<1> DEFINE Good == {k \in 0 .. n : f[k] = <<>>}
<1>3. 0 \in Good
  BY <1>1, <1>2
<1>4. ASSUME NEW k \in 1 .. n, k - 1 \in Good PROVE k \in Good
  <2>1. f[k] = f[k - 1] \o seqs[k]
    BY <1>2
  <2>2. f[k - 1] = <<>> /\ seqs[k] = <<>> /\ k \in 0 .. n
    BY <1>1, <1>4
  <2>3. QED
    BY <2>1, <2>2
<1>5. Good = 0 .. n
  <2> HIDE DEF Good
  <2>1. Good \in SUBSET (0 .. n)
    BY DEF Good
  <2>2. QED
    BY <1>1, <1>3, <1>4, <2>1, UpTo
<1>6. QED
  BY <1>1, <1>2, <1>5

\* Append, by its elements.
LEMMA AppendIs ==
  ASSUME NEW T, NEW s \in Seq(T), NEW x \in T, NEW m, m = Len(s) + 1
  PROVE  Append(s, x) = [k \in 1 .. m |-> IF k = m THEN x ELSE s[k]]
<1> DEFINE longer == Append(s, x)
<1>1. /\ longer \in Seq(T) /\ Len(longer) = m /\ longer[m] = x /\ Len(s) \in Nat
      /\ \A k \in 1 .. Len(s) : longer[k] = s[k]
  BY AppendProperties
<1> HIDE DEF longer
<1>2. longer = [k \in 1 .. m |-> longer[k]]
  BY <1>1
<1>3. \A k \in 1 .. m : longer[k] = IF k = m THEN x ELSE s[k]
  <2>1. \A k \in 1 .. m : k = m \/ k \in 1 .. Len(s)
    BY <1>1
  <2>2. \A k \in 1 .. Len(s) : k # m
    BY <1>1
  <2>3. QED
    BY <1>1, <2>1, <2>2
<1>4. longer = [k \in 1 .. m |-> IF k = m THEN x ELSE s[k]]
  BY <1>2, <1>3
<1>5. QED
  BY <1>4 DEF longer

----------------------------------------------------------------------------
(* expand_text.                                                            *)

\* Where a run that begins at k ends: at the first place of Stop, or at n.
LEMMA RunStops ==
  ASSUME NEW n \in Nat, NEW k \in 0 .. n, NEW Stop
  PROVE  \E j \in k .. n : (j < n => j \in Stop) /\ \A l \in k .. j - 1 : l \notin Stop
<1> DEFINE Ends == {j \in k .. n : j < n => j \in Stop}
<1>1. n \in Ends /\ Ends \in SUBSET Nat
  OBVIOUS
<1>2. PICK j \in Ends : \A l \in Ends : j <= l
  BY <1>1, LeastNat
<1>3. \A l \in k .. j - 1 : l \notin Stop
  <2> SUFFICES ASSUME NEW l \in k .. j - 1, l \in Stop PROVE FALSE
    OBVIOUS
  <2>1. l \in k .. n /\ ~(j <= l)
    BY <1>2
  <2>2. QED
    BY <1>2, <2>1
<1>4. QED
  BY <1>2, <1>3

\* The name behind a dollar.
LEMMA VarLens ==
  ASSUME NEW str \in Exp!Text, NEW k \in 1 .. Len(str)
  PROVE  /\ Exp!VarLen(str, k) \in 0 .. (Len(str) + 1) - k
         /\ str[k] = "?" => Exp!VarLen(str, k) = 1
         /\ str[k] \in Exp!Alnum => Exp!VarLen(str, k) # 0
         /\ str[k] \notin Exp!Alnum \union {"?"} => Exp!VarLen(str, k) = 0
<1> DEFINE n == Len(str) + 1
           Is(m) == /\ m <= Len(str) => str[m] \notin Exp!Alnum
                    /\ \A l \in k .. m - 1 : str[l] \in Exp!Alnum
           end == CHOOSE m \in k .. n : Is(m)
<1>1. Len(str) \in Nat /\ n \in Nat /\ k \in 0 .. n
  BY DEF Exp!Text
<1>2. \E m \in k .. n : Is(m)
  <2> DEFINE Stop == {j \in k .. Len(str) : str[j] \notin Exp!Alnum}
  <2>1. PICK m \in k .. n : (m < n => m \in Stop) /\ \A l \in k .. m - 1 : l \notin Stop
    <3> HIDE DEF Stop, n
    <3> QED
      BY <1>1, RunStops
  <2>2. m <= Len(str) => str[m] \notin Exp!Alnum
    BY <1>1, <2>1
  <2>3. ASSUME NEW l \in k .. m - 1 PROVE str[l] \in Exp!Alnum
    <3>1. l \in k .. Len(str)
      BY <1>1
    <3>2. QED
      BY <2>1, <3>1
  <2>4. QED
    BY <2>2, <2>3
<1>3. end \in k .. n /\ Is(end)
  <2> HIDE DEF Is
  <2> QED
    BY <1>2
<1>4. Exp!VarLen(str, k) = IF str[k] = "?" THEN 1 ELSE end - k
  BY DEF Exp!VarLen
<1> HIDE DEF end
<1>5. str[k] \in Exp!Alnum => end # k
  BY <1>1, <1>3
<1>6. str[k] \notin Exp!Alnum => end = k
  <2> SUFFICES ASSUME str[k] \notin Exp!Alnum, end # k PROVE FALSE
    OBVIOUS
  <2>1. k \in k .. end - 1
    BY <1>1, <1>3
  <2>2. QED
    BY <1>3, <2>1
<1>7. "?" \notin Exp!Alnum
  BY DEF Exp!Alnum, Exp!Letters, Exp!Digits
<1>8. end - k \in 0 .. (Len(str) + 1) - k /\ 1 \in 0 .. (Len(str) + 1) - k
      /\ (end = k => end - k = 0) /\ (end # k => end - k # 0)
  BY <1>1, <1>3
<1> HIDE DEF Is
<1>9. QED
  BY <1>4, <1>5, <1>6, <1>7, <1>8

\* The same of Loop.
LEMMA LoopText ==
  ASSUME NEW n \in Nat, NEW turn, Len(turn) = n,
         \A k \in 1 .. n : turn[k].adds \in Exp!Text /\ turn[k].next \in k + 1 .. n + 1
  PROVE  Exp!Loop(turn) \in Exp!Text
<1>1. Exp!Loop(turn) = (CHOOSE f : Goes(n, turn, f))[1]
  BY DEF Exp!Loop, Goes
<1>2. /\ \E f : Goes(n, turn, f)
      /\ \A f : Goes(n, turn, f) => \A k \in 1 .. n + 1 : f[k] \in Exp!Text
  BY LoopEnds DEF Exp!Text
<1>3. 1 \in 1 .. n + 1
  OBVIOUS
<1>4. QED
  BY <1>1, <1>2, <1>3

\* The value of a variable is text.
LEMMA Values ==
  ASSUME env \in Envs, NEW key, NEW st
  PROVE  Exp!FetchValue(key, st) \in Exp!Text
<1>1. Exp!Itoa(st) \in Exp!Text
  BY DEF Exp!Itoa, Exp!Text, Exp!Char, Exp!Alnum, Exp!Digits
<1>2. key \in DOMAIN env => env[key] \in Exp!Text
  BY ExpanderParameters DEF Exp!Parameters
<1>3. <<>> \in Exp!Text
  BY DEF Exp!Text
<1>4. QED
  BY <1>1, <1>2, <1>3 DEF Exp!FetchValue

\* Each turn of expand_text adds text and moves on.
LEMMA Turns ==
  ASSUME env \in Envs, NEW str \in Exp!Text, NEW k \in 1 .. Len(str), NEW st
  PROVE  /\ Exp!ExpandTurn(str, k, st).adds \in Exp!Text
         /\ Exp!ExpandTurn(str, k, st).next \in k + 1 .. Len(str) + 1
<1>1. Len(str) \in Nat /\ str[k] \in Exp!Char
  BY DEF Exp!Text
<1>2. CASE str[k] # "$" \/ k = Len(str)
  <2>1. Exp!ExpandTurn(str, k, st) = [adds |-> <<str[k]>>, next |-> k + 1]
    BY <1>2 DEF Exp!ExpandTurn
  <2>2. <<str[k]>> \in Exp!Text /\ k + 1 \in k + 1 .. Len(str) + 1
    BY <1>1 DEF Exp!Text
  <2>3. QED
    BY <2>1, <2>2
<1>3. CASE str[k] = "$" /\ k # Len(str)
  <2>1. k + 1 \in 1 .. Len(str) /\ k + 2 \in k + 1 .. Len(str) + 1
    BY <1>1, <1>3
  <2>2. CASE str[k + 1] \in Exp!Digits
    <3>1. Exp!ExpandTurn(str, k, st) = [adds |-> <<>>, next |-> k + 2]
      BY <1>3, <2>2 DEF Exp!ExpandTurn
    <3>2. <<>> \in Exp!Text
      BY DEF Exp!Text
    <3>3. QED
      BY <2>1, <3>1, <3>2
  <2>3. CASE str[k + 1] \notin Exp!Digits
    <3> DEFINE len == Exp!VarLen(str, k + 1)
               key == SubSeq(str, k + 1, k + len)
               adds == IF len = 0 THEN <<"$">> ELSE Exp!FetchValue(key, st)
    <3>1. Exp!ExpandTurn(str, k, st) = [adds |-> adds, next |-> k + 1 + len]
      BY <1>3, <2>3 DEF Exp!ExpandTurn
    <3>2. len \in 0 .. (Len(str) + 1) - (k + 1)
      BY <2>1, VarLens
    <3>3. adds \in Exp!Text
      <4>1. <<"$">> \in Exp!Text
        BY DEF Exp!Text, Exp!Char
      <4>2. QED
        BY <4>1, Values
    <3> HIDE DEF len, adds
    <3>4. k + 1 + len \in k + 1 .. Len(str) + 1
      BY <1>1, <3>2
    <3>5. QED
      BY <3>1, <3>3, <3>4
  <2>4. QED
    BY <2>2, <2>3
<1>4. QED
  BY <1>2, <1>3

\* A text expanded is a text.
LEMMA Expanded ==
  ASSUME env \in Envs, NEW str \in Exp!Text, NEW st
  PROVE  Exp!ExpandTextAt(str, st) \in Exp!Text
<1> DEFINE turn == [k \in DOMAIN str |-> Exp!ExpandTurn(str, k, st)]
<1>1. Len(str) \in Nat /\ DOMAIN str = 1 .. Len(str)
  BY DEF Exp!Text
<1>2. Len(turn) = Len(str)
  BY <1>1
<1>3. \A k \in 1 .. Len(str) : turn[k] = Exp!ExpandTurn(str, k, st)
  BY <1>1
<1> HIDE DEF turn
<1>4. \A k \in 1 .. Len(str) : turn[k].adds \in Exp!Text /\ turn[k].next \in k + 1 .. Len(str) + 1
  BY <1>3, Turns
<1>5. Exp!Loop(turn) \in Exp!Text
  BY <1>1, <1>2, <1>4, LoopText
<1>6. QED
  BY <1>5 DEF turn, Exp!ExpandTextAt

\* The turns of expand_text and of a here-document's line are the same, though
\* each tells the cases apart in its own way.
LEMMA SameTurns ==
  ASSUME NEW str \in Exp!Text, NEW k \in 1 .. Len(str)
  PROVE  Exp!ExpandTurn(str, k, status) =
           IF str[k] # "$" \/ k = Len(str) THEN [adds |-> <<str[k]>>, next |-> k + 1]
           ELSE Exp!ExpandDollar(str, k)
<1>1. Len(str) \in Nat
  BY DEF Exp!Text
<1>2. CASE str[k] # "$" \/ k = Len(str)
  BY <1>2 DEF Exp!ExpandTurn
<1>3. CASE str[k] = "$" /\ k # Len(str)
  <2> DEFINE ch == str[k + 1]
             len == Exp!VarLen(str, k + 1)
             key == SubSeq(str, k + 1, k + len)
  <2>1. k + 1 \in 1 .. Len(str)
    BY <1>1, <1>3
  <2>2. Exp!ExpandTurn(str, k, status) =
          IF ch \in Exp!Digits THEN [adds |-> <<>>, next |-> k + 2]
          ELSE [adds |-> IF len = 0 THEN <<"$">> ELSE Exp!FetchValue(key, status), next |-> k + 1 + len]
    BY <1>3 DEF Exp!ExpandTurn
  <2>3. /\ len \in 0 .. (Len(str) + 1) - (k + 1)
        /\ ch = "?" => len = 1
        /\ ch \in Exp!Alnum => len # 0
        /\ ch \notin Exp!Alnum \union {"?"} => len = 0
    BY <2>1, VarLens
  <2>4. Exp!Alnum = Exp!Letters \union Exp!Digits /\ Exp!Letters \cap Exp!Digits = {}
        /\ "?" \notin Exp!Letters /\ "?" \notin Exp!Digits
    BY DEF Exp!Alnum, Exp!Letters, Exp!Digits
  <2>5. Exp!ExpandDollar(str, k) =
          CASE ch = "?" -> [adds |-> Exp!Itoa(status), next |-> k + 2]
            [] ch \in Exp!Letters -> [adds |-> Exp!FetchValue(key, status), next |-> k + 1 + len]
            [] ch \in Exp!Digits -> [adds |-> <<>>, next |-> k + 2]
            [] OTHER -> [adds |-> <<"$">>, next |-> k + 1]
    BY DEF Exp!ExpandDollar
  <2> HIDE DEF len
  <2>6. CASE ch = "?"
    <3>1. len = 1 /\ k + 1 + len = k + 2
      BY <2>3, <2>6
    <3>2. key = <<"?">>
      <4>1. SubSeq(str, k + 1, k + 1) = <<str[k + 1]>>
        <5> DEFINE s == SubSeq(str, k + 1, k + 1)
        <5>1. s \in Exp!Text /\ Len(s) = 1 /\ s[1] = str[k + 1]
          BY <1>1, <2>1 DEF Exp!Text
        <5> HIDE DEF s
        <5>2. s = <<s[1]>>
          BY <5>1 DEF Exp!Text
        <5>3. QED
          BY <5>1, <5>2 DEF s
      <4>2. QED
        BY <2>6, <3>1, <4>1
    <3>3. Exp!FetchValue(<<"?">>, status) = Exp!Itoa(status)
      BY DEF Exp!FetchValue
    <3> HIDE DEF ch, key
    <3>4. Exp!ExpandTurn(str, k, status) = [adds |-> Exp!Itoa(status), next |-> k + 2]
      BY <2>2, <2>4, <2>6, <3>1, <3>2, <3>3
    <3>5. Exp!ExpandDollar(str, k) = [adds |-> Exp!Itoa(status), next |-> k + 2]
      BY <2>4, <2>5, <2>6
    <3>6. QED
      BY <1>3, <3>4, <3>5
  <2>7. CASE ch \in Exp!Letters
    <3> HIDE DEF ch, key
    <3>1. len # 0 /\ ch \notin Exp!Digits /\ ch # "?"
      BY <2>3, <2>4, <2>7
    <3>2. Exp!ExpandTurn(str, k, status) = [adds |-> Exp!FetchValue(key, status), next |-> k + 1 + len]
      BY <2>2, <3>1
    <3>3. Exp!ExpandDollar(str, k) = [adds |-> Exp!FetchValue(key, status), next |-> k + 1 + len]
      BY <2>5, <2>7, <3>1
    <3>4. QED
      BY <1>3, <3>2, <3>3
  <2>8. CASE ch \in Exp!Digits
    <3> HIDE DEF ch, key
    <3>1. ch \notin Exp!Letters /\ ch # "?"
      BY <2>4, <2>8
    <3>2. Exp!ExpandDollar(str, k) = [adds |-> <<>>, next |-> k + 2]
      BY <2>5, <2>8, <3>1
    <3>3. QED
      BY <1>3, <2>2, <2>8, <3>2
  <2>9. CASE ch # "?" /\ ch \notin Exp!Alnum
    <3> HIDE DEF ch, key
    <3>1. len = 0 /\ ch \notin Exp!Letters /\ ch \notin Exp!Digits /\ k + 1 + 0 = k + 1
      BY <2>3, <2>4, <2>9
    <3>2. Exp!ExpandDollar(str, k) = [adds |-> <<"$">>, next |-> k + 1]
      BY <2>5, <2>9, <3>1
    <3>3. Exp!ExpandTurn(str, k, status) = [adds |-> <<"$">>, next |-> k + 1]
      BY <2>2, <3>1
    <3>4. QED
      BY <1>3, <3>2, <3>3
  <2>10. QED
    BY <2>4, <2>6, <2>7, <2>8, <2>9
<1>4. QED
  BY <1>2, <1>3

\* Turn by turn alike, the two give the same text.
LEMMA SameText ==
  ASSUME NEW str \in Exp!Text
  PROVE  Exp!ExpandText(str) = Exp!ExpandHeredocLine(str)
<1> DEFINE turn(k) == IF str[k] # "$" \/ k = Len(str) THEN [adds |-> <<str[k]>>, next |-> k + 1]
                      ELSE Exp!ExpandDollar(str, k)
<1>1. DOMAIN str = 1 .. Len(str)
  BY DEF Exp!Text
<1>2. \A k \in DOMAIN str : Exp!ExpandTurn(str, k, status) = turn(k)
  BY <1>1, SameTurns
<1>3. Exp!ExpandHeredocLine(str) = Exp!Loop([k \in DOMAIN str |-> turn(k)])
  BY DEF Exp!ExpandHeredocLine
<1>4. Exp!ExpandText(str) = Exp!Loop([k \in DOMAIN str |-> Exp!ExpandTurn(str, k, status)])
  BY DEF Exp!ExpandText, Exp!ExpandTextAt
<1> HIDE DEF turn
<1>5. [k \in DOMAIN str |-> turn(k)] = [k \in DOMAIN str |-> Exp!ExpandTurn(str, k, status)]
  BY <1>2
<1>6. QED
  BY <1>3, <1>4, <1>5

----------------------------------------------------------------------------
(* expand_arg_to_list.                                                     *)

\* The pointer is no text.
LEMMA NullIsNoText == NULL \notin Exp!Text
  BY ExpanderParameters DEF Exp!Parameters

\* The parts of a list that is not empty.
LEMMA ListParts ==
  ASSUME NEW list \in Exp!List
  PROVE  /\ list \in Seq(Exp!Text \union {NULL}) /\ Len(list) \in Nat \ {0}
         /\ Exp!Front(list) \in Seq(Exp!Text \union {NULL})
         /\ Exp!Last(list) \in Exp!Text \union {NULL}
<1>1. list \in Seq(Exp!Text \union {NULL}) /\ list # <<>>
  BY DEF Exp!List
<1>2. Len(list) \in Nat \ {0}
  BY <1>1
<1>3. Exp!Front(list) = SubSeq(list, 1, Len(list) - 1) /\ Exp!Last(list) = list[Len(list)]
  BY DEF Exp!Front, Exp!Last
<1>4. QED
  BY <1>1, <1>2, <1>3

\* An element more.
LEMMA Longer ==
  ASSUME NEW T, NEW s \in Seq(T), NEW e \in T
  PROVE  Append(s, e) \in Seq(T) \ {<<>>}
  BY AppendProperties

\* append_val makes a list of a list.
LEMMA ValAppended ==
  ASSUME NEW list \in Exp!List, NEW str \in Exp!Text
  PROVE  Exp!AppendVal(list, str) \in Exp!List
<1> DEFINE last == IF Exp!Last(list) = NULL THEN str ELSE Exp!Last(list) \o str
<1>1. last \in Exp!Text
  <2>1. Exp!Last(list) # NULL => Exp!Last(list) \in Exp!Text
    BY ListParts
  <2>2. \A a, b \in Exp!Text : a \o b \in Exp!Text
    BY DEF Exp!Text
  <2>3. QED
    BY <2>1, <2>2
<1>2. Exp!AppendVal(list, str) = Append(Exp!Front(list), last)
  BY DEF Exp!AppendVal
<1> HIDE DEF last
<1>3. QED
  BY <1>1, <1>2, ListParts, Longer DEF Exp!List

\* So does each character.
LEMMA CharAppended ==
  ASSUME NEW ch \in Exp!Char
  PROVE  Exp!UnquotedChar(ch) \in [Exp!List -> Exp!List]
<1>1. <<ch>> \in Exp!Text
  BY DEF Exp!Text
<1>2. ASSUME NEW list \in Exp!List PROVE Exp!UnquotedChar(ch)[list] \in Exp!List
  <2>1. Exp!AppendVal(list, <<ch>>) \in Exp!List
    BY <1>1, ValAppended
  <2>2. Append(list, NULL) \in Exp!List
    BY ListParts, Longer DEF Exp!List
  <2>3. Exp!UnquotedChar(ch)[list] \in {Exp!AppendVal(list, <<ch>>), Append(list, NULL), list}
    BY DEF Exp!UnquotedChar
  <2>4. QED
    BY <2>1, <2>2, <2>3
<1>3. Exp!UnquotedChar(ch) = [list \in Exp!List |-> Exp!UnquotedChar(ch)[list]]
  BY DEF Exp!UnquotedChar
<1>4. QED
  BY <1>2, <1>3

\* handle_unquoted, as the lists it goes through.
LEMMA UnquotedFolds ==
  ASSUME NEW list \in Exp!List, NEW val \in Exp!Text
  PROVE  \E f : /\ f[0] = list
                /\ \A k \in 1 .. Len(val) : f[k] = Exp!UnquotedChar(val[k])[f[k - 1]]
                /\ \A k \in 0 .. Len(val) : f[k] \in Exp!List
                /\ Exp!HandleUnquoted(list, val) = f[Len(val)]
<1> DEFINE n == Len(val)
           step == [k \in 1 .. n |-> Exp!UnquotedChar(val[k])]
           Is(g) == g = [k \in 0 .. n |-> IF k = 0 THEN list ELSE Exp!UnquotedChar(val[k])[g[k - 1]]]
           f == CHOOSE g : Is(g)
<1>1. n \in Nat
  BY DEF Exp!Text
<1>2. \A k \in 1 .. n : val[k] \in Exp!Char
  BY DEF Exp!Text
<1>3. Exp!HandleUnquoted(list, val) = f[n]
  BY DEF Exp!HandleUnquoted
<1> HIDE DEF n
<1>4. \A k \in 1 .. n : step[k] = Exp!UnquotedChar(val[k]) /\ step[k] \in [Exp!List -> Exp!List]
  BY <1>2, CharAppended
<1>5. ASSUME NEW g PROVE Is(g) <=> Folds(n, list, step, g)
  <2> HIDE DEF step
  <2>1. \A k \in 0 .. n : k # 0 => k \in 1 .. n
    BY <1>1
  <2>2. \A k \in 0 .. n : (IF k = 0 THEN list ELSE Exp!UnquotedChar(val[k])[g[k - 1]])
                            = IF k = 0 THEN list ELSE step[k][g[k - 1]]
    BY <1>4, <2>1
  <2>3. QED
    BY <2>2 DEF Folds
<1> HIDE DEF step, Is
<1>6. /\ \E g : Folds(n, list, step, g)
      /\ \A g : Folds(n, list, step, g) => \A k \in 0 .. n : g[k] \in Exp!List
  BY <1>1, <1>4, Folding
<1>7. Is(f)
  BY <1>5, <1>6
<1> HIDE DEF f
<1>8. \A k \in 0 .. n : f[k] \in Exp!List
  BY <1>5, <1>6, <1>7
<1>9. f[0] = list /\ \A k \in 1 .. n : f[k] = Exp!UnquotedChar(val[k])[f[k - 1]]
  <2>1. \A k \in 0 .. n : f[k] = IF k = 0 THEN list ELSE Exp!UnquotedChar(val[k])[f[k - 1]]
    BY <1>7 DEF Is
  <2>2. 0 \in 0 .. n /\ \A k \in 1 .. n : k \in 0 .. n /\ k # 0
    BY <1>1
  <2>3. QED
    BY <2>1, <2>2
<1>10. QED
  BY <1>3, <1>8, <1>9 DEF n

\* So does the whole text.
LEMMA UnquotedHandled ==
  ASSUME NEW list \in Exp!List, NEW val \in Exp!Text
  PROVE  Exp!HandleUnquoted(list, val) \in Exp!List
<1>1. Len(val) \in 0 .. Len(val)
  BY DEF Exp!Text
<1>2. QED
  BY <1>1, UnquotedFolds

\* process_segment: so does each segment.
LEMMA SegmentProcessed ==
  ASSUME env \in Envs, NEW seg \in Exp!Segment
  PROVE  Exp!ProcessSegment(seg) \in [Exp!List -> Exp!List]
<1>1. seg.quote \in {"none", "single", "double"} /\ seg.value \in Exp!Text
  BY DEF Exp!Segment
<1>2. Exp!ExpandText(seg.value) \in Exp!Text
  BY <1>1, Expanded DEF Exp!ExpandText
<1> DEFINE made(list) ==
             CASE seg.quote = "single" -> Exp!AppendVal(list, seg.value)
               [] seg.quote = "double" -> Exp!AppendVal(list, Exp!ExpandText(seg.value))
               [] seg.quote = "none" -> Exp!HandleUnquoted(list, Exp!ExpandText(seg.value))
<1>3. ASSUME NEW list \in Exp!List PROVE made(list) \in Exp!List
  <2>1. /\ Exp!AppendVal(list, seg.value) \in Exp!List
        /\ Exp!AppendVal(list, Exp!ExpandText(seg.value)) \in Exp!List
        /\ Exp!HandleUnquoted(list, Exp!ExpandText(seg.value)) \in Exp!List
    BY <1>1, <1>2, ValAppended, UnquotedHandled
  <2>2. QED
    BY <1>1, <2>1
<1>4. Exp!ProcessSegment(seg) = [list \in Exp!List |-> made(list)]
  BY DEF Exp!ProcessSegment
<1> HIDE DEF made
<1>5. QED
  BY <1>3, <1>4

\* The lists an argument becomes, one more for each of its segments.
LEMMA ArgFolds ==
  ASSUME env \in Envs, NEW segs \in Seq(Exp!Segment)
  PROVE  \E f : /\ f[0] = <<NULL>>
                /\ \A k \in 1 .. Len(segs) : f[k] = Exp!ProcessSegment(segs[k])[f[k - 1]]
                /\ f[Len(segs)] \in Exp!List
                /\ Exp!ExpandArgToList(segs) = IF f[Len(segs)] = <<NULL>> THEN <<>> ELSE f[Len(segs)]
<1> DEFINE n == Len(segs)
           step == [k \in 1 .. n |-> Exp!ProcessSegment(segs[k])]
           Is(f) == f = [k \in 0 .. n |-> IF k = 0 THEN <<NULL>> ELSE Exp!ProcessSegment(segs[k])[f[k - 1]]]
           f == CHOOSE f : Is(f)
<1>1. n \in Nat
  OBVIOUS
<1>2. \A k \in 1 .. n : segs[k] \in Exp!Segment
  OBVIOUS
<1>3. Exp!ExpandArgToList(segs) = IF f[n] = <<NULL>> THEN <<>> ELSE f[n]
  BY DEF Exp!ExpandArgToList
<1>a. <<NULL>> \in Exp!List
  BY DEF Exp!List
<1> HIDE DEF n
<1>4. \A k \in 1 .. n : step[k] = Exp!ProcessSegment(segs[k]) /\ step[k] \in [Exp!List -> Exp!List]
  BY <1>2, SegmentProcessed
<1>5. ASSUME NEW g PROVE Is(g) <=> Folds(n, <<NULL>>, step, g)
  <2> HIDE DEF step
  <2>1. \A k \in 0 .. n : k # 0 => k \in 1 .. n
    BY <1>1
  <2>2. \A k \in 0 .. n : (IF k = 0 THEN <<NULL>> ELSE Exp!ProcessSegment(segs[k])[g[k - 1]])
                            = IF k = 0 THEN <<NULL>> ELSE step[k][g[k - 1]]
    BY <1>4, <2>1
  <2>3. QED
    BY <2>2 DEF Folds
<1> HIDE DEF step, Is
<1>6. /\ \E g : Folds(n, <<NULL>>, step, g)
      /\ \A g : Folds(n, <<NULL>>, step, g) => \A k \in 0 .. n : g[k] \in Exp!List
  BY <1>1, <1>4, <1>a, Folding
<1>7. Is(f)
  BY <1>5, <1>6
<1> HIDE DEF f
<1>8. f[n] \in Exp!List
  <2>1. n \in 0 .. n
    BY <1>1
  <2>2. QED
    BY <1>5, <1>6, <1>7, <2>1
<1>9. f[0] = <<NULL>> /\ \A k \in 1 .. n : f[k] = Exp!ProcessSegment(segs[k])[f[k - 1]]
  <2>1. \A k \in 0 .. n : f[k] = IF k = 0 THEN <<NULL>> ELSE Exp!ProcessSegment(segs[k])[f[k - 1]]
    BY <1>7 DEF Is
  <2>2. 0 \in 0 .. n /\ \A k \in 1 .. n : k \in 0 .. n /\ k # 0
    BY <1>1
  <2>3. QED
    BY <2>1, <2>2
<1>10. QED
  BY <1>3, <1>8, <1>9 DEF n

\* expand_arg_to_list: what takes the place of an argument.
LEMMA ArgList ==
  ASSUME env \in Envs, NEW segs \in Seq(Exp!Segment)
  PROVE  Exp!ExpandArgToList(segs) \in Seq(Exp!Text \union {NULL})
<1>1. PICK f : /\ f[Len(segs)] \in Exp!List
               /\ Exp!ExpandArgToList(segs) = IF f[Len(segs)] = <<NULL>> THEN <<>> ELSE f[Len(segs)]
  BY ArgFolds
<1>2. QED
  BY <1>1, ListParts

\* A word in double quotes becomes one value, its text expanded.
LEMMA DoubleQuoted ==
  ASSUME env \in Envs, NEW segs \in Seq(Exp!Segment), Len(segs) = 1, segs[1].quote = "double"
  PROVE  /\ Exp!ExpandArgToList(segs) = <<Exp!ExpandText(segs[1].value)>>
         /\ segs[1].value \in Exp!Text
<1> DEFINE text == Exp!ExpandText(segs[1].value)
<1>1. PICK f : /\ f[0] = <<NULL>>
               /\ \A k \in 1 .. Len(segs) : f[k] = Exp!ProcessSegment(segs[k])[f[k - 1]]
               /\ Exp!ExpandArgToList(segs) = IF f[Len(segs)] = <<NULL>> THEN <<>> ELSE f[Len(segs)]
  BY ArgFolds
<1>2. segs[1].value \in Exp!Text
  <2>1. segs[1] \in Exp!Segment
    OBVIOUS
  <2>2. QED
    BY <2>1 DEF Exp!Segment
<1>3. text \in Exp!Text /\ text # NULL
  BY <1>2, Expanded, NullIsNoText DEF Exp!ExpandText
<1>4. f[0] = <<NULL>> /\ f[1] = Exp!ProcessSegment(segs[1])[f[0]]
  BY <1>1
<1>5. <<NULL>> \in Exp!List
  BY DEF Exp!List
<1> HIDE DEF text
<1>6. f[1] = Exp!AppendVal(<<NULL>>, text)
  BY <1>4, <1>5 DEF Exp!ProcessSegment, text
<1>7. Exp!AppendVal(<<NULL>>, text) = <<text>>
  <2>1. Exp!Front(<<NULL>>) = <<>> /\ Exp!Last(<<NULL>>) = NULL
    BY DEF Exp!Front, Exp!Last
  <2>2. QED
    BY <2>1 DEF Exp!AppendVal
<1>8. <<text>> # <<NULL>>
  BY <1>3
<1>9. QED
  BY <1>1, <1>2, <1>6, <1>7, <1>8 DEF text

----------------------------------------------------------------------------
(* The words an argument splits into.                                      *)

\* The expander's instances of library operators.
LEMMA SameLibrary ==
  /\ \A seqs : Exp!FlattenSeq(seqs) = FlattenSeq(seqs)
  /\ \A S : Exp!Cardinality(S) = Cardinality(S)
<1>1. \A seqs : Exp!FlattenSeq(seqs) = FlattenSeq(seqs)
  BY DEF Exp!FlattenSeq, FlattenSeq
<1>2. \A S : Exp!Cardinality(S) = Cardinality(S)
  BY DEF Exp!Cardinality, Cardinality
<1>3. QED
  BY <1>1, <1>2

Piece == [ch : Exp!Text, bare : BOOLEAN]

\* The parts of the pieces that belong to the w-th word.
Parts(p, w) ==
  [k \in DOMAIN p |-> IF ~Exp!Splits(p[k]) /\ Exp!Begun(p, k) = w THEN p[k].ch ELSE <<>>]

\* Where a piece would begin a word.
Opens(p) == p = <<>> \/ Exp!Splits(p[Len(p)])

\* The words begun are counted up, and one piece more begins one or none.
LEMMA BegunCounts ==
  ASSUME NEW p \in Seq(Piece), NEW e \in Piece
  PROVE  /\ \A k \in 0 .. Len(p) : /\ Exp!Begun(p, k) \in Nat /\ Exp!Begun(p, k) <= Exp!Begun(p, Len(p))
                                   /\ Exp!Begun(Append(p, e), k) = Exp!Begun(p, k)
         /\ Exp!Begun(p, 0) = 0
         /\ Exp!Begun(Append(p, e), Len(p) + 1) =
              Exp!Begun(p, Len(p)) + IF ~Exp!Splits(e) /\ Opens(p) THEN 1 ELSE 0
<1> DEFINE n == Len(p)
           q == Append(p, e)
           first(s, k) == {j \in 1 .. k : ~Exp!Splits(s[j]) /\ (j > 1 => Exp!Splits(s[j - 1]))}
<1>1. n \in Nat /\ q \in Seq(Piece) /\ q[n + 1] = e /\ \A k \in 1 .. n : q[k] = p[k]
  BY AppendProperties
<1>2. \A s, k : Exp!Begun(s, k) = Cardinality(first(s, k))
  BY SameLibrary DEF Exp!Begun
<1>a. p # <<>> <=> n > 0
  OBVIOUS
<1>b. Opens(p) <=> n = 0 \/ Exp!Splits(p[n])
  BY <1>a DEF Opens
<1> HIDE DEF n, q
<1>3. ASSUME NEW k \in 0 .. n
      PROVE  /\ first(q, k) = first(p, k) /\ first(p, k) \subseteq first(p, n)
             /\ IsFiniteSet(first(p, k)) /\ Cardinality(first(p, k)) \in Nat
             /\ Cardinality(first(p, k)) <= Cardinality(first(p, n))
  <2>1. \A j \in 1 .. k : q[j] = p[j] /\ (j > 1 => q[j - 1] = p[j - 1])
    BY <1>1
  <2>2. first(q, k) = first(p, k)
    BY <2>1
  <2>3. first(p, k) \subseteq first(p, n)
    BY <1>1
  <2>4. IsFiniteSet(1 .. n) /\ first(p, n) \subseteq 1 .. n
    <3>1. first(p, n) \subseteq 1 .. n
      OBVIOUS
    <3> HIDE DEF first
    <3>2. 1 \in Int /\ n \in Int
      BY <1>1
    <3>3. IsFiniteSet(1 .. n)
      BY <3>2, FS_Interval
    <3>4. QED
      BY <3>1, <3>3
  <2> HIDE DEF first
  <2>5. IsFiniteSet(first(p, n))
    BY <2>4, FS_Subset
  <2>6. QED
    BY <2>2, <2>3, <2>5, FS_Subset, FS_CardinalityType
<1>4. first(p, 0) = {}
  OBVIOUS
<1>5. first(q, n + 1) = first(p, n) \union IF ~Exp!Splits(e) /\ Opens(p) THEN {n + 1} ELSE {}
  <2>1. \A j : j \in 1 .. n + 1 <=> j \in 1 .. n \/ j = n + 1
    BY <1>1
  <2>2. n + 1 > 1 <=> n # 0
    BY <1>1
  <2>3. n # 0 => q[n + 1 - 1] = p[n]
    BY <1>1
  <2>4. n + 1 \in first(q, n + 1) <=> ~Exp!Splits(e) /\ Opens(p)
    BY <1>1, <1>b, <2>2, <2>3
  <2>5. \A j \in 1 .. n : j \in first(q, n + 1) <=> j \in first(q, n)
    BY <1>1
  <2>6. n \in 0 .. n /\ first(q, n) = first(p, n)
    <3> HIDE DEF first
    <3>1. QED
      BY <1>1, <1>3
  <2>7. first(q, n + 1) \subseteq 1 .. n + 1 /\ first(p, n) \subseteq 1 .. n
    OBVIOUS
  <2> HIDE DEF first
  <2>8. QED
    BY <2>1, <2>4, <2>5, <2>6, <2>7
<1>6. n + 1 \notin first(p, n)
  BY <1>1
<1> HIDE DEF first
<1>7. n \in 0 .. n
  BY <1>1
<1>8. Cardinality(first(q, n + 1)) = Cardinality(first(p, n)) + IF ~Exp!Splits(e) /\ Opens(p) THEN 1 ELSE 0
  <2>1. IsFiniteSet(first(p, n)) /\ Cardinality(first(p, n)) \in Nat
    BY <1>3, <1>7
  <2>2. Cardinality(first(p, n) \union {n + 1}) = Cardinality(first(p, n)) + 1
    BY <1>6, <2>1, FS_AddElement
  <2>3. CASE ~Exp!Splits(e) /\ Opens(p)
    BY <1>5, <2>2, <2>3
  <2>4. CASE ~(~Exp!Splits(e) /\ Opens(p))
    <3>1. first(q, n + 1) = first(p, n)
      BY <1>5, <2>4
    <3>2. QED
      BY <2>1, <2>4, <3>1
  <2>5. QED
    BY <2>3, <2>4
<1>9. Cardinality(first(p, 0)) = 0
  BY <1>4, FS_EmptySet
<1>10. QED
  BY <1>2, <1>3, <1>8, <1>9 DEF n, q

\* The words of one piece more: the same, one more, or the last one longer.
LEMMA MoreWords ==
  ASSUME NEW p \in Seq(Piece), NEW e \in Piece, Exp!WordsIn(p) \in Seq(Exp!Text)
  PROVE  /\ Exp!Splits(e) => Exp!WordsIn(Append(p, e)) = Exp!WordsIn(p)
         /\ ~Exp!Splits(e) /\ Opens(p) => Exp!WordsIn(Append(p, e)) = Append(Exp!WordsIn(p), e.ch)
         /\ ~Exp!Splits(e) /\ ~Opens(p) /\ Exp!WordsIn(p) # <<>> =>
              Exp!WordsIn(Append(p, e)) = Exp!AppendVal(Exp!WordsIn(p), e.ch)
<1> DEFINE n == Len(p)
           q == Append(p, e)
           m == Exp!Begun(p, n)
           W == Exp!WordsIn(p)
           V == Exp!WordsIn(q)
           more == IF ~Exp!Splits(e) /\ Opens(p) THEN 1 ELSE 0
<1>1. /\ n \in Nat /\ q \in Seq(Piece) /\ q[n + 1] = e /\ Len(q) = n + 1 /\ DOMAIN q = 1 .. n + 1
      /\ DOMAIN p = 1 .. n /\ \A k \in 1 .. n : q[k] = p[k]
  BY AppendProperties
<1>2. /\ \A k \in 0 .. n : /\ Exp!Begun(p, k) \in Nat /\ Exp!Begun(p, k) <= m
                            /\ Exp!Begun(q, k) = Exp!Begun(p, k)
      /\ Exp!Begun(q, n + 1) = m + more
  BY BegunCounts
<1>3. m \in Nat /\ more \in {0, 1}
  <2>1. n \in 0 .. n
    BY <1>1
  <2> HIDE DEF n, q
  <2>2. QED
    BY <1>2, <2>1
<1>4. W = [w \in 1 .. m |-> FlattenSeq(Parts(p, w))]
  BY SameLibrary DEF Exp!WordsIn, Parts
<1>5. V = [w \in 1 .. m + more |-> FlattenSeq(Parts(q, w))]
  <2>1. V = [w \in 1 .. Exp!Begun(q, Len(q)) |-> FlattenSeq(Parts(q, w))]
    BY SameLibrary DEF Exp!WordsIn, Parts
  <2> HIDE DEF q, V, m, n, more
  <2>2. QED
    BY <1>1, <1>2, <2>1
<1> HIDE DEF n, q, m, W, V, more
<1> DEFINE adds(w) == IF ~Exp!Splits(e) /\ m + more = w THEN e.ch ELSE <<>>
<1>6. ASSUME NEW w
      PROVE  /\ Parts(p, w) \in Seq(Exp!Text) /\ adds(w) \in Exp!Text
             /\ Parts(q, w) = Append(Parts(p, w), adds(w))
  <2>1. \A k \in 1 .. n : p[k] \in Piece
    BY <1>1
  <2>2. <<>> \in Exp!Text /\ e.ch \in Exp!Text /\ \A k \in 1 .. n : p[k].ch \in Exp!Text
    BY <2>1 DEF Piece, Exp!Text
  <2>3. Parts(p, w) = [k \in 1 .. n |-> IF ~Exp!Splits(p[k]) /\ Exp!Begun(p, k) = w THEN p[k].ch ELSE <<>>]
    BY <1>1 DEF Parts
  <2>4. Parts(p, w) \in Seq(Exp!Text) /\ Len(Parts(p, w)) = n
    BY <1>1, <2>2, <2>3
  <2>5. Parts(q, w) = [k \in 1 .. n + 1 |-> IF ~Exp!Splits(q[k]) /\ Exp!Begun(q, k) = w THEN q[k].ch ELSE <<>>]
    BY <1>1 DEF Parts
  <2>6. \A k \in 1 .. n : Parts(q, w)[k] = Parts(p, w)[k]
    BY <1>1, <1>2, <2>3, <2>5
  <2>7. Parts(q, w)[n + 1] = adds(w)
    BY <1>1, <1>2, <2>5
  <2>8. adds(w) \in Exp!Text
    BY <2>2
  <2> DEFINE P0 == Parts(p, w)
             Q0 == Parts(q, w)
             a == adds(w)
  <2>9. /\ Q0 = [k \in 1 .. n + 1 |-> Q0[k]] /\ Q0[n + 1] = a /\ \A k \in 1 .. n : Q0[k] = P0[k]
        /\ P0 \in Seq(Exp!Text) /\ Len(P0) = n /\ a \in Exp!Text
    BY <2>4, <2>5, <2>6, <2>7, <2>8
  <2> HIDE DEF P0, Q0, a
  <2>10. Append(P0, a) = [k \in 1 .. n + 1 |-> IF k = n + 1 THEN a ELSE P0[k]]
    BY <2>9, AppendIs
  <2>11. Q0 = Append(P0, a)
    <3> HIDE DEF adds
    <3>1. \A k \in 1 .. n + 1 : k \in 1 .. n \/ k = n + 1
      BY <1>1
    <3>2. \A k \in 1 .. n + 1 : Q0[k] = IF k = n + 1 THEN a ELSE P0[k]
      BY <2>9, <3>1
    <3>3. QED
      BY <2>9, <2>10, <3>2
  <2>12. QED
    BY <2>4, <2>8, <2>11 DEF P0, Q0, a
<1> DEFINE flat(w) == FlattenSeq(Parts(p, w))
<1>7. ASSUME NEW w PROVE FlattenSeq(Parts(q, w)) = flat(w) \o adds(w) /\ flat(w) \in Exp!Text
  <2> DEFINE P0 == Parts(p, w)
             a == adds(w)
  <2>1. P0 \in Seq(Seq(Exp!Char)) /\ a \in Seq(Exp!Char) /\ Parts(q, w) = Append(P0, a)
    BY <1>6 DEF Exp!Text
  <2> HIDE DEF P0, a
  <2>2. FlattenSeq(Append(P0, a)) = FlattenSeq(P0) \o a /\ FlattenSeq(P0) \in Seq(Exp!Char)
    BY <2>1, FlattenedOn
  <2>3. QED
    BY <2>1, <2>2 DEF P0, a, Exp!Text
<1>8. \A t \in Exp!Text : t \o <<>> = t /\ <<>> \o t = t
  BY DEF Exp!Text
<1> HIDE DEF flat
<1>9. ASSUME adds(m) = <<>>, more = 0 PROVE V = W
  <2>1. \A w \in 1 .. m : adds(w) = <<>>
    BY <1>3, <1>9
  <2>2. \A w \in 1 .. m : FlattenSeq(Parts(q, w)) = FlattenSeq(Parts(p, w))
    <3> HIDE DEF adds
    <3>1. QED
      BY <1>7, <1>8, <2>1 DEF flat
  <2>3. m + more = m
    BY <1>3, <1>9
  <2>4. QED
    BY <1>4, <1>5, <2>2, <2>3
<1>10. CASE Exp!Splits(e)
  BY <1>9, <1>10 DEF more, V, W, q
<1>11. CASE ~Exp!Splits(e) /\ Opens(p)
  <2>1. more = 1 /\ adds(m + 1) = e.ch /\ \A w \in 1 .. m : adds(w) = <<>>
    BY <1>3, <1>11 DEF more
  <2>2. flat(m + 1) = <<>>
    <3> DEFINE P0 == Parts(p, m + 1)
    <3>1. P0 \in Seq(Seq(Exp!Char))
      BY <1>6 DEF Exp!Text
    <3>2. \A k \in DOMAIN P0 : P0[k] = <<>>
      <4>1. \A k \in 1 .. n : Exp!Begun(p, k) \in Nat /\ Exp!Begun(p, k) <= m
        BY <1>1, <1>2
      <4>2. \A k \in 1 .. n : Exp!Begun(p, k) # m + 1
        BY <1>3, <4>1
      <4>3. QED
        BY <1>1, <4>2 DEF Parts
    <3> HIDE DEF P0
    <3>3. QED
      BY <3>1, <3>2, FlattenedEmpty DEF flat, P0
  <2>3. \A w \in 1 .. m : FlattenSeq(Parts(q, w)) = FlattenSeq(Parts(p, w))
    <3> HIDE DEF adds
    <3>1. QED
      BY <1>7, <1>8, <2>1 DEF flat
  <2>4. FlattenSeq(Parts(q, m + 1)) = e.ch
    <3>1. e.ch \in Exp!Text
      BY DEF Piece
    <3> HIDE DEF adds
    <3>2. QED
      BY <1>7, <1>8, <2>1, <2>2, <3>1
  <2>5. V = [w \in 1 .. m + 1 |-> IF w = m + 1 THEN e.ch ELSE W[w]]
    BY <1>3, <1>4, <1>5, <2>1, <2>3, <2>4
  <2>6. W \in Seq(Exp!Text) /\ Len(W) = m
    <3>1. W \in Seq(Exp!Text)
      BY DEF W
    <3>2. QED
      BY <1>3, <1>4, <3>1
  <2>7. Append(W, e.ch) = [w \in 1 .. m + 1 |-> IF w = m + 1 THEN e.ch ELSE W[w]]
    BY <1>3, <2>6
  <2>8. QED
    BY <1>11, <2>5, <2>7 DEF V, W, q
<1>12. CASE ~Exp!Splits(e) /\ ~Opens(p) /\ W # <<>>
  <2>1. more = 0 /\ adds(m) = e.ch /\ \A w \in 1 .. m : w # m => adds(w) = <<>>
    BY <1>3, <1>12 DEF more
  <2>2. W \in Seq(Exp!Text) /\ Len(W) = m /\ m \in 1 .. m
    <3>1. W \in Seq(Exp!Text)
      BY DEF W
    <3>2. Len(W) = m
      BY <1>3, <1>4, <3>1
    <3>3. QED
      BY <1>3, <1>12, <3>1, <3>2
  <2>3. \A w \in 1 .. m : w # m => FlattenSeq(Parts(q, w)) = W[w]
    <3> HIDE DEF adds
    <3>1. QED
      BY <1>4, <1>7, <1>8, <2>1 DEF flat
  <2>4. FlattenSeq(Parts(q, m)) = W[m] \o e.ch
    <3> HIDE DEF adds
    <3>1. QED
      BY <1>4, <1>7, <2>1, <2>2 DEF flat
  <2>5. V = [w \in 1 .. m |-> IF w = m THEN W[m] \o e.ch ELSE W[w]]
    <3>1. \A w \in 1 .. m : FlattenSeq(Parts(q, w)) = IF w = m THEN W[m] \o e.ch ELSE W[w]
      BY <2>3, <2>4
    <3>2. m + more = m
      BY <1>3, <2>1
    <3> HIDE DEF adds
    <3>3. QED
      BY <1>5, <3>1, <3>2
  <2>6. Exp!AppendVal(W, e.ch) = V
    <3> DEFINE F == SubSeq(W, 1, m - 1)
               x == W[m] \o e.ch
    <3>1. Exp!Front(W) = F /\ Exp!Last(W) = W[m]
      BY <2>2 DEF Exp!Front, Exp!Last
    <3>2. W[m] # NULL
      BY <2>2, NullIsNoText
    <3>3. Exp!AppendVal(W, e.ch) = Append(F, x)
      BY <3>1, <3>2 DEF Exp!AppendVal
    <3>4. Len(F) = m - 1 /\ F \in Seq(Exp!Text) /\ \A w \in 1 .. m - 1 : F[w] = W[w]
      BY <1>3, <2>2
    <3> HIDE DEF F, x
    <3>5. Append(F, x) = [w \in 1 .. m |-> IF w = m THEN x ELSE F[w]]
      <4>1. Len(F) + 1 = m
        BY <1>3, <3>4
      <4> HIDE DEF adds
      <4>2. x \in Exp!Text
        <5>1. W[m] \in Exp!Text /\ e.ch \in Exp!Text
          BY <2>2 DEF Piece
        <5>2. QED
          BY <5>1 DEF Exp!Text, x
      <4>3. QED
        BY <3>4, <4>1, <4>2, AppendIs
    <3>6. Append(F, x) = [w \in 1 .. m |-> IF w = m THEN x ELSE W[w]]
      BY <1>3, <3>4, <3>5
    <3>7. QED
      BY <2>5, <3>3, <3>6 DEF x
  <2>7. QED
    BY <1>12, <2>6 DEF V, W, q
<1>13. QED
  BY <1>10, <1>11, <1>12 DEF V, W, q

\* The list the code has made of some pieces: their words, and a node without a
\* value behind a blank that ended one.
ListFor(p) ==
  IF Exp!WordsIn(p) = <<>> THEN <<NULL>>
  ELSE IF Exp!Splits(p[Len(p)]) THEN Append(Exp!WordsIn(p), NULL) ELSE Exp!WordsIn(p)

Regular(p) == Exp!WordsIn(p) \in Seq(Exp!Text) /\ (Opens(p) \/ Exp!WordsIn(p) # <<>>)

\* What one more piece makes of the list.
Turn(list, e) ==
  IF ~Exp!Splits(e) THEN Exp!AppendVal(list, e.ch)
  ELSE IF Exp!Last(list) # NULL THEN Append(list, NULL) ELSE list

\* Front and Last take an Append apart.
LEMMA FrontLast ==
  ASSUME NEW T, NEW s \in Seq(T), NEW x \in T
  PROVE  Exp!Front(Append(s, x)) = s /\ Exp!Last(Append(s, x)) = x
<1> DEFINE longer == Append(s, x)
           n == Len(s)
<1>1. /\ longer \in Seq(T) /\ Len(longer) = n + 1 /\ longer[n + 1] = x /\ n \in Nat
      /\ \A k \in 1 .. n : longer[k] = s[k]
  BY AppendProperties
<1>2. s = [k \in 1 .. n |-> s[k]]
  OBVIOUS
<1> HIDE DEF longer, n
<1>3. Exp!Front(longer) = SubSeq(longer, 1, n) /\ Exp!Last(longer) = x
  BY <1>1 DEF Exp!Front, Exp!Last
<1>4. SubSeq(longer, 1, n) = [k \in 1 .. n |-> longer[k]]
  BY <1>1
<1>5. QED
  BY <1>1, <1>2, <1>3, <1>4 DEF longer

\* No words in no pieces.
LEMMA NoWords == Exp!WordsIn(<<>>) = <<>>
<1>1. Exp!Begun(<<>>, Len(<<>>)) = 0
  <2>1. {j \in 1 .. 0 : ~Exp!Splits(<<>>[j]) /\ (j > 1 => Exp!Splits(<<>>[j - 1]))} = {}
    OBVIOUS
  <2>2. Len(<<>>) = 0
    OBVIOUS
  <2>3. QED
    BY <2>1, <2>2, SameLibrary, FS_EmptySet DEF Exp!Begun
<1>2. QED
  BY <1>1 DEF Exp!WordsIn

\* The list of no pieces, and that of any is a list.
LEMMA ListForPieces ==
  /\ Regular(<<>>) /\ ListFor(<<>>) = <<NULL>>
  /\ \A p \in Seq(Piece) : Regular(p) => ListFor(p) \in Exp!List
<1>1. Regular(<<>>) /\ ListFor(<<>>) = <<NULL>>
  <2>1. <<>> \in Seq(Exp!Text)
    OBVIOUS
  <2>2. QED
    BY <2>1, NoWords DEF Regular, ListFor, Opens
<1>2. ASSUME NEW p \in Seq(Piece), Regular(p) PROVE ListFor(p) \in Exp!List
  <2> DEFINE W == Exp!WordsIn(p)
  <2>1. W \in Seq(Exp!Text \union {NULL})
    BY <1>2 DEF Regular
  <2>2. ListFor(p) \in {<<NULL>>, Append(W, NULL), W} /\ (W = <<>> => ListFor(p) = <<NULL>>)
    BY DEF ListFor
  <2> HIDE DEF W
  <2>3. <<NULL>> \in Exp!List /\ Append(W, NULL) \in Exp!List
    BY <2>1, Longer DEF Exp!List
  <2>4. W # <<>> => W \in Exp!List
    BY <2>1 DEF Exp!List
  <2>5. QED
    BY <2>2, <2>3, <2>4
<1>3. QED
  BY <1>1, <1>2

\* One piece more makes a turn of the code's loops.
LEMMA OnePiece ==
  ASSUME NEW p \in Seq(Piece), NEW e \in Piece, Regular(p)
  PROVE  Regular(Append(p, e)) /\ ListFor(Append(p, e)) = Turn(ListFor(p), e)
<1> DEFINE W == Exp!WordsIn(p)
           q == Append(p, e)
           V == Exp!WordsIn(q)
           list == ListFor(p)
           n == Len(p)
<1>1. W \in Seq(Exp!Text) /\ (Opens(p) \/ W # <<>>) /\ e.ch \in Exp!Text
  BY DEF Regular, Piece
<1>2. q # <<>> /\ q[Len(q)] = e
  <2>1. q \in Seq(Piece) /\ Len(q) = n + 1 /\ q[n + 1] = e
    BY AppendProperties
  <2>2. QED
    BY <2>1
<1>3. /\ Exp!Splits(e) => V = W
      /\ ~Exp!Splits(e) /\ Opens(p) => V = Append(W, e.ch)
      /\ ~Exp!Splits(e) /\ ~Opens(p) /\ W # <<>> => V = Exp!AppendVal(W, e.ch)
  BY <1>1, MoreWords
<1>4. W # <<>> /\ Opens(p) => Exp!Splits(p[n])
  BY NoWords DEF Opens
<1>5. /\ W = <<>> => list = <<NULL>>
      /\ W # <<>> => list = IF Exp!Splits(p[n]) THEN Append(W, NULL) ELSE W
  BY DEF ListFor
<1>6. ListFor(q) = IF V = <<>> THEN <<NULL>> ELSE IF Exp!Splits(e) THEN Append(V, NULL) ELSE V
  BY <1>2 DEF ListFor
<1>7. Opens(q) <=> Exp!Splits(e)
  BY <1>2 DEF Opens
<1> HIDE DEF W, q, V, list, n
<1>8. /\ Exp!Front(Append(W, NULL)) = W /\ Exp!Last(Append(W, NULL)) = NULL
      /\ Exp!Front(<<NULL>>) = <<>> /\ Exp!Last(<<NULL>>) = NULL
  <2>1. W \in Seq(Exp!Text \union {NULL}) /\ NULL \in Exp!Text \union {NULL}
    BY <1>1
  <2>2. Exp!Front(Append(W, NULL)) = W /\ Exp!Last(Append(W, NULL)) = NULL
    BY <2>1, FrontLast
  <2>3. Exp!Front(<<NULL>>) = <<>> /\ Exp!Last(<<NULL>>) = NULL
    BY DEF Exp!Front, Exp!Last
  <2>4. QED
    BY <2>2, <2>3
<1>9. CASE Exp!Splits(e)
  <2>1. Turn(list, e) = IF Exp!Last(list) # NULL THEN Append(list, NULL) ELSE list
    BY <1>9 DEF Turn
  <2>2. W # <<>> => Exp!Last(W) # NULL
    <3> SUFFICES ASSUME W # <<>> PROVE Exp!Last(W) # NULL
      OBVIOUS
    <3>1. W[Len(W)] \in Exp!Text
      BY <1>1
    <3>2. QED
      BY <3>1, NullIsNoText DEF Exp!Last
  <2>3. ListFor(q) = Turn(list, e)
    <3>1. V = W
      BY <1>3, <1>9
    <3>2. CASE W = <<>>
      <4>1. list = <<NULL>> /\ ListFor(q) = <<NULL>>
        BY <1>5, <1>6, <3>1, <3>2
      <4>2. QED
        BY <1>8, <2>1, <4>1
    <3>3. CASE W # <<>> /\ Exp!Splits(p[n])
      <4>1. list = Append(W, NULL) /\ ListFor(q) = Append(W, NULL)
        BY <1>5, <1>6, <1>9, <3>1, <3>3
      <4>2. QED
        BY <1>8, <2>1, <4>1
    <3>4. CASE W # <<>> /\ ~Exp!Splits(p[n])
      <4>1. list = W /\ ListFor(q) = Append(W, NULL)
        BY <1>5, <1>6, <1>9, <3>1, <3>4
      <4>2. QED
        BY <2>1, <2>2, <3>4, <4>1
    <3>5. QED
      BY <3>2, <3>3, <3>4
  <2>4. Regular(q)
    BY <1>1, <1>3, <1>7, <1>9 DEF Regular, V
  <2>5. QED
    BY <2>3, <2>4 DEF q, list
<1>10. CASE ~Exp!Splits(e) /\ Opens(p)
  <2>1. V = Append(W, e.ch) /\ V \in Seq(Exp!Text) /\ V # <<>>
    BY <1>1, <1>3, <1>10, Longer
  <2>2. Turn(list, e) = Exp!AppendVal(list, e.ch)
    BY <1>10 DEF Turn
  <2>3. Exp!Front(list) = W /\ Exp!Last(list) = NULL
    BY <1>4, <1>5, <1>8, <1>10
  <2>4. Turn(list, e) = V
    BY <2>1, <2>2, <2>3 DEF Exp!AppendVal
  <2>5. ListFor(q) = V
    BY <1>6, <1>10, <2>1
  <2>6. QED
    BY <2>1, <2>4, <2>5 DEF q, list, Regular, V
<1>11. CASE ~Exp!Splits(e) /\ ~Opens(p)
  <2>1. W # <<>> /\ V = Exp!AppendVal(W, e.ch)
    BY <1>1, <1>3, <1>11
  <2>2. list = W
    <3>1. ~Exp!Splits(p[n])
      BY <1>11 DEF Opens, n
    <3>2. QED
      BY <1>5, <2>1, <3>1
  <2>3. V \in Seq(Exp!Text) /\ V # <<>>
    <3> DEFINE F == SubSeq(W, 1, Len(W) - 1)
               x == W[Len(W)]
    <3>1. x \in Exp!Text /\ F \in Seq(Exp!Text)
      BY <1>1, <2>1
    <3>2. Exp!Front(W) = F /\ Exp!Last(W) = x
      BY DEF Exp!Front, Exp!Last
    <3> HIDE DEF F, x
    <3>3. x # NULL /\ x \o e.ch \in Exp!Text
      BY <1>1, <3>1, NullIsNoText DEF Exp!Text
    <3>4. V = Append(F, x \o e.ch)
      BY <2>1, <3>2, <3>3 DEF Exp!AppendVal
    <3>5. QED
      BY <3>1, <3>3, <3>4, Longer
  <2>4. Turn(list, e) = V
    BY <1>11, <2>1, <2>2 DEF Turn
  <2>5. ListFor(q) = V
    BY <1>6, <1>11, <2>3
  <2>6. QED
    BY <2>3, <2>4, <2>5 DEF q, list, Regular, V
<1>12. QED
  BY <1>9, <1>10, <1>11

\* A sequence, element by element behind another.
LEMMA OneByOne ==
  ASSUME NEW T, NEW s \in Seq(T), NEW t \in Seq(T)
  PROVE  /\ s \o SubSeq(t, 1, 0) = s /\ s \o SubSeq(t, 1, Len(t)) = s \o t
         /\ \A k \in 0 .. Len(t) : s \o SubSeq(t, 1, k) \in Seq(T)
         /\ \A k \in 1 .. Len(t) : s \o SubSeq(t, 1, k) = Append(s \o SubSeq(t, 1, k - 1), t[k])
<1>1. SubSeq(t, 1, 0) = <<>> /\ SubSeq(t, 1, Len(t)) = t
  OBVIOUS
<1>2. s \o <<>> = s
  OBVIOUS
<1>3. ASSUME NEW k \in 0 .. Len(t) PROVE SubSeq(t, 1, k) \in Seq(T) /\ s \o SubSeq(t, 1, k) \in Seq(T)
  <2>1. SubSeq(t, 1, k) \in Seq(T)
    OBVIOUS
  <2>2. QED
    BY <2>1
<1>4. ASSUME NEW k \in 1 .. Len(t)
      PROVE  s \o SubSeq(t, 1, k) = Append(s \o SubSeq(t, 1, k - 1), t[k])
  <2> DEFINE r == SubSeq(t, 1, k - 1)
             e == t[k]
  <2>1. 1 \in 1 .. Len(t) /\ k \in 1 .. Len(t) /\ k - 1 \in 0 .. Len(t) /\ e \in T
    OBVIOUS
  <2>2. SubSeq(t, 1, k) = r \o <<e>>
    BY <2>1, SubSeqRecursiveSecond
  <2>3. r \in Seq(T) /\ s \o r \in Seq(T)
    BY <1>3, <2>1
  <2> HIDE DEF r, e
  <2>4. <<e>> \in Seq(T)
    BY <2>1
  <2>5. s \o (r \o <<e>>) = (s \o r) \o <<e>>
    BY <2>3, <2>4, ConcatAssociative
  <2>6. (s \o r) \o <<e>> = Append(s \o r, e)
    BY <2>1, <2>3, AppendIsConcat
  <2>7. QED
    BY <2>2, <2>5, <2>6 DEF r, e
<1>5. QED
  BY <1>1, <1>2, <1>3, <1>4

\* More pieces, a turn for each.
LEMMA PiecesTurned ==
  ASSUME NEW p \in Seq(Piece), Regular(p), NEW all \in Seq(Piece), NEW f, f[0] = ListFor(p),
         \A k \in 1 .. Len(all) : f[k] = Turn(f[k - 1], all[k])
  PROVE  p \o all \in Seq(Piece) /\ Regular(p \o all) /\ ListFor(p \o all) = f[Len(all)]
<1> DEFINE n == Len(all)
           to(k) == p \o SubSeq(all, 1, k)
           Good == {k \in 0 .. n : Regular(to(k)) /\ ListFor(to(k)) = f[k]}
<1>1. /\ to(0) = p /\ to(n) = p \o all /\ \A k \in 0 .. n : to(k) \in Seq(Piece)
      /\ \A k \in 1 .. n : to(k) = Append(to(k - 1), all[k])
  <2>1. p \in Seq(Piece) /\ all \in Seq(Piece)
    OBVIOUS
  <2>2. /\ to(0) = p /\ to(n) = p \o all
        /\ \A k \in 0 .. n : to(k) \in Seq(Piece)
    BY <2>1, OneByOne
  <2>3. \A k \in 1 .. n : to(k) = Append(to(k - 1), all[k])
    BY <2>1, OneByOne
  <2>4. QED
    BY <2>2, <2>3
<1>2. n \in Nat /\ \A k \in 1 .. n : all[k] \in Piece
  OBVIOUS
<1> HIDE DEF n, to
<1>3. 0 \in Good
  BY <1>1, <1>2
<1>4. ASSUME NEW k \in 1 .. n, k - 1 \in Good PROVE k \in Good
  <2>1. k \in 0 .. n /\ k - 1 \in 0 .. n
    BY <1>2
  <2>2. to(k - 1) \in Seq(Piece) /\ Regular(to(k - 1)) /\ ListFor(to(k - 1)) = f[k - 1]
    BY <1>1, <1>4, <2>1
  <2>3. f[k] = Turn(f[k - 1], all[k])
    BY DEF n
  <2>4. Regular(to(k)) /\ ListFor(to(k)) = Turn(ListFor(to(k - 1)), all[k])
    BY <1>1, <1>2, <2>2, OnePiece
  <2>5. QED
    BY <2>1, <2>2, <2>3, <2>4
<1>5. Good = 0 .. n
  <2> HIDE DEF Good
  <2>1. Good \in SUBSET (0 .. n)
    BY DEF Good
  <2>2. QED
    BY <1>2, <1>3, <1>4, <2>1, UpTo
<1>6. n \in 0 .. n
  BY <1>2
<1>7. QED
  BY <1>1, <1>5, <1>6 DEF n

\* The pieces of a text.
PiecesOf(text, bare) == [k \in DOMAIN text |-> [ch |-> <<text[k]>>, bare |-> bare]]

\* They are pieces.
LEMMA PiecesOfText ==
  ASSUME NEW text \in Exp!Text, NEW bare \in BOOLEAN
  PROVE  /\ PiecesOf(text, bare) \in Seq(Piece) /\ Len(PiecesOf(text, bare)) = Len(text) /\ Len(text) \in Nat
         /\ \A k \in 1 .. Len(text) : /\ PiecesOf(text, bare)[k] = [ch |-> <<text[k]>>, bare |-> bare]
                                      /\ text[k] \in Exp!Char
<1> DEFINE n == Len(text)
           all == PiecesOf(text, bare)
<1>1. n \in Nat /\ \A k \in 1 .. n : text[k] \in Exp!Char
  BY DEF Exp!Text
<1>2. all = [k \in 1 .. n |-> [ch |-> <<text[k]>>, bare |-> bare]]
  BY DEF PiecesOf, Exp!Text
<1>3. ASSUME NEW k \in 1 .. n PROVE [ch |-> <<text[k]>>, bare |-> bare] \in Piece
  <2> DEFINE ch == text[k]
  <2>1. ch \in Exp!Char
    BY <1>1
  <2> HIDE DEF ch
  <2>2. <<ch>> \in Exp!Text
    BY <2>1 DEF Exp!Text
  <2>3. [ch |-> <<ch>>, bare |-> bare] \in Piece
    BY <2>2 DEF Piece
  <2>4. QED
    BY <2>3 DEF ch
<1> HIDE DEF n, all
<1>4. all \in Seq(Piece) /\ Len(all) = n
  BY <1>1, <1>2, <1>3
<1>5. QED
  BY <1>1, <1>2, <1>4 DEF n, all

\* The bare pieces of a text are what handle_unquoted adds.
LEMMA UnquotedPieces ==
  ASSUME NEW p \in Seq(Piece), Regular(p), NEW text \in Exp!Text
  PROVE  /\ p \o PiecesOf(text, TRUE) \in Seq(Piece) /\ Regular(p \o PiecesOf(text, TRUE))
         /\ ListFor(p \o PiecesOf(text, TRUE)) = Exp!HandleUnquoted(ListFor(p), text)
<1> DEFINE all == PiecesOf(text, TRUE)
<1>1. /\ all \in Seq(Piece) /\ Len(all) = Len(text) /\ Len(text) \in Nat
      /\ \A k \in 1 .. Len(text) : all[k] = [ch |-> <<text[k]>>, bare |-> TRUE] /\ text[k] \in Exp!Char
  BY PiecesOfText
<1>2. ListFor(p) \in Exp!List
  BY ListForPieces
<1>3. PICK f : /\ f[0] = ListFor(p)
               /\ \A k \in 1 .. Len(text) : f[k] = Exp!UnquotedChar(text[k])[f[k - 1]]
               /\ \A k \in 0 .. Len(text) : f[k] \in Exp!List
               /\ Exp!HandleUnquoted(ListFor(p), text) = f[Len(text)]
  BY <1>2, UnquotedFolds
<1> HIDE DEF all
<1>4. ASSUME NEW k \in 1 .. Len(text) PROVE f[k] = Turn(f[k - 1], all[k])
  <2>1. f[k - 1] \in Exp!List
    <3>1. k - 1 \in 0 .. Len(text)
      BY <1>1
    <3>2. QED
      BY <1>3, <3>1
  <2>2. all[k].ch = <<text[k]>> /\ all[k].bare /\ all[k].ch[1] = text[k]
    <3> DEFINE x == text[k]
    <3>1. all[k] = [ch |-> <<x>>, bare |-> TRUE]
      BY <1>1
    <3> HIDE DEF x
    <3>2. all[k].ch = <<x>> /\ all[k].bare /\ <<x>>[1] = x
      BY <3>1
    <3>3. QED
      BY <3>2 DEF x
  <2>3. Exp!Splits(all[k]) <=> text[k] \in Exp!Blanks
    BY <2>2 DEF Exp!Splits
  <2>4. Exp!UnquotedChar(text[k])[f[k - 1]] =
          IF text[k] \notin Exp!Blanks THEN Exp!AppendVal(f[k - 1], <<text[k]>>)
          ELSE IF Exp!Last(f[k - 1]) # NULL THEN Append(f[k - 1], NULL) ELSE f[k - 1]
    BY <2>1 DEF Exp!UnquotedChar
  <2>5. QED
    BY <1>3, <2>2, <2>3, <2>4 DEF Turn
<1>5. p \o all \in Seq(Piece) /\ Regular(p \o all) /\ ListFor(p \o all) = f[Len(all)]
  BY <1>1, <1>3, <1>4, PiecesTurned
<1>6. QED
  BY <1>1, <1>3, <1>5 DEF all

\* append_val in two parts.
LEMMA ValTwice ==
  ASSUME NEW list \in Exp!List, NEW s \in Exp!Text, NEW t \in Exp!Text
  PROVE  Exp!AppendVal(Exp!AppendVal(list, s), t) = Exp!AppendVal(list, s \o t)
<1> DEFINE F == Exp!Front(list)
           x == Exp!Last(list)
           v == IF x = NULL THEN s ELSE x \o s
<1>1. F \in Seq(Exp!Text \union {NULL}) /\ (x # NULL => x \in Exp!Text)
  BY ListParts
<1>2. \A a, b \in Exp!Text : a \o b \in Exp!Text
  BY DEF Exp!Text
<1>3. Exp!AppendVal(list, s) = Append(F, v)
  BY DEF Exp!AppendVal
<1>4. Exp!AppendVal(list, s \o t) = Append(F, IF x = NULL THEN s \o t ELSE x \o (s \o t))
  BY DEF Exp!AppendVal
<1> HIDE DEF F, x
<1>5. v \in Exp!Text /\ v # NULL
  BY <1>1, <1>2, NullIsNoText
<1>6. v \o t = IF x = NULL THEN s \o t ELSE x \o (s \o t)
  <2>1. CASE x = NULL
    BY <2>1
  <2>2. CASE x # NULL
    <3>1. x \in Seq(Exp!Char) /\ s \in Seq(Exp!Char) /\ t \in Seq(Exp!Char)
      BY <1>1, <2>2 DEF Exp!Text
    <3>2. (x \o s) \o t = x \o (s \o t)
      BY <3>1, ConcatAssociative
    <3>3. QED
      BY <2>2, <3>2
  <2>3. QED
    BY <2>1, <2>2
<1> HIDE DEF v
<1>7. Exp!Front(Append(F, v)) = F /\ Exp!Last(Append(F, v)) = v
  <2>1. v \in Exp!Text \union {NULL}
    BY <1>5
  <2>2. QED
    BY <1>1, <2>1, FrontLast
<1>8. Exp!AppendVal(Append(F, v), t) = Append(F, v \o t)
  BY <1>5, <1>7 DEF Exp!AppendVal
<1>9. QED
  BY <1>3, <1>4, <1>6, <1>8

\* The pieces of a quoted text, behind the one that makes it a word.
QuotedPieces(text) == <<[ch |-> <<>>, bare |-> FALSE]>> \o PiecesOf(text, FALSE)

\* They are what append_val adds.
LEMMA QuotedText ==
  ASSUME NEW p \in Seq(Piece), Regular(p), NEW text \in Exp!Text
  PROVE  /\ QuotedPieces(text) \in Seq(Piece)
         /\ p \o QuotedPieces(text) \in Seq(Piece) /\ Regular(p \o QuotedPieces(text))
         /\ ListFor(p \o QuotedPieces(text)) = Exp!AppendVal(ListFor(p), text)
<1> DEFINE e == [ch |-> <<>>, bare |-> FALSE]
           all == PiecesOf(text, FALSE)
           q == Append(p, e)
           list == ListFor(p)
<1>1. /\ all \in Seq(Piece) /\ Len(all) = Len(text) /\ Len(text) \in Nat
      /\ \A k \in 1 .. Len(text) : all[k] = [ch |-> <<text[k]>>, bare |-> FALSE] /\ text[k] \in Exp!Char
  BY PiecesOfText
<1>2. <<>> \in Exp!Text
  BY DEF Exp!Text
<1>3. e \in Piece /\ e.ch = <<>> /\ ~Exp!Splits(e)
  BY <1>2 DEF Piece, Exp!Splits
<1>4. list \in Exp!List
  BY ListForPieces
<1> HIDE DEF e, all, list
<1>5. q \in Seq(Piece) /\ Regular(q) /\ ListFor(q) = Exp!AppendVal(list, <<>>)
  <2>1. q \in Seq(Piece)
    BY <1>3
  <2>2. Regular(q) /\ ListFor(q) = Turn(list, e)
    BY <1>3, OnePiece DEF list
  <2>3. QED
    BY <1>3, <2>1, <2>2 DEF Turn
<1> HIDE DEF q
<1> DEFINE n == Len(text)
           f == [k \in 0 .. n |-> Exp!AppendVal(list, SubSeq(text, 1, k))]
<1>6. /\ SubSeq(text, 1, 0) = <<>> /\ SubSeq(text, 1, n) = text
      /\ \A k \in 1 .. n : /\ SubSeq(text, 1, k) = SubSeq(text, 1, k - 1) \o <<text[k]>>
                           /\ SubSeq(text, 1, k - 1) \in Exp!Text /\ <<text[k]>> \in Exp!Text
  <2>1. text \in Seq(Exp!Char)
    BY DEF Exp!Text
  <2>2. SubSeq(text, 1, 0) = <<>> /\ SubSeq(text, 1, n) = text
    BY <2>1
  <2>3. ASSUME NEW k \in 1 .. n
        PROVE  /\ SubSeq(text, 1, k) = SubSeq(text, 1, k - 1) \o <<text[k]>>
               /\ SubSeq(text, 1, k - 1) \in Exp!Text /\ <<text[k]>> \in Exp!Text
    <3>1. 1 \in 1 .. Len(text) /\ k \in 1 .. Len(text)
      BY <1>1
    <3>2. SubSeq(text, 1, k) = SubSeq(text, 1, k - 1) \o <<text[k]>>
      BY <2>1, <3>1, SubSeqRecursiveSecond
    <3>3. SubSeq(text, 1, k - 1) \in Seq(Exp!Char) /\ <<text[k]>> \in Seq(Exp!Char)
      BY <2>1, <3>1
    <3>4. QED
      BY <3>2, <3>3 DEF Exp!Text
  <2>4. QED
    BY <2>2, <2>3
<1>7. f[0] = ListFor(q) /\ f[n] = Exp!AppendVal(list, text)
  <2>1. 0 \in 0 .. n /\ n \in 0 .. n
    BY <1>1
  <2>2. QED
    BY <1>5, <1>6, <2>1
<1>8. ASSUME NEW k \in 1 .. n PROVE f[k] = Turn(f[k - 1], all[k])
  <2>1. f[k] = Exp!AppendVal(list, SubSeq(text, 1, k)) /\ f[k - 1] = Exp!AppendVal(list, SubSeq(text, 1, k - 1))
    <3>1. k \in 0 .. n /\ k - 1 \in 0 .. n
      BY <1>1
    <3>2. QED
      BY <3>1
  <2> HIDE DEF f
  <2>2. all[k].ch = <<text[k]>> /\ ~Exp!Splits(all[k])
    <3> DEFINE x == text[k]
    <3>1. all[k] = [ch |-> <<x>>, bare |-> FALSE]
      BY <1>1
    <3> HIDE DEF x
    <3>2. all[k].ch = <<x>> /\ ~all[k].bare
      BY <3>1
    <3>3. QED
      BY <3>2 DEF x, Exp!Splits
  <2>3. Turn(f[k - 1], all[k]) = Exp!AppendVal(f[k - 1], <<text[k]>>)
    BY <2>2 DEF Turn
  <2>4. QED
    BY <1>4, <1>6, <2>1, <2>3, ValTwice
<1> HIDE DEF f
<1>9. q \o all \in Seq(Piece) /\ Regular(q \o all) /\ ListFor(q \o all) = Exp!AppendVal(list, text)
  BY <1>1, <1>5, <1>7, <1>8, PiecesTurned
<1>10. <<e>> \in Seq(Piece) /\ <<e>> \o all \in Seq(Piece)
  BY <1>1, <1>3
<1>11. q \o all = p \o (<<e>> \o all)
  <2>1. q = p \o <<e>>
    BY <1>3, AppendIsConcat DEF q
  <2>2. QED
    BY <1>1, <1>10, <2>1, ConcatAssociative
<1>12. QuotedPieces(text) = <<e>> \o all
  BY DEF QuotedPieces, e, all
<1>13. QED
  BY <1>9, <1>10, <1>11, <1>12 DEF list

\* The pieces of a segment.
SegmentText(seg) == IF seg.quote = "single" THEN seg.value ELSE Exp!ExpandText(seg.value)
SegmentPieces(seg) ==
  IF seg.quote = "none" THEN PiecesOf(SegmentText(seg), TRUE) ELSE QuotedPieces(SegmentText(seg))

\* Those of an argument are those of its segments.
LEMMA PiecesOfSegments ==
  ASSUME NEW segs
  PROVE  Exp!Pieces(segs) = FlattenSeq([k \in DOMAIN segs |-> SegmentPieces(segs[k])])
<1> DEFINE Of(seg) ==
             LET text == IF seg.quote = "single" THEN seg.value ELSE Exp!ExpandText(seg.value)
                 ofText == [k \in DOMAIN text |-> [ch |-> <<text[k]>>, bare |-> seg.quote = "none"]]
             IN  IF seg.quote = "none" THEN ofText ELSE <<[ch |-> <<>>, bare |-> FALSE]>> \o ofText
<1>1. Exp!Pieces(segs) = Exp!FlattenSeq([k \in DOMAIN segs |-> Of(segs[k])])
  BY DEF Exp!Pieces
<1>2. ASSUME NEW seg PROVE Of(seg) = SegmentPieces(seg)
  <2> DEFINE text == SegmentText(seg)
             ofText(bare) == [k \in DOMAIN text |-> [ch |-> <<text[k]>>, bare |-> bare]]
  <2>1. Of(seg) = IF seg.quote = "none" THEN ofText(seg.quote = "none")
                  ELSE <<[ch |-> <<>>, bare |-> FALSE]>> \o ofText(seg.quote = "none")
    BY DEF SegmentText
  <2> HIDE DEF text, Of
  <2>2. CASE seg.quote = "none"
    <3>1. (seg.quote = "none") = TRUE
      BY <2>2
    <3>2. ofText(seg.quote = "none") = ofText(TRUE)
      BY <3>1
    <3>3. QED
      BY <2>1, <2>2, <3>2 DEF SegmentPieces, PiecesOf, text
  <2>3. CASE seg.quote # "none"
    <3>1. (seg.quote = "none") = FALSE
      BY <2>3
    <3>2. ofText(seg.quote = "none") = ofText(FALSE)
      BY <3>1
    <3>3. QED
      BY <2>1, <2>3, <3>2 DEF SegmentPieces, QuotedPieces, PiecesOf, text
  <2>4. QED
    BY <2>2, <2>3
<1> HIDE DEF Of
<1>3. [k \in DOMAIN segs |-> Of(segs[k])] = [k \in DOMAIN segs |-> SegmentPieces(segs[k])]
  BY <1>2
<1>4. QED
  BY <1>1, <1>3, SameLibrary

\* process_segment, for a list made of some pieces.
LEMMA SegmentTurned ==
  ASSUME env \in Envs, NEW seg \in Exp!Segment, NEW p \in Seq(Piece), Regular(p)
  PROVE  /\ SegmentPieces(seg) \in Seq(Piece)
         /\ p \o SegmentPieces(seg) \in Seq(Piece) /\ Regular(p \o SegmentPieces(seg))
         /\ ListFor(p \o SegmentPieces(seg)) = Exp!ProcessSegment(seg)[ListFor(p)]
<1> DEFINE text == SegmentText(seg)
           list == ListFor(p)
<1>1. seg.quote \in {"none", "single", "double"} /\ seg.value \in Exp!Text
  BY DEF Exp!Segment
<1>2. Exp!ExpandText(seg.value) \in Exp!Text
  BY <1>1, Expanded DEF Exp!ExpandText
<1>3. text \in Exp!Text
  BY <1>1, <1>2 DEF SegmentText
<1>4. list \in Exp!List
  BY ListForPieces
<1>5. Exp!ProcessSegment(seg)[list] =
        CASE seg.quote = "single" -> Exp!AppendVal(list, seg.value)
          [] seg.quote = "double" -> Exp!AppendVal(list, Exp!ExpandText(seg.value))
          [] seg.quote = "none" -> Exp!HandleUnquoted(list, Exp!ExpandText(seg.value))
  BY <1>4 DEF Exp!ProcessSegment
<1>6. /\ seg.quote = "none" => Exp!ProcessSegment(seg)[list] = Exp!HandleUnquoted(list, text)
      /\ seg.quote # "none" => Exp!ProcessSegment(seg)[list] = Exp!AppendVal(list, text)
  BY <1>1, <1>5 DEF SegmentText
<1> HIDE DEF text, list
<1>7. CASE seg.quote = "none"
  <2>1. SegmentPieces(seg) = PiecesOf(text, TRUE)
    BY <1>7 DEF SegmentPieces, text
  <2>2. QED
    BY <1>3, <1>6, <1>7, <2>1, UnquotedPieces, PiecesOfText DEF list
<1>8. CASE seg.quote # "none"
  <2>1. SegmentPieces(seg) = QuotedPieces(text)
    BY <1>8 DEF SegmentPieces, text
  <2>2. QED
    BY <1>3, <1>6, <1>8, <2>1, QuotedText DEF list
<1>9. QED
  BY <1>7, <1>8

\* expand_arg_to_list: the words the argument's text splits into, and behind a
\* blank that ends one a node without a value.
LEMMA ArgSplit ==
  ASSUME env \in Envs, NEW segs \in Seq(Exp!Segment)
  PROVE  /\ Exp!Words(segs) \in Seq(Exp!Text)
         /\ Exp!ExpandArgToList(segs) =
              IF Exp!Words(segs) # <<>> /\ Exp!Splits(Exp!Pieces(segs)[Len(Exp!Pieces(segs))])
              THEN Append(Exp!Words(segs), NULL) ELSE Exp!Words(segs)
<1> DEFINE n == Len(segs)
           each == [k \in DOMAIN segs |-> SegmentPieces(segs[k])]
           W == Exp!Words(segs)
           P0 == Exp!Pieces(segs)
<1>1. n \in Nat /\ DOMAIN segs = 1 .. n /\ \A k \in 1 .. n : segs[k] \in Exp!Segment
  OBVIOUS
<1>2. PICK f : /\ f[0] = <<NULL>>
               /\ \A k \in 1 .. n : f[k] = Exp!ProcessSegment(segs[k])[f[k - 1]]
               /\ Exp!ExpandArgToList(segs) = IF f[n] = <<NULL>> THEN <<>> ELSE f[n]
  BY ArgFolds
<1>3. P0 = FlattenSeq(each)
  BY PiecesOfSegments
<1>4. W = Exp!WordsIn(P0)
  BY DEF Exp!Words
<1> HIDE DEF n, W, P0
<1>5. each \in Seq(Seq(Piece)) /\ Len(each) = n /\ \A k \in 1 .. n : each[k] = SegmentPieces(segs[k])
  <2>1. \A k \in 1 .. n : SegmentPieces(segs[k]) \in Seq(Piece)
    <3>1. <<>> \in Seq(Piece) /\ Regular(<<>>)
      <4>1. <<>> \in Seq(Piece)
        OBVIOUS
      <4>2. QED
        BY <4>1, ListForPieces
    <3>2. QED
      BY <1>1, <3>1, SegmentTurned
  <2>2. each = [k \in 1 .. n |-> SegmentPieces(segs[k])]
    BY <1>1
  <2>3. QED
    BY <1>1, <2>1, <2>2
<1> HIDE DEF each
<1>6. PICK g : /\ g[0] = <<>> /\ \A k \in 1 .. n : g[k] = g[k - 1] \o each[k]
               /\ FlattenSeq(each) = g[n]
  BY <1>5, Flattened
<1> DEFINE Good == {k \in 0 .. n : g[k] \in Seq(Piece) /\ Regular(g[k]) /\ ListFor(g[k]) = f[k]}
<1>7. 0 \in Good
  <2>1. <<>> \in Seq(Piece) /\ 0 \in 0 .. n
    BY <1>1
  <2>2. QED
    BY <1>2, <1>6, <2>1, ListForPieces
<1>8. ASSUME NEW k \in 1 .. n, k - 1 \in Good PROVE k \in Good
  <2>1. g[k - 1] \in Seq(Piece) /\ Regular(g[k - 1]) /\ ListFor(g[k - 1]) = f[k - 1]
    BY <1>8
  <2>2. g[k] = g[k - 1] \o SegmentPieces(segs[k])
    BY <1>5, <1>6
  <2>3. f[k] = Exp!ProcessSegment(segs[k])[f[k - 1]] /\ segs[k] \in Exp!Segment
    BY <1>1, <1>2
  <2>4. g[k] \in Seq(Piece) /\ Regular(g[k]) /\ ListFor(g[k]) = f[k]
    BY <2>1, <2>2, <2>3, SegmentTurned
  <2>5. k \in 0 .. n
    BY <1>1
  <2>6. QED
    BY <2>4, <2>5
<1>9. Good = 0 .. n
  <2> HIDE DEF Good
  <2>1. Good \in SUBSET (0 .. n)
    BY DEF Good
  <2>2. QED
    BY <1>1, <1>7, <1>8, <2>1, UpTo
<1>10. Regular(P0) /\ ListFor(P0) = f[n]
  <2>1. n \in 0 .. n
    BY <1>1
  <2>2. QED
    BY <1>3, <1>6, <1>9, <2>1
<1>11. W \in Seq(Exp!Text)
  BY <1>4, <1>10 DEF Regular
<1>12. f[n] = IF W = <<>> THEN <<NULL>> ELSE IF Exp!Splits(P0[Len(P0)]) THEN Append(W, NULL) ELSE W
  BY <1>4, <1>10 DEF ListFor
<1>13. W # <<>> => W # <<NULL>> /\ Append(W, NULL) # <<NULL>>
  <2> SUFFICES ASSUME W # <<>> PROVE W # <<NULL>> /\ Append(W, NULL) # <<NULL>>
    OBVIOUS
  <2>1. Len(W) \in Nat \ {0} /\ W[1] \in Exp!Text /\ W[1] # NULL
    BY <1>11, NullIsNoText
  <2>2. W \in Seq(Exp!Text \union {NULL}) /\ NULL \in Exp!Text \union {NULL}
    BY <1>11
  <2> DEFINE longer == Append(W, NULL)
             none == <<NULL>>
  <2>3. Len(longer) = Len(W) + 1
    BY <2>2, AppendProperties
  <2>4. Len(none) = 1 /\ none[1] = NULL
    OBVIOUS
  <2> HIDE DEF longer, none
  <2>5. W # none
    BY <2>1, <2>4
  <2>6. Len(longer) # 1
    BY <2>1, <2>3
  <2>7. longer # none
    BY <2>4, <2>6
  <2>8. QED
    BY <2>5, <2>7 DEF longer, none
<1>14. Exp!ExpandArgToList(segs) =
         IF W # <<>> /\ Exp!Splits(P0[Len(P0)]) THEN Append(W, NULL) ELSE W
  BY <1>2, <1>12, <1>13
<1>15. QED
  BY <1>11, <1>14 DEF W, P0

\* The lists that the first n arguments become.
Lists(args, n) == [a \in 1 .. n |-> Exp!ExpandArgToList(args[a].segments)]

\* They are lists, and one argument more adds its own.
LEMMA OneMoreList ==
  ASSUME env \in Envs, NEW args, NEW n \in Nat, \A a \in 1 .. n + 1 : args[a].segments \in Seq(Exp!Segment)
  PROVE  /\ Lists(args, n + 1) \in Seq(Seq(Exp!Text \union {NULL}))
         /\ FlattenSeq(Lists(args, n + 1)) =
              FlattenSeq(Lists(args, n)) \o Exp!ExpandArgToList(args[n + 1].segments)
<1> DEFINE m == n + 1
           V == Seq(Exp!Text \union {NULL})
           last == Exp!ExpandArgToList(args[m].segments)
<1>1. m \in Nat /\ m \in 1 .. m /\ \A k \in 1 .. n : k \in 1 .. m /\ k # m
  OBVIOUS
<1>1a. \A k \in 1 .. m : k = m \/ k \in 1 .. n
  OBVIOUS
<1>2. \A a \in 1 .. m : Exp!ExpandArgToList(args[a].segments) \in V
  BY ArgList
<1> HIDE DEF V, m
<1>2a. \A a \in 1 .. n : Exp!ExpandArgToList(args[a].segments) \in V
  BY <1>1, <1>2
<1>3. Lists(args, n) \in Seq(V) /\ Lists(args, m) \in Seq(V) /\ Len(Lists(args, n)) = n
  <2> DEFINE of(a) == Exp!ExpandArgToList(args[a].segments)
  <2>1. \A a \in 1 .. m : of(a) \in V
    BY <1>2
  <2>2. \A a \in 1 .. n : of(a) \in V
    BY <1>2a
  <2>3. Lists(args, n) = [a \in 1 .. n |-> of(a)] /\ Lists(args, m) = [a \in 1 .. m |-> of(a)]
    BY DEF Lists
  <2> HIDE DEF of
  <2>4. QED
    BY <1>1, <2>1, <2>2, <2>3
<1>4. last \in V
  BY <1>1, <1>2
<1> HIDE DEF last
<1>5. Lists(args, m) = [k \in 1 .. m |-> IF k = m THEN last ELSE Lists(args, n)[k]]
  BY <1>1, <1>1a DEF Lists, last
<1>6. m = Len(Lists(args, n)) + 1
  BY <1>3 DEF m
<1>7. Append(Lists(args, n), last) = Lists(args, m)
  BY <1>3, <1>4, <1>5, <1>6, AppendIs
<1>8. FlattenSeq(Append(Lists(args, n), last)) = FlattenSeq(Lists(args, n)) \o last
  BY <1>3, <1>4, FlattenedOn DEF V
<1>9. QED
  BY <1>3, <1>7, <1>8 DEF m, V, last

\* The values of the nodes in front of the p-th.
ValuesTo(list, p) == [b \in 1 .. p - 1 |-> list[b].value]

\* In s the values L stand behind those that are in front of A's p-th.
PutIn(s, A, p, L) ==
  /\ \A b \in 1 .. p - 1 : s[b].value = A[b].value
  /\ \A j \in 1 .. Len(L) : s[p - 1 + j].value = L[j]

\* They are those of the old list and then those of the nodes put in.
LEMMA ValuesJoin ==
  ASSUME NEW T, NEW p \in Nat \ {0}, NEW A, NEW s, NEW L \in Seq(T), ValuesTo(A, p) \in Seq(T),
         PutIn(s, A, p, L)
  PROVE  ValuesTo(s, p + Len(L)) = ValuesTo(A, p) \o L
<1> DEFINE n == p - 1
           m == Len(L)
           q == p + m
           old == ValuesTo(A, p)
           new == ValuesTo(s, q)
           both == old \o L
<1>1. n \in Nat /\ m \in Nat /\ q - 1 = n + m
  OBVIOUS
<1>2. old \in Seq(T) /\ Len(old) = n /\ \A b \in 1 .. n : old[b] = A[b].value
  BY DEF ValuesTo
<1>3. new = [b \in 1 .. n + m |-> s[b].value]
  BY <1>1 DEF ValuesTo
<1>4. L \in Seq(T) /\ \A b \in 1 .. n : s[b].value = A[b].value
  BY DEF PutIn
<1>4a. \A j \in 1 .. m : s[n + j].value = L[j]
  BY DEF PutIn
<1> HIDE DEF n, old, m, q, new
<1>5. /\ both \in Seq(T) /\ Len(both) = n + m
      /\ \A b \in 1 .. n + m : both[b] = IF b <= n THEN old[b] ELSE L[b - n]
  BY <1>1, <1>2, <1>4, ConcatProperties DEF m
<1> HIDE DEF both
<1>6. both = [b \in 1 .. n + m |-> both[b]]
  BY <1>1, <1>5
<1>7. ASSUME NEW b \in 1 .. n + m PROVE both[b] = s[b].value
  <2>1. CASE b <= n
    <3>1. b \in 1 .. n
      BY <1>1, <2>1
    <3>2. QED
      BY <1>2, <1>4, <1>5, <2>1, <3>1
  <2>2. CASE ~(b <= n)
    <3>1. b - n \in 1 .. m /\ n + (b - n) = b
      BY <1>1, <2>2
    <3>2. s[n + (b - n)].value = L[b - n]
      BY <1>4a, <3>1
    <3>3. QED
      BY <1>5, <2>2, <3>1, <3>2
  <2>3. QED
    BY <2>1, <2>2
<1>8. both = new
  BY <1>3, <1>6, <1>7
<1>9. QED
  BY <1>8 DEF both, new, old, q, m

Value == Exp!Text \union {NULL}

\* The values of one list and then of another.
LEMMA NotNullAppended ==
  ASSUME NEW s \in Seq(Value), NEW x \in Value
  PROVE  /\ Exp!NotNull(s) \in Seq(Exp!Text)
         /\ Exp!NotNull(Append(s, x)) = Exp!NotNull(s) \o IF x = NULL THEN <<>> ELSE <<x>>
<1> DEFINE of(v) == IF v = NULL THEN <<>> ELSE <<v>>
           n == Len(s)
           m == n + 1
           longer == Append(s, x)
           each == [a \in 1 .. n |-> of(s[a])]
<1>1. n \in Nat /\ DOMAIN s = 1 .. n /\ \A a \in 1 .. n : s[a] \in Value
  OBVIOUS
<1>2. /\ longer \in Seq(Value) /\ DOMAIN longer = 1 .. m /\ longer[m] = x
      /\ \A a \in 1 .. n : longer[a] = s[a]
  BY AppendProperties
<1>3. \A v \in Value : of(v) \in Seq(Exp!Text)
  <2>1. \A v \in Exp!Text : <<v>> \in Seq(Exp!Text)
    OBVIOUS
  <2>2. <<>> \in Seq(Exp!Text)
    OBVIOUS
  <2>3. QED
    BY <2>1, <2>2 DEF Value
<1>4. \A t : Exp!NotNull(t) = FlattenSeq([a \in DOMAIN t |-> of(t[a])])
  BY SameLibrary DEF Exp!NotNull
<1> HIDE DEF n, longer, of
<1>5. each \in Seq(Seq(Exp!Text)) /\ Len(each) = n /\ m = Len(each) + 1
  BY <1>1, <1>3
<1>6. of(x) \in Seq(Exp!Text)
  BY <1>3
<1>7. Append(each, of(x)) = [a \in 1 .. m |-> IF a = m THEN of(x) ELSE each[a]]
  <2> HIDE DEF m, each
  <2> QED
    BY <1>5, <1>6, AppendIs
<1>8. [a \in DOMAIN longer |-> of(longer[a])] = Append(each, of(x))
  <2>1. ASSUME NEW a \in 1 .. m PROVE of(longer[a]) = IF a = m THEN of(x) ELSE each[a]
    <3>1. CASE a = m
      BY <1>2, <3>1
    <3>2. CASE a # m
      <4>1. a \in 1 .. n
        BY <1>1, <3>2
      <4>2. QED
        BY <1>2, <3>2, <4>1
    <3>3. QED
      BY <3>1, <3>2
  <2> HIDE DEF m, each
  <2>2. QED
    BY <1>2, <1>7, <2>1
<1> HIDE DEF each, m
<1>9. FlattenSeq(Append(each, of(x))) = FlattenSeq(each) \o of(x) /\ FlattenSeq(each) \in Seq(Exp!Text)
  BY <1>5, <1>6, FlattenedOn
<1>10. Exp!NotNull(s) = FlattenSeq(each)
  BY <1>1, <1>4 DEF each
<1>11. Exp!NotNull(longer) = FlattenSeq(Append(each, of(x)))
  BY <1>4, <1>8
<1>12. QED
  BY <1>9, <1>10, <1>11 DEF longer, of

\* An empty list has no values.
LEMMA NotNullOfNone == Exp!NotNull(<<>>) = <<>>
<1>1. Exp!NotNull(<<>>) = FlattenSeq([a \in DOMAIN <<>> |-> IF <<>>[a] = NULL THEN <<>> ELSE <<<<>>[a]>>])
    BY SameLibrary DEF Exp!NotNull
<1>2. [a \in DOMAIN <<>> |-> IF <<>>[a] = NULL THEN <<>> ELSE <<<<>>[a]>>] = <<>>
    OBVIOUS
<1>3. QED
    BY <1>1, <1>2 DEF FlattenSeq

\* Of two lists one behind the other, too.
LEMMA NotNullJoined ==
  ASSUME NEW s \in Seq(Value), NEW t \in Seq(Value)
  PROVE  Exp!NotNull(s \o t) = Exp!NotNull(s) \o Exp!NotNull(t)
<1> DEFINE n == Len(t)
           to(k) == SubSeq(t, 1, k)
           Good == {k \in 0 .. n : Exp!NotNull(s \o to(k)) = Exp!NotNull(s) \o Exp!NotNull(to(k))}
           of(v) == IF v = NULL THEN <<>> ELSE <<v>>
<1>1. n \in Nat /\ \A k \in 1 .. n : t[k] \in Value
  OBVIOUS
<1>2. /\ s \o to(0) = s /\ s \o to(n) = s \o t
      /\ \A k \in 0 .. n : s \o to(k) \in Seq(Value)
      /\ \A k \in 1 .. n : s \o to(k) = Append(s \o to(k - 1), t[k])
  BY ONLY s \in Seq(Value), t \in Seq(Value), OneByOne
<1>3. \A k \in 0 .. n : to(k) \in Seq(Value)
  OBVIOUS
<1>4. to(0) = <<>> /\ to(n) = t
  OBVIOUS
<1>5. \A k \in 1 .. n : to(k) = Append(to(k - 1), t[k])
  <2>1. \A k \in 0 .. n : <<>> \o to(k) = to(k)
    BY <1>3
  <2>2. <<>> \in Seq(Value)
    OBVIOUS
  <2>3. \A k \in 1 .. n : <<>> \o to(k) = Append(<<>> \o to(k - 1), t[k])
    BY <2>2, OneByOne
  <2>4. \A k \in 1 .. n : k \in 0 .. n /\ k - 1 \in 0 .. n
    BY <1>1
  <2> HIDE DEF to, n
  <2>5. QED
    BY <2>1, <2>3, <2>4
<1>6. \A v \in Seq(Value) : Exp!NotNull(v) \in Seq(Exp!Text)
  <2>1. NULL \in Value
    BY DEF Value
  <2>2. QED
    BY <2>1, NotNullAppended
<1>7. Exp!NotNull(<<>>) = <<>>
  BY NotNullOfNone
<1> HIDE DEF to, n
<1>8. 0 \in Good
  <2>1. Exp!NotNull(s) \o <<>> = Exp!NotNull(s)
    BY <1>6
  <2>2. Exp!NotNull(s \o to(0)) = Exp!NotNull(s)
    BY <1>2
  <2>3. Exp!NotNull(to(0)) = <<>>
    BY <1>4, <1>7
  <2>4. Exp!NotNull(s \o to(0)) = Exp!NotNull(s) \o Exp!NotNull(to(0))
    BY <2>1, <2>2, <2>3
  <2>5. 0 \in 0 .. n
    BY <1>1
  <2>6. QED
    BY <2>4, <2>5
<1>9. ASSUME NEW k \in 1 .. n, k - 1 \in Good PROVE k \in Good
  <2> DEFINE j == k - 1
             a == Exp!NotNull(s)
             b == Exp!NotNull(to(j))
  <2>1. j \in 0 .. n /\ k \in 0 .. n /\ Exp!NotNull(s \o to(j)) = a \o b
    BY <1>1, <1>9
  <2>2. s \o to(k) = Append(s \o to(j), t[k]) /\ to(k) = Append(to(j), t[k]) /\ t[k] \in Value
    BY <1>1, <1>2, <1>5
  <2>3. s \o to(j) \in Seq(Value) /\ to(j) \in Seq(Value)
    BY <1>2, <1>3, <2>1
  <2>4. Exp!NotNull(s \o to(k)) = (a \o b) \o of(t[k])
    BY <2>1, <2>2, <2>3, NotNullAppended
  <2>5. Exp!NotNull(to(k)) = b \o of(t[k])
    BY <2>2, <2>3, NotNullAppended
  <2>6. a \in Seq(Exp!Text) /\ b \in Seq(Exp!Text)
    BY <1>6, <2>3
  <2>7. of(t[k]) \in Seq(Exp!Text)
    <3>1. CASE t[k] = NULL
      BY <3>1
    <3>2. CASE t[k] # NULL
      <4>1. t[k] \in Exp!Text
        BY <2>2, <3>2 DEF Value
      <4>2. QED
        BY <3>2, <4>1
    <3>3. QED
      BY <3>1, <3>2
  <2> HIDE DEF a, b, of
  <2>8. (a \o b) \o of(t[k]) = a \o (b \o of(t[k]))
    BY <2>6, <2>7, ConcatAssociative
  <2> HIDE DEF j
  <2>9. QED
    BY <2>1, <2>4, <2>5, <2>8 DEF a
<1>10. Good = 0 .. n
  <2> HIDE DEF Good
  <2>1. Good \in SUBSET (0 .. n)
    BY DEF Good
  <2>2. QED
    BY <1>1, <1>8, <1>9, <2>1, UpTo
<1>11. n \in 0 .. n
  BY <1>1
<1>12. QED
  BY <1>2, <1>4, <1>10, <1>11

\* Nothing is left out of a list of texts.
LEMMA NotNullTexts ==
  ASSUME NEW s \in Seq(Exp!Text)
  PROVE  Exp!NotNull(s) = s /\ Exp!NotNull(Append(s, NULL)) = s
<1> DEFINE n == Len(s)
           to(k) == SubSeq(s, 1, k)
           Good == {k \in 0 .. n : Exp!NotNull(to(k)) = to(k)}
<1>1. n \in Nat /\ \A k \in 1 .. n : s[k] \in Value /\ s[k] # NULL
  BY NullIsNoText DEF Value
<1>2. \A k \in 0 .. n : to(k) \in Seq(Value)
  BY DEF Value
<1>3. to(0) = <<>> /\ to(n) = s
  OBVIOUS
<1>4. \A k \in 1 .. n : to(k) = Append(to(k - 1), s[k]) /\ to(k) = to(k - 1) \o <<s[k]>>
  <2>1. \A k \in 0 .. n : <<>> \o to(k) = to(k)
    BY <1>2
  <2>2. <<>> \in Seq(Exp!Text)
    OBVIOUS
  <2>3. \A k \in 1 .. n : <<>> \o to(k) = Append(<<>> \o to(k - 1), s[k])
    BY <2>2, OneByOne
  <2>4. \A k \in 1 .. n : k \in 0 .. n /\ k - 1 \in 0 .. n
    BY <1>1
  <2> HIDE DEF to, n
  <2>5. \A k \in 1 .. n : to(k) = Append(to(k - 1), s[k])
    BY <2>1, <2>3, <2>4
  <2>6. ASSUME NEW k \in 1 .. n PROVE Append(to(k - 1), s[k]) = to(k - 1) \o <<s[k]>>
    <3>1. to(k - 1) \in Seq(Value) /\ s[k] \in Value
      BY <1>1, <1>2, <2>4
    <3>2. QED
      BY <3>1, AppendIsConcat
  <2>7. QED
    BY <2>5, <2>6
<1>5. Exp!NotNull(<<>>) = <<>>
  BY NotNullOfNone
<1> HIDE DEF to, n
<1>6. 0 \in Good
  <2>1. 0 \in 0 .. n
    BY <1>1
  <2>2. QED
    BY <1>3, <1>5, <2>1
<1>7. ASSUME NEW k \in 1 .. n, k - 1 \in Good PROVE k \in Good
  <2>1. k - 1 \in 0 .. n /\ k \in 0 .. n /\ Exp!NotNull(to(k - 1)) = to(k - 1)
    BY <1>1, <1>7
  <2>2. to(k - 1) \in Seq(Value) /\ s[k] \in Value /\ s[k] # NULL
    BY <1>1, <1>2, <2>1
  <2>3. Exp!NotNull(Append(to(k - 1), s[k])) = Exp!NotNull(to(k - 1)) \o <<s[k]>>
    BY <2>2, NotNullAppended
  <2>4. QED
    BY <1>4, <2>1, <2>3
<1>8. Good = 0 .. n
  <2> HIDE DEF Good
  <2>1. Good \in SUBSET (0 .. n)
    BY DEF Good
  <2>2. QED
    BY <1>1, <1>6, <1>7, <2>1, UpTo
<1>9. Exp!NotNull(s) = s
  <2>1. n \in 0 .. n
    BY <1>1
  <2>2. QED
    BY <1>3, <1>8, <2>1
<1>10. Exp!NotNull(Append(s, NULL)) = s
  <2>1. s \in Seq(Value) /\ NULL \in Value
    BY DEF Value
  <2>2. Exp!NotNull(Append(s, NULL)) = Exp!NotNull(s) \o <<>>
    BY <2>1, NotNullAppended
  <2>3. s \o <<>> = s
    OBVIOUS
  <2>4. QED
    BY <1>9, <2>2, <2>3
<1>11. QED
  BY <1>9, <1>10

\* The first node of v without a value is behind the values w.
CutBehind(v, w) ==
  Len(w) < Len(v) /\ v[Len(w) + 1] = NULL /\ \A j \in 1 .. Len(w) : v[j] = w[j]

\* args_to_array takes the values in front of it.
LEMMA FirstNull ==
  ASSUME NEW args, NEW v \in Seq(Value), Exp!Values(args) = v, NEW w \in Seq(Exp!Text),
         CutBehind(Append(v, NULL), w)
  PROVE  Exp!ArgsToArray(args) = w
<1> DEFINE longer == Append(v, NULL)
           n == Len(w)
           nulls == {k \in 1 .. Len(longer) : longer[k] = NULL}
           least == CHOOSE x \in nulls : \A y \in nulls : x <= y
<1>1. n \in Nat /\ \A j \in 1 .. n : w[j] \in Exp!Text
  OBVIOUS
<1>2. /\ longer \in Seq(Value) /\ Len(longer) = Len(v) + 1 /\ Len(v) \in Nat
      /\ \A k \in 1 .. Len(v) : longer[k] = v[k]
  <2>1. NULL \in Value
    BY DEF Value
  <2>2. QED
    BY <2>1, AppendProperties
<1>3. n < Len(longer) /\ longer[n + 1] = NULL /\ \A j \in 1 .. n : longer[j] = w[j]
  BY DEF CutBehind
<1> HIDE DEF longer, n
<1>4. n + 1 \in nulls /\ \A y \in nulls : n + 1 <= y
  <2>1. n + 1 \in nulls
    BY <1>1, <1>2, <1>3
  <2>2. ASSUME NEW y \in nulls, ~(n + 1 <= y) PROVE FALSE
    <3>1. y \in 1 .. n /\ longer[y] = NULL
      BY <1>1, <1>2, <2>2
    <3>2. longer[y] \in Exp!Text
      BY <1>1, <1>3, <3>1
    <3>3. QED
      BY <3>1, <3>2, NullIsNoText
  <2>3. QED
    BY <2>1, <2>2
<1>5. nulls # {} /\ nulls \in SUBSET Nat
  BY <1>2, <1>4
<1> HIDE DEF nulls
<1>6. least = n + 1
  <2>1. least \in nulls /\ \A y \in nulls : least <= y
    BY <1>4
  <2>2. least <= n + 1 /\ n + 1 <= least /\ least \in Nat
    BY <1>4, <1>5, <2>1
  <2> HIDE DEF least
  <2>3. QED
    BY <1>1, <2>2
<1> DEFINE at == Exp!SelectInSeq(longer, LAMBDA x : x = NULL)
<1>7. at = least
  <2>1. at = IF nulls # {} THEN Exp!Min(nulls) ELSE 0
    BY DEF Exp!SelectInSeq, nulls
  <2>2. Exp!Min(nulls) = least
    BY DEF Exp!Min
  <2>3. QED
    BY <1>5, <2>1, <2>2
<1>8. Exp!ArgsToArray(args) = SubSeq(v, 1, n)
  <2>1. Exp!ArgsToArray(args) = SubSeq(v, 1, at - 1)
    BY DEF Exp!ArgsToArray, longer
  <2> HIDE DEF at, least
  <2>2. at - 1 = n
    BY <1>1, <1>6, <1>7
  <2>3. QED
    BY <2>1, <2>2
<1>9. n <= Len(v) /\ \A j \in 1 .. n : v[j] = w[j]
  BY <1>1, <1>2, <1>3
<1>10. SubSeq(v, 1, n) = w
  <2>1. v \in Seq(Value) /\ w \in Seq(Exp!Text)
    OBVIOUS
  <2>2. SubSeq(v, 1, n) = [j \in 1 .. n |-> v[j]]
    BY <1>1, <1>2, <1>9, <2>1
  <2>3. w = [j \in 1 .. n |-> w[j]]
    BY <1>1 DEF n
  <2>4. QED
    BY <1>9, <2>2, <2>3
<1>11. QED
  BY <1>8, <1>10

\* More values behind the cut change nothing.
LEMMA CutStays ==
  ASSUME NEW v \in Seq(Value), NEW w \in Seq(Exp!Text), CutBehind(v, w), NEW t \in Seq(Value)
  PROVE  CutBehind(v \o t, w)
<1> DEFINE both == v \o t
           n == Len(w)
<1>1. /\ both \in Seq(Value) /\ Len(both) = Len(v) + Len(t) /\ Len(v) \in Nat /\ Len(t) \in Nat /\ n \in Nat
      /\ \A j \in 1 .. Len(v) : both[j] = v[j]
  <2>1. /\ both \in Seq(Value) /\ Len(both) = Len(v) + Len(t)
        /\ \A j \in 1 .. Len(v) + Len(t) : both[j] = IF j <= Len(v) THEN v[j] ELSE t[j - Len(v)]
    BY ConcatProperties
  <2> HIDE DEF both
  <2>2. Len(v) \in Nat /\ Len(t) \in Nat /\ n \in Nat
    OBVIOUS
  <2>3. QED
    BY <2>1, <2>2
<1>2. n < Len(v) /\ v[n + 1] = NULL /\ \A j \in 1 .. n : v[j] = w[j]
  BY DEF CutBehind
<1> HIDE DEF both, n
<1>3. n + 1 \in 1 .. Len(v) /\ \A j \in 1 .. n : j \in 1 .. Len(v)
  BY <1>1, <1>2
<1>4. n < Len(both) /\ both[n + 1] = NULL /\ \A j \in 1 .. n : both[j] = w[j]
  BY <1>1, <1>2, <1>3
<1>5. QED
  BY <1>4 DEF CutBehind, both, n

\* A node without a value behind them is the first.
LEMMA CutHere ==
  ASSUME NEW w \in Seq(Exp!Text)
  PROVE  CutBehind(Append(w, NULL), w)
<1> DEFINE longer == Append(w, NULL)
           n == Len(w)
<1>1. w \in Seq(Value) /\ NULL \in Value /\ n \in Nat
  BY DEF Value
<1>2. Len(longer) = n + 1 /\ longer[n + 1] = NULL /\ \A j \in 1 .. n : longer[j] = w[j]
  BY <1>1, AppendProperties
<1> HIDE DEF longer, n
<1>3. n < Len(longer)
  BY <1>1, <1>2
<1>4. QED
  BY <1>2, <1>3 DEF CutBehind, longer, n

\* The words of the first n arguments.
WordsTo(args, n) == FlattenSeq([a \in 1 .. n |-> Exp!Words(args[a].segments)])

\* One argument more adds its own.
LEMMA WordsOneMore ==
  ASSUME NEW args, NEW n \in Nat, \A a \in 1 .. n + 1 : Exp!Words(args[a].segments) \in Seq(Exp!Text)
  PROVE  /\ WordsTo(args, n + 1) = WordsTo(args, n) \o Exp!Words(args[n + 1].segments)
         /\ WordsTo(args, n) \in Seq(Exp!Text)
<1> DEFINE m == n + 1
           of(a) == Exp!Words(args[a].segments)
           each == [a \in 1 .. n |-> of(a)]
           last == of(m)
<1>1. m \in Nat /\ m \in 1 .. m /\ \A k \in 1 .. n : k \in 1 .. m /\ k # m
  OBVIOUS
<1>2. \A k \in 1 .. m : k = m \/ k \in 1 .. n
  OBVIOUS
<1>3. \A a \in 1 .. m : of(a) \in Seq(Exp!Text)
  OBVIOUS
<1>4. WordsTo(args, n) = FlattenSeq(each) /\ WordsTo(args, m) = FlattenSeq([a \in 1 .. m |-> of(a)])
  BY DEF WordsTo
<1> HIDE DEF of, m
<1>5. each \in Seq(Seq(Exp!Text)) /\ Len(each) = n
  <2>1. n \in Nat /\ \A a \in 1 .. n : of(a) \in Seq(Exp!Text)
    BY <1>1, <1>3
  <2>2. QED
    BY <2>1
<1>6. last \in Seq(Exp!Text)
  BY <1>1, <1>3
<1>7. m = Len(each) + 1
  BY <1>5 DEF m
<1>8. \A k \in 1 .. m : of(k) = IF k = m THEN last ELSE each[k]
  BY <1>2
<1> HIDE DEF each, last
<1>9. Append(each, last) = [a \in 1 .. m |-> of(a)]
  <2>1. Append(each, last) = [a \in 1 .. m |-> IF a = m THEN last ELSE each[a]]
    <3> DEFINE V == Seq(Exp!Text)
    <3>1. each \in Seq(V) /\ last \in V
      BY <1>5, <1>6
    <3> HIDE DEF V
    <3>2. QED
      BY <1>7, <3>1, AppendIs
  <2>2. QED
    BY <1>8, <2>1
<1>10. FlattenSeq(Append(each, last)) = FlattenSeq(each) \o last /\ FlattenSeq(each) \in Seq(Exp!Text)
  BY <1>5, <1>6, FlattenedOn
<1>11. QED
  BY <1>4, <1>9, <1>10 DEF last, of, m

\* expand_arg_to_list, by whether the argument ends in a blank.
LEMMA ListOfArg ==
  ASSUME env \in Envs, NEW argument, argument.segments \in Seq(Exp!Segment)
  PROVE  /\ Exp!Words(argument.segments) \in Seq(Exp!Text)
         /\ Exp!ExpandArgToList(argument.segments) \in Seq(Value)
         /\ Exp!EndsInBlank(argument) =>
              Exp!ExpandArgToList(argument.segments) = Append(Exp!Words(argument.segments), NULL)
         /\ ~Exp!EndsInBlank(argument) =>
              Exp!ExpandArgToList(argument.segments) = Exp!Words(argument.segments)
<1> DEFINE segs == argument.segments
<1>1. /\ Exp!Words(segs) \in Seq(Exp!Text)
      /\ Exp!ExpandArgToList(segs) =
              IF Exp!Words(segs) # <<>> /\ Exp!Splits(Exp!Pieces(segs)[Len(Exp!Pieces(segs))])
              THEN Append(Exp!Words(segs), NULL) ELSE Exp!Words(segs)
  BY ArgSplit
<1>2. Exp!ExpandArgToList(segs) \in Seq(Value)
  BY ArgList DEF Value
<1>3. Exp!EndsInBlank(argument) <=>
        Exp!Words(segs) # <<>> /\ Exp!Splits(Exp!Pieces(segs)[Len(Exp!Pieces(segs))])
  BY DEF Exp!EndsInBlank, Exp!Words
<1> HIDE DEF segs
<1>4. QED
  BY <1>1, <1>2, <1>3 DEF segs

\* The values of the first n arguments: each word, and none else; and the first
\* node without a value, if one of them ends in a blank, behind its words.
LEMMA ArgsSplit ==
  ASSUME env \in Envs, NEW args, NEW n \in Nat, \A a \in 1 .. n : args[a].segments \in Seq(Exp!Segment)
  PROVE  /\ FlattenSeq(Lists(args, n)) \in Seq(Value) /\ WordsTo(args, n) \in Seq(Exp!Text)
         /\ Exp!NotNull(FlattenSeq(Lists(args, n))) = WordsTo(args, n)
         /\ (\A a \in 1 .. n : ~Exp!EndsInBlank(args[a])) => FlattenSeq(Lists(args, n)) = WordsTo(args, n)
         /\ \A u \in 1 .. n :
              Exp!EndsInBlank(args[u]) /\ (\A a \in 1 .. u - 1 : ~Exp!EndsInBlank(args[a])) =>
                /\ WordsTo(args, u) \in Seq(Exp!Text)
                /\ CutBehind(FlattenSeq(Lists(args, n)), WordsTo(args, u))
<1> DEFINE g(k) == FlattenSeq(Lists(args, k))
           h(k) == WordsTo(args, k)
           list(k) == Exp!ExpandArgToList(args[k].segments)
           words(k) == Exp!Words(args[k].segments)
           blank(k) == Exp!EndsInBlank(args[k])
<1>1. ASSUME NEW k \in 1 .. n
      PROVE  /\ words(k) \in Seq(Exp!Text) /\ list(k) \in Seq(Value)
             /\ blank(k) => list(k) = Append(words(k), NULL)
             /\ ~blank(k) => list(k) = words(k)
  BY ListOfArg
<1>2. ASSUME NEW k \in 1 .. n PROVE g(k) = g(k - 1) \o list(k) /\ h(k) = h(k - 1) \o words(k)
  <2> DEFINE j == k - 1
  <2>1. j \in Nat /\ j + 1 = k /\ \A a \in 1 .. j + 1 : a \in 1 .. n
    OBVIOUS
  <2> HIDE DEF j
  <2>2. FlattenSeq(Lists(args, j + 1)) = FlattenSeq(Lists(args, j)) \o Exp!ExpandArgToList(args[j + 1].segments)
    BY <2>1, OneMoreList
  <2>3. WordsTo(args, j + 1) = WordsTo(args, j) \o Exp!Words(args[j + 1].segments)
    BY <1>1, <2>1, WordsOneMore
  <2>4. QED
    BY <2>1, <2>2, <2>3 DEF j
<1>3. g(0) = <<>> /\ h(0) = <<>>
  <2>1. FlattenSeq(<<>>) = <<>>
    BY DEF FlattenSeq
  <2>2. Lists(args, 0) = <<>> /\ [a \in 1 .. 0 |-> Exp!Words(args[a].segments)] = <<>>
    BY DEF Lists
  <2>3. QED
    BY <2>1, <2>2 DEF WordsTo
<1> HIDE DEF g, h, list, words, blank
<1>4. n \in Nat /\ n \in 0 .. n /\ 0 \in 0 .. n /\ \A k \in 1 .. n : k \in 0 .. n /\ k - 1 \in 0 .. n
  OBVIOUS
<1>5. <<>> \in Seq(Value) /\ <<>> \in Seq(Exp!Text)
  OBVIOUS
<1> DEFINE Good == {k \in 0 .. n : /\ g(k) \in Seq(Value) /\ h(k) \in Seq(Exp!Text)
                                   /\ Exp!NotNull(g(k)) = h(k)
                                   /\ (\A a \in 1 .. k : ~blank(a)) => g(k) = h(k)}
<1>6. 0 \in Good
  BY <1>3, <1>4, <1>5, NotNullOfNone
<1>7. ASSUME NEW k \in 1 .. n, k - 1 \in Good PROVE k \in Good
  <2> DEFINE j == k - 1
  <2>1. /\ g(j) \in Seq(Value) /\ h(j) \in Seq(Exp!Text) /\ Exp!NotNull(g(j)) = h(j)
        /\ (\A a \in 1 .. j : ~blank(a)) => g(j) = h(j)
    BY <1>7
  <2>2. g(k) = g(j) \o list(k) /\ h(k) = h(j) \o words(k)
    BY <1>2
  <2>3. k \in 0 .. n /\ k \in 1 .. k /\ \A a \in 1 .. j : a \in 1 .. k
    OBVIOUS
  <2> HIDE DEF j
  <2>4. g(k) \in Seq(Value) /\ h(k) \in Seq(Exp!Text)
    BY <1>1, <2>1, <2>2
  <2>5. Exp!NotNull(list(k)) = words(k)
    <3>1. Exp!NotNull(words(k)) = words(k) /\ Exp!NotNull(Append(words(k), NULL)) = words(k)
      BY <1>1, NotNullTexts
    <3>2. QED
      BY <1>1, <3>1
  <2>6. Exp!NotNull(g(k)) = h(k)
    <3>1. Exp!NotNull(g(j) \o list(k)) = Exp!NotNull(g(j)) \o Exp!NotNull(list(k))
      BY <1>1, <2>1, NotNullJoined
    <3>2. QED
      BY <2>1, <2>2, <2>5, <3>1
  <2>7. (\A a \in 1 .. k : ~blank(a)) => g(k) = h(k)
    BY <1>1, <2>1, <2>2, <2>3
  <2>8. QED
    BY <2>3, <2>4, <2>6, <2>7
<1>8. Good = 0 .. n
  <2> HIDE DEF Good
  <2>1. Good \in SUBSET (0 .. n)
    BY DEF Good
  <2>2. QED
    BY <1>4, <1>6, <1>7, <2>1, UpTo
<1>9. ASSUME NEW u \in 1 .. n, blank(u), \A a \in 1 .. u - 1 : ~blank(a)
      PROVE  h(u) \in Seq(Exp!Text) /\ CutBehind(g(n), h(u))
  <2>1. /\ g(u - 1) = h(u - 1) /\ h(u - 1) \in Seq(Exp!Text) /\ h(u) \in Seq(Exp!Text)
        /\ \A k \in 0 .. n : g(k) \in Seq(Value)
    BY <1>4, <1>8, <1>9
  <2>2. g(u) = Append(h(u), NULL)
    <3> DEFINE a == h(u - 1)
               b == words(u)
    <3>1. a \in Seq(Value) /\ b \in Seq(Value) /\ NULL \in Value
      BY <1>1, <2>1 DEF Value
    <3>2. g(u) = a \o Append(b, NULL) /\ h(u) = a \o b
      BY <1>1, <1>2, <1>9, <2>1
    <3> HIDE DEF a, b
    <3>3. Append(b, NULL) = b \o <<NULL>> /\ Append(a \o b, NULL) = (a \o b) \o <<NULL>>
      <4>1. a \o b \in Seq(Value)
        BY <3>1
      <4>2. QED
        BY <3>1, <4>1, AppendIsConcat
    <3>4. (a \o b) \o <<NULL>> = a \o (b \o <<NULL>>)
      <4>1. <<NULL>> \in Seq(Value)
        BY <3>1
      <4>2. QED
        BY <3>1, <4>1, ConcatAssociative
    <3>5. QED
      BY <3>2, <3>3, <3>4
  <2>3. CutBehind(g(u), h(u))
    BY <2>1, <2>2, CutHere
  <2> DEFINE Still == {k \in 0 .. n : u <= k => CutBehind(g(k), h(u))}
  <2>4. 0 \in Still
    BY <1>4
  <2>5. ASSUME NEW k \in 1 .. n, k - 1 \in Still PROVE k \in Still
    <3>1. CASE u = k
      BY <1>4, <2>3, <3>1
    <3>2. CASE u <= k - 1
      <4>1. CutBehind(g(k - 1), h(u)) /\ k - 1 \in 0 .. n
        BY <1>4, <2>5, <3>2
      <4>2. CutBehind(g(k - 1) \o list(k), h(u))
        BY <1>1, <2>1, <4>1, CutStays
      <4>3. QED
        BY <1>2, <1>4, <4>2
    <3>3. CASE ~(u <= k)
      BY <1>4, <3>3
    <3>4. u = k \/ u <= k - 1 \/ ~(u <= k)
      OBVIOUS
    <3>5. QED
      BY <3>1, <3>2, <3>3, <3>4
  <2>6. Still = 0 .. n
    <3> HIDE DEF Still
    <3>1. Still \in SUBSET (0 .. n)
      BY DEF Still
    <3>2. QED
      BY <1>4, <2>4, <2>5, <3>1, UpTo
  <2>7. n \in Still /\ u <= n
    BY <1>4, <2>6
  <2>8. QED
    BY <2>1, <2>7
<1>10. n \in Good
  BY <1>4, <1>8
<1>11. QED
  BY <1>9, <1>10 DEF g, h, blank

----------------------------------------------------------------------------
(* The lexer: what the tokens and the segments of a word are like.         *)

\* Segments the expander can take: no unquoted one is empty or next to another.
WellCut(segs) ==
  \A j \in DOMAIN segs :
    segs[j].quote = "none" => segs[j].value # <<>> /\ (j > 1 => segs[j - 1].quote # "none")

WordsFit ==
  \A k \in DOMAIN tokens :
    tokens[k].type = "WORD" => tokens[k].segments # <<>> /\ WellCut(tokens[k].segments)

OneEnd ==
  /\ lexing \in {"tokens", "word"} => \A k \in DOMAIN tokens : tokens[k].type # "END"
  /\ lexing = "done" => tokens # <<>> /\ \A k \in DOMAIN tokens : tokens[k].type = "END" <=> k = Len(tokens)

\* A word has begun with one of its characters; and an unquoted part ends only
\* where no other can begin.
WordSoFar ==
  lexing = "word" =>
    /\ WellCut(wordSegments)
    /\ wordSegments = <<>> => ~Lex!AtEnd /\ ~Lex!At(Lex!Blanks \union Lex!Operators)
    /\ wordSegments # <<>> /\ wordSegments[Len(wordSegments)].quote = "none"
         => Lex!AtEnd \/ Lex!At(Lex!Blanks \union Lex!Operators \union Lex!Quotes)

LexInv == Lex!TypeOK /\ WordsFit /\ OneEnd /\ WordSoFar

\* Where a run ends: at a character of S, or with the line.
LEMMA RunEnds ==
  ASSUME input \in Seq(Lex!Char), NEW k \in 0 .. Len(input), NEW S
  PROVE  /\ Lex!RunEnd(k, S) \in k .. Len(input)
         /\ Lex!RunEnd(k, S) < Len(input) => input[Lex!RunEnd(k, S) + 1] \in S
         /\ k < Len(input) /\ input[k + 1] \notin S => Lex!RunEnd(k, S) # k
         /\ \A l \in k .. Lex!RunEnd(k, S) - 1 : input[l + 1] \notin S
<1> DEFINE n == Len(input)
           Is(j) == /\ j < n => input[j + 1] \in S
                    /\ \A l \in k .. j - 1 : input[l + 1] \notin S
           end == CHOOSE j \in k .. n : Is(j)
           Stop == {j \in k .. n : j < n /\ input[j + 1] \in S}
<1>1. n \in Nat
  OBVIOUS
<1>2. Lex!RunEnd(k, S) = end
  BY DEF Lex!RunEnd
<1> HIDE DEF n
<1>3. PICK j \in k .. n : (j < n => j \in Stop) /\ \A l \in k .. j - 1 : l \notin Stop
  <2> HIDE DEF Stop
  <2> QED
    BY <1>1, RunStops DEF n
<1>4. Is(j)
  <2>1. ASSUME NEW l \in k .. j - 1 PROVE input[l + 1] \notin S
    <3>1. l \in k .. n /\ l < n
      BY <1>1, <1>3 DEF n
    <3>2. QED
      BY <1>3, <3>1
  <2>2. QED
    BY <1>3, <2>1
<1>5. end \in k .. n /\ Is(end)
  <2> HIDE DEF Is
  <2> QED
    BY <1>3, <1>4
<1> HIDE DEF end
<1>6. QED
  BY <1>2, <1>5 DEF n

\* A piece of the line.
LEMMA Pieces ==
  ASSUME input \in Seq(Lex!Char), NEW from \in 0 .. Len(input), NEW to \in from .. Len(input)
  PROVE  Lex!Between(from, to) \in Seq(Lex!Char) /\ Len(Lex!Between(from, to)) = to - from
         /\ (to # from => Lex!Between(from, to) # <<>>)
         /\ (to = from + 1 => Lex!Between(from, to) = <<input[from + 1]>>)
         /\ (to = from + 2 => Lex!Between(from, to) = <<input[from + 1], input[from + 2]>>)
<1> DEFINE s == SubSeq(input, from + 1, to)
<1>1. s \in Seq(Lex!Char) /\ Len(s) = to - from /\ (to # from => s # <<>>)
  OBVIOUS
<1>2. \A k \in 1 .. to - from : s[k] = input[from + k]
  OBVIOUS
<1>3. Lex!Between(from, to) = s
  BY DEF Lex!Between
<1> HIDE DEF s
<1>4. ASSUME to = from + 1 PROVE s = <<input[from + 1]>>
  <2>1. Len(s) = 1 /\ s[1] = input[from + 1]
    BY <1>1, <1>2, <1>4
  <2>2. QED
    BY <1>1, <2>1
<1>5. ASSUME to = from + 2 PROVE s = <<input[from + 1], input[from + 2]>>
  <2>1. Len(s) = 2 /\ s[1] = input[from + 1] /\ s[2] = input[from + 2]
    BY <1>1, <1>2, <1>5
  <2>2. QED
    BY <1>1, <2>1
<1>6. QED
  BY <1>1, <1>3, <1>4, <1>5

\* One more segment.
LEMMA OneMoreSegment ==
  ASSUME NEW segs \in Seq(Lex!Segment), WellCut(segs), NEW seg \in Lex!Segment,
         seg.quote = "none" => seg.value # <<>> /\ (segs # <<>> => segs[Len(segs)].quote # "none")
  PROVE  /\ Append(segs, seg) \in Seq(Lex!Segment) /\ Append(segs, seg) # <<>>
         /\ Len(Append(segs, seg)) = Len(segs) + 1 /\ Append(segs, seg)[Len(segs) + 1] = seg
         /\ WellCut(Append(segs, seg))
<1> DEFINE more == Append(segs, seg)
<1>1. /\ more \in Seq(Lex!Segment) /\ Len(more) = Len(segs) + 1 /\ more[Len(segs) + 1] = seg
      /\ more # <<>> /\ \A j \in 1 .. Len(segs) : more[j] = segs[j]
  OBVIOUS
<1> HIDE DEF more
<1>2. ASSUME NEW j \in DOMAIN more, more[j].quote = "none"
      PROVE  more[j].value # <<>> /\ (j > 1 => more[j - 1].quote # "none")
  <2>1. CASE j = Len(segs) + 1
    <3>1. more[j] = seg
      BY <1>1, <2>1
    <3>2. j > 1 => j - 1 = Len(segs) /\ j - 1 \in 1 .. Len(segs) /\ segs # <<>>
      BY <2>1
    <3>3. QED
      BY <1>1, <1>2, <3>1, <3>2
  <2>2. CASE j # Len(segs) + 1
    <3>1. j \in 1 .. Len(segs) /\ j \in DOMAIN segs
      BY <1>1, <2>2
    <3>2. j > 1 => j - 1 \in 1 .. Len(segs)
      BY <3>1
    <3>3. QED
      BY <1>1, <1>2, <3>1, <3>2 DEF WellCut
  <2>3. QED
    BY <2>1, <2>2
<1>3. QED
  BY <1>1, <1>2 DEF WellCut, more

\* One more token.
LEMMA OneMoreToken ==
  ASSUME tokens \in Seq(Lex!Token), WordsFit, NEW token \in Lex!Token,
         token.type = "WORD" => token.segments # <<>> /\ WellCut(token.segments),
         tokens' = Append(tokens, token)
  PROVE  /\ (tokens \in Seq(Lex!Token))' /\ WordsFit'
         /\ tokens' # <<>> /\ Len(tokens') = Len(tokens) + 1 /\ tokens'[Len(tokens) + 1] = token
         /\ \A k \in 1 .. Len(tokens) : tokens'[k] = tokens[k]
<1>1. /\ tokens' \in Seq(Lex!Token) /\ Len(tokens') = Len(tokens) + 1 /\ tokens'[Len(tokens) + 1] = token
      /\ tokens' # <<>> /\ \A k \in 1 .. Len(tokens) : tokens'[k] = tokens[k]
  OBVIOUS
<1>2. \A k \in DOMAIN tokens' : k = Len(tokens) + 1 \/ k \in DOMAIN tokens
  BY <1>1
<1>3. WordsFit'
  BY <1>1, <1>2 DEF WordsFit, WellCut
<1>4. QED
  BY <1>1, <1>3 DEF Lex!Token, Lex!Segment, Lex!Char

\* The invariant holds at first.
LEMMA LexInit == Lex!Init => LexInv
  BY LexerParameters DEF Lex!Init, Lex!Parameters, LexInv, Lex!TypeOK, WordsFit, OneEnd, WordSoFar

\* The operators have their types, and none is an END or a word.
LEMMA OpTypes ==
  ASSUME NEW op \in {<<"|">>, <<"<">>, <<">">>, <<"<", "<">>, <<">", ">">>}
  PROVE  Lex!GetOpType(op) \in Lex!Types \ {"WORD", "END"}
  BY DEF Lex!GetOpType, Lex!Types

\* create_token.
LEMMA TokenMade ==
  ASSUME NEW type \in Lex!Types, NEW literal \in Seq(Lex!Char), NEW segs \in Seq(Lex!Segment)
  PROVE  /\ Lex!CreateToken(type, literal, segs) \in Lex!Token
         /\ Lex!CreateToken(type, literal, segs).type = type
         /\ Lex!CreateToken(type, literal, segs).segments = segs
  BY DEF Lex!CreateToken, Lex!Token

\* handle_operator: one character, or the same one twice.
LEMMA OperatorCut ==
  ASSUME input \in Seq(Lex!Char), i \in 0 .. Len(input), Lex!HandleOperator
  PROVE  LET ch == input[i + 1]
             twice == ch # "|" /\ i + 2 <= Len(input) /\ input[i + 2] = ch
             op == Lex!Between(i, i')
             token == Lex!CreateToken(Lex!GetOpType(op), op, <<>>)
         IN  /\ lexing = "tokens" /\ UNCHANGED <<input, start, wordSegments, lexing>>
             /\ tokens' = Append(tokens, token) /\ i' \in i .. Len(input)
             /\ i < Len(input) /\ ch \in Lex!Operators
             /\ i' = IF twice THEN i + 2 ELSE i + 1
             /\ op = IF twice THEN <<ch, ch>> ELSE <<ch>>
             /\ token \in Lex!Token /\ token.type \notin {"WORD", "END"}
             /\ token.literal = op /\ token.segments = <<>>
<1> DEFINE ch == input[i + 1]
           twice == ch # "|" /\ i + 2 <= Len(input) /\ input[i + 2] = ch
           to == IF twice THEN i + 2 ELSE i + 1
           op == Lex!Between(i, i')
           token == Lex!CreateToken(Lex!GetOpType(op), op, <<>>)
<1>1. /\ lexing = "tokens" /\ UNCHANGED <<input, start, wordSegments, lexing>>
      /\ tokens' = Append(tokens, token) /\ i' = to /\ ch \in Lex!Operators /\ i # Len(input)
  BY DEF Lex!HandleOperator, Lex!At, Lex!AtEnd, Lex!Next1
<1>2. i < Len(input) /\ i' \in i .. Len(input)
  BY <1>1
<1>3. op \in Seq(Lex!Char) /\ op = IF twice THEN <<ch, ch>> ELSE <<ch>>
  <2>1. /\ op \in Seq(Lex!Char)
        /\ i' = i + 1 => op = <<input[i + 1]>>
        /\ i' = i + 2 => op = <<input[i + 1], input[i + 2]>>
    BY <1>2, Pieces
  <2>2. QED
    BY <1>1, <2>1
<1>4. op \in {<<"|">>, <<"<">>, <<">">>, <<"<", "<">>, <<">", ">">>}
  <2>1. ch \in {"|", "<", ">"}
    BY <1>1 DEF Lex!Operators
  <2>2. QED
    BY <1>3, <2>1
<1>5. /\ token \in Lex!Token /\ token.type \notin {"WORD", "END"}
      /\ token.literal = op /\ token.segments = <<>>
  <2> HIDE DEF op
  <2>1. Lex!GetOpType(op) \in Lex!Types \ {"WORD", "END"}
    BY <1>4, OpTypes
  <2>2. <<>> \in Seq(Lex!Segment) /\ op \in Seq(Lex!Char)
    BY <1>3
  <2>3. token \in Lex!Token /\ token.type \notin {"WORD", "END"}
    BY <2>1, <2>2, TokenMade
  <2>4. token.literal = op /\ token.segments = <<>>
    BY DEF Lex!CreateToken
  <2>5. QED
    BY <2>3, <2>4
<1> HIDE DEF token
<1>6. QED
  BY <1>1, <1>2, <1>3, <1>5 DEF token

\* Every step of the lexer keeps it.
LEMMA LexNext == LexInv /\ [Lex!Next]_lexVars => LexInv'
<1> SUFFICES ASSUME LexInv, [Lex!Next]_lexVars PROVE LexInv'
  OBVIOUS
<1>a. /\ input \in Seq(Lex!Char) /\ Len(input) \in Nat /\ i \in 0 .. Len(input) /\ start \in 0 .. i
      /\ tokens \in Seq(Lex!Token) /\ wordSegments \in Seq(Lex!Segment)
      /\ lexing \in {"tokens", "word", "done", "unclosed"}
      /\ WordsFit /\ OneEnd /\ WordSoFar
  BY DEF LexInv, Lex!TypeOK
<1>b. ASSUME ~Lex!AtEnd PROVE i < Len(input) /\ i + 1 \in 1 .. Len(input) /\ Lex!Next1 \in Lex!Char
  BY <1>a, <1>b DEF Lex!AtEnd, Lex!Next1
<1>c. Lex!At(Lex!Quotes) \/ Lex!At(Lex!Blanks) \/ Lex!At(Lex!Operators) => ~Lex!AtEnd
  BY DEF Lex!At
<1>1. CASE Lex!SkipWhitespace
  <2>1. i' \in i .. Len(input)
    <3>1. i' = Lex!RunEnd(i, Lex!Char \ Lex!Blanks)
      BY <1>1 DEF Lex!SkipWhitespace
    <3>2. QED
      BY <1>a, <3>1, RunEnds
  <2>2. i' \in 0 .. Len(input) /\ start \in 0 .. i'
    BY <1>a, <2>1
  <2>3. lexing = "tokens" /\ UNCHANGED <<input, tokens, start, wordSegments, lexing>>
    BY <1>1 DEF Lex!SkipWhitespace
  <2>4. QED
    BY <1>a, <2>2, <2>3 DEF LexInv, Lex!TypeOK, WordsFit, OneEnd, WordSoFar, WellCut, Lex!Token, Lex!Segment, Lex!Char
<1>2. CASE Lex!HandleOperator
  <2> DEFINE op == Lex!Between(i, i')
             token == Lex!CreateToken(Lex!GetOpType(op), op, <<>>)
  <2>1. /\ lexing = "tokens" /\ UNCHANGED <<input, start, wordSegments, lexing>>
        /\ tokens' = Append(tokens, token) /\ i' \in i .. Len(input)
        /\ token \in Lex!Token /\ token.type \notin {"WORD", "END"}
    BY <1>2, <1>a, OperatorCut
  <2> HIDE DEF token, op
  <2>2. /\ (tokens \in Seq(Lex!Token))' /\ WordsFit' /\ Len(tokens') = Len(tokens) + 1
        /\ tokens'[Len(tokens) + 1] = token /\ \A k \in 1 .. Len(tokens) : tokens'[k] = tokens[k]
    BY <1>a, <2>1, OneMoreToken
  <2>3. \A k \in DOMAIN tokens' : tokens'[k].type # "END"
    <3>1. \A k \in DOMAIN tokens : tokens[k].type # "END"
      BY <1>a, <2>1 DEF OneEnd
    <3>2. \A k \in DOMAIN tokens' : k = Len(tokens) + 1 \/ k \in 1 .. Len(tokens)
      BY <1>a, <2>2
    <3>3. QED
      BY <1>a, <2>1, <2>2, <3>1, <3>2
  <2>4. i' \in 0 .. Len(input) /\ start \in 0 .. i'
    BY <1>a, <2>1
  <2>5. QED
    BY <1>a, <2>1, <2>2, <2>3, <2>4 DEF LexInv, Lex!TypeOK, OneEnd, WordSoFar, Lex!Segment, Lex!Char
<1>3. CASE Lex!HandleWord
  <2>1. /\ lexing = "tokens" /\ lexing' = "word" /\ start' = i /\ wordSegments' = <<>>
        /\ UNCHANGED <<input, i, tokens>>
        /\ ~Lex!AtEnd /\ ~Lex!At(Lex!Blanks \union Lex!Operators)
    BY <1>3 DEF Lex!HandleWord
  <2>2. (~Lex!AtEnd /\ ~Lex!At(Lex!Blanks \union Lex!Operators))'
    BY <2>1 DEF Lex!AtEnd, Lex!At, Lex!Next1, Lex!Blanks, Lex!Operators
  <2>3. start' \in 0 .. i
    BY <1>a, <2>1
  <2>4. WordSoFar'
    BY <2>1, <2>2 DEF WordSoFar, WellCut
  <2>5. QED
    BY <1>a, <2>1, <2>3, <2>4 DEF LexInv, Lex!TypeOK, WordsFit, OneEnd, WellCut, Lex!Token, Lex!Segment, Lex!Char
<1>4. CASE Lex!End
  <2> DEFINE token == Lex!CreateToken("END", <<>>, <<>>)
  <2>1. /\ lexing = "tokens" /\ lexing' = "done" /\ tokens' = Append(tokens, token)
        /\ UNCHANGED <<input, i, start, wordSegments>>
    BY <1>4 DEF Lex!End
  <2>2. token \in Lex!Token /\ token.type = "END"
    <3>1. "END" \in Lex!Types /\ <<>> \in Seq(Lex!Char) /\ <<>> \in Seq(Lex!Segment)
      BY DEF Lex!Types
    <3>2. QED
      BY <3>1, TokenMade
  <2> HIDE DEF token
  <2>3. /\ (tokens \in Seq(Lex!Token))' /\ WordsFit' /\ Len(tokens') = Len(tokens) + 1 /\ tokens' # <<>>
        /\ tokens'[Len(tokens) + 1] = token /\ \A k \in 1 .. Len(tokens) : tokens'[k] = tokens[k]
    BY <1>a, <2>1, <2>2, OneMoreToken
  <2>4. \A k \in DOMAIN tokens' : tokens'[k].type = "END" <=> k = Len(tokens')
    <3>1. \A k \in DOMAIN tokens : tokens[k].type # "END"
      BY <1>a, <2>1 DEF OneEnd
    <3>2. \A k \in DOMAIN tokens' : k = Len(tokens) + 1 \/ (k \in 1 .. Len(tokens) /\ k # Len(tokens'))
      BY <1>a, <2>3
    <3>3. QED
      BY <1>a, <2>2, <2>3, <3>1, <3>2
  <2>5. QED
    BY <1>a, <2>1, <2>3, <2>4 DEF LexInv, Lex!TypeOK, OneEnd, WordSoFar, Lex!Segment, Lex!Char
<1>5. CASE Lex!QuotedSegment
  <2> DEFINE close == Lex!RunEnd(i + 1, {Lex!Next1})
             seg == [quote |-> Lex!QuoteType(Lex!Next1), value |-> Lex!Between(i + 1, close)]
  <2>1. /\ lexing = "word" /\ UNCHANGED <<input, tokens, start, lexing>> /\ Lex!At(Lex!Quotes)
        /\ close < Len(input) /\ wordSegments' = Append(wordSegments, seg) /\ i' = close + 1
    BY <1>5 DEF Lex!QuotedSegment
  <2>2. ~Lex!AtEnd /\ i + 1 \in 0 .. Len(input)
    BY <1>a, <1>b, <1>c, <2>1
  <2>3. close \in i + 1 .. Len(input)
    BY <1>a, <2>2, RunEnds
  <2>4. seg \in Lex!Segment /\ seg.quote # "none"
    <3> HIDE DEF close
    <3>1. Lex!Between(i + 1, close) \in Seq(Lex!Char)
      BY <1>a, <2>2, <2>3, Pieces
    <3>2. QED
      BY <3>1 DEF Lex!Segment, Lex!QuoteType
  <2> HIDE DEF seg
  <2>5. /\ wordSegments' \in Seq(Lex!Segment) /\ wordSegments' # <<>> /\ WellCut(wordSegments')
        /\ Len(wordSegments') = Len(wordSegments) + 1 /\ wordSegments'[Len(wordSegments) + 1] = seg
    BY <1>a, <2>1, <2>4, OneMoreSegment DEF WordSoFar
  <2>6. i' \in 0 .. Len(input) /\ start \in 0 .. i'
    <3> HIDE DEF close
    <3>1. QED
      BY <1>a, <2>1, <2>3
  <2>7. WordSoFar'
    <3>1. wordSegments'[Len(wordSegments')].quote # "none"
      BY <2>4, <2>5
    <3>2. QED
      BY <2>5, <3>1 DEF WordSoFar, WellCut
  <2>8. QED
    BY <1>a, <2>1, <2>5, <2>6, <2>7 DEF LexInv, Lex!TypeOK, WordsFit, OneEnd, WellCut, Lex!Token, Lex!Segment, Lex!Char
<1>6. CASE Lex!UnclosedQuote
  BY <1>a, <1>6 DEF Lex!UnclosedQuote, LexInv, Lex!TypeOK, WordsFit, OneEnd, WordSoFar, Lex!Token, Lex!Segment, Lex!Char
<1>7. CASE Lex!UnquotedSegment
  <2> DEFINE S == Lex!Blanks \union Lex!Operators \union Lex!Quotes
             seg == [quote |-> "none", value |-> Lex!Between(i, i')]
  <2>1. /\ lexing = "word" /\ UNCHANGED <<input, tokens, start, lexing>>
        /\ ~Lex!AtEnd /\ ~Lex!At(S)
        /\ i' = Lex!RunEnd(i, S) /\ wordSegments' = Append(wordSegments, seg)
    BY <1>7 DEF Lex!UnquotedSegment, Lex!GetUnquotedLen
  <2>2. i < Len(input) /\ input[i + 1] \notin S
    BY <1>b, <2>1 DEF Lex!At, Lex!Next1
  <2>3. i' \in i + 1 .. Len(input) /\ (i' < Len(input) => input[i' + 1] \in S)
    <3> HIDE DEF S
    <3>1. /\ Lex!RunEnd(i, S) \in i .. Len(input) /\ Lex!RunEnd(i, S) # i
          /\ Lex!RunEnd(i, S) < Len(input) => input[Lex!RunEnd(i, S) + 1] \in S
      BY <1>a, <2>2, RunEnds
    <3>2. QED
      BY <1>a, <2>1, <3>1
  <2>4. seg \in Lex!Segment /\ seg.quote = "none" /\ seg.value # <<>>
    <3>1. i' \in i .. Len(input) /\ i' # i
      BY <1>a, <2>3
    <3>2. Lex!Between(i, i') \in Seq(Lex!Char) /\ Lex!Between(i, i') # <<>>
      BY <1>a, <3>1, Pieces
    <3>3. QED
      BY <3>1, <3>2 DEF Lex!Segment
  <2>5. wordSegments # <<>> => wordSegments[Len(wordSegments)].quote # "none"
    BY <1>a, <2>1 DEF WordSoFar
  <2> HIDE DEF seg
  <2>6. /\ wordSegments' \in Seq(Lex!Segment) /\ wordSegments' # <<>> /\ WellCut(wordSegments')
        /\ Len(wordSegments') = Len(wordSegments) + 1 /\ wordSegments'[Len(wordSegments) + 1] = seg
    BY <1>a, <2>1, <2>4, <2>5, OneMoreSegment DEF WordSoFar
  <2>7. i' \in 0 .. Len(input) /\ start \in 0 .. i'
    BY <1>a, <2>3
  <2>8. (Lex!AtEnd \/ Lex!At(S))'
    <3>1. input' = input /\ S' = S
      BY <2>1 DEF Lex!Blanks, Lex!Operators, Lex!Quotes
    <3> HIDE DEF S
    <3>2. i' = Len(input) \/ i' < Len(input)
      BY <1>a, <2>3
    <3>3. QED
      BY <2>3, <3>1, <3>2 DEF Lex!At, Lex!AtEnd, Lex!Next1
  <2>9. WordSoFar'
    BY <2>6, <2>8 DEF WordSoFar, WellCut
  <2>10. QED
    BY <1>a, <2>1, <2>6, <2>7, <2>9 DEF LexInv, Lex!TypeOK, WordsFit, OneEnd, WellCut, Lex!Token, Lex!Segment, Lex!Char
<1>8. CASE Lex!EndWord
  <2> DEFINE token == Lex!CreateToken("WORD", Lex!Between(start, i), wordSegments)
  <2>1. /\ lexing = "word" /\ lexing' = "tokens" /\ tokens' = Append(tokens, token)
        /\ UNCHANGED <<input, i, start, wordSegments>>
        /\ Lex!AtEnd \/ Lex!At(Lex!Blanks \union Lex!Operators)
    BY <1>8 DEF Lex!EndWord
  <2>2. wordSegments # <<>> /\ WellCut(wordSegments)
    BY <1>a, <2>1 DEF WordSoFar
  <2>3. token \in Lex!Token /\ token.type = "WORD" /\ token.segments = wordSegments
    <3>1. "WORD" \in Lex!Types
      BY DEF Lex!Types
    <3>2. start \in 0 .. Len(input) /\ i \in start .. Len(input)
      BY <1>a
    <3>3. Lex!Between(start, i) \in Seq(Lex!Char)
      BY <1>a, <3>2, Pieces
    <3>4. QED
      BY <1>a, <3>1, <3>3, TokenMade
  <2> HIDE DEF token
  <2>4. /\ (tokens \in Seq(Lex!Token))' /\ WordsFit' /\ Len(tokens') = Len(tokens) + 1
        /\ tokens'[Len(tokens) + 1] = token /\ \A k \in 1 .. Len(tokens) : tokens'[k] = tokens[k]
    BY <1>a, <2>1, <2>2, <2>3, OneMoreToken
  <2>5. \A k \in DOMAIN tokens' : tokens'[k].type # "END"
    <3>1. \A k \in DOMAIN tokens : tokens[k].type # "END"
      BY <1>a, <2>1 DEF OneEnd
    <3>2. \A k \in DOMAIN tokens' : k = Len(tokens) + 1 \/ k \in 1 .. Len(tokens)
      BY <1>a, <2>4
    <3>3. QED
      BY <1>a, <2>3, <2>4, <3>1, <3>2
  <2>6. QED
    BY <1>a, <2>1, <2>4, <2>5 DEF LexInv, Lex!TypeOK, OneEnd, WordSoFar, Lex!Segment, Lex!Char
<1>9. CASE UNCHANGED lexVars
  BY <1>a, <1>9 DEF lexVars, LexInv, Lex!TypeOK, WordsFit, OneEnd, WordSoFar, WellCut,
                    Lex!AtEnd, Lex!At, Lex!Next1, Lex!Blanks, Lex!Operators, Lex!Quotes, Lex!Token, Lex!Segment, Lex!Char
<1>10. QED
  BY <1>1, <1>2, <1>3, <1>4, <1>5, <1>6, <1>7, <1>8, <1>9 DEF Lex!Next

----------------------------------------------------------------------------
(* The parser, on what the lexer returned.                                 *)

P == INSTANCE ParserProofs WITH tokens <- types, commands <- parsed

\* Its steps are those ParserProofs is about.
LEMMA SameParser ==
  /\ Par!IfPipe \/ Par!CreateHead \/ Par!AddArg \/ Par!ParseRedir
     \/ Par!HandlePipe \/ Par!SyntaxError \/ Par!Parsed \/ Par!ResetLoop => P!Next
  /\ Par!Init <=> P!Init
  /\ Par!TypeOK <=> P!TypeOK
  /\ Par!SegmentsFreedOnce <=> P!SegmentsFreedOnce
  /\ Par!TokenLists = P!TokenLists
<1> USE DEF P!memory, Par!memory, P!Update, Par!Update, P!CurrCmd, Par!CurrCmd, P!EmptyCommand, Par!EmptyCommand
<1>1. Par!IfPipe => P!IfPipe
  BY DEF Par!IfPipe, P!IfPipe
<1>2. Par!CreateHead => P!CreateHead
  BY DEF Par!CreateHead, P!CreateHead
<1>3. Par!AddArg => P!AddArg
  BY DEF Par!AddArg, P!AddArg
<1>4. Par!ParseRedir => P!ParseRedir
  BY DEF Par!ParseRedir, P!ParseRedir, Par!ListName, P!ListName, Par!Redirections, P!Redirections
<1> USE DEF Par!MisplacedPipe, P!MisplacedPipe, Par!IsEmpty, P!IsEmpty
<1>5. Par!HandlePipe => P!HandlePipe
  BY DEF Par!HandlePipe, P!HandlePipe
<1> USE DEF Par!FreeCommands, P!FreeCommands, Par!Freed, P!Freed, Par!Once, P!Once, Par!Held, P!Held,
            Par!Contains, P!Contains
<1>6. Par!SyntaxError => P!SyntaxError
  BY DEF Par!SyntaxError, P!SyntaxError, Par!Redirections, P!Redirections
<1>7. Par!Parsed => P!Parsed
  BY DEF Par!Parsed, P!Parsed
<1>8. Par!ResetLoop => P!ResetLoop
  BY DEF Par!ResetLoop, P!ResetLoop
<1>9. Par!TokenLists = P!TokenLists
  BY DEF Par!TokenLists, P!TokenLists, Par!Types, P!Types, Par!Redirections, P!Redirections
<1>10. Par!Init <=> P!Init
  BY <1>9 DEF Par!Init, P!Init
<1>11. Par!TypeOK <=> P!TypeOK
  BY <1>9 DEF Par!TypeOK, P!TypeOK, Par!Command, P!Command, Par!Redir, P!Redir
<1>12. Par!SegmentsFreedOnce <=> P!SegmentsFreedOnce
  BY DEF Par!SegmentsFreedOnce, P!SegmentsFreedOnce
<1>13. QED
  BY <1>1, <1>2, <1>3, <1>4, <1>5, <1>6, <1>7, <1>8, <1>9, <1>10, <1>11, <1>12 DEF P!Next

\* What ParserProofs proves of a step of the parser,
LEMMA ParserNext == P!WInv /\ P!MInv /\ P!Next => P!WInv' /\ P!MInv'
  BY P!WrittenStep, P!MemoryNext

\* and of its first state, here.
LEMMA ParserBegins == P!Init' => P!WInv' /\ P!MInv'
<1>1. P!Init => P!WInv
  BY P!WrittenInit
<1>2. P!Init => P!MInv
  BY P!MemoryInit
<1>3. QED
  BY <1>1, <1>2, PTL

Reading == parsing # "wait" /\ expanding = "wait"

\* The lexer is done before the parser begins, and the parser before the
\* expander; meanwhile nothing is freed of a line that is not refused.
ParseInv ==
  /\ parsing # "wait" => lexing = "done"
  /\ parsing = "wait" => expanding = "wait" /\ curr = 1 /\ parsed = <<>> /\ freed = <<>> /\ status = before
  /\ parsing = "start" => P!Init
  /\ parsing \in {"start", "loop", "rejected"} => expanding = "wait"
  /\ Reading => P!WInv /\ P!MInv
  /\ Reading /\ parsing \in {"start", "loop", "parsed"} => \A w \in DOMAIN tokens : freed[w] = 0
  /\ expanding = "wait" => status \in {before, 2}
  /\ before \in Statuses

\* What the lexer returns is what the parser takes.
LEMMA TokensFit ==
  ASSUME LexInv, lexing = "done"
  PROVE  types \in P!TokenLists /\ DOMAIN types = DOMAIN tokens
<1>1. /\ tokens \in Seq(Lex!Token) /\ tokens # <<>>
      /\ \A k \in DOMAIN tokens : tokens[k].type = "END" <=> k = Len(tokens)
  BY DEF LexInv, Lex!TypeOK, OneEnd
<1>2. ASSUME NEW k \in DOMAIN tokens PROVE tokens[k].type \in P!Types
  <2>1. tokens[k] \in Lex!Token
    BY <1>1
  <2>2. tokens[k].type \in Lex!Types
    BY <2>1 DEF Lex!Token
  <2>3. Lex!Types = P!Types
    BY DEF Lex!Types, P!Types, P!Redirections
  <2>4. QED
    BY <2>2, <2>3
<1>3. /\ DOMAIN types = DOMAIN tokens /\ types \in Seq(P!Types) /\ Len(types) = Len(tokens)
      /\ \A k \in DOMAIN tokens : types[k] = tokens[k].type
  BY <1>1, <1>2 DEF types
<1>4. types # <<>>
  BY <1>1, <1>3
<1>5. QED
  BY <1>1, <1>3, <1>4 DEF P!TokenLists

\* The parser sees of the line only the types.
LEMMA SameTypes == UNCHANGED lexVars => types' = types
  BY DEF lexVars, types

\* The invariant holds at first.
LEMMA ParseInit == Init => ParseInv
  BY DEF Init, ParseInv, Reading

\* A step of the parser in the composition.
LEMMA ParserStepped ==
  ASSUME LexInv, ParseInv, ParserStep \/ ResetRefused
  PROVE  ParseInv' /\ Reading /\ Reading' /\ UNCHANGED <<lexVars, expVars>>
         /\ P!WInv' /\ P!MInv' /\ parsing \in {"start", "loop", "rejected"}
<1>1. P!Next /\ UNCHANGED <<lexVars, expVars, before>>
      /\ parsing \in {"start", "loop", "rejected"} /\ parsing' \in {"loop", "parsed", "rejected", "reset"}
      /\ status' \in {status, 2}
  <2>1. Par!IfPipe \/ Par!CreateHead \/ Par!AddArg \/ Par!ParseRedir
        \/ Par!HandlePipe \/ Par!SyntaxError \/ Par!Parsed \/ (parsing = "rejected" /\ Par!ResetLoop)
    BY DEF ParserStep, ResetRefused
  <2>2. P!Next /\ UNCHANGED <<lexVars, expVars>>
    BY <2>1, SameParser DEF ParserStep, ResetRefused
  <2>3. QED
    BY <2>1, <2>2 DEF Par!IfPipe, Par!CreateHead, Par!AddArg, Par!ParseRedir, Par!HandlePipe, Par!SyntaxError,
                      Par!Parsed, Par!ResetLoop
<1>2. Reading /\ Reading'
  BY <1>1 DEF ParseInv, Reading, expVars
<1>3. P!WInv' /\ P!MInv'
  BY <1>1, <1>2, ParserNext DEF ParseInv
<1>4. parsing' \in {"loop", "parsed"} => freed' = freed /\ parsing \in {"start", "loop"}
  <2>1. Par!IfPipe \/ Par!CreateHead \/ Par!AddArg \/ Par!ParseRedir
        \/ Par!HandlePipe \/ Par!SyntaxError \/ Par!Parsed \/ Par!ResetLoop
    BY DEF ParserStep, ResetRefused
  <2>2. QED
    BY <2>1 DEF Par!IfPipe, Par!CreateHead, Par!AddArg, Par!ParseRedir, Par!HandlePipe, Par!SyntaxError,
                Par!Parsed, Par!ResetLoop, Par!memory
<1>5. \A w \in DOMAIN tokens' : parsing' \in {"loop", "parsed"} => freed'[w] = 0
  BY <1>1, <1>2, <1>4 DEF ParseInv, lexVars
<1>6. ParseInv'
  BY <1>1, <1>2, <1>3, <1>5 DEF ParseInv, Reading, lexVars, expVars
<1>7. QED
  BY <1>1, <1>2, <1>3, <1>6

\* The parser begins as Parser.Init says.
LEMMA ParserStarted ==
  ASSUME LexInv, ParseInv, StartParser
  PROVE  ParseInv' /\ P!Init'
<1>1. /\ lexing = "done" /\ parsing = "wait" /\ parsing' = "start"
      /\ segments' = DOMAIN tokens /\ freed' = [w \in DOMAIN tokens |-> 0]
      /\ UNCHANGED <<lexVars, expVars, curr, parsed, status, before>>
  BY DEF StartParser
<1>2. types' = types /\ types \in P!TokenLists /\ DOMAIN types = DOMAIN tokens
  BY <1>1, SameTypes, TokensFit
<1>3. status \in 0 .. 255 /\ before = status /\ curr = 1 /\ parsed = <<>> /\ expanding = "wait"
  BY <1>1, StatusesAssumption DEF ParseInv
<1>4. (types \in P!TokenLists)'
  BY <1>2 DEF P!TokenLists, P!Types, P!Redirections
<1>5. P!Init'
  BY <1>1, <1>2, <1>3, <1>4 DEF P!Init
<1>6. P!WInv' /\ P!MInv'
  BY <1>5, ParserBegins
<1>7. QED
  BY <1>1, <1>3, <1>5, <1>6 DEF ParseInv, Reading, lexVars, expVars

\* Every step keeps the invariant.
LEMMA ParseNext == LexInv /\ ParseInv /\ [Next]_vars => ParseInv'
<1> SUFFICES ASSUME LexInv, ParseInv, [Next]_vars PROVE ParseInv'
  OBVIOUS
<1>1. CASE LexerStep
  <2>1. lexing \in {"tokens", "word"} /\ UNCHANGED <<parVars, expVars, status>>
    BY <1>1 DEF LexerStep, Lex!Next, Lex!SkipWhitespace, Lex!HandleOperator, Lex!HandleWord, Lex!End,
                Lex!QuotedSegment, Lex!UnclosedQuote, Lex!UnquotedSegment, Lex!EndWord
  <2>2. parsing = "wait"
    BY <2>1 DEF ParseInv
  <2>3. QED
    BY <2>1, <2>2 DEF ParseInv, Reading, parVars, expVars
<1>2. CASE StartParser
  BY <1>2, ParserStarted
<1>3. CASE ParserStep \/ ResetRefused
  BY <1>3, ParserStepped
<1>4. CASE StartExpander \/ ExpandArg \/ ExpanderStep \/ ResetLoop
  <2>1. /\ parsing # "wait" /\ expanding' # "wait" /\ UNCHANGED <<lexVars, before>>
        /\ parsing' \notin {"wait", "start", "loop", "rejected"}
    <3>1. CASE StartExpander
      BY <3>1 DEF StartExpander, parVars
    <3>2. CASE ExpandArg
      BY <3>2 DEF ExpandArg, Exp!ExpandArg, ParseInv, lexVars
    <3>3. CASE ExpanderStep
      BY <3>3 DEF ExpanderStep, Exp!ArgsDone, Exp!Redirs, Exp!NextCommand, ParseInv, lexVars, parVars
    <3>4. CASE ResetLoop
      BY <3>4 DEF ResetLoop, expVars
    <3>5. QED
      BY <1>4, <3>1, <3>2, <3>3, <3>4
  <2>2. QED
    BY <2>1 DEF ParseInv, Reading, lexVars
<1>5. CASE UNCHANGED vars
  <2>1. UNCHANGED <<lexVars, parVars, expVars, status>> /\ types' = types
    BY <1>5, SameTypes DEF vars
  <2>2. (Reading /\ P!WInv /\ P!MInv => P!WInv' /\ P!MInv') /\ (P!Init => P!Init')
    <3>1. UNCHANGED P!vars
      BY <2>1 DEF P!vars, parVars
    <3>2. P!WInv /\ P!MInv => P!WInv' /\ P!MInv'
      BY <3>1, P!WrittenStep, P!MemoryNext
    <3>3. P!Init => P!Init'
      BY <2>1 DEF P!Init, parVars, P!TokenLists, P!Types, P!Redirections
    <3>4. QED
      BY <3>2, <3>3
  <2>3. QED
    BY <2>1, <2>2 DEF ParseInv, Reading, lexVars, parVars, expVars
<1>6. QED
  BY <1>1, <1>2, <1>3, <1>4, <1>5 DEF Next

----------------------------------------------------------------------------
(* The expander, on the commands the parser made.                          *)

\* Of W's elements the last ones are those of A from p on.
RestIs(A, p, W) ==
  /\ Len(A) - p + 1 \in 0 .. Len(W)
  /\ \A j \in 1 .. Len(A) - p + 1 : A[p - 1 + j] = W[Len(W) - (Len(A) - p + 1) + j]

Spliced(A, p, L) == SubSeq(A, 1, p - 1) \o L \o SubSeq(A, p + 1, Len(A))

\* The parts of a list in which one node has been replaced by others.
LEMMA SpliceParts ==
  ASSUME NEW T, NEW A \in Seq(T), NEW p \in 1 .. Len(A), NEW L \in Seq(T)
  PROVE  /\ Spliced(A, p, L) \in Seq(T) /\ Len(Spliced(A, p, L)) = Len(A) - 1 + Len(L)
         /\ Len(A) \in Nat /\ Len(L) \in Nat
         /\ \A b \in 1 .. p - 1 : Spliced(A, p, L)[b] = A[b]
         /\ \A j \in 1 .. Len(L) : Spliced(A, p, L)[p - 1 + j] = L[j]
         /\ \A j \in 1 .. Len(A) - p : Spliced(A, p, L)[p + Len(L) - 1 + j] = A[p + j]
<1> DEFINE a == SubSeq(A, 1, p - 1)
           b == SubSeq(A, p + 1, Len(A))
           s == a \o L \o b
<1>1. /\ a \in Seq(T) /\ Len(a) = p - 1 /\ Len(A) \in Nat /\ Len(L) \in Nat
      /\ \A k \in 1 .. p - 1 : a[k] = A[k]
  OBVIOUS
<1>2. b \in Seq(T) /\ Len(b) = Len(A) - p
  OBVIOUS
<1>3. \A k \in 1 .. Len(A) - p : b[k] = A[p + k]
  <2> SUFFICES ASSUME NEW k \in 1 .. Len(A) - p PROVE b[k] = A[p + k]
    OBVIOUS
  <2>1. b[k] = A[p + 1 + k - 1]
    BY <1>1
  <2>2. p + 1 + k - 1 = p + k
    OBVIOUS
  <2>3. QED
    BY <2>1, <2>2
<1> HIDE DEF a, b
<1>4. /\ s \in Seq(T) /\ Len(s) = p - 1 + Len(L) + (Len(A) - p)
      /\ \A k \in 1 .. p - 1 : s[k] = a[k]
  <2> DEFINE al == a \o L
  <2>1. /\ al \in Seq(T) /\ Len(al) = p - 1 + Len(L)
        /\ \A k \in 1 .. p - 1 : al[k] = a[k]
    BY <1>1
  <2>3. \A k \in 1 .. p - 1 : k \in 1 .. Len(al)
    BY <1>1, <2>1
  <2> HIDE DEF al
  <2>2. /\ al \o b \in Seq(T) /\ Len(al \o b) = Len(al) + Len(b)
        /\ \A k \in 1 .. Len(al) : (al \o b)[k] = al[k]
    <3>1. /\ al \o b \in Seq(T) /\ Len(al \o b) = Len(al) + Len(b)
          /\ \A k \in 1 .. Len(al) + Len(b) :
               (al \o b)[k] = IF k <= Len(al) THEN al[k] ELSE b[k - Len(al)]
      <4>1. al \in Seq(T) /\ b \in Seq(T)
        BY <1>2, <2>1
      <4>2. QED
        BY <4>1, ConcatProperties
    <3>2. Len(al) \in Nat /\ Len(b) \in Nat
      BY <1>2, <2>1
    <3>3. QED
      BY <3>1, <3>2
  <2>4. QED
    BY <1>2, <2>1, <2>2, <2>3 DEF al
<1>5. \A j \in 1 .. Len(L) : s[p - 1 + j] = L[j]
  BY <1>1, <1>2
<1>6. \A j \in 1 .. Len(A) - p : s[p + Len(L) - 1 + j] = b[j]
  <2> SUFFICES ASSUME NEW j \in 1 .. Len(A) - p PROVE s[p + Len(L) - 1 + j] = b[j]
    OBVIOUS
  <2>1. a \o L \in Seq(T) /\ Len(a \o L) = p - 1 + Len(L)
    BY <1>1
  <2>2. ((a \o L) \o b)[Len(a \o L) + j] = b[j]
    BY <1>2, <2>1
  <2>3. Len(a \o L) + j = p + Len(L) - 1 + j
    BY <1>1, <2>1
  <2>4. QED
    BY <2>2, <2>3
<1>7. Spliced(A, p, L) = s
  BY DEF Spliced, a, b
<1> HIDE DEF s
<1>8. p - 1 + Len(L) + (Len(A) - p) = Len(A) - 1 + Len(L)
  BY <1>1
<1>9. QED
  BY <1>1, <1>3, <1>4, <1>5, <1>6, <1>7, <1>8

\* The first of them.
LEMMA RestHead ==
  ASSUME NEW A, Len(A) \in Nat, NEW p \in 1 .. Len(A), NEW W, Len(W) \in Nat, RestIs(A, p, W)
  PROVE  /\ A[p] = W[Len(W) - (Len(A) - p + 1) + 1]
         /\ Len(W) - (Len(A) - p + 1) + 1 \in 1 .. Len(W)
<1> DEFINE left == Len(A) - p + 1
<1>1. left \in 1 .. Len(W) /\ \A j \in 1 .. left : A[p - 1 + j] = W[Len(W) - left + j]
  BY DEF RestIs
<1>2. p - 1 + 1 = p /\ 1 \in 1 .. left
  BY <1>1
<1>3. A[p - 1 + 1] = W[Len(W) - left + 1]
  BY <1>1, <1>2
<1>4. Len(W) - left + 1 \in 1 .. Len(W)
  <2> HIDE DEF left
  <2> QED
    BY <1>1
<1>5. QED
  BY <1>2, <1>3, <1>4

\* The nodes behind the ones that take its place are as they were.
LEMMA SpliceKeepsRest ==
  ASSUME NEW T, NEW A \in Seq(T), NEW p \in 1 .. Len(A), NEW L \in Seq(T), NEW W, Len(W) \in Nat,
         RestIs(A, p, W)
  PROVE  /\ RestIs(Spliced(A, p, L), p + Len(L), W)
         /\ Len(Spliced(A, p, L)) - (p + Len(L)) + 1 = (Len(A) - p + 1) - 1
<1> DEFINE s == Spliced(A, p, L)
           left == Len(A) - p + 1
<1>1. /\ Len(s) = Len(A) - 1 + Len(L) /\ Len(A) \in Nat /\ Len(L) \in Nat
      /\ \A j \in 1 .. Len(A) - p : s[p + Len(L) - 1 + j] = A[p + j]
  BY SpliceParts, ZenonT(30)
<1>2. left \in 1 .. Len(W) /\ \A j \in 1 .. left : A[p - 1 + j] = W[Len(W) - left + j]
  BY <1>1 DEF RestIs
<1> HIDE DEF s
<1>4. Len(s) - (p + Len(L)) + 1 = left - 1 /\ left - 1 = Len(A) - p
  BY <1>1
<1>5. ASSUME NEW j \in 1 .. left - 1
      PROVE  s[p + Len(L) - 1 + j] = W[Len(W) - (left - 1) + j]
  <2>1. s[p + Len(L) - 1 + j] = A[p + j]
    BY <1>1, <1>4
  <2>2. j + 1 \in 1 .. left /\ p - 1 + (j + 1) = p + j
    BY <1>2
  <2>3. A[p - 1 + (j + 1)] = W[Len(W) - left + (j + 1)]
    BY <1>2, <2>2
  <2>4. Len(W) - left + (j + 1) = Len(W) - (left - 1) + j
    BY <1>2
  <2>5. QED
    BY <2>1, <2>2, <2>3, <2>4
<1>6. left - 1 \in 0 .. Len(W)
  <2> HIDE DEF left
  <2> QED
    BY <1>2
<1>7. RestIs(s, p + Len(L), W)
  <2> DEFINE q == p + Len(L)
             M == Len(s) - q + 1
  <2>1. M = left - 1
    BY <1>4
  <2> HIDE DEF M
  <2>2. M \in 0 .. Len(W) /\ \A j \in 1 .. M : s[q - 1 + j] = W[Len(W) - M + j]
    BY <1>5, <1>6, <2>1
  <2> HIDE DEF q
  <2>3. RestIs(s, q, W)
    BY <2>2 DEF RestIs, M
  <2>4. QED
    BY <2>3 DEF q
<1>8. QED
  BY <1>4, <1>7 DEF s

\* A file is opened under its own text, under what the text stands for, or not
\* at all.
LEMMA FileExpanded ==
  ASSUME env \in Envs, NEW file \in Exp!Text
  PROVE  /\ Exp!ExpandRedirFile(file) \in Exp!Text \union {NULL}
         /\ Exp!ExpandRedirFile(file) # NULL /\ Exp!Contains(file, "$")
              => Exp!ExpandRedirFile(file) = Exp!ExpandTextAt(file, status)
<1>1. Exp!ExpandTextAt(file, status) \in Exp!Text
  BY Expanded
<1>2. QED
  BY <1>1 DEF Exp!ExpandRedirFile, Exp!ExpandText

\* process_redirs, for one of the two lists.
LEMMA RedirsProcessed ==
  ASSUME env \in Envs, NEW list \in Seq(Exp!Text)
  PROVE  /\ Exp!ProcessRedirs(list) \in Seq(Exp!Text \union {NULL})
         /\ DOMAIN Exp!ProcessRedirs(list) = DOMAIN list
         /\ \A r \in DOMAIN list :
              Exp!ProcessRedirs(list)[r] # NULL /\ Exp!Contains(list[r], "$")
                => Exp!ProcessRedirs(list)[r] = Exp!ExpandTextAt(list[r], status)
<1> DEFINE new == [r \in DOMAIN list |-> Exp!ExpandRedirFile(list[r])]
<1>1. Exp!ProcessRedirs(list) = new
  BY DEF Exp!ProcessRedirs
<1>2. \A r \in DOMAIN list : list[r] \in Exp!Text
  OBVIOUS
<1>3. /\ DOMAIN new = DOMAIN list
      /\ \A r \in DOMAIN list : /\ new[r] = Exp!ExpandRedirFile(list[r])
                                /\ new[r] \in Exp!Text \union {NULL}
  BY <1>2, FileExpanded
<1>4. new \in Seq(Exp!Text \union {NULL})
  <2>1. Len(list) \in Nat /\ DOMAIN list = 1 .. Len(list)
    OBVIOUS
  <2> HIDE DEF new
  <2>2. new = [r \in 1 .. Len(list) |-> new[r]]
    BY <1>3, <2>1 DEF new
  <2>3. QED
    BY <1>3, <2>1, <2>2
<1> HIDE DEF new
<1>5. QED
  BY <1>1, <1>2, <1>3, <1>4, FileExpanded

\* What a text stands for depends on the environment and the given status only.
LEMMA SameExpansion ==
  ASSUME env' = env
  PROVE  /\ \A str, st : Exp!ExpandTextAt(str, st)' = Exp!ExpandTextAt(str, st)
         /\ status' = status => \A str : Exp!ExpandText(str)' = Exp!ExpandText(str)
<1>1. ASSUME NEW key, NEW st PROVE Exp!FetchValue(key, st)' = Exp!FetchValue(key, st)
  BY DEF Exp!FetchValue, Exp!Itoa
<1>2. ASSUME NEW str, NEW k, NEW st PROVE Exp!ExpandTurn(str, k, st)' = Exp!ExpandTurn(str, k, st)
  BY <1>1 DEF Exp!ExpandTurn, Exp!VarLen, Exp!Alnum, Exp!Letters, Exp!Digits
<1>3. ASSUME NEW str, NEW st PROVE Exp!ExpandTextAt(str, st)' = Exp!ExpandTextAt(str, st)
  <2>1. [k \in DOMAIN str |-> Exp!ExpandTurn(str, k, st)'] = [k \in DOMAIN str |-> Exp!ExpandTurn(str, k, st)]
    BY <1>2
  <2>2. Exp!ExpandTextAt(str, st)' = Exp!Loop([k \in DOMAIN str |-> Exp!ExpandTurn(str, k, st)'])
    BY DEF Exp!ExpandTextAt, Exp!Loop
  <2>3. QED
    BY <2>1, <2>2 DEF Exp!ExpandTextAt
<1>4. QED
  BY <1>3 DEF Exp!ExpandText

\* Exp!ExpandArgToList, given what each segment does to a list.
ListFrom(n, does) ==
  LET upTo == CHOOSE f : f = [k \in 0 .. n |-> IF k = 0 THEN <<NULL>> ELSE does[k][f[k - 1]]]
  IN  IF upTo[n] = <<NULL>> THEN <<>> ELSE upTo[n]

\* That is what it is,
LEMMA ListIs ==
  \A segs : Exp!ExpandArgToList(segs)
              = ListFrom(Len(segs), [k \in 0 .. Len(segs) |-> Exp!ProcessSegment(segs[k])])
<1> SUFFICES ASSUME NEW segs
             PROVE  Exp!ExpandArgToList(segs)
                      = ListFrom(Len(segs), [k \in 0 .. Len(segs) |-> Exp!ProcessSegment(segs[k])])
  OBVIOUS
<1> DEFINE n == Len(segs)
           does == [k \in 0 .. n |-> Exp!ProcessSegment(segs[k])]
           round(g, k) == IF k = 0 THEN <<NULL>> ELSE Exp!ProcessSegment(segs[k])[g[k - 1]]
           step(g, k) == IF k = 0 THEN <<NULL>> ELSE does[k][g[k - 1]]
<1>1. ASSUME NEW g, NEW k \in 0 .. n PROVE round(g, k) = step(g, k)
  OBVIOUS
<1>2. Exp!ExpandArgToList(segs)
        = LET upTo == CHOOSE f : f = [k \in 0 .. n |-> round(f, k)]
          IN  IF upTo[n] = <<NULL>> THEN <<>> ELSE upTo[n]
  BY DEF Exp!ExpandArgToList
<1>3. ListFrom(n, does)
        = LET upTo == CHOOSE f : f = [k \in 0 .. n |-> step(f, k)]
          IN  IF upTo[n] = <<NULL>> THEN <<>> ELSE upTo[n]
  BY DEF ListFrom
<1> HIDE DEF round, step, n
<1>4. \A f : (f = [k \in 0 .. n |-> round(f, k)]) <=> (f = [k \in 0 .. n |-> step(f, k)])
  BY <1>1
<1>5. (CHOOSE f : f = [k \in 0 .. n |-> round(f, k)]) = CHOOSE f : f = [k \in 0 .. n |-> step(f, k)]
  BY <1>4
<1>6. QED
  BY <1>2, <1>3, <1>5 DEF n

\* also after a step.
LEMMA ListIsNext ==
  (\A segs : Exp!ExpandArgToList(segs)
               = ListFrom(Len(segs), [k \in 0 .. Len(segs) |-> Exp!ProcessSegment(segs[k])]))'
  BY ListIs, PTL

\* It depends on the environment and $? only.
LEMMA SameLists ==
  ASSUME env' = env, status' = status
  PROVE  \A segs : Exp!ExpandArgToList(segs)' = Exp!ExpandArgToList(segs)
<1>1. ASSUME NEW seg PROVE Exp!ProcessSegment(seg)' = Exp!ProcessSegment(seg)
  <2>1. Exp!ExpandText(seg.value)' = Exp!ExpandText(seg.value)
    BY SameExpansion
  <2>2. QED
    BY <2>1 DEF Exp!ProcessSegment
<1>2. QED
  BY <1>1, ListIs, ListIsNext

AtWork == expanding \in {"args", "redirs"}

\* How many arguments of the command are as parsed, and how many are not.
Left == Len(commands[c].args) - arg + 1
Behind == Len(written[c].args) - Left

\* The commands as the parser hands them over.
Readable(command) ==
  /\ Exp!Written(command)
  /\ \A a \in DOMAIN command.args : command.args[a].segments \in Seq(Exp!Segment)
  /\ command.input_redirection \in Seq(Exp!Text) /\ command.output_redirection \in Seq(Exp!Text)

ExpandTypes ==
  /\ Exp!TypeOK /\ Len(written) = Len(commands)
  /\ expanding # "done" <=> c <= Len(commands)
  /\ \A k \in DOMAIN written : Readable(written[k])

\* What the expander has not come to is as it was written.
Ahead ==
  /\ \A k \in DOMAIN written : k > c => commands[k] = written[k]
  /\ AtWork =>
       /\ commands[c].input_redirection = written[c].input_redirection
       /\ commands[c].output_redirection = written[c].output_redirection
       /\ RestIs(commands[c].args, arg, written[c].args)
       /\ expanding = "redirs" => Left = 0

InQuotes(segs) == Len(segs) = 1 /\ segs[1].quote = "double"

\* A word in double quotes has become its text, expanded.
QuotesExpanded ==
  AtWork =>
    \A a \in 1 .. Behind :
      InQuotes(written[c].args[a].segments) =>
        \E b \in 1 .. arg - 1 :
          commands[c].args[b].value = Exp!ExpandText(written[c].args[a].segments[1].value)

Ambiguous(command) ==
  Exp!Contains(command.input_redirection, NULL) \/ Exp!Contains(command.output_redirection, NULL)

\* $? now is what it was at the start of this command.
StatusSeen ==
  /\ AtWork => Len(seen) = c /\ seen[c] = status
  /\ expanding = "done" => Len(seen) + 1 = c
  /\ \A k \in DOMAIN seen :
       seen[k] = IF \E j \in 1 .. k - 1 : Ambiguous(commands[j]) THEN 1 ELSE seen[1]

\* What becomes of the outputs of a command with these inputs.
OpenedAs(in, out, files, st) ==
  in = <<>> \/ Exp!Last(in) # NULL
    => \/ \A r \in DOMAIN out :
            out[r] # NULL /\ Exp!Contains(files[r], "$") => out[r] = Exp!ExpandTextAt(files[r], st)
       \/ Len(in) > 1 /\ Exp!Contains(Exp!Front(in), NULL)

Opened ==
  \A k \in 1 .. c - 1 :
    OpenedAs(commands[k].input_redirection, commands[k].output_redirection,
             written[k].output_redirection, seen[k])

\* The values in front of the expander are those of the lists that the
\* arguments behind it have become, one after the other.
ListsSpliced ==
  AtWork => ValuesTo(commands[c].args, arg) = FlattenSeq(Lists(written[c].args, Behind))

ExpandInv ==
  ExpandTypes /\ Ahead /\ QuotesExpanded /\ ListsSpliced /\ StatusSeen /\ Opened

\* At first there are none,
LEMMA NothingSpliced ==
  ASSUME arg' = 1, Behind' = 0
  PROVE  ListsSpliced'
<1>1. \A list : ValuesTo(list, 1) = <<>>
  BY DEF ValuesTo
<1>2. (ValuesTo(commands[c].args, arg))' = <<>>
  BY <1>1
<1>3. (Lists(written[c].args, Behind))' = <<>>
  BY DEF Lists
<1>4. FlattenSeq(<<>>) = <<>>
  BY DEF FlattenSeq
<1>5. QED
  BY <1>2, <1>3, <1>4 DEF ListsSpliced

\* and while the expander stays where it is, they stay.
LEMMA SplicedStays ==
  ASSUME ListsSpliced, AtWork, UNCHANGED <<commands, c, arg, written, env, status>>
  PROVE  ListsSpliced'
<1>1. \A segs : Exp!ExpandArgToList(segs)' = Exp!ExpandArgToList(segs)
  BY SameLists
<1>2. Behind' = Behind
  BY DEF Behind, Left
<1>3. (Lists(written[c].args, Behind))' = Lists(written[c].args, Behind)
  BY <1>1, <1>2 DEF Lists
<1>4. (ValuesTo(commands[c].args, arg))' = ValuesTo(commands[c].args, arg)
  BY DEF ValuesTo
<1>5. QED
  BY <1>3, <1>4 DEF ListsSpliced

\* A command with other arguments, or with other files.
WithArgs(command, list) == [command EXCEPT !.args = list]
WithFiles(command, in, out) == [command EXCEPT !.input_redirection = in, !.output_redirection = out]

\* What else the command says stays.
LEMMA OtherArgs ==
  ASSUME NEW command \in Exp!Command, NEW list \in Seq(Exp!Arg)
  PROVE  /\ WithArgs(command, list) \in Exp!Command /\ WithArgs(command, list).args = list
         /\ WithArgs(command, list).input_redirection = command.input_redirection
         /\ WithArgs(command, list).output_redirection = command.output_redirection
  BY DEF WithArgs, Exp!Command

\* And with other files its arguments stay.
LEMMA OtherFiles ==
  ASSUME NEW command \in Exp!Command,
         NEW in \in Seq(Exp!Text \union {NULL}), NEW out \in Seq(Exp!Text \union {NULL})
  PROVE  /\ WithFiles(command, in, out) \in Exp!Command
         /\ WithFiles(command, in, out).args = command.args
         /\ WithFiles(command, in, out).input_redirection = in
         /\ WithFiles(command, in, out).output_redirection = out
  BY DEF WithFiles, Exp!Command

\* The argument the expander is at is as it was written.
LEMMA AtArgument ==
  ASSUME ExpandInv, expanding = "args", arg <= Len(commands[c].args)
  PROVE  /\ c \in DOMAIN commands /\ c \in DOMAIN written /\ arg \in 1 .. Len(commands[c].args)
         /\ commands[c] \in Exp!Command /\ commands[c].args \in Seq(Exp!Arg)
         /\ Len(written[c].args) \in Nat /\ Behind + 1 \in 1 .. Len(written[c].args) /\ Left \in Nat \ {0}
         /\ commands[c].args[arg] = written[c].args[Behind + 1]
         /\ commands[c].args[arg].segments \in Seq(Exp!Segment)
<1>1. /\ commands \in Seq(Exp!Command) /\ written \in Seq(Exp!Command) /\ Len(written) = Len(commands)
      /\ c \in 1 .. Len(commands) + 1 /\ arg \in Nat \ {0} /\ c <= Len(commands)
      /\ \A k \in DOMAIN written : Readable(written[k])
  BY DEF ExpandInv, ExpandTypes, Exp!TypeOK
<1>2. c \in DOMAIN commands /\ c \in DOMAIN written
  BY <1>1
<1>3. commands[c] \in Exp!Command /\ written[c] \in Exp!Command
  BY <1>1, <1>2
<1>4. commands[c].args \in Seq(Exp!Arg) /\ written[c].args \in Seq(Exp!Arg)
  BY <1>3 DEF Exp!Command
<1>5. arg \in 1 .. Len(commands[c].args) /\ Len(commands[c].args) \in Nat /\ Len(written[c].args) \in Nat
  BY <1>1, <1>4
<1>6. RestIs(commands[c].args, arg, written[c].args)
  BY DEF ExpandInv, Ahead, AtWork
<1>7. /\ commands[c].args[arg] = written[c].args[Len(written[c].args) - Left + 1]
      /\ Len(written[c].args) - Left + 1 \in 1 .. Len(written[c].args)
  BY <1>5, <1>6, RestHead DEF Left
<1>8. Left \in Nat \ {0}
  BY <1>5 DEF Left
<1>9. written[c].args[Behind + 1].segments \in Seq(Exp!Segment)
  <2>1. Behind + 1 \in DOMAIN written[c].args
    BY <1>4, <1>7 DEF Behind
  <2>2. QED
    BY <1>1, <1>2, <2>1 DEF Readable
<1>10. QED
  BY <1>2, <1>3, <1>4, <1>5, <1>7, <1>8, <1>9 DEF Behind

\* Each value gets a node.
LEMMA NodesOfList ==
  ASSUME NEW list \in Seq(Exp!Text \union {NULL})
  PROVE  /\ Exp!Nodes(list) \in Seq(Exp!Arg) /\ Len(Exp!Nodes(list)) = Len(list) /\ Len(list) \in Nat
         /\ \A k \in 1 .. Len(list) : Exp!Nodes(list)[k].value = list[k]
<1> DEFINE nodes == [a \in DOMAIN list |-> [segments |-> NULL, value |-> list[a]]]
<1>1. Len(list) \in Nat /\ DOMAIN list = 1 .. Len(list) /\ \A k \in 1 .. Len(list) : list[k] \in Exp!Text \union {NULL}
  OBVIOUS
<1>2. \A k \in 1 .. Len(list) : [segments |-> NULL, value |-> list[k]] \in Exp!Arg
  BY <1>1 DEF Exp!Arg
<1>3. nodes \in Seq(Exp!Arg) /\ Len(nodes) = Len(list) /\ \A k \in 1 .. Len(list) : nodes[k].value = list[k]
  BY <1>1, <1>2
<1>4. QED
  BY <1>1, <1>3 DEF Exp!Nodes

\* One round of process_arg_list.
LEMMA ArgExpanded ==
  ASSUME ExpandInv, Exp!ExpandArg
  PROVE  ExpandInv' /\ c' = c /\ expanding' = expanding /\ written' = written /\ Behind' = Behind + 1
         /\ (expanding = "args" /\ arg <= Len(commands[c].args))
<1> DEFINE A == commands[c].args
           segs == A[arg].segments
           list == Exp!ExpandArgToList(segs)
           nodes == Exp!Nodes(list)
           new == Spliced(A, arg, nodes)
<1>1. /\ expanding = "args" /\ arg <= Len(A) /\ arg' = arg + Len(list)
      /\ commands' = [commands EXCEPT ![c] = WithArgs(commands[c], new)]
      /\ UNCHANGED <<c, expanding, status, env, written, seen>>
  BY DEF Exp!ExpandArg, WithArgs, Spliced
<1>2. /\ c \in DOMAIN commands /\ c \in DOMAIN written /\ arg \in 1 .. Len(A)
      /\ commands[c] \in Exp!Command /\ A \in Seq(Exp!Arg)
      /\ Len(written[c].args) \in Nat /\ Behind + 1 \in 1 .. Len(written[c].args) /\ Left \in Nat \ {0}
      /\ A[arg] = written[c].args[Behind + 1]
      /\ segs \in Seq(Exp!Segment)
  BY <1>1, AtArgument
<1>3. /\ commands \in Seq(Exp!Command) /\ c \in 1 .. Len(commands) + 1 /\ arg \in Nat \ {0}
      /\ expanding \in {"args", "redirs", "done"} /\ status \in Exp!Status /\ env \in Envs
      /\ written \in Seq(Exp!Command) /\ seen \in Seq(Exp!Status) /\ Len(written) = Len(commands)
      /\ expanding # "done" <=> c <= Len(commands)
      /\ \A k \in DOMAIN written : Readable(written[k])
  BY DEF ExpandInv, ExpandTypes, Exp!TypeOK
<1>4. list \in Seq(Exp!Text \union {NULL})
  BY <1>2, <1>3, ArgList
<1> HIDE DEF list
<1>5. /\ nodes \in Seq(Exp!Arg) /\ Len(nodes) = Len(list) /\ Len(list) \in Nat
      /\ \A k \in 1 .. Len(list) : nodes[k].value = list[k]
  BY <1>4, NodesOfList
<1> HIDE DEF nodes
<1>6. /\ new \in Seq(Exp!Arg)
      /\ \A b \in 1 .. arg - 1 : new[b] = A[b]
      /\ \A j \in 1 .. Len(nodes) : new[arg - 1 + j] = nodes[j]
  <2>1. A \in Seq(Exp!Arg) /\ arg \in 1 .. Len(A) /\ nodes \in Seq(Exp!Arg)
    BY <1>2, <1>5
  <2> HIDE DEF A
  <2>2. Spliced(A, arg, nodes) \in Seq(Exp!Arg)
    BY <2>1, SpliceParts, SMTT(20)
  <2>3. \A b \in 1 .. arg - 1 : Spliced(A, arg, nodes)[b] = A[b]
    BY <2>1, SpliceParts, SMTT(20)
  <2>4. \A j \in 1 .. Len(nodes) : Spliced(A, arg, nodes)[arg - 1 + j] = nodes[j]
    BY <2>1, SpliceParts, SMTT(20)
  <2>5. QED
    BY <2>2, <2>3, <2>4
<1>7. RestIs(new, arg', written[c].args) /\ Len(new) - arg' + 1 = Left - 1
  <2>1. RestIs(A, arg, written[c].args)
    BY <1>1 DEF ExpandInv, Ahead, AtWork
  <2>2. /\ RestIs(new, arg + Len(nodes), written[c].args)
        /\ Len(new) - (arg + Len(nodes)) + 1 = (Len(A) - arg + 1) - 1
    BY <1>2, <1>5, <2>1, SpliceKeepsRest
  <2>3. QED
    BY <1>1, <1>5, <2>2 DEF Left
<1> HIDE DEF new
<1> DEFINE command == WithArgs(commands[c], new)
<1>8. /\ command \in Exp!Command /\ command.args = new
      /\ command.input_redirection = commands[c].input_redirection
      /\ command.output_redirection = commands[c].output_redirection
  BY <1>2, <1>6, OtherArgs
<1> HIDE DEF command
<1>9. /\ commands' \in Seq(Exp!Command) /\ Len(commands') = Len(commands) /\ commands'[c] = command
      /\ \A k \in DOMAIN commands : k # c => commands'[k] = commands[k]
  BY <1>1, <1>2, <1>3, <1>8 DEF command
<1>10. Left' = Left - 1 /\ Behind' = Behind + 1
  <2>1. Left' = Len(new) - arg' + 1
    BY <1>1, <1>8, <1>9 DEF Left
  <2>2. Behind' = Len(written[c].args) - Left'
    BY <1>1 DEF Behind
  <2>3. QED
    BY <1>2, <1>7, <2>1, <2>2 DEF Behind
<1>11. ExpandTypes'
  <2>1. arg' \in Nat \ {0}
    BY <1>1, <1>3, <1>5
  <2>2. (\A k \in DOMAIN written : Readable(written[k]))'
    BY <1>1, <1>3, ZenonT(30) DEF Readable, Exp!Written, Exp!Segment, Exp!Text, Exp!Char
  <2>3. QED
    BY <1>1, <1>3, <1>9, <2>1, <2>2 DEF ExpandTypes, Exp!TypeOK, Exp!Command, Exp!Status, Exp!Arg, Exp!Segment, Exp!Text, Exp!Char
<1>12. Ahead'
  <2>1. \A k \in DOMAIN written : k > c => commands'[k] = written[k]
    BY <1>3, <1>9 DEF ExpandInv, Ahead
  <2>2. /\ commands'[c].input_redirection = written[c].input_redirection
        /\ commands'[c].output_redirection = written[c].output_redirection
    BY <1>1, <1>8, <1>9 DEF ExpandInv, Ahead, AtWork
  <2>3. RestIs(commands'[c].args, arg', written[c].args)
    BY <1>7, <1>8, <1>9
  <2>4. QED
    BY <1>1, <2>1, <2>2, <2>3 DEF Ahead, AtWork, RestIs
<1>13. QuotesExpanded'
  <2>1. \A str : Exp!ExpandText(str)' = Exp!ExpandText(str)
    BY <1>1, SameExpansion
  <2>2. ASSUME NEW a \in 1 .. Behind + 1, InQuotes(written[c].args[a].segments)
        PROVE  \E b \in 1 .. arg' - 1 :
                 new[b].value = Exp!ExpandText(written[c].args[a].segments[1].value)
    <3>1. CASE a = Behind + 1
      <4>1. written[c].args[a].segments = segs
        BY <1>2, <3>1
      <4>2. list = <<Exp!ExpandText(segs[1].value)>>
        BY <1>2, <1>3, <2>2, <4>1, DoubleQuoted DEF list, InQuotes
      <4>3. Len(list) = 1 /\ list[1] = Exp!ExpandText(segs[1].value)
        BY <4>2
      <4>4. 1 \in 1 .. Len(nodes) /\ arg - 1 + 1 = arg /\ arg \in 1 .. arg' - 1
        BY <1>1, <1>2, <1>3, <1>5, <4>3
      <4>5. new[arg - 1 + 1] = nodes[1] /\ nodes[1].value = list[1]
        BY <1>5, <1>6, <4>3, <4>4
      <4>6. QED
        BY <4>1, <4>3, <4>4, <4>5
    <3>2. CASE a # Behind + 1
      <4>1. Behind \in Int
        <5>1. Left \in Int
          BY <1>2
        <5>2. QED
          BY <1>2, <5>1 DEF Behind
      <4>2. a \in 1 .. Behind
        BY <3>2, <4>1
      <4>3. PICK b \in 1 .. arg - 1 : A[b].value = Exp!ExpandText(written[c].args[a].segments[1].value)
        BY <1>1, <2>2, <4>2 DEF ExpandInv, QuotesExpanded, AtWork
      <4>4. b \in 1 .. arg' - 1 /\ new[b] = A[b]
        BY <1>1, <1>3, <1>5, <1>6
      <4>5. QED
        BY <4>3, <4>4
    <3>3. QED
      BY <3>1, <3>2
  <2>3. QED
    BY <1>1, <1>8, <1>9, <1>10, <2>1, <2>2, SMTT(20) DEF QuotesExpanded, AtWork, InQuotes
<1>14. StatusSeen'
  <2>1. Len(seen) = c /\ seen[c] = status
    BY <1>1 DEF ExpandInv, StatusSeen, AtWork
  <2>2. ASSUME NEW k \in DOMAIN seen, NEW j \in 1 .. k - 1 PROVE commands'[j] = commands[j]
    <3>1. k \in 1 .. c
      BY <1>3, <2>1
    <3>2. j \in DOMAIN commands /\ j # c
      BY <1>2, <1>3, <3>1
    <3>3. QED
      BY <1>9, <3>2
  <2>3. \A k \in DOMAIN seen : seen[k] = IF \E j \in 1 .. k - 1 : Ambiguous(commands'[j]) THEN 1 ELSE seen[1]
    BY <2>2 DEF ExpandInv, StatusSeen
  <2>4. QED
    BY <1>1, <2>1, <2>3 DEF StatusSeen, AtWork, Ambiguous, Exp!Contains
<1>15. Opened'
  <2>1. \A str, st : Exp!ExpandTextAt(str, st)' = Exp!ExpandTextAt(str, st)
    BY <1>1, SameExpansion
  <2>2. ASSUME NEW k \in 1 .. c - 1 PROVE commands'[k] = commands[k]
    <3>1. c \in 1 .. Len(commands)
      BY <1>2, <1>3
    <3>2. k \in 1 .. Len(commands) /\ k # c
      BY <3>1
    <3>3. QED
      BY <1>3, <1>9, <3>2
  <2>3. ASSUME NEW k \in 1 .. c - 1
        PROVE  OpenedAs(commands'[k].input_redirection, commands'[k].output_redirection,
                        written[k].output_redirection, seen[k])
    BY <2>2 DEF ExpandInv, Opened
  <2>4. QED
    BY <1>1, <2>1, <2>3 DEF Opened, OpenedAs, Exp!Contains, Exp!Last, Exp!Front
<1>16. ListsSpliced'
  <2> DEFINE W == written[c].args
             n == Behind
  <2>1. ValuesTo(A, arg) = FlattenSeq(Lists(W, n))
    BY <1>1 DEF ExpandInv, ListsSpliced, AtWork
  <2>2. n \in Nat /\ n + 1 \in 1 .. Len(W) /\ W[n + 1].segments = segs
    <3>1. Left \in 0 .. Len(W)
      BY <1>1, <1>2 DEF ExpandInv, Ahead, AtWork, RestIs, Left
    <3>2. n = Len(W) - Left /\ Len(W) \in Nat
      BY <1>2 DEF Behind
    <3>3. n + 1 \in 1 .. Len(W) /\ W[n + 1].segments = segs
      BY <1>2
    <3> HIDE DEF n, W
    <3>4. QED
      BY <3>1, <3>2, <3>3
  <2>3. \A a \in 1 .. Len(W) : W[a].segments \in Seq(Exp!Segment)
    <3>1. written[c] \in Exp!Command /\ Readable(written[c])
      BY <1>2, <1>3
    <3>2. W \in Seq(Exp!Arg)
      BY <3>1 DEF Exp!Command
    <3>3. QED
      BY <3>1, <3>2 DEF Readable
  <2>4. list = Exp!ExpandArgToList(segs)
    BY DEF list
  <2>5. \A b \in 1 .. arg - 1 : A[b].value \in Exp!Text \union {NULL}
    <3> HIDE DEF A
    <3>1. A \in Seq(Exp!Arg) /\ arg \in 1 .. Len(A)
      BY <1>2
    <3>2. \A b \in 1 .. arg - 1 : b \in 1 .. Len(A)
      BY <3>1
    <3>3. \A b \in 1 .. arg - 1 : A[b] \in Exp!Arg
      BY <3>1, <3>2
    <3>4. QED
      BY <3>3 DEF Exp!Arg
  <2>6. arg' = arg + Len(list) /\ \A k \in 1 .. Len(list) : new[arg - 1 + k].value = list[k]
    BY <1>1, <1>5, <1>6
  <2>7. ValuesTo(new, arg + Len(list)) = ValuesTo(A, arg) \o list
    <3> DEFINE V == Exp!Text \union {NULL}
    <3>1. arg \in Nat \ {0} /\ list \in Seq(V) /\ \A b \in 1 .. arg - 1 : A[b].value \in V
      BY <1>3, <1>4, <2>5
    <3> HIDE DEF A, V
    <3>2. PutIn(new, A, arg, list)
      BY <1>6, <2>6 DEF PutIn
    <3>3. ValuesTo(A, arg) \in Seq(V)
      <4>1. arg - 1 \in Nat
        BY <3>1
      <4>2. QED
        BY <3>1, <4>1 DEF ValuesTo
    <3>4. QED
      BY <3>1, <3>2, <3>3, ValuesJoin
  <2>8. FlattenSeq(Lists(W, n + 1)) = FlattenSeq(Lists(W, n)) \o list
    <3> HIDE DEF W, n
    <3>1. \A a \in 1 .. n + 1 : W[a].segments \in Seq(Exp!Segment)
      BY <2>2, <2>3
    <3>2. FlattenSeq(Lists(W, n + 1)) = FlattenSeq(Lists(W, n)) \o Exp!ExpandArgToList(W[n + 1].segments)
      BY <1>3, <2>2, <3>1, OneMoreList
    <3>3. QED
      BY <2>2, <2>4, <3>2
  <2>9. (Lists(written[c].args, Behind))' = Lists(W, n + 1)
    <3>1. \A args : Exp!ExpandArgToList(args)' = Exp!ExpandArgToList(args)
      BY <1>1, SameLists
    <3>2. QED
      BY <1>1, <1>10, <3>1 DEF Lists
  <2>10. (ValuesTo(commands[c].args, arg))' = ValuesTo(new, arg + Len(list))
    BY <1>1, <1>8, <1>9, <2>6 DEF ValuesTo
  <2>11. QED
    BY <2>1, <2>7, <2>8, <2>9, <2>10 DEF ListsSpliced
<1>17. QED
  BY <1>1, <1>10, <1>11, <1>12, <1>13, <1>14, <1>15, <1>16 DEF ExpandInv

\* The loop over the arguments ends.
LEMMA ArgumentsDone ==
  ASSUME ExpandInv, Exp!ArgsDone
  PROVE  ExpandInv' /\ Left = 0
<1>1. /\ expanding = "args" /\ arg > Len(commands[c].args) /\ expanding' = "redirs"
      /\ UNCHANGED <<commands, c, arg, status, env, written, seen>>
  BY DEF Exp!ArgsDone
<1>2. /\ commands \in Seq(Exp!Command) /\ written \in Seq(Exp!Command) /\ Len(written) = Len(commands)
      /\ c \in 1 .. Len(commands) /\ arg \in Nat \ {0}
      /\ RestIs(commands[c].args, arg, written[c].args)
  BY <1>1 DEF ExpandInv, ExpandTypes, Exp!TypeOK, Ahead, AtWork
<1>3. Left = 0
  <2>1. commands[c] \in Exp!Command
    BY <1>2
  <2>2. Len(commands[c].args) \in Nat
    BY <2>1 DEF Exp!Command
  <2>3. Left >= 0
    BY <1>2 DEF RestIs, Left
  <2>4. QED
    BY <1>1, <1>2, <2>2, <2>3 DEF Left
<1>4. ExpandTypes'
  <2>1. (\A k \in DOMAIN written : Readable(written[k]))'
    BY <1>1 DEF ExpandInv, ExpandTypes, Readable, Exp!Written, Exp!Segment, Exp!Text, Exp!Char
  <2>2. QED
    BY <1>1, <2>1 DEF ExpandInv, ExpandTypes, Exp!TypeOK, Exp!Command, Exp!Status, Exp!Arg, Exp!Segment, Exp!Text, Exp!Char
<1>5. Ahead'
  BY <1>1, <1>3 DEF ExpandInv, Ahead, AtWork, RestIs, Left
<1>6. QuotesExpanded'
  <2>1. \A str : Exp!ExpandText(str)' = Exp!ExpandText(str)
    BY <1>1, SameExpansion
  <2>2. QED
    BY <1>1, <2>1 DEF ExpandInv, QuotesExpanded, AtWork, InQuotes, Behind, Left
<1>7. StatusSeen'
  BY <1>1 DEF ExpandInv, StatusSeen, AtWork, Ambiguous, Exp!Contains
<1>8. Opened'
  <2>1. \A str, st : Exp!ExpandTextAt(str, st)' = Exp!ExpandTextAt(str, st)
    BY <1>1, SameExpansion
  <2>2. QED
    BY <1>1, <2>1 DEF ExpandInv, Opened, OpenedAs, Exp!Contains, Exp!Last, Exp!Front
<1>9. ListsSpliced'
  BY <1>1, SplicedStays DEF ExpandInv, AtWork
<1>10. QED
  BY <1>3, <1>4, <1>5, <1>6, <1>7, <1>8, <1>9 DEF ExpandInv

\* process_redirs, for the inputs and then for the outputs.
LEMMA RedirsExpanded ==
  ASSUME ExpandInv, Exp!Redirs
  PROVE  ExpandInv' /\ expanding = "redirs" /\ c' = c + 1 /\ expanding' \in {"args", "done"} /\ written' = written
         /\ (expanding' = "args" => Behind' = 0)
<1> DEFINE in == Exp!ProcessRedirs(commands[c].input_redirection)
           out == IF Exp!Contains(in, NULL) THEN commands[c].output_redirection
                  ELSE Exp!ProcessRedirs(commands[c].output_redirection)
           command == WithFiles(commands[c], in, out)
<1>1. /\ expanding = "redirs"
      /\ commands' = [commands EXCEPT ![c] = command]
      /\ status' = IF Exp!Contains(in \o out, NULL) THEN 1 ELSE status
      /\ c' = c + 1 /\ arg' = 1
      /\ c = Len(commands) => expanding' = "done" /\ seen' = seen
      /\ c # Len(commands) => expanding' = "args" /\ seen' = Append(seen, status')
      /\ env' = env /\ written' = written
  BY DEF Exp!Redirs, Exp!NextCommand, WithFiles
<1>2. /\ commands \in Seq(Exp!Command) /\ c \in 1 .. Len(commands)
      /\ status \in Exp!Status /\ env \in Envs
      /\ written \in Seq(Exp!Command) /\ seen \in Seq(Exp!Status) /\ Len(written) = Len(commands)
      /\ \A k \in DOMAIN written : Readable(written[k])
  BY <1>1 DEF ExpandInv, ExpandTypes, Exp!TypeOK
<1>3. /\ commands[c].input_redirection = written[c].input_redirection
      /\ commands[c].output_redirection = written[c].output_redirection
      /\ written[c].input_redirection \in Seq(Exp!Text)
      /\ written[c].output_redirection \in Seq(Exp!Text)
      /\ commands[c] \in Exp!Command
  <2>1. c \in DOMAIN commands /\ c \in DOMAIN written
    BY <1>2
  <2>2. QED
    BY <1>1, <1>2, <2>1 DEF ExpandInv, Ahead, AtWork, Readable
<1>4. in \in Seq(Exp!Text \union {NULL})
  BY <1>2, <1>3, RedirsProcessed
<1> DEFINE processed == Exp!ProcessRedirs(commands[c].output_redirection)
<1>5. /\ processed \in Seq(Exp!Text \union {NULL})
      /\ DOMAIN processed = DOMAIN written[c].output_redirection
      /\ \A r \in DOMAIN processed :
           processed[r] # NULL /\ Exp!Contains(written[c].output_redirection[r], "$")
             => processed[r] = Exp!ExpandTextAt(written[c].output_redirection[r], status)
  <2> DEFINE list == written[c].output_redirection
  <2>1. processed = Exp!ProcessRedirs(list) /\ list \in Seq(Exp!Text)
    BY <1>3
  <2> HIDE DEF list, processed
  <2>2. /\ Exp!ProcessRedirs(list) \in Seq(Exp!Text \union {NULL})
        /\ DOMAIN Exp!ProcessRedirs(list) = DOMAIN list
        /\ \A r \in DOMAIN list :
             Exp!ProcessRedirs(list)[r] # NULL /\ Exp!Contains(list[r], "$")
               => Exp!ProcessRedirs(list)[r] = Exp!ExpandTextAt(list[r], status)
    BY <1>2, <2>1, RedirsProcessed
  <2>3. QED
    BY <2>1, <2>2 DEF list
<1>6. out \in Seq(Exp!Text \union {NULL}) /\ (~Exp!Contains(in, NULL) => out = processed)
  <2>1. commands[c].output_redirection \in Seq(Exp!Text \union {NULL})
    BY <1>3 DEF Exp!Command
  <2> HIDE DEF in
  <2>2. QED
    BY <1>5, <2>1
<1>7. OpenedAs(in, out, written[c].output_redirection, status)
  <2> HIDE DEF in, out
  <2>1. CASE ~Exp!Contains(in, NULL)
    BY <1>5, <1>6, <2>1 DEF OpenedAs
  <2>2. CASE Exp!Contains(in, NULL)
    <3>1. PICK r \in 1 .. Len(in) : in[r] = NULL
      BY <2>2 DEF Exp!Contains
    <3>2. CASE Exp!Last(in) = NULL
      <4>1. in # <<>>
        BY <1>4, <3>1
      <4>2. QED
        BY <3>2, <4>1 DEF OpenedAs
    <3>3. CASE Exp!Last(in) # NULL
      <4>1. Len(in) \in Nat /\ r # Len(in)
        BY <1>4, <3>1, <3>3 DEF Exp!Last
      <4>2. r \in 1 .. Len(in) - 1 /\ Len(in) > 1
        BY <3>1, <4>1
      <4>3. Exp!Front(in) = SubSeq(in, 1, Len(in) - 1)
        BY DEF Exp!Front
      <4>4. Len(Exp!Front(in)) = Len(in) - 1 /\ Exp!Front(in)[r] = in[r]
        BY <1>4, <4>1, <4>2, <4>3
      <4>5. Exp!Contains(Exp!Front(in), NULL)
        BY <3>1, <4>2, <4>4 DEF Exp!Contains
      <4>6. QED
        BY <4>2, <4>5 DEF OpenedAs
    <3>4. QED
      BY <3>2, <3>3
  <2>3. QED
    BY <2>1, <2>2
<1>8. Exp!Contains(in \o out, NULL) <=> Exp!Contains(in, NULL) \/ Exp!Contains(out, NULL)
  <2> DEFINE both == in \o out
  <2>1. /\ Len(in) \in Nat /\ Len(out) \in Nat /\ Len(both) = Len(in) + Len(out)
        /\ \A k \in 1 .. Len(in) + Len(out) : both[k] = IF k <= Len(in) THEN in[k] ELSE out[k - Len(in)]
    <3> HIDE DEF in, out
    <3>1. Len(in) \in Nat /\ Len(out) \in Nat
      BY <1>4, <1>6
    <3>2. QED
      BY <1>4, <1>6, <3>1, ConcatProperties
  <2> HIDE DEF in, out, both
  <2>2. ASSUME NEW k \in 1 .. Len(in) PROVE both[k] = in[k] /\ k \in 1 .. Len(both)
    BY <2>1
  <2>3. ASSUME NEW k \in 1 .. Len(out) PROVE both[Len(in) + k] = out[k] /\ Len(in) + k \in 1 .. Len(both)
    <3>1. Len(in) + k \in 1 .. Len(in) + Len(out) /\ ~(Len(in) + k <= Len(in)) /\ Len(in) + k - Len(in) = k
      BY <2>1
    <3>2. QED
      BY <2>1, <3>1
  <2>4. ASSUME NEW k \in 1 .. Len(both)
        PROVE  \/ k \in 1 .. Len(in) /\ both[k] = in[k]
               \/ k - Len(in) \in 1 .. Len(out) /\ both[k] = out[k - Len(in)]
    <3>1. k \in 1 .. Len(in) + Len(out)
      BY <2>1
    <3>2. CASE k <= Len(in)
      BY <2>1, <3>1, <3>2
    <3>3. CASE ~(k <= Len(in))
      BY <2>1, <3>1, <3>3
    <3>4. QED
      BY <3>2, <3>3
  <2>5. QED
    BY <2>2, <2>3, <2>4 DEF Exp!Contains, both
<1> HIDE DEF in, out, processed
<1>9. /\ command \in Exp!Command /\ command.args = commands[c].args
      /\ command.input_redirection = in /\ command.output_redirection = out
  <2> DEFINE cmd == commands[c]
  <2>1. /\ cmd \in Exp!Command /\ in \in Seq(Exp!Text \union {NULL})
        /\ out \in Seq(Exp!Text \union {NULL})
    BY <1>3, <1>4, <1>6
  <2> HIDE DEF cmd
  <2>2. WithFiles(cmd, in, out) \in Exp!Command
    BY <2>1, OtherFiles
  <2>3. /\ WithFiles(cmd, in, out).input_redirection = in
        /\ WithFiles(cmd, in, out).output_redirection = out
    BY <2>1, OtherFiles, ZenonT(30)
  <2>4. WithFiles(cmd, in, out).args = cmd.args
    BY <2>1 DEF WithFiles, Exp!Command
  <2>5. QED
    BY <2>2, <2>3, <2>4 DEF cmd
<1> HIDE DEF command
<1>10. /\ commands' \in Seq(Exp!Command) /\ Len(commands') = Len(commands) /\ commands'[c] = command
       /\ \A k \in DOMAIN commands : k # c => commands'[k] = commands[k]
  BY <1>1, <1>2, <1>9
<1>11. status' \in Exp!Status /\ status' = IF Ambiguous(command) THEN 1 ELSE status
  BY <1>1, <1>2, <1>8, <1>9 DEF Ambiguous, Exp!Status
<1>12. Len(seen) = c /\ seen[c] = status
  BY <1>1 DEF ExpandInv, StatusSeen, AtWork
<1>13. /\ seen' \in Seq(Exp!Status) /\ \A k \in 1 .. c : seen'[k] = seen[k]
       /\ expanding' = "args" => Len(seen') = c + 1 /\ seen'[c + 1] = status'
       /\ expanding' = "done" => Len(seen') = c
       /\ expanding' \in {"args", "done"}
  <2>1. CASE c = Len(commands)
    <3>1. seen' = seen /\ expanding' = "done"
      BY <1>1, <2>1
    <3>2. QED
      BY <1>2, <1>12, <3>1
  <2>2. CASE c # Len(commands)
    <3>1. seen' = Append(seen, status') /\ expanding' = "args"
      BY <1>1, <2>2
    <3>2. seen \in Seq(Exp!Status) /\ status' \in Exp!Status /\ Len(seen) = c /\ c \in Nat
      BY <1>2, <1>11, <1>12
    <3>3. /\ Append(seen, status') \in Seq(Exp!Status)
          /\ Len(Append(seen, status')) = c + 1
          /\ Append(seen, status')[c + 1] = status'
          /\ \A k \in 1 .. c : Append(seen, status')[k] = seen[k]
      BY <3>2, AppendProperties
    <3>4. QED
      BY <3>1, <3>3
  <2>3. QED
    BY <2>1, <2>2
<1>14. ExpandTypes'
  <2>1. (\A k \in DOMAIN written : Readable(written[k]))'
    BY <1>1, <1>2 DEF Readable, Exp!Written, Exp!Segment, Exp!Text, Exp!Char
  <2>2. /\ c' \in 1 .. Len(commands') + 1 /\ arg' \in Nat \ {0}
        /\ (expanding' # "done" <=> c' <= Len(commands'))
    BY <1>1, <1>2, <1>10
  <2>3. QED
    BY <1>1, <1>2, <1>10, <1>11, <1>13, <2>1, <2>2
       DEF ExpandTypes, Exp!TypeOK, Exp!Command, Exp!Status, Exp!Arg, Exp!Segment, Exp!Text, Exp!Char
<1>15. expanding' = "args" => commands'[c + 1] = written[c + 1] /\ Len(written[c + 1].args) \in Nat
                             /\ c + 1 \in DOMAIN written
  <2> SUFFICES ASSUME expanding' = "args"
               PROVE  commands'[c + 1] = written[c + 1] /\ Len(written[c + 1].args) \in Nat /\ c + 1 \in DOMAIN written
    OBVIOUS
  <2>1. c + 1 \in DOMAIN written /\ c + 1 \in DOMAIN commands /\ c + 1 > c /\ c + 1 # c
    BY <1>1, <1>2
  <2>2. written[c + 1] \in Exp!Command
    BY <1>2, <2>1
  <2>3. Len(written[c + 1].args) \in Nat
    BY <2>2 DEF Exp!Command
  <2>4. commands[c + 1] = written[c + 1]
    BY <2>1 DEF ExpandInv, Ahead
  <2>5. QED
    BY <1>10, <2>1, <2>3, <2>4
<1>16. expanding' = "args" => Left' = Len(written[c + 1].args) /\ Behind' = 0
  <2> SUFFICES ASSUME expanding' = "args" PROVE Left' = Len(written[c + 1].args) /\ Behind' = 0
    OBVIOUS
  <2> DEFINE n == Len(written[c + 1].args)
  <2>1. Left' = n - 1 + 1 /\ Behind' = n - Left' /\ n \in Nat
    BY <1>1, <1>15 DEF Left, Behind
  <2> HIDE DEF n
  <2>2. n - 1 + 1 = n /\ n - n = 0
    BY <2>1
  <2>3. QED
    BY <2>1, <2>2 DEF n
<1>17. Ahead'
  <2>1. \A k \in DOMAIN written : k > c + 1 => commands'[k] = written[k]
    <3> SUFFICES ASSUME NEW k \in DOMAIN written, k > c + 1 PROVE commands'[k] = written[k]
      OBVIOUS
    <3>1. k \in DOMAIN commands /\ k > c /\ k # c
      BY <1>2
    <3>2. QED
      BY <1>10, <3>1 DEF ExpandInv, Ahead
  <2>2. ASSUME expanding' = "args" PROVE RestIs(commands'[c + 1].args, 1, written[c + 1].args)
    <3> DEFINE W == written[c + 1].args
    <3>1. commands'[c + 1].args = W /\ Len(W) \in Nat
      BY <1>15, <2>2
    <3> HIDE DEF W
    <3>2. Len(W) - 1 + 1 = Len(W) /\ \A j \in 1 .. Len(W) : 1 - 1 + j = j /\ Len(W) - Len(W) + j = j
      BY <3>1
    <3>3. RestIs(W, 1, W)
      BY <3>1, <3>2 DEF RestIs
    <3>4. QED
      BY <3>1, <3>3 DEF W
  <2>3. QED
    BY <1>1, <1>13, <1>15, <2>1, <2>2 DEF Ahead, AtWork, RestIs
<1>18. QuotesExpanded'
  <2>1. AtWork' => Behind' = 0
    BY <1>13, <1>16 DEF AtWork
  <2>2. \A a : a \notin 1 .. 0
    OBVIOUS
  <2>3. QED
    BY <2>1, <2>2 DEF QuotesExpanded
<1>19. StatusSeen'
  <2>1. ASSUME NEW k \in 1 .. c, NEW j \in 1 .. k - 1 PROVE commands'[j] = commands[j]
    <3>1. j \in DOMAIN commands /\ j # c
      BY <1>2
    <3>2. QED
      BY <1>10, <3>1
  <2>2. ASSUME NEW k \in 1 .. c
        PROVE  seen'[k] = IF \E j \in 1 .. k - 1 : Ambiguous(commands'[j]) THEN 1 ELSE seen'[1]
    <3>1. k \in DOMAIN seen /\ 1 \in 1 .. c
      BY <1>2, <1>12
    <3>2. seen[k] = IF \E j \in 1 .. k - 1 : Ambiguous(commands[j]) THEN 1 ELSE seen[1]
      BY <3>1 DEF ExpandInv, StatusSeen
    <3>3. QED
      BY <1>13, <2>1, <3>1, <3>2
  <2>3. ASSUME expanding' = "args", NEW k, k = c + 1
        PROVE  seen'[k] = IF \E j \in 1 .. k - 1 : Ambiguous(commands'[j]) THEN 1 ELSE seen'[1]
    <3>1. k - 1 = c /\ c \in 1 .. c /\ \A j \in 1 .. c : j = c \/ j \in 1 .. c - 1
      BY <1>2, <2>3
    <3>2. status = IF \E j \in 1 .. c - 1 : Ambiguous(commands'[j]) THEN 1 ELSE seen'[1]
      BY <1>12, <1>13, <2>2, <3>1
    <3>3. \A j \in 1 .. c - 1 : j \in 1 .. c
      BY <1>2
    <3>4. seen'[k] = IF Ambiguous(commands'[c]) THEN 1 ELSE status
      BY <1>10, <1>11, <1>13, <2>3
    <3>5. (\E j \in 1 .. k - 1 : Ambiguous(commands'[j]))
            <=> Ambiguous(commands'[c]) \/ \E j \in 1 .. c - 1 : Ambiguous(commands'[j])
      BY <3>1, <3>3
    <3>6. QED
      BY <3>2, <3>4, <3>5
  <2>4. ASSUME NEW k \in DOMAIN seen'
        PROVE  seen'[k] = IF \E j \in 1 .. k - 1 : Ambiguous(commands'[j]) THEN 1 ELSE seen'[1]
    <3>1. k \in 1 .. c \/ (expanding' = "args" /\ k = c + 1)
      BY <1>2, <1>13
    <3>2. CASE k \in 1 .. c
      BY <2>2, <3>2
    <3>3. CASE expanding' = "args" /\ k = c + 1
      BY <2>3, <3>3
    <3>4. QED
      BY <3>1, <3>2, <3>3
  <2>5. QED
    BY <1>1, <1>13, <2>4 DEF StatusSeen, AtWork, Ambiguous, Exp!Contains
<1>20. Opened'
  <2>1. \A str, st : Exp!ExpandTextAt(str, st)' = Exp!ExpandTextAt(str, st)
    BY <1>1, SameExpansion
  <2>2. ASSUME NEW k \in 1 .. c
        PROVE  OpenedAs(commands'[k].input_redirection, commands'[k].output_redirection,
                        written[k].output_redirection, seen'[k])
    <3>1. CASE k = c
      BY <1>7, <1>9, <1>10, <1>12, <1>13, <3>1
    <3>2. CASE k # c
      <4>1. k \in 1 .. c - 1 /\ k \in DOMAIN commands
        BY <1>2, <3>2
      <4>2. commands'[k] = commands[k] /\ seen'[k] = seen[k]
        BY <1>10, <1>13, <3>2, <4>1
      <4>3. QED
        BY <4>1, <4>2 DEF ExpandInv, Opened
    <3>3. QED
      BY <3>1, <3>2
  <2>3. \A k : k \in 1 .. c' - 1 => k \in 1 .. c
    BY <1>1, <1>2
  <2>4. ASSUME NEW k \in 1 .. c' - 1
        PROVE  OpenedAs(commands[k].input_redirection, commands[k].output_redirection,
                        written[k].output_redirection, seen[k])'
    <3>1. OpenedAs(commands'[k].input_redirection, commands'[k].output_redirection,
                   written[k].output_redirection, seen'[k])
      BY <2>2, <2>3
    <3>2. OpenedAs(commands'[k].input_redirection, commands'[k].output_redirection,
                   written'[k].output_redirection, seen'[k])
      BY <1>1, <3>1
    <3>3. QED
      BY <2>1, <3>2 DEF OpenedAs, Exp!Contains, Exp!Last, Exp!Front
  <2>5. QED
    BY <2>4 DEF Opened
<1>21. ListsSpliced'
  <2>1. CASE expanding' = "args"
    BY <1>1, <1>16, <2>1, NothingSpliced
  <2>2. CASE expanding' # "args"
    <3>1. ~AtWork'
      BY <1>13, <2>2 DEF AtWork
    <3>2. QED
      BY <3>1 DEF ListsSpliced
  <2>3. QED
    BY <2>1, <2>2
<1>22. QED
  BY <1>1, <1>13, <1>14, <1>16, <1>17, <1>18, <1>19, <1>20, <1>21 DEF ExpandInv

----------------------------------------------------------------------------
(* From the parser to the expander.                                        *)

\* The commands of a line as the parser leaves them: each argument is a word of
\* the line, and no word is two arguments.
LineParsed ==
  /\ parsed \in Seq(P!Command) /\ parsed # <<>>
  /\ \A k \in DOMAIN parsed : \A a \in DOMAIN parsed[k].args :
       parsed[k].args[a] \in DOMAIN tokens /\ tokens[parsed[k].args[a]].type = "WORD"
  /\ \A k, l \in DOMAIN parsed : \A a \in DOMAIN parsed[k].args, b \in DOMAIN parsed[l].args :
       parsed[k].args[a] = parsed[l].args[b] => k = l /\ a = b
  /\ \A k \in DOMAIN parsed :
       /\ \A r \in DOMAIN parsed[k].input_redirection : parsed[k].input_redirection[r].file \in DOMAIN tokens
       /\ \A r \in DOMAIN parsed[k].output_redirection : parsed[k].output_redirection[r].file \in DOMAIN tokens

\* Parser.CommandsAsWritten, for the tokens of this line.
LEMMA LineRead ==
  ASSUME LexInv, ParseInv, Reading, parsing = "parsed"
  PROVE  LineParsed
<1>1. P!WInv
  BY DEF ParseInv
<1>2. /\ parsed \in Seq(P!Command) /\ parsed # <<>>
      /\ \A k \in DOMAIN parsed : \A a \in DOMAIN parsed[k].args :
           parsed[k].args[a] \in DOMAIN types /\ types[parsed[k].args[a]] = "WORD"
      /\ \A k, l \in DOMAIN parsed :
           \A a \in DOMAIN parsed[k].args, b \in DOMAIN parsed[l].args :
             parsed[k].args[a] = parsed[l].args[b] => k = l /\ a = b
      /\ \A k \in DOMAIN parsed :
           /\ \A r \in DOMAIN parsed[k].input_redirection :
                parsed[k].input_redirection[r].file \in DOMAIN types
           /\ \A r \in DOMAIN parsed[k].output_redirection :
                parsed[k].output_redirection[r].file \in DOMAIN types
  BY <1>1, P!WordsOfLine
<1>3. DOMAIN types = DOMAIN tokens /\ \A w \in DOMAIN tokens : types[w] = tokens[w].type
  BY DEF types
<1>4. QED
  BY <1>2, <1>3 DEF LineParsed

\* What the lexer writes the expander can read.
LEMMA CharsFit ==
  /\ \A s \in Seq(Lex!Char) : s \in Exp!Text
  /\ \A s \in Seq(Lex!Segment) : s \in Seq(Exp!Segment)
<1>1. Lex!Char \subseteq Exp!Char
  BY LexerParameters DEF Lex!Char, Lex!Blanks, Lex!Operators, Lex!Quotes, Exp!Char, Exp!Blanks, Exp!Quoted
<1>2. \A s \in Seq(Lex!Char) : s \in Exp!Text
  BY <1>1 DEF Exp!Text
<1>3. Lex!Segment \subseteq Exp!Segment
  BY <1>2 DEF Lex!Segment, Exp!Segment
<1>4. \A s \in Seq(Lex!Segment) : s \in Seq(Exp!Segment)
  BY <1>3
<1>5. QED
  BY <1>2, <1>4

\* A word's segments, as add_arg moves them.
LEMMA ArgHanded ==
  ASSUME LexInv, NEW w \in DOMAIN tokens, tokens[w].type = "WORD"
  PROVE  /\ tokens[w].segments \in Seq(Exp!Segment) /\ tokens[w].segments # <<>> /\ WellCut(tokens[w].segments)
         /\ [segments |-> tokens[w].segments, value |-> NULL] \in Exp!Arg
<1>1. tokens[w] \in Lex!Token
  BY DEF LexInv, Lex!TypeOK
<1>2. tokens[w].segments \in Seq(Exp!Segment)
  BY <1>1, CharsFit DEF Lex!Token
<1>3. [segments |-> tokens[w].segments, value |-> NULL] \in Exp!Arg
  BY <1>2 DEF Exp!Arg
<1>4. QED
  BY <1>2, <1>3 DEF LexInv, WordsFit

\* The names of the files are the literals.
LEMMA FilesHanded ==
  ASSUME LexInv, NEW list \in Seq(P!Redir), \A r \in DOMAIN list : list[r].file \in DOMAIN tokens
  PROVE  [r \in DOMAIN list |-> File(list[r])] \in Seq(Exp!Text)
<1>1. ASSUME NEW r \in DOMAIN list PROVE File(list[r]) \in Exp!Text
  <2>1. tokens[list[r].file] \in Lex!Token
    BY DEF LexInv, Lex!TypeOK
  <2>2. tokens[list[r].file].literal \in Seq(Lex!Char)
    BY <2>1 DEF Lex!Token
  <2>3. QED
    BY <2>2, CharsFit DEF File
<1>2. Len(list) \in Nat /\ DOMAIN list = 1 .. Len(list)
  OBVIOUS
<1>3. QED
  BY <1>1, <1>2

\* A command as it is handed over.
LEMMA CommandHanded ==
  ASSUME LexInv, LineParsed, NEW k \in DOMAIN parsed
  PROVE  /\ Handed(parsed[k]) \in Exp!Command /\ Readable(Handed(parsed[k]))
         /\ Len(Handed(parsed[k]).args) = Len(parsed[k].args)
         /\ Len(parsed[k].args) \in Nat /\ DOMAIN parsed[k].args = 1 .. Len(parsed[k].args)
<1> DEFINE cmd == parsed[k]
           args == [a \in DOMAIN cmd.args |-> [segments |-> tokens[cmd.args[a]].segments, value |-> NULL]]
           in == [r \in DOMAIN cmd.input_redirection |-> File(cmd.input_redirection[r])]
           out == [r \in DOMAIN cmd.output_redirection |-> File(cmd.output_redirection[r])]
<1>1. cmd \in P!Command
  BY DEF LineParsed
<1>2. /\ cmd.args \in Seq(Nat) /\ cmd.input_redirection \in Seq(P!Redir)
      /\ cmd.output_redirection \in Seq(P!Redir)
  BY <1>1 DEF P!Command
<1>3. in \in Seq(Exp!Text) /\ out \in Seq(Exp!Text)
  <2>1. /\ \A r \in DOMAIN cmd.input_redirection : cmd.input_redirection[r].file \in DOMAIN tokens
        /\ \A r \in DOMAIN cmd.output_redirection : cmd.output_redirection[r].file \in DOMAIN tokens
    BY DEF LineParsed
  <2> HIDE DEF cmd
  <2>2. QED
    BY <1>2, <2>1, FilesHanded
<1>4. ASSUME NEW a \in DOMAIN cmd.args
      PROVE  /\ args[a] \in Exp!Arg /\ args[a].value = NULL /\ args[a].segments # <<>>
             /\ WellCut(args[a].segments) /\ args[a].segments \in Seq(Exp!Segment)
  <2>1. cmd.args[a] \in DOMAIN tokens /\ tokens[cmd.args[a]].type = "WORD"
    BY DEF LineParsed
  <2> HIDE DEF cmd
  <2>2. args[a] = [segments |-> tokens[cmd.args[a]].segments, value |-> NULL]
    OBVIOUS
  <2>3. QED
    BY <2>1, <2>2, ArgHanded
<1>5. Len(cmd.args) \in Nat /\ DOMAIN cmd.args = 1 .. Len(cmd.args) /\ DOMAIN args = DOMAIN cmd.args
  BY <1>2
<1>6. Handed(cmd) = [args |-> args, input_redirection |-> in, output_redirection |-> out]
  BY DEF Handed
<1> HIDE DEF args, in, out, cmd
<1>7. args \in Seq(Exp!Arg) /\ Len(args) = Len(cmd.args)
  <2>1. args = [a \in 1 .. Len(cmd.args) |-> args[a]]
    BY <1>5 DEF args
  <2>2. QED
    BY <1>4, <1>5, <2>1
<1>8. Handed(cmd) \in Exp!Command
  <2>1. in \in Seq(Exp!Text \union {NULL}) /\ out \in Seq(Exp!Text \union {NULL})
    BY <1>3
  <2>2. QED
    BY <1>6, <1>7, <2>1 DEF Exp!Command
<1>9. Exp!Written(Handed(cmd))
  BY <1>4, <1>5, <1>6 DEF Exp!Written, WellCut
<1>10. Readable(Handed(cmd))
  BY <1>3, <1>4, <1>5, <1>6, <1>9 DEF Readable
<1>11. QED
  BY <1>5, <1>6, <1>7, <1>8, <1>10 DEF cmd

\* The expander begins with the commands as they were written.
LEMMA ExpanderStarted ==
  ASSUME LexInv, ParseInv, env \in Envs, StartExpander
  PROVE  ExpandInv' /\ LineParsed /\ Behind' = 0 /\ Reading
<1>1. /\ parsing = "parsed" /\ expanding = "wait"
      /\ written' = [k \in DOMAIN parsed |-> Handed(parsed[k])] /\ commands' = written'
      /\ c' = 1 /\ arg' = 1 /\ seen' = <<status>> /\ expanding' = "args"
      /\ UNCHANGED <<lexVars, parVars, env, status>>
  BY DEF StartExpander
<1>2. Reading /\ LineParsed
  BY <1>1, LineRead DEF Reading
<1>3. status \in Exp!Status
  <2>1. P!AcceptsPipelines
    BY <1>2 DEF ParseInv, P!WInv, P!GInv
  <2>2. status = before
    BY <1>1, <2>1 DEF P!AcceptsPipelines
  <2>3. QED
    BY <2>2, StatusesAssumption DEF ParseInv, Exp!Status
<1>4. Len(parsed) \in Nat \ {0} /\ DOMAIN parsed = 1 .. Len(parsed)
  BY <1>2 DEF LineParsed
<1> DEFINE handed == [k \in DOMAIN parsed |-> Handed(parsed[k])]
<1>5. /\ Len(handed) = Len(parsed) /\ DOMAIN handed = 1 .. Len(parsed)
      /\ \A k \in DOMAIN handed : handed[k] \in Exp!Command /\ Readable(handed[k]) /\ Len(handed[k].args) \in Nat
  BY <1>2, <1>4, CommandHanded
<1>6. written' = handed /\ commands' = handed
  BY <1>1
<1>7. handed \in Seq(Exp!Command)
  <2>1. handed = [k \in 1 .. Len(parsed) |-> handed[k]]
    BY <1>4
  <2> HIDE DEF handed
  <2>2. QED
    BY <1>4, <1>5, <2>1
<1> HIDE DEF handed
<1>8. 1 \in DOMAIN handed /\ Len(handed[1].args) \in Nat
  BY <1>4, <1>5
<1>9. Left' = Len(handed[1].args) /\ Behind' = 0
  <2> DEFINE n == Len(handed[1].args)
  <2>1. Left' = n - 1 + 1 /\ Behind' = n - Left' /\ n \in Nat
    BY <1>1, <1>6, <1>8 DEF Left, Behind
  <2> HIDE DEF n
  <2>2. n - 1 + 1 = n /\ n - n = 0
    BY <2>1
  <2>3. QED
    BY <2>1, <2>2 DEF n
<1>10. ExpandTypes'
  <2>1. (\A k \in DOMAIN written : Readable(written[k]))'
    BY <1>5, <1>6 DEF Readable, Exp!Written, Exp!Segment, Exp!Text, Exp!Char
  <2>2. seen' \in Seq(Exp!Status)
    BY <1>1, <1>3
  <2>3. c' \in 1 .. Len(commands') + 1 /\ c' <= Len(commands') /\ arg' \in Nat \ {0}
    BY <1>1, <1>4, <1>5, <1>6
  <2>4. QED
    BY <1>1, <1>3, <1>6, <1>7, <2>1, <2>2, <2>3
       DEF ExpandTypes, Exp!TypeOK, Exp!Command, Exp!Status, Exp!Arg, Exp!Segment, Exp!Text, Exp!Char
<1>11. Ahead'
  <2>1. RestIs(handed[1].args, 1, handed[1].args)
    <3> DEFINE W == handed[1].args
    <3>1. Len(W) \in Nat
      BY <1>8
    <3> HIDE DEF W
    <3>2. Len(W) - 1 + 1 = Len(W) /\ \A j \in 1 .. Len(W) : 1 - 1 + j = j /\ Len(W) - Len(W) + j = j
      BY <3>1
    <3>3. RestIs(W, 1, W)
      BY <3>1, <3>2 DEF RestIs
    <3>4. QED
      BY <3>3 DEF W
  <2>2. QED
    BY <1>1, <1>6, <2>1 DEF Ahead, AtWork, RestIs
<1>12. QuotesExpanded'
  <2>1. \A a : a \notin 1 .. 0
    OBVIOUS
  <2>2. QED
    BY <1>9, <2>1 DEF QuotesExpanded
<1>13. StatusSeen'
  <2>1. seen' = <<status>> /\ Len(seen') = 1 /\ seen'[1] = status' /\ DOMAIN seen' = {1}
    BY <1>1
  <2>2. \A j : j \notin 1 .. 1 - 1
    OBVIOUS
  <2>3. \A k \in DOMAIN seen' : k = 1
    BY <2>1
  <2>4. QED
    BY <1>1, <2>1, <2>2, <2>3 DEF StatusSeen, AtWork
<1>14. Opened'
  <2>1. \A k : k \notin 1 .. 1 - 1
    OBVIOUS
  <2>2. QED
    BY <1>1, <2>1 DEF Opened
<1>15. ListsSpliced'
  BY <1>1, <1>9, NothingSpliced
<1>16. QED
  BY <1>2, <1>9, <1>10, <1>11, <1>12, <1>13, <1>14, <1>15 DEF ExpandInv

----------------------------------------------------------------------------
(* Who frees the segments.                                                 *)

\* The expander has been past this word.
Past(k, a) == k < c \/ (k = c /\ a <= Behind)
Done(w) == \E k \in DOMAIN parsed : \E a \in DOMAIN parsed[k].args : parsed[k].args[a] = w /\ Past(k, a)

\* From the first argument on, exactly the words behind the expander are freed,
\* until reset_loop frees the tokens that are no arguments.
FreedInv ==
  /\ expanding = "wait" => written = <<>>
  /\ expanding # "wait" => parsing \in {"parsed", "reset"}
  /\ AtWork => parsing = "parsed"
  /\ expanding # "wait" /\ parsing = "parsed" =>
       /\ LineParsed
       /\ written = [k \in DOMAIN parsed |-> Handed(parsed[k])]
       /\ segments = DOMAIN tokens \ P!Held
       /\ DOMAIN freed = DOMAIN tokens
       /\ \A w \in DOMAIN tokens : freed[w] = IF Done(w) THEN 1 ELSE 0
  /\ expanding # "wait" /\ parsing = "reset" => \A w \in DOMAIN freed : freed[w] = 1

IInv == /\ LexInv /\ ParseInv /\ FreedInv
        /\ expanding # "wait" => ExpandInv
        /\ env \in Envs

\* A word is held when it is an argument.
LEMMA HeldWords ==
  P!Held = {w \in DOMAIN tokens : \E k \in DOMAIN parsed : \E a \in DOMAIN parsed[k].args : parsed[k].args[a] = w}
<1>1. DOMAIN types = DOMAIN tokens
  BY DEF types
<1>2. QED
  BY <1>1 DEF P!Held, P!Contains

\* The argument the expander is at is the next that was parsed.
LEMMA WordAt ==
  ASSUME IInv, expanding = "args", arg <= Len(commands[c].args)
  PROVE  /\ parsing = "parsed" /\ c \in DOMAIN parsed /\ Behind + 1 \in DOMAIN parsed[c].args
         /\ Behind \in Int /\ Word = parsed[c].args[Behind + 1]
         /\ Word \in DOMAIN tokens /\ freed[Word] = 0
<1>1. /\ ExpandInv /\ parsing = "parsed" /\ LineParsed /\ LexInv
      /\ written = [k \in DOMAIN parsed |-> Handed(parsed[k])]
      /\ \A w \in DOMAIN tokens : freed[w] = IF Done(w) THEN 1 ELSE 0
  BY DEF IInv, FreedInv, AtWork
<1>2. /\ c \in DOMAIN written /\ arg \in 1 .. Len(commands[c].args)
      /\ commands[c].args \in Seq(Exp!Arg) /\ Len(written[c].args) \in Nat
      /\ Behind + 1 \in 1 .. Len(written[c].args) /\ Left \in Nat \ {0}
  BY <1>1, AtArgument
<1>3. c \in DOMAIN parsed /\ written[c] = Handed(parsed[c])
  BY <1>1, <1>2
<1>4. Len(written[c].args) = Len(parsed[c].args) /\ DOMAIN parsed[c].args = 1 .. Len(parsed[c].args)
  BY <1>1, <1>3, CommandHanded
<1>5. Behind + 1 \in DOMAIN parsed[c].args
  BY <1>2, <1>4
<1>6. Word = parsed[c].args[Behind + 1] /\ Behind \in Int
  <2> DEFINE words == parsed[c].args
             n == Len(words)
             m == Len(commands[c].args)
  <2>1. Word = words[n - (m - arg)]
    BY DEF Word
  <2>2. m \in Nat /\ arg \in Nat /\ n \in Nat
    BY <1>2, <1>4
  <2>3. Behind = n - (m - arg + 1)
    BY <1>4 DEF Behind, Left
  <2> HIDE DEF words, n, m
  <2>4. n - (m - arg) = Behind + 1 /\ Behind \in Int
    BY <2>2, <2>3
  <2>5. QED
    BY <2>1, <2>4 DEF words
<1>7. Word \in DOMAIN tokens
  BY <1>1, <1>3, <1>5, <1>6 DEF LineParsed
<1>8. ~Done(Word)
  <2> SUFFICES ASSUME NEW k \in DOMAIN parsed, NEW a \in DOMAIN parsed[k].args,
                      parsed[k].args[a] = Word, Past(k, a)
               PROVE  FALSE
    BY DEF Done
  <2>1. k = c /\ a = Behind + 1
    BY <1>1, <1>3, <1>5, <1>6 DEF LineParsed
  <2>2. c \in Nat
    BY <1>1 DEF ExpandInv, ExpandTypes, Exp!TypeOK
  <2>3. QED
    BY <1>6, <2>1, <2>2 DEF Past
<1>9. QED
  BY <1>1, <1>3, <1>5, <1>6, <1>7, <1>8

\* What does not come to the expander's arguments changes nothing here.
LEMMA SameLine ==
  ASSUME UNCHANGED <<lexVars, parsed>>
  PROVE  LineParsed' = LineParsed /\ P!Held' = P!Held
         /\ \A cmd : Handed(cmd)' = Handed(cmd)
<1>1. tokens' = tokens /\ parsed' = parsed
  BY DEF lexVars
<1>2. LineParsed' = LineParsed
  BY <1>1 DEF LineParsed, P!Command, P!Redir
<1>3. P!Held' = P!Held
  BY <1>1 DEF P!Held, P!Contains, types
<1>4. \A cmd : Handed(cmd)' = Handed(cmd)
  BY <1>1 DEF Handed, File
<1>5. QED
  BY <1>2, <1>3, <1>4

\* An argument is expanded, and its word freed.
LEMMA ArgFreed ==
  ASSUME IInv, ExpandArg
  PROVE  FreedInv' /\ ExpandInv'
<1>1. /\ Exp!ExpandArg /\ freed' = [freed EXCEPT ![Word] = @ + 1]
      /\ UNCHANGED <<lexVars, curr, parsed, segments, parsing, before>>
  BY DEF ExpandArg
<1>2. expanding = "args" /\ arg <= Len(commands[c].args)
  BY <1>1 DEF Exp!ExpandArg
<1>3. ExpandInv' /\ c' = c /\ expanding' = expanding /\ written' = written /\ Behind' = Behind + 1
  BY <1>1, <1>2, ArgExpanded DEF IInv
<1>4. /\ parsing = "parsed" /\ LineParsed
      /\ written = [k \in DOMAIN parsed |-> Handed(parsed[k])]
      /\ segments = DOMAIN tokens \ P!Held
      /\ DOMAIN freed = DOMAIN tokens
      /\ \A w \in DOMAIN tokens : freed[w] = IF Done(w) THEN 1 ELSE 0
  BY <1>2 DEF IInv, FreedInv, AtWork
<1>5. /\ c \in DOMAIN parsed /\ Behind + 1 \in DOMAIN parsed[c].args /\ Behind \in Int
      /\ Word = parsed[c].args[Behind + 1] /\ Word \in DOMAIN tokens /\ freed[Word] = 0
  BY <1>2, WordAt
<1>6. tokens' = tokens /\ parsed' = parsed /\ segments' = segments /\ parsing' = parsing
  BY <1>1 DEF lexVars
<1>7. c \in Nat /\ \A k \in DOMAIN parsed : DOMAIN parsed[k].args = 1 .. Len(parsed[k].args) /\ Len(parsed[k].args) \in Nat
  <2>1. ASSUME NEW k \in DOMAIN parsed
        PROVE  DOMAIN parsed[k].args = 1 .. Len(parsed[k].args) /\ Len(parsed[k].args) \in Nat
    BY <1>4, CommandHanded DEF IInv
  <2>2. c \in Nat
    BY <1>2 DEF IInv, ExpandInv, ExpandTypes, Exp!TypeOK
  <2>3. QED
    BY <2>1, <2>2
<1>8. ASSUME NEW w PROVE Done(w)' <=> Done(w) \/ w = Word
  <2>1. ASSUME NEW k \in DOMAIN parsed, NEW a \in DOMAIN parsed[k].args
        PROVE  Past(k, a)' <=> Past(k, a) \/ (k = c /\ a = Behind + 1)
    <3>1. Past(k, a)' <=> k < c \/ (k = c /\ a <= Behind + 1)
      BY <1>3 DEF Past
    <3>2. a \in Nat
      BY <1>7
    <3>3. a <= Behind + 1 <=> a <= Behind \/ a = Behind + 1
      BY <1>5, <3>2
    <3>4. QED
      BY <3>1, <3>3 DEF Past
  <2>2. Done(w)' <=> \E k \in DOMAIN parsed : \E a \in DOMAIN parsed[k].args : parsed[k].args[a] = w /\ Past(k, a)'
    BY <1>6 DEF Done
  <2>3. QED
    BY <1>5, <2>1, <2>2 DEF Done
<1>9. \A w \in DOMAIN tokens : freed'[w] = IF Done(w)' THEN 1 ELSE 0
  <2> SUFFICES ASSUME NEW w \in DOMAIN tokens PROVE freed'[w] = IF Done(w)' THEN 1 ELSE 0
    OBVIOUS
  <2>1. CASE w = Word
    <3>1. freed'[w] = 1
      BY <1>1, <1>4, <1>5, <2>1
    <3>2. QED
      BY <1>8, <2>1, <3>1
  <2>2. CASE w # Word
    <3>1. freed'[w] = freed[w]
      BY <1>1, <1>4, <2>2
    <3>2. QED
      BY <1>4, <1>8, <2>2, <3>1
  <2>3. QED
    BY <2>1, <2>2
<1>10. LineParsed' /\ P!Held' = P!Held /\ \A cmd : Handed(cmd)' = Handed(cmd)
  BY <1>1, <1>4, SameLine
<1>11. written' = [k \in DOMAIN parsed |-> Handed(parsed[k])'] /\ DOMAIN freed' = DOMAIN tokens
  BY <1>1, <1>3, <1>4, <1>10
<1>12. written' = [k \in DOMAIN parsed' |-> Handed(parsed[k])']
  BY <1>6, <1>11
<1>13. QED
  BY <1>2, <1>3, <1>4, <1>6, <1>9, <1>10, <1>11, <1>12 DEF FreedInv, AtWork

\* The other steps of the expander free nothing.
LEMMA NothingFreed ==
  ASSUME IInv, ExpanderStep
  PROVE  FreedInv' /\ ExpandInv'
<1>1. (Exp!ArgsDone \/ Exp!Redirs) /\ UNCHANGED <<lexVars, parVars>>
  BY DEF ExpanderStep
<1>2. AtWork /\ expanding' # "wait" /\ ExpandInv
  BY <1>1 DEF Exp!ArgsDone, Exp!Redirs, Exp!NextCommand, AtWork, IInv
<1>3. /\ parsing = "parsed" /\ LineParsed
      /\ written = [k \in DOMAIN parsed |-> Handed(parsed[k])]
      /\ segments = DOMAIN tokens \ P!Held
      /\ DOMAIN freed = DOMAIN tokens
      /\ \A w \in DOMAIN tokens : freed[w] = IF Done(w) THEN 1 ELSE 0
  BY <1>2 DEF IInv, FreedInv, AtWork
<1>4. UNCHANGED <<tokens, parsed, segments, freed, parsing>>
  BY <1>1 DEF lexVars, parVars
<1>5. LineParsed' /\ P!Held' = P!Held /\ \A cmd : Handed(cmd)' = Handed(cmd)
  BY <1>1, <1>3, SameLine DEF parVars
<1>6. \A k \in DOMAIN parsed : /\ DOMAIN parsed[k].args = 1 .. Len(parsed[k].args)
                               /\ Len(written[k].args) = Len(parsed[k].args)
                               /\ Len(parsed[k].args) \in Nat
  BY <1>3, CommandHanded DEF IInv
<1>7. ExpandInv' /\ written' = written /\ \A w : Done(w)' <=> Done(w)
  <2>1. CASE Exp!ArgsDone
    <3>1. UNCHANGED <<commands, c, arg, written>>
      BY <2>1 DEF Exp!ArgsDone
    <3>2. Behind' = Behind
      BY <3>1 DEF Behind, Left
    <3>3. \A w : Done(w)' <=> Done(w)
      BY <1>4, <3>1, <3>2 DEF Done, Past
    <3>4. QED
      BY <1>2, <2>1, <3>1, <3>3, ArgumentsDone
  <2>2. CASE Exp!Redirs
    <3>1. /\ ExpandInv' /\ expanding = "redirs" /\ c' = c + 1 /\ expanding' \in {"args", "done"}
          /\ written' = written /\ (expanding' = "args" => Behind' = 0)
      BY <1>2, <2>2, RedirsExpanded
    <3>2. Behind = Len(written[c].args)
      <4> DEFINE n == Len(written[c].args)
      <4>1. Left = 0
        BY <1>2, <3>1 DEF ExpandInv, Ahead
      <4>2. n \in Nat
        <5>1. c \in DOMAIN written
          BY <1>2, <3>1 DEF ExpandInv, ExpandTypes, Exp!TypeOK
        <5>2. QED
          BY <1>3, <1>6, <5>1
      <4>3. Behind = n - Left
        BY DEF Behind
      <4> HIDE DEF n
      <4>4. n - 0 = n
        BY <4>2
      <4>5. QED
        BY <4>1, <4>3, <4>4 DEF n
    <3>3. ASSUME NEW k \in DOMAIN parsed, NEW a \in DOMAIN parsed[k].args PROVE Past(k, a)' <=> Past(k, a)
      <4>1. /\ k \in Nat /\ c \in Nat /\ a \in Nat \ {0} /\ a <= Len(written[k].args)
            /\ Len(parsed) \in Nat /\ k <= Len(parsed)
        <5>1. c \in Nat
          BY <1>2 DEF ExpandInv, ExpandTypes, Exp!TypeOK
        <5>2. a \in 1 .. Len(written[k].args) /\ Len(written[k].args) \in Nat
          BY <1>6
        <5>3. k \in 1 .. Len(parsed) /\ Len(parsed) \in Nat
          BY <1>3 DEF LineParsed
        <5>4. QED
          BY <5>1, <5>2, <5>3
      <4>2. Past(k, a) <=> k < c \/ k = c
        BY <3>2, <4>1 DEF Past
      <4>3. Past(k, a)' <=> k < c + 1 \/ (k = c + 1 /\ a <= Behind')
        BY <3>1 DEF Past
      <4>4. ~(k = c + 1 /\ a <= Behind')
        <5>1. CASE expanding' = "args"
          BY <3>1, <4>1, <5>1
        <5>2. CASE expanding' = "done"
          <6>1. (c <= Len(commands))' <=> expanding' # "done"
            BY <3>1 DEF ExpandInv, ExpandTypes
          <6>2. ~(c + 1 <= Len(commands'))
            BY <3>1, <5>2, <6>1
          <6>3. Len(commands') = Len(written')
            BY <3>1 DEF ExpandInv, ExpandTypes
          <6>4. Len(written') = Len(parsed)
            BY <1>3, <3>1
          <6>5. QED
            BY <4>1, <6>2, <6>3, <6>4
        <5>3. QED
          BY <3>1, <5>1, <5>2
      <4>5. k < c + 1 <=> k < c \/ k = c
        BY <4>1
      <4>6. QED
        BY <4>2, <4>3, <4>4, <4>5
    <3>4. \A w : Done(w)' <=> \E k \in DOMAIN parsed : \E a \in DOMAIN parsed[k].args : parsed[k].args[a] = w /\ Past(k, a)'
      BY <1>4 DEF Done
    <3>5. \A w : Done(w)' <=> Done(w)
      BY <3>3, <3>4 DEF Done
    <3>6. QED
      BY <3>1, <3>5
  <2>3. QED
    BY <1>1, <2>1, <2>2
<1>8. \A w \in DOMAIN tokens : freed'[w] = IF Done(w)' THEN 1 ELSE 0
  BY <1>3, <1>4, <1>7
<1>9. written' = [k \in DOMAIN parsed' |-> Handed(parsed[k])']
  BY <1>3, <1>4, <1>5, <1>7
<1>10. QED
  BY <1>2, <1>3, <1>4, <1>5, <1>7, <1>8, <1>9 DEF FreedInv

\* At the first argument nothing has been freed.
LEMMA NothingFreedYet ==
  ASSUME IInv, StartExpander
  PROVE  FreedInv' /\ ExpandInv'
<1>1. /\ parsing = "parsed" /\ expanding = "wait"
      /\ written' = [k \in DOMAIN parsed |-> Handed(parsed[k])]
      /\ c' = 1 /\ expanding' = "args" /\ UNCHANGED <<lexVars, parVars>>
  BY DEF StartExpander
<1>2. ExpandInv' /\ LineParsed /\ Behind' = 0 /\ Reading
  BY ExpanderStarted DEF IInv
<1>3. LineParsed' /\ P!Held' = P!Held /\ \A cmd : Handed(cmd)' = Handed(cmd)
  BY <1>1, <1>2, SameLine DEF parVars
<1>4. UNCHANGED <<tokens, parsed, segments, freed, parsing>>
  BY <1>1 DEF lexVars, parVars
<1>5. P!TypeOK /\ P!SegmentsFreedOnce /\ DOMAIN types = DOMAIN tokens
  BY <1>2 DEF IInv, ParseInv, P!MInv, types
<1>6. \A w \in DOMAIN tokens : freed[w] = 0
  BY <1>1, <1>2 DEF IInv, ParseInv
<1>7. segments = DOMAIN tokens \ P!Held /\ DOMAIN freed = DOMAIN tokens
  <2>1. P!Held \cap segments = {} /\ segments \subseteq DOMAIN tokens /\ DOMAIN freed = DOMAIN tokens
    BY <1>5 DEF P!TypeOK, P!SegmentsFreedOnce
  <2>2. \A w \in DOMAIN tokens : w \in P!Held \union segments
    BY <1>5, <1>6 DEF P!SegmentsFreedOnce
  <2>3. QED
    BY <2>1, <2>2
<1>8. \A w : ~Done(w)'
  <2>1. ASSUME NEW k \in DOMAIN parsed, NEW a \in DOMAIN parsed[k].args PROVE ~Past(k, a)'
    <3>1. k \in 1 .. Len(parsed)
      BY <1>2 DEF LineParsed
    <3>2. DOMAIN parsed[k].args = 1 .. Len(parsed[k].args) /\ Len(parsed[k].args) \in Nat
      BY <1>2, CommandHanded DEF IInv
    <3>3. ~(k < 1) /\ ~(a <= 0)
      BY <3>1, <3>2
    <3>4. QED
      BY <1>1, <1>2, <3>3 DEF Past
  <2>2. QED
    BY <1>4, <2>1 DEF Done
<1>9. \A w \in DOMAIN tokens : freed'[w] = IF Done(w)' THEN 1 ELSE 0
  BY <1>4, <1>6, <1>8
<1>10. written' = [k \in DOMAIN parsed' |-> Handed(parsed[k])']
  BY <1>1, <1>3, <1>4
<1>11. QED
  BY <1>1, <1>2, <1>3, <1>4, <1>7, <1>9, <1>10 DEF FreedInv

\* reset_loop frees the tokens that are no arguments.
LEMMA RestFreed ==
  ASSUME IInv, ResetLoop
  PROVE  FreedInv'
<1>1. /\ expanding = "done" /\ parsing = "parsed" /\ parsing' = "reset"
      /\ freed' = [w \in DOMAIN types |-> freed[w] + Par!Once(segments)[w]]
      /\ UNCHANGED <<lexVars, expVars>>
  BY DEF ResetLoop, Par!Freed
<1>2. /\ LineParsed /\ LexInv /\ ExpandInv
      /\ written = [k \in DOMAIN parsed |-> Handed(parsed[k])]
      /\ segments = DOMAIN tokens \ P!Held
      /\ \A w \in DOMAIN tokens : freed[w] = IF Done(w) THEN 1 ELSE 0
  BY <1>1 DEF IInv, FreedInv
<1>3. DOMAIN types = DOMAIN tokens
  BY DEF types
<1>4. \A k \in DOMAIN parsed : k < c
  <2>1. ~(c <= Len(commands)) /\ Len(commands) = Len(written) /\ c \in Nat
    BY <1>1, <1>2 DEF ExpandInv, ExpandTypes, Exp!TypeOK
  <2>2. Len(written) = Len(parsed) /\ Len(parsed) \in Nat /\ DOMAIN parsed = 1 .. Len(parsed)
    BY <1>2 DEF LineParsed
  <2>3. QED
    BY <2>1, <2>2
<1>5. \A w \in DOMAIN tokens : Done(w) <=> w \in P!Held
  BY <1>4, HeldWords DEF Done, Past
<1>6. ASSUME NEW w \in DOMAIN tokens PROVE freed'[w] = 1
  <2>1. freed'[w] = freed[w] + Par!Once(segments)[w]
    BY <1>1, <1>3
  <2>2. Par!Once(segments)[w] = IF w \in P!Held THEN 0 ELSE 1
    BY <1>2, <1>3 DEF Par!Once
  <2>3. freed[w] = IF w \in P!Held THEN 1 ELSE 0
    BY <1>2, <1>5
  <2>4. QED
    BY <2>1, <2>2, <2>3
<1>7. \A w \in DOMAIN freed' : freed'[w] = 1
  BY <1>1, <1>3, <1>6
<1>8. QED
  BY <1>1, <1>7 DEF FreedInv, AtWork, expVars

----------------------------------------------------------------------------
(* All of it.                                                              *)

\* What the parser and the expander do leaves the lexer alone.
LEMMA LexerSteps == [Next]_vars => [Lex!Next]_lexVars
<1> SUFFICES ASSUME [Next]_vars PROVE [Lex!Next]_lexVars
  OBVIOUS
<1>1. LexerStep \/ UNCHANGED lexVars
  <2>1. CASE UNCHANGED vars
    BY <2>1 DEF vars
  <2>2. CASE Next
    BY <2>2 DEF Next, StartParser, ParserStep, StartExpander, ExpandArg, ExpanderStep, ResetRefused, ResetLoop
  <2>3. QED
    BY <2>1, <2>2
<1>2. QED
  BY <1>1 DEF LexerStep

\* The invariant holds at first,
LEMMA AllInit == Init => IInv
<1> SUFFICES ASSUME Init PROVE IInv
  OBVIOUS
<1>1. LexInv /\ ParseInv
  BY LexInit, ParseInit DEF Init
<1>2. input \in Inputs
  BY DEF Init, Lex!Init
<1>3. env \in Envs
  BY <1>2, InputsAssumption DEF Init
<1>4. expanding = "wait" /\ written = <<>>
  BY DEF Init
<1>5. QED
  BY <1>1, <1>3, <1>4 DEF IInv, FreedInv, AtWork

\* What the expander has done stays done.
LEMMA ExpanderIdle == ExpandInv /\ UNCHANGED <<expVars, status>> => ExpandInv'
<1> SUFFICES ASSUME ExpandInv, UNCHANGED <<expVars, status>> PROVE ExpandInv'
  OBVIOUS
<1>1. UNCHANGED <<commands, c, arg, expanding, written, seen, env, status>>
  BY DEF expVars
<1>2. /\ \A str, st : Exp!ExpandTextAt(str, st)' = Exp!ExpandTextAt(str, st)
      /\ \A str : Exp!ExpandText(str)' = Exp!ExpandText(str)
  BY <1>1, SameExpansion
<1>3. ExpandTypes'
  <2>1. (\A k \in DOMAIN written : Readable(written[k]))'
    BY <1>1 DEF ExpandInv, ExpandTypes, Readable, Exp!Written, Exp!Segment, Exp!Text, Exp!Char
  <2>2. QED
    BY <1>1, <2>1 DEF ExpandInv, ExpandTypes, Exp!TypeOK, Exp!Command, Exp!Status, Exp!Arg, Exp!Segment, Exp!Text, Exp!Char
<1>4. Ahead'
  BY <1>1 DEF ExpandInv, Ahead, AtWork, RestIs, Left
<1>5. QuotesExpanded'
  BY <1>1, <1>2 DEF ExpandInv, QuotesExpanded, AtWork, InQuotes, Behind, Left
<1>6. StatusSeen'
  BY <1>1 DEF ExpandInv, StatusSeen, AtWork, Ambiguous, Exp!Contains
<1>7. Opened'
  BY <1>1, <1>2 DEF ExpandInv, Opened, OpenedAs, Exp!Contains, Exp!Last, Exp!Front
<1>8. ListsSpliced'
  <2>1. CASE AtWork
    BY <1>1, <2>1, SplicedStays DEF ExpandInv
  <2>2. CASE ~AtWork
    BY <1>1, <2>2 DEF ListsSpliced, AtWork
  <2>3. QED
    BY <2>1, <2>2
<1>9. QED
  BY <1>3, <1>4, <1>5, <1>6, <1>7, <1>8 DEF ExpandInv

\* Before the expander begins nothing is said of what it does.
LEMMA BeforeExpander ==
  ASSUME IInv, expanding = "wait", UNCHANGED expVars
  PROVE  FreedInv' /\ (expanding' # "wait" => ExpandInv') /\ env' \in Envs
  BY DEF IInv, FreedInv, AtWork, expVars

\* and every step keeps it.
LEMMA AllNext == IInv /\ [Next]_vars => IInv'
<1> SUFFICES ASSUME IInv, [Next]_vars PROVE IInv'
  OBVIOUS
<1>1. ParseInv'
  BY ParseNext DEF IInv
<1>2. LexInv'
  BY LexerSteps, LexNext DEF IInv
<1> SUFFICES FreedInv' /\ (expanding' # "wait" => ExpandInv') /\ env' \in Envs
  BY <1>1, <1>2 DEF IInv
<1>3. CASE LexerStep
  <2>1. lexing \in {"tokens", "word"} /\ UNCHANGED <<parVars, expVars, status>>
    BY <1>3 DEF LexerStep, Lex!Next, Lex!SkipWhitespace, Lex!HandleOperator, Lex!HandleWord, Lex!End,
                Lex!QuotedSegment, Lex!UnclosedQuote, Lex!UnquotedSegment, Lex!EndWord
  <2>2. expanding = "wait"
    BY <2>1 DEF IInv, ParseInv
  <2>3. QED
    BY <2>1, <2>2, BeforeExpander
<1>4. CASE StartParser
  <2>1. expanding = "wait" /\ UNCHANGED expVars
    BY <1>4 DEF StartParser, IInv, ParseInv
  <2>2. QED
    BY <2>1, BeforeExpander
<1>5. CASE ParserStep \/ ResetRefused
  <2>1. expanding = "wait" /\ UNCHANGED expVars
    BY <1>5, ParserStepped DEF IInv, Reading
  <2>2. QED
    BY <2>1, BeforeExpander
<1>6. CASE StartExpander
  <2>1. env' = env
    BY <1>6 DEF StartExpander
  <2>2. QED
    BY <1>6, <2>1, NothingFreedYet DEF IInv
<1>7. CASE ExpandArg
  <2>1. env' = env
    BY <1>7 DEF ExpandArg, Exp!ExpandArg
  <2>2. QED
    BY <1>7, <2>1, ArgFreed DEF IInv
<1>8. CASE ExpanderStep
  <2>1. env' = env
    BY <1>8 DEF ExpanderStep, Exp!ArgsDone, Exp!Redirs
  <2>2. QED
    BY <1>8, <2>1, NothingFreed DEF IInv
<1>9. CASE ResetLoop
  <2>1. UNCHANGED <<expVars, status>> /\ expanding = "done" /\ env' = env
    BY <1>9 DEF ResetLoop, expVars
  <2>2. ExpandInv'
    BY <2>1, ExpanderIdle DEF IInv
  <2>3. QED
    BY <1>9, <2>1, <2>2, RestFreed DEF IInv
<1>10. CASE UNCHANGED vars
  <2>1. UNCHANGED <<lexVars, parVars, expVars, status>>
    BY <1>10 DEF vars
  <2>2. UNCHANGED <<tokens, parsed, segments, freed, parsing, commands, c, arg, expanding, written, env, status>>
    BY <2>1 DEF lexVars, parVars, expVars
  <2>3. expanding' # "wait" => ExpandInv'
    BY <2>1, <2>2, ExpanderIdle DEF IInv
  <2>4. LineParsed' = LineParsed /\ P!Held' = P!Held /\ \A cmd : Handed(cmd)' = Handed(cmd)
    BY <2>1, <2>2, SameLine
  <2>5. \A w : Done(w)' <=> Done(w)
    BY <2>2 DEF Done, Past, Behind, Left
  <2>6. FreedInv'
    <3>1. written = [k \in DOMAIN parsed |-> Handed(parsed[k])]
            => written' = [k \in DOMAIN parsed' |-> Handed(parsed[k])']
      BY <2>2, <2>4
    <3>2. QED
      BY <2>2, <2>4, <2>5, <3>1 DEF IInv, FreedInv, AtWork
  <2>7. QED
    BY <2>2, <2>3, <2>6 DEF IInv
<1>11. QED
  BY <1>3, <1>4, <1>5, <1>6, <1>7, <1>8, <1>9, <1>10 DEF Next

\* FrontEnd.PartsFit, for lines of any length: each part gets from the one before
\* it what it was modelled to be given.
THEOREM EachPartFits == Spec => []PartsFit
<1>1. IInv => PartsFit
  <2> SUFFICES ASSUME IInv PROVE PartsFit
    OBVIOUS
  <2>1. before \in Statuses /\ status \in {0, 1, 2}
    <3>1. CASE expanding = "wait"
      BY <3>1, StatusesAssumption DEF IInv, ParseInv
    <3>2. CASE expanding # "wait"
      BY <3>2 DEF IInv, ParseInv, ExpandInv, ExpandTypes, Exp!TypeOK, Exp!Status
    <3>3. QED
      BY <3>1, <3>2
  <2>2. Reading => Par!TypeOK
    BY SameParser DEF IInv, ParseInv, P!WInv, P!GInv
  <2>3. TypeOK
    BY <2>1, <2>2 DEF TypeOK, Reading, IInv, LexInv, ExpandInv, ExpandTypes
  <2>4. lexing = "done" => types \in Par!TokenLists
    BY TokensFit, SameParser DEF IInv
  <2>5. parsing = "start" => Par!Init
    BY SameParser DEF IInv, ParseInv
  <2>6. \A k \in DOMAIN written : Exp!Written(written[k])
    <3>1. CASE expanding = "wait"
      BY <3>1 DEF IInv, FreedInv
    <3>2. CASE expanding # "wait"
      BY <3>2 DEF IInv, ExpandInv, ExpandTypes, Readable
    <3>3. QED
      BY <3>1, <3>2
  <2>7. QED
    BY <2>3, <2>4, <2>5, <2>6 DEF PartsFit
<1>2. QED
  BY AllInit, AllNext, <1>1, PTL DEF Spec

\* FrontEnd.SegmentsFreedOnce, for lines of any length: whatever becomes of the
\* line, its words' segments are freed once, and not before they are read.
THEOREM SegmentsOfLineFreedOnce == Spec => []SegmentsFreedOnce
<1>1. IInv => SegmentsFreedOnce
  <2> SUFFICES ASSUME IInv PROVE SegmentsFreedOnce
    OBVIOUS
  <2>1. Reading => Par!SegmentsFreedOnce /\ DOMAIN freed = DOMAIN types
    BY SameParser DEF IInv, ParseInv, P!MInv, P!TypeOK
  <2>2. \A w \in DOMAIN freed : freed[w] <= 1 /\ (parsing = "reset" => freed[w] = 1)
    <3>1. CASE parsing = "wait"
      BY <3>1 DEF IInv, ParseInv
    <3>2. CASE Reading
      BY <2>1, <3>2 DEF Par!SegmentsFreedOnce
    <3>3. CASE expanding # "wait"
      <4>1. parsing \in {"parsed", "reset"}
        BY <3>3 DEF IInv, FreedInv
      <4>2. \A w \in DOMAIN freed : freed[w] \in {0, 1} /\ (parsing = "reset" => freed[w] = 1)
        BY <3>3, <4>1 DEF IInv, FreedInv
      <4>3. QED
        BY <4>2
    <3>4. QED
      BY <3>1, <3>2, <3>3 DEF Reading
  <2>3. expanding = "args" /\ arg <= Len(commands[c].args) => freed[Word] = 0
    BY WordAt
  <2>4. QED
    BY <2>1, <2>2, <2>3 DEF SegmentsFreedOnce, Reading
<1>2. QED
  BY AllInit, AllNext, <1>1, PTL DEF Spec

\* FrontEnd.AmbiguousRedirect, for lines of any length and any environment: what
\* $? is in the commands behind an ambiguous redirection, and under which names
\* the files of its own command are opened.
THEOREM AmbiguousRedirections == Spec => []AmbiguousRedirect
<1>1. IInv => AmbiguousRedirect
  <2> SUFFICES ASSUME IInv PROVE AmbiguousRedirect
    OBVIOUS
  <2>1. expanding = "redirs" => Exp!StatusDuringLine
    BY DEF IInv, ExpandInv, StatusSeen, Ambiguous, Exp!StatusDuringLine
  <2>2. expanding = "done" => Exp!OutputsOpenedExpanded
    BY DEF IInv, ExpandInv, Opened, OpenedAs, Exp!OutputsOpenedExpanded
  <2>3. QED
    BY <2>1, <2>2 DEF AmbiguousRedirect
<1>2. QED
  BY AllInit, AllNext, <1>1, PTL DEF Spec

\* FrontEnd.SameAsHeredoc, for texts of any length and any environment: the two
\* pieces of code that expand a text agree.
THEOREM QuotesExpandAsHeredoc == Spec => []SameAsHeredoc
<1>1. IInv => SameAsHeredoc
  <2> SUFFICES ASSUME IInv, expanding = "redirs",
                      NEW a \in DOMAIN written[c].args,
                      Len(written[c].args[a].segments) = 1,
                      written[c].args[a].segments[1].quote = "double"
               PROVE  \E b \in DOMAIN commands[c].args :
                        commands[c].args[b].value = Exp!ExpandHeredocLine(written[c].args[a].segments[1].value)
    BY DEF SameAsHeredoc, Exp!SameAsHeredoc, Exp!ArgsExpanded
  <2> DEFINE segs == written[c].args[a].segments
  <2>1. /\ ExpandInv /\ AtWork /\ Left = 0
        /\ c \in DOMAIN commands /\ c \in DOMAIN written /\ arg \in Nat \ {0}
        /\ commands[c] \in Exp!Command /\ written[c] \in Exp!Command /\ Readable(written[c])
    BY DEF IInv, AtWork, ExpandInv, ExpandTypes, Exp!TypeOK, Ahead
  <2>2. commands[c].args \in Seq(Exp!Arg) /\ written[c].args \in Seq(Exp!Arg)
    BY <2>1 DEF Exp!Command
  <2>3. /\ Len(commands[c].args) \in Nat /\ DOMAIN commands[c].args = 1 .. Len(commands[c].args)
        /\ Len(written[c].args) \in Nat /\ DOMAIN written[c].args = 1 .. Len(written[c].args)
    BY <2>2
  <2>4. Behind = Len(written[c].args) /\ arg - 1 = Len(commands[c].args)
    <3> DEFINE n == Len(written[c].args)
               m == Len(commands[c].args)
    <3>1. Behind = n - Left /\ m - arg + 1 = 0 /\ Left = 0 /\ n \in Nat /\ m \in Nat /\ arg \in Nat
      BY <2>1, <2>3 DEF Behind, Left
    <3> HIDE DEF n, m
    <3>2. n - 0 = n /\ arg - 1 = m
      BY <3>1
    <3>3. QED
      BY <3>1, <3>2 DEF n, m
  <2>5. PICK b \in 1 .. arg - 1 : commands[c].args[b].value = Exp!ExpandText(segs[1].value)
    BY <2>1, <2>3, <2>4 DEF ExpandInv, QuotesExpanded, InQuotes
  <2>6. segs[1].value \in Exp!Text
    <3>1. segs \in Seq(Exp!Segment)
      BY <2>1 DEF Readable
    <3>2. segs[1] \in Exp!Segment
      BY <3>1
    <3>3. QED
      BY <3>2 DEF Exp!Segment
  <2>7. Exp!ExpandText(segs[1].value) = Exp!ExpandHeredocLine(segs[1].value)
    BY <2>6, SameText
  <2>8. b \in DOMAIN commands[c].args
    BY <2>3, <2>4
  <2>9. QED
    BY <2>5, <2>7, <2>8
<1>2. QED
  BY AllInit, AllNext, <1>1, PTL DEF Spec

\* When the arguments are expanded, the nodes of the list are those of the
\* lists that they have become.
LEMMA AllSpliced ==
  ASSUME IInv, expanding = "redirs"
  PROVE  LET W == written[c].args
         IN  /\ env \in Envs /\ W \in Seq(Exp!Arg)
             /\ \A a \in 1 .. Len(W) : W[a].segments \in Seq(Exp!Segment)
             /\ Exp!Values(commands[c].args) = FlattenSeq(Lists(W, Len(W)))
<1> DEFINE W == written[c].args
           A == commands[c].args
           n == Len(W)
           m == Len(A)
<1>1. /\ ExpandInv /\ AtWork /\ Left = 0 /\ env \in Envs
      /\ c \in DOMAIN commands /\ c \in DOMAIN written /\ arg \in Nat \ {0}
      /\ commands[c] \in Exp!Command /\ written[c] \in Exp!Command /\ Readable(written[c])
  BY DEF IInv, AtWork, ExpandInv, ExpandTypes, Exp!TypeOK, Ahead
<1>2. A \in Seq(Exp!Arg) /\ W \in Seq(Exp!Arg)
  BY <1>1 DEF Exp!Command
<1>3. n \in Nat /\ DOMAIN W = 1 .. n /\ m \in Nat /\ DOMAIN A = 1 .. m
  BY <1>2
<1>4. \A a \in 1 .. n : W[a].segments \in Seq(Exp!Segment)
  BY <1>1, <1>3 DEF Readable
<1>5. Behind = n - Left /\ Left = m - arg + 1
  BY DEF Behind, Left
<1>6. ValuesTo(A, arg) = FlattenSeq(Lists(W, Behind))
  BY <1>1 DEF ExpandInv, ListsSpliced
<1> HIDE DEF n, m, A, W
<1>7. Behind = n /\ arg - 1 = m
  BY <1>1, <1>3, <1>5
<1>8. Exp!Values(A) = ValuesTo(A, arg)
  BY <1>3, <1>7 DEF Exp!Values, ValuesTo
<1>9. QED
  BY <1>1, <1>2, <1>4, <1>6, <1>7, <1>8 DEF A, W, n

\* FrontEnd.WordsAsSplit, for arguments of any length, of any number and in any
\* environment: a command is given the words its text splits into, up to the
\* first argument that ends in an unquoted blank.
THEOREM WordsSplitAndReach == Spec => []WordsAsSplit
<1>1. IInv => WordsAsSplit
  <2> SUFFICES ASSUME IInv, expanding = "redirs"
               PROVE  /\ Exp!NotNull(Exp!Values(commands[c].args)) = Exp!WordsOf(written[c].args)
                      /\ LET args == written[c].args
                             cut == {a \in DOMAIN args : Exp!EndsInBlank(args[a])}
                             upTo == IF cut = {} THEN Len(args) ELSE CHOOSE a \in cut : \A b \in cut : a <= b
                         IN  Exp!ArgsToArray(commands[c].args) = Exp!WordsOf(SubSeq(args, 1, upTo))
    BY DEF WordsAsSplit, Exp!WordsAsSplit, Exp!WordsReachCommand, Exp!ArgsExpanded
  <2> DEFINE W == written[c].args
             A == commands[c].args
             n == Len(W)
             v == Exp!Values(A)
             cut == {a \in DOMAIN W : Exp!EndsInBlank(W[a])}
             least == CHOOSE a \in cut : \A b \in cut : a <= b
  <2>1. /\ env \in Envs /\ W \in Seq(Exp!Arg)
        /\ \A a \in 1 .. n : W[a].segments \in Seq(Exp!Segment)
        /\ v = FlattenSeq(Lists(W, n))
    BY AllSpliced
  <2> HIDE DEF v, W
  <2>2. n \in Nat /\ DOMAIN W = 1 .. n
    BY <2>1
  <2>3. /\ v \in Seq(Value) /\ WordsTo(W, n) \in Seq(Exp!Text) /\ Exp!NotNull(v) = WordsTo(W, n)
        /\ (\A a \in 1 .. n : ~Exp!EndsInBlank(W[a])) => v = WordsTo(W, n)
        /\ \A u \in 1 .. n :
             Exp!EndsInBlank(W[u]) /\ (\A a \in 1 .. u - 1 : ~Exp!EndsInBlank(W[a])) =>
               WordsTo(W, u) \in Seq(Exp!Text) /\ CutBehind(v, WordsTo(W, u))
    <3> HIDE DEF n
    <3>1. QED
      BY <2>1, <2>2, ArgsSplit
  <2>4. ASSUME NEW u \in 0 .. n PROVE Exp!WordsOf(SubSeq(W, 1, u)) = WordsTo(W, u)
    <3>1. DOMAIN SubSeq(W, 1, u) = 1 .. u /\ \A a \in 1 .. u : SubSeq(W, 1, u)[a] = W[a]
      BY <2>1, <2>2
    <3>2. Exp!WordsOf(SubSeq(W, 1, u)) = FlattenSeq([a \in DOMAIN SubSeq(W, 1, u) |-> Exp!Words(SubSeq(W, 1, u)[a].segments)])
      BY SameLibrary DEF Exp!WordsOf
    <3>3. QED
      BY <3>1, <3>2 DEF WordsTo
  <2>5. Exp!WordsOf(W) = WordsTo(W, n)
    BY <2>2, SameLibrary DEF Exp!WordsOf, WordsTo
  <2>6. CASE cut = {}
    <3>1. v = WordsTo(W, n)
      BY <2>2, <2>3, <2>6
    <3>2. Exp!ArgsToArray(A) = v
      <4>1. v \in Seq(Exp!Text)
        BY <2>3, <3>1
      <4>2. CutBehind(Append(v, NULL), v)
        BY <4>1, CutHere
      <4>3. QED
        BY <2>3, <4>1, <4>2, FirstNull DEF v
    <3>3. Exp!WordsOf(SubSeq(W, 1, n)) = WordsTo(W, n)
      BY <2>2, <2>4
    <3>4. QED
      BY <2>3, <2>5, <2>6, <3>1, <3>2, <3>3 DEF v, W
  <2>7. CASE cut # {}
    <3>1. least \in 1 .. n /\ Exp!EndsInBlank(W[least]) /\ \A a \in 1 .. least - 1 : ~Exp!EndsInBlank(W[a])
      <4>1. cut \in SUBSET Nat
        BY <2>2
      <4>2. PICK first \in cut : \A b \in cut : first <= b
        BY <2>7, <4>1, LeastNat
      <4>3. least \in cut /\ \A b \in cut : least <= b
        BY <4>2
      <4> DEFINE u == least
      <4>4. u \in 1 .. n /\ Exp!EndsInBlank(W[u])
        BY <2>2, <4>3
      <4>5. \A b \in 1 .. n : Exp!EndsInBlank(W[b]) => u <= b
        BY <2>2, <4>3
      <4> HIDE DEF u, n
      <4>6. \A a \in 1 .. u - 1 : a \in 1 .. n /\ ~(u <= a)
        BY <2>2, <4>4
      <4>7. \A a \in 1 .. u - 1 : ~Exp!EndsInBlank(W[a])
        BY <4>5, <4>6
      <4>8. QED
        BY <4>4, <4>7 DEF u
    <3> HIDE DEF least
    <3>2. WordsTo(W, least) \in Seq(Exp!Text) /\ CutBehind(v, WordsTo(W, least))
      BY <2>3, <3>1
    <3>3. CutBehind(Append(v, NULL), WordsTo(W, least))
      <4>1. NULL \in Value /\ <<NULL>> \in Seq(Value)
        BY DEF Value
      <4>2. CutBehind(v \o <<NULL>>, WordsTo(W, least))
        BY <2>3, <3>2, <4>1, CutStays
      <4>3. QED
        BY <2>3, <4>1, <4>2, AppendIsConcat
    <3>4. Exp!ArgsToArray(A) = WordsTo(W, least)
      BY <2>3, <3>2, <3>3, FirstNull DEF v
    <3>5. Exp!WordsOf(SubSeq(W, 1, least)) = WordsTo(W, least)
      <4>1. least \in 0 .. n
        BY <3>1
      <4>2. QED
        BY <2>4, <4>1
    <3>6. QED
      BY <2>3, <2>5, <2>7, <3>4, <3>5 DEF v, W, least
  <2>8. QED
    BY <2>6, <2>7
<1>2. QED
  BY AllInit, AllNext, <1>1, PTL DEF Spec

----------------------------------------------------------------------------
(* The lexer against the reading of one character at a time.               *)

OpenSet == {"none"} \union Lex!Quotes

\* Lexer.OpenBehind, in each case.
LEMMA Quotation ==
  ASSUME NEW open \in OpenSet, NEW ch
  PROVE  /\ Lex!OpenBehind(open, ch) \in OpenSet
         /\ open = "none" /\ ch \notin Lex!Quotes => Lex!OpenBehind(open, ch) = "none"
         /\ open = "none" /\ ch \in Lex!Quotes => Lex!OpenBehind(open, ch) = ch
         /\ open # "none" /\ ch = open => Lex!OpenBehind(open, ch) = "none"
         /\ open # "none" /\ ch # open => Lex!OpenBehind(open, ch) = open
  BY DEF OpenSet, Lex!OpenBehind, Lex!Quotes

\* Lexer.Open, character by character.
LEMMA OpenIs ==
  ASSUME input \in Seq(Lex!Char)
  PROVE  /\ Lex!Open[1] = "none"
         /\ \A k \in 1 .. Len(input) : Lex!Open[k + 1] = Lex!OpenBehind(Lex!Open[k], input[k])
         /\ \A k \in 1 .. Len(input) + 1 : Lex!Open[k] \in OpenSet
<1> DEFINE n == Len(input)
           step == [k \in 1 .. n |-> [o \in OpenSet |-> Lex!OpenBehind(o, input[k])]]
           Is(g) == g = [k \in 1 .. n + 1 |-> IF k = 1 THEN "none" ELSE Lex!OpenBehind(g[k - 1], input[k - 1])]
<1>1. n \in Nat
  OBVIOUS
<1>2. Lex!Open = CHOOSE g : Is(g)
  BY DEF Lex!Open
<1> HIDE DEF n
<1>3. \A k \in 1 .. n : /\ step[k] \in [OpenSet -> OpenSet]
                        /\ \A o \in OpenSet : step[k][o] = Lex!OpenBehind(o, input[k])
  BY Quotation
<1>4. PICK f : Folds(n, "none", step, f) /\ \A k \in 0 .. n : f[k] \in OpenSet
  <2> HIDE DEF step
  <2>1. "none" \in OpenSet
    BY DEF OpenSet
  <2>2. QED
    BY <1>1, <1>3, <2>1, Folding
<1>5. f = [k \in 0 .. n |-> IF k = 0 THEN "none" ELSE step[k][f[k - 1]]]
  BY <1>4 DEF Folds
<1> HIDE DEF step
<1> DEFINE h == [k \in 1 .. n + 1 |-> f[k - 1]]
<1>6. Is(h)
  <2>1. ASSUME NEW k \in 1 .. n + 1
        PROVE  h[k] = IF k = 1 THEN "none" ELSE Lex!OpenBehind(h[k - 1], input[k - 1])
    <3>1. CASE k = 1
      <4>1. 0 \in 0 .. n /\ h[1] = f[0]
        BY <1>1
      <4>2. QED
        BY <1>5, <3>1, <4>1
    <3>2. CASE k # 1
      <4>1. k - 1 \in 0 .. n /\ k - 1 # 0 /\ k - 1 \in 1 .. n /\ k - 1 - 1 \in 0 .. n /\ k - 1 \in 1 .. n + 1
        BY <1>1, <3>2
      <4>2. h[k] = f[k - 1] /\ h[k - 1] = f[k - 1 - 1]
        BY <4>1
      <4>3. f[k - 1] = step[k - 1][f[k - 1 - 1]]
        BY <1>5, <4>1
      <4>4. f[k - 1] = Lex!OpenBehind(f[k - 1 - 1], input[k - 1])
        BY <1>3, <1>4, <4>1, <4>3
      <4>5. QED
        BY <3>2, <4>2, <4>4
    <3>3. QED
      BY <3>1, <3>2
  <2>2. h = [k \in 1 .. n + 1 |-> h[k]]
    OBVIOUS
  <2> HIDE DEF h
  <2>3. QED
    BY <2>1, <2>2
<1>7. Is(Lex!Open)
  <2> HIDE DEF Is, h
  <2>1. QED
    BY <1>2, <1>6
<1> DEFINE open == Lex!Open
<1>8. \A k \in 1 .. n + 1 : open[k] = IF k = 1 THEN "none" ELSE Lex!OpenBehind(open[k - 1], input[k - 1])
  BY <1>7
<1> HIDE DEF open
<1>9. open[1] = "none" /\ \A k \in 1 .. n : open[k + 1] = Lex!OpenBehind(open[k], input[k])
  <2>1. open[1] = "none"
    BY <1>1, <1>8
  <2>2. ASSUME NEW k \in 1 .. n PROVE open[k + 1] = Lex!OpenBehind(open[k], input[k])
    <3>1. k + 1 \in 1 .. n + 1 /\ k + 1 # 1 /\ k + 1 - 1 = k
      BY <1>1
    <3>2. QED
      BY <1>8, <3>1
  <2>3. QED
    BY <2>1, <2>2
<1>10. \A k \in 1 .. n + 1 : open[k] \in OpenSet
  <2> DEFINE Good == {k \in 0 .. n : open[k + 1] \in OpenSet}
  <2>1. 0 \in Good
    BY <1>1, <1>9 DEF OpenSet
  <2>2. ASSUME NEW k \in 1 .. n, k - 1 \in Good PROVE k \in Good
    <3>1. open[k] \in OpenSet /\ k \in 0 .. n
      BY <2>2
    <3>2. QED
      BY <1>9, <3>1, Quotation
  <2>3. Good = 0 .. n
    <3> HIDE DEF Good
    <3>1. Good \in SUBSET (0 .. n)
      BY DEF Good
    <3>2. QED
      BY <1>1, <2>1, <2>2, <3>1, UpTo
  <2>4. ASSUME NEW k \in 1 .. n + 1 PROVE open[k] \in OpenSet
    <3>1. k - 1 \in 0 .. n /\ k - 1 + 1 = k
      BY <1>1
    <3>2. QED
      BY <2>3, <3>1
  <2>5. QED
    BY <2>4
<1>11. QED
  BY <1>9, <1>10 DEF open, n

\* The texts of the tokens read so far.
Texts == Seq(Seq(Lex!Char))

\* The last text and those before it.
LEMMA TextParts ==
  ASSUME NEW lits \in Texts, lits # <<>>
  PROVE  Lex!Front(lits) \in Texts /\ Lex!Last(lits) \in Seq(Lex!Char) /\ Len(lits) \in Nat \ {0}
<1>1. lits \in Seq(Seq(Lex!Char)) /\ Len(lits) \in Nat \ {0}
  BY DEF Texts
<1>2. Lex!Front(lits) = SubSeq(lits, 1, Len(lits) - 1) /\ Lex!Last(lits) = lits[Len(lits)]
  BY DEF Lex!Front, Lex!Last
<1>3. QED
  BY <1>1, <1>2 DEF Texts

\* They are what was put together.
LEMMA TextAppended ==
  ASSUME NEW lits \in Texts, NEW text \in Seq(Lex!Char)
  PROVE  /\ Append(lits, text) \in Texts /\ Append(lits, text) # <<>>
         /\ Lex!Last(Append(lits, text)) = text /\ Lex!Front(Append(lits, text)) = lits
<1> DEFINE n == Len(lits)
           longer == Append(lits, text)
<1>1. /\ n \in Nat /\ longer \in Texts /\ longer # <<>> /\ Len(longer) = n + 1
      /\ longer[n + 1] = text /\ \A k \in 1 .. n : longer[k] = lits[k]
  BY AppendProperties DEF Texts
<1>2. Lex!Last(longer) = text
  BY <1>1 DEF Lex!Last
<1>3. Lex!Front(longer) = lits
  <2> DEFINE front == SubSeq(longer, 1, n)
  <2>1. Len(longer) - 1 = n
    BY <1>1
  <2>2. Lex!Front(longer) = front
    BY <2>1 DEF Lex!Front
  <2>3. front \in Seq(Seq(Lex!Char)) /\ Len(front) = n /\ \A k \in 1 .. n : front[k] = longer[k]
    <3> HIDE DEF longer, n
    <3>1. QED
      BY <1>1 DEF Texts
  <2>4. lits \in Seq(Seq(Lex!Char))
    BY DEF Texts
  <2> HIDE DEF front, longer
  <2>5. front = lits
    <3>1. /\ front = [k \in 1 .. n |-> front[k]] /\ lits = [k \in 1 .. n |-> lits[k]]
      BY <1>1, <2>3, <2>4
    <3>2. \A k \in 1 .. n : front[k] = lits[k]
      BY <1>1, <2>3
    <3> HIDE DEF n
    <3>3. QED
      BY <3>1, <3>2
  <2>6. QED
    BY <2>2, <2>5
<1>4. QED
  BY <1>1, <1>2, <1>3

\* One character more; where no token has begun there have been only blanks.
LEMMA CharacterAdded ==
  ASSUME NEW k \in Nat \ {0}, input[k] \in Lex!Char, NEW lits \in Texts,
         lits = <<>> /\ k > 1 => Lex!Bare(k - 1, Lex!Blanks)
  PROVE  /\ Lex!WithCharacter(lits, k) \in Texts
         /\ Lex!WithCharacter(lits, k) = <<>> => Lex!Bare(k, Lex!Blanks)
         /\ lits = <<>> /\ ~Lex!Bare(k, Lex!Blanks) => Lex!WithCharacter(lits, k) = <<<<input[k]>>>>
<1>1. <<input[k]>> \in Seq(Lex!Char)
  OBVIOUS
<1>2. lits = <<>> => ~Lex!Joins(k, lits)
  BY DEF Lex!Joins, Lex!Bare, Lex!Blanks, Lex!Operators
<1>3. CASE Lex!Bare(k, Lex!Blanks)
  BY <1>3 DEF Lex!WithCharacter
<1>4. CASE ~Lex!Bare(k, Lex!Blanks) /\ Lex!Joins(k, lits)
  <2>1. lits # <<>>
    BY <1>2, <1>4
  <2>2. Lex!Front(lits) \in Texts /\ Append(Lex!Last(lits), input[k]) \in Seq(Lex!Char)
    BY <2>1, TextParts
  <2>3. Lex!WithCharacter(lits, k) = Append(Lex!Front(lits), Append(Lex!Last(lits), input[k]))
    BY <1>4 DEF Lex!WithCharacter
  <2>4. QED
    BY <2>1, <2>2, <2>3, TextAppended
<1>5. CASE ~Lex!Bare(k, Lex!Blanks) /\ ~Lex!Joins(k, lits)
  <2>1. Lex!WithCharacter(lits, k) = Append(lits, <<input[k]>>)
    BY <1>5 DEF Lex!WithCharacter
  <2>2. lits = <<>> => Append(lits, <<input[k]>>) = <<<<input[k]>>>>
    OBVIOUS
  <2>3. QED
    BY <1>1, <1>5, <2>1, <2>2, TextAppended
<1>6. QED
  BY <1>3, <1>4, <1>5

\* Lexer.Literals, character by character.
LEMMA LiteralsAre ==
  ASSUME input \in Seq(Lex!Char)
  PROVE  /\ Lex!Literals[0] = <<>>
         /\ \A k \in 1 .. Len(input) : Lex!Literals[k] = Lex!WithCharacter(Lex!Literals[k - 1], k)
         /\ \A k \in 0 .. Len(input) : Lex!Literals[k] \in Texts
<1> DEFINE n == Len(input)
           made(lits, k) == IF lits = <<>> /\ ~Lex!Bare(k, Lex!Blanks) THEN <<<<input[k]>>>>
                            ELSE Lex!WithCharacter(lits, k)
           step == [k \in 1 .. n |-> [lits \in Texts |-> made(lits, k)]]
           Is(g) == g = [k \in 0 .. n |-> IF k = 0 THEN <<>> ELSE Lex!WithCharacter(g[k - 1], k)]
<1>1. n \in Nat /\ \A k \in 1 .. n : input[k] \in Lex!Char
  OBVIOUS
<1>2. Lex!Literals = CHOOSE g : Is(g)
  BY DEF Lex!Literals
<1> HIDE DEF n
<1>3. ASSUME NEW k \in 1 .. n, NEW lits \in Texts
      PROVE  made(lits, k) \in Texts /\ (made(lits, k) = <<>> => Lex!Bare(k, Lex!Blanks))
  <2>1. k \in Nat \ {0} /\ input[k] \in Lex!Char
    BY <1>1
  <2>2. CASE lits = <<>> /\ ~Lex!Bare(k, Lex!Blanks)
    <3>1. <<<<input[k]>>>> \in Texts /\ <<<<input[k]>>>> # <<>>
      BY <2>1 DEF Texts
    <3>2. QED
      BY <2>2, <3>1
  <2>3. CASE lits = <<>> /\ Lex!Bare(k, Lex!Blanks)
    <3>1. Lex!WithCharacter(lits, k) = lits
      BY <2>3 DEF Lex!WithCharacter
    <3>2. QED
      BY <2>3, <3>1
  <2>4. CASE lits # <<>>
    BY <2>1, <2>4, CharacterAdded
  <2>5. QED
    BY <2>2, <2>3, <2>4
<1> HIDE DEF made
<1>4. \A k \in 1 .. n : /\ step[k] \in [Texts -> Texts]
                        /\ \A lits \in Texts : step[k][lits] = made(lits, k)
  BY <1>3
<1>5. PICK f : Folds(n, <<>>, step, f) /\ \A k \in 0 .. n : f[k] \in Texts
  <2> HIDE DEF step
  <2>1. <<>> \in Texts
    BY DEF Texts
  <2>2. QED
    BY <1>1, <1>4, <2>1, Folding
<1>6. f = [k \in 0 .. n |-> IF k = 0 THEN <<>> ELSE step[k][f[k - 1]]]
  BY <1>5 DEF Folds
<1> HIDE DEF step
<1>7. f[0] = <<>> /\ \A k \in 1 .. n : f[k] = made(f[k - 1], k)
  <2>1. f[0] = <<>>
    BY <1>1, <1>6
  <2>2. ASSUME NEW k \in 1 .. n PROVE f[k] = made(f[k - 1], k)
    <3>1. k \in 0 .. n /\ k # 0 /\ k - 1 \in 0 .. n
      BY <1>1
    <3>2. f[k] = step[k][f[k - 1]]
      BY <1>6, <3>1
    <3>3. QED
      BY <1>4, <1>5, <3>1, <3>2
  <2>3. QED
    BY <2>1, <2>2
<1>8. ASSUME NEW k \in 1 .. n PROVE f[k] = Lex!WithCharacter(f[k - 1], k)
  <2>1. f[k] = made(f[k - 1], k) /\ f[k - 1] \in Texts /\ k \in Nat \ {0} /\ input[k] \in Lex!Char
    BY <1>1, <1>5, <1>7
  <2>2. f[k - 1] = <<>> /\ k > 1 => Lex!Bare(k - 1, Lex!Blanks)
    <3> SUFFICES ASSUME f[k - 1] = <<>>, k > 1 PROVE Lex!Bare(k - 1, Lex!Blanks)
      OBVIOUS
    <3>1. k - 1 \in 1 .. n /\ k - 1 - 1 \in 0 .. n
      BY <1>1
    <3>2. f[k - 1] = made(f[k - 1 - 1], k - 1) /\ f[k - 1 - 1] \in Texts
      BY <1>5, <1>7, <3>1
    <3>3. QED
      BY <1>3, <3>1, <3>2
  <2>3. QED
    BY <2>1, <2>2, CharacterAdded DEF made
<1>9. Is(f)
  <2>1. \A k \in 0 .. n : k # 0 => k \in 1 .. n
    BY <1>1
  <2>2. \A k \in 0 .. n : f[k] = IF k = 0 THEN <<>> ELSE Lex!WithCharacter(f[k - 1], k)
    BY <1>7, <1>8, <2>1
  <2>3. f = [k \in 0 .. n |-> f[k]]
    BY <1>6
  <2>4. QED
    BY <2>2, <2>3
<1>10. Is(Lex!Literals)
  <2> HIDE DEF Is
  <2>1. QED
    BY <1>2, <1>9
<1> DEFINE all == Lex!Literals
<1>11. all[0] = <<>> /\ \A k \in 1 .. n : all[k] = Lex!WithCharacter(all[k - 1], k)
  <2>1. \A k \in 0 .. n : all[k] = IF k = 0 THEN <<>> ELSE Lex!WithCharacter(all[k - 1], k)
    BY <1>10
  <2> HIDE DEF all
  <2>2. 0 \in 0 .. n /\ \A k \in 1 .. n : k \in 0 .. n /\ k # 0
    BY <1>1
  <2>3. QED
    BY <2>1, <2>2
<1> HIDE DEF all, Is
<1>12. \A k \in 0 .. n : all[k] = f[k]
  <2> DEFINE Good == {k \in 0 .. n : all[k] = f[k]}
  <2>1. 0 \in Good
    BY <1>1, <1>7, <1>11
  <2>2. ASSUME NEW k \in 1 .. n, k - 1 \in Good PROVE k \in Good
    BY <1>8, <1>11, <2>2
  <2>3. Good = 0 .. n
    <3> HIDE DEF Good
    <3>1. Good \in SUBSET (0 .. n)
      BY DEF Good
    <3>2. QED
      BY <1>1, <2>1, <2>2, <3>1, UpTo
  <2>4. QED
    BY <2>3
<1>13. QED
  BY <1>5, <1>11, <1>12 DEF all, n

Lits == [k \in DOMAIN tokens |-> tokens[k].literal]

\* No token goes on at the next character.
Fresh(k) == k < Len(input) => Lex!Bare(k + 1, Lex!Blanks) \/ ~Lex!Joins(k + 1, Lex!Literals[k])

\* k characters are read, and lits are the tokens they make; or, in a word that
\* begins behind the first from characters, those before it.
AtToken(lits, k) == lits = Lex!Literals[k] /\ Fresh(k)
InWord(lits, from, k) ==
  IF k = from THEN AtToken(lits, k)
  ELSE /\ Lex!Literals[k] = Append(lits, Lex!Between(from, k))
       /\ ~Lex!Bare(k, Lex!Blanks \union Lex!Operators)

\* No quote is open between two segments.
SpellInv ==
  /\ lexing = "tokens" => Lex!Open[i + 1] = "none" /\ AtToken(Lits, i)
  /\ lexing = "word" => /\ Lex!Open[i + 1] = "none" /\ InWord(Lits, start, i)
                        /\ start = i <=> wordSegments = <<>>
  /\ lexing = "done" => /\ Lex!Open[Len(input) + 1] = "none"
                        /\ Lits = Append(Lex!Literals[Len(input)], <<>>)
  /\ lexing = "unclosed" => Lex!Open[Len(input) + 1] # "none"

\* The literals of one token more.
LEMMA LitsAppended ==
  ASSUME LexInv, NEW token \in Lex!Token
  PROVE  /\ Lits \in Texts /\ token.literal \in Seq(Lex!Char)
         /\ tokens' = Append(tokens, token) => Lits' = Append(Lits, token.literal)
<1>1. tokens \in Seq(Lex!Token) /\ Len(tokens) \in Nat /\ DOMAIN tokens = 1 .. Len(tokens)
  BY DEF LexInv, Lex!TypeOK
<1>2. token.literal \in Seq(Lex!Char) /\ \A k \in DOMAIN tokens : tokens[k].literal \in Seq(Lex!Char)
  <2>1. \A t \in Lex!Token : t.literal \in Seq(Lex!Char)
    BY DEF Lex!Token
  <2>2. QED
    BY <1>1, <2>1
<1>3. Lits \in Texts /\ Len(Lits) = Len(tokens) /\ DOMAIN Lits = 1 .. Len(tokens)
  <2>1. Lits = [k \in 1 .. Len(tokens) |-> tokens[k].literal]
    BY <1>1 DEF Lits
  <2>2. QED
    BY <1>1, <1>2, <2>1 DEF Texts
<1>4. ASSUME tokens' = Append(tokens, token) PROVE Lits' = Append(Lits, token.literal)
  <2> DEFINE n == Len(tokens)
             longer == Append(tokens, token)
             lits == Append(Lits, token.literal)
  <2>1. /\ longer \in Seq(Lex!Token) /\ Len(longer) = n + 1 /\ longer[n + 1] = token
        /\ \A k \in 1 .. n : longer[k] = tokens[k]
    BY <1>1, AppendProperties
  <2>2. /\ lits \in Texts /\ Len(lits) = n + 1 /\ lits[n + 1] = token.literal
        /\ \A k \in 1 .. n : lits[k] = Lits[k]
    <3> DEFINE old == Lits
               new == token.literal
               T == Seq(Lex!Char)
    <3>1. old \in Seq(T) /\ new \in T /\ Len(old) = n
      BY <1>2, <1>3 DEF Texts
    <3> HIDE DEF old, new, T, n
    <3>2. /\ Append(old, new) \in Seq(T) /\ Len(Append(old, new)) = n + 1 /\ Append(old, new)[n + 1] = new
          /\ \A k \in 1 .. n : Append(old, new)[k] = old[k]
      BY <3>1, AppendProperties
    <3>3. QED
      BY <3>2 DEF old, new, T, Texts
  <2>3. \A k \in 1 .. n : Lits[k] = tokens[k].literal
    BY <1>1 DEF Lits
  <2> HIDE DEF longer, lits
  <2>4. Lits' = [k \in DOMAIN longer |-> longer[k].literal]
    BY <1>4 DEF Lits, longer
  <2>5. DOMAIN longer = 1 .. n + 1 /\ DOMAIN lits = 1 .. n + 1
    BY <2>1, <2>2 DEF Texts
  <2>6. ASSUME NEW k \in 1 .. n + 1 PROVE longer[k].literal = lits[k]
    <3>1. k \in 1 .. n \/ k = n + 1
      BY <1>1
    <3>2. QED
      BY <2>1, <2>2, <2>3, <3>1
  <2>7. lits = [k \in 1 .. n + 1 |-> lits[k]]
    BY <2>2, <2>5 DEF Texts
  <2>8. Lits' = lits
    BY <2>4, <2>5, <2>6, <2>7
  <2>9. QED
    BY <2>8 DEF lits
<1>5. QED
  BY <1>2, <1>3, <1>4

\* A piece of the line and the next character.
LEMMA PieceNext ==
  ASSUME input \in Seq(Lex!Char), NEW from \in 0 .. Len(input), NEW k \in from + 1 .. Len(input)
  PROVE  /\ Lex!Between(from, k - 1) \in Seq(Lex!Char)
         /\ Append(Lex!Between(from, k - 1), input[k]) = Lex!Between(from, k)
         /\ Lex!Between(k - 1, k) = <<input[k]>>
<1> DEFINE a == SubSeq(input, from + 1, k - 1)
           b == SubSeq(input, from + 1, k)
           longer == Append(a, input[k])
           m == k - from
<1>1. /\ a \in Seq(Lex!Char) /\ Len(a) = m - 1 /\ m \in Nat \ {0}
      /\ b \in Seq(Lex!Char) /\ Len(b) = m /\ input[k] \in Lex!Char
  OBVIOUS
<1>2. \A j \in 1 .. m - 1 : a[j] = input[from + j]
  OBVIOUS
<1>3. \A j \in 1 .. m : b[j] = input[from + j]
  OBVIOUS
<1> HIDE DEF a, b
<1>4. from + m = k
  OBVIOUS
<1> HIDE DEF m
<1>5. /\ longer \in Seq(Lex!Char) /\ Len(longer) = m /\ longer[m] = input[k]
      /\ \A j \in 1 .. m - 1 : longer[j] = a[j]
  <2>1. /\ longer \in Seq(Lex!Char) /\ Len(longer) = Len(a) + 1 /\ longer[Len(a) + 1] = input[k]
        /\ \A j \in 1 .. Len(a) : longer[j] = a[j]
    BY <1>1, AppendProperties
  <2>2. Len(a) + 1 = m
    BY <1>1
  <2> HIDE DEF longer
  <2>3. QED
    BY <1>1, <2>1, <2>2
<1> HIDE DEF longer
<1>6. longer = b
  <2>1. longer = [j \in 1 .. m |-> longer[j]] /\ b = [j \in 1 .. m |-> b[j]]
    BY <1>1, <1>5
  <2>2. ASSUME NEW j \in 1 .. m PROVE longer[j] = b[j]
    <3>1. CASE j = m
      BY <1>3, <1>4, <1>5, <3>1
    <3>2. CASE j # m
      <4>1. j \in 1 .. m - 1
        BY <1>1, <3>2
      <4>2. QED
        BY <1>2, <1>3, <1>5, <4>1
    <3>3. QED
      BY <3>1, <3>2
  <2>3. QED
    BY <2>1, <2>2
<1>7. Lex!Between(k - 1, k) = <<input[k]>>
  <2>1. k - 1 \in 0 .. Len(input) /\ k \in k - 1 .. Len(input) /\ k = k - 1 + 1
    OBVIOUS
  <2>2. Lex!Between(k - 1, k) = <<input[k - 1 + 1]>>
    BY <2>1, Pieces
  <2>3. QED
    BY <2>1, <2>2
<1>8. QED
  BY <1>1, <1>6, <1>7 DEF Lex!Between, longer, a, b

\* A character of a word.
LEMMA WordReads ==
  ASSUME input \in Seq(Lex!Char), NEW lits \in Texts, NEW from \in 0 .. Len(input),
         NEW k \in from + 1 .. Len(input),
         InWord(lits, from, k - 1), ~Lex!Bare(k, Lex!Blanks \union Lex!Operators)
  PROVE  InWord(lits, from, k)
<1>1. Lex!Literals[k] = Lex!WithCharacter(Lex!Literals[k - 1], k)
  BY LiteralsAre
<1>2. ~Lex!Bare(k, Lex!Blanks) /\ ~Lex!Bare(k, Lex!Operators)
  BY DEF Lex!Bare
<1>3. k # from /\ k - 1 < Len(input) /\ k - 1 + 1 = k
  OBVIOUS
<1>4. CASE k - 1 = from
  <2>1. lits = Lex!Literals[k - 1] /\ ~Lex!Joins(k, Lex!Literals[k - 1])
    BY <1>2, <1>3, <1>4 DEF InWord, AtToken, Fresh
  <2>2. Lex!Literals[k] = Append(lits, <<input[k]>>)
    BY <1>1, <1>2, <2>1 DEF Lex!WithCharacter
  <2>3. Lex!Between(from, k) = <<input[k]>>
    BY <1>4, PieceNext
  <2>4. QED
    BY <1>3, <2>2, <2>3 DEF InWord
<1>5. CASE k - 1 # from
  <2> DEFINE piece == Lex!Between(from, k - 1)
  <2>1. /\ Lex!Literals[k - 1] = Append(lits, piece)
        /\ ~Lex!Bare(k - 1, Lex!Blanks \union Lex!Operators)
    BY <1>5 DEF InWord
  <2>2. piece \in Seq(Lex!Char) /\ Append(piece, input[k]) = Lex!Between(from, k)
    BY PieceNext
  <2> HIDE DEF piece
  <2>3. Lex!Joins(k, Lex!Literals[k - 1])
    BY <1>2, <1>5, <2>1 DEF Lex!Joins
  <2>4. Lex!Front(Lex!Literals[k - 1]) = lits /\ Lex!Last(Lex!Literals[k - 1]) = piece
    BY <2>1, <2>2, TextAppended
  <2>5. Lex!Literals[k] = Append(lits, Append(piece, input[k]))
    BY <1>1, <1>2, <2>3, <2>4 DEF Lex!WithCharacter
  <2>6. QED
    BY <1>3, <2>2, <2>5 DEF InWord
<1>6. QED
  BY <1>4, <1>5

\* Some of them.
LEMMA WordReadsOn ==
  ASSUME input \in Seq(Lex!Char), NEW lits \in Texts, NEW from \in 0 .. Len(input),
         NEW at \in from .. Len(input), NEW to \in at .. Len(input),
         InWord(lits, from, at), \A k \in at + 1 .. to : ~Lex!Bare(k, Lex!Blanks \union Lex!Operators)
  PROVE  InWord(lits, from, to)
<1> DEFINE n == to - at
           Good == {j \in 0 .. n : InWord(lits, from, at + j)}
<1>1. n \in Nat /\ at + 0 = at /\ at + n = to
  OBVIOUS
<1>2. 0 \in Good
  BY <1>1
<1>3. ASSUME NEW j \in 1 .. n, j - 1 \in Good PROVE j \in Good
  <2>1. /\ at + j \in from + 1 .. Len(input) /\ at + j \in at + 1 .. to
        /\ at + (j - 1) = at + j - 1 /\ j \in 0 .. n
    OBVIOUS
  <2>2. InWord(lits, from, at + j - 1)
    BY <1>3, <2>1
  <2>3. InWord(lits, from, at + j)
    <3> DEFINE k == at + j
    <3>1. k \in from + 1 .. Len(input) /\ InWord(lits, from, k - 1)
      BY <2>1, <2>2
    <3>2. ~Lex!Bare(k, Lex!Blanks \union Lex!Operators)
      BY <2>1
    <3> HIDE DEF k, Good, n
    <3>3. InWord(lits, from, k)
      BY <3>1, <3>2, WordReads
    <3>4. QED
      BY <3>3 DEF k
  <2>4. QED
    BY <2>1, <2>3
<1>4. Good = 0 .. n
  <2> HIDE DEF Good, n
  <2>1. Good \in SUBSET (0 .. n)
    BY DEF Good
  <2>2. QED
    BY <1>1, <1>2, <1>3, <2>1, UpTo
<1>5. n \in Good
  <2>1. n \in 0 .. n
    BY <1>1
  <2> HIDE DEF Good, n
  <2>2. QED
    BY <1>4, <2>1
<1>6. QED
  BY <1>1, <1>5

\* What is open stays open until its quote comes; in none, until any comes.
LEMMA StaysOpen ==
  ASSUME input \in Seq(Lex!Char), NEW at \in 0 .. Len(input), NEW to \in at .. Len(input),
         \A k \in at + 1 .. to : IF Lex!Open[at + 1] = "none" THEN input[k] \notin Lex!Quotes
                                 ELSE input[k] # Lex!Open[at + 1]
  PROVE  \A k \in at .. to : Lex!Open[k + 1] = Lex!Open[at + 1]
<1> DEFINE n == to - at
           open == Lex!Open
           Good == {j \in 0 .. n : open[at + j + 1] = open[at + 1]}
<1>1. n \in Nat /\ at + 0 = at
  OBVIOUS
<1>2. 0 \in Good
  BY <1>1
<1>3. ASSUME NEW j \in 1 .. n, j - 1 \in Good PROVE j \in Good
  <2>1. /\ at + j \in at + 1 .. to /\ at + j \in 1 .. Len(input) /\ at + j \in 1 .. Len(input) + 1
        /\ at + (j - 1) + 1 = at + j /\ j \in 0 .. n
    OBVIOUS
  <2>2. open[at + j] = open[at + 1]
    BY <1>3, <2>1
  <2>3. open[at + j + 1] = Lex!OpenBehind(open[at + j], input[at + j]) /\ open[at + j] \in OpenSet
    BY <2>1, OpenIs
  <2>4. open[at + j + 1] = open[at + 1]
    BY <2>1, <2>2, <2>3, Quotation
  <2>5. QED
    BY <2>1, <2>4
<1>4. Good = 0 .. n
  <2> HIDE DEF Good, n
  <2>1. Good \in SUBSET (0 .. n)
    BY DEF Good
  <2>2. QED
    BY <1>1, <1>2, <1>3, <2>1, UpTo
<1>5. ASSUME NEW k \in at .. to PROVE Lex!Open[k + 1] = Lex!Open[at + 1]
  <2>1. k - at \in 0 .. n /\ at + (k - at) + 1 = k + 1
    OBVIOUS
  <2>2. k - at \in Good
    BY <1>4, <2>1
  <2>3. QED
    BY <2>1, <2>2
<1>6. QED
  BY <1>5

\* Lexer.Open and Lexer.Literals, of any line.
OpenOf(str) ==
  CHOOSE g : g = [k \in 1 .. Len(str) + 1 |->
                    IF k = 1 THEN "none" ELSE Lex!OpenBehind(g[k - 1], str[k - 1])]
BareIn(str, open, k, S) == str[k] \in S /\ open[k] = "none"
JoinsIn(str, open, k, lits) ==
  /\ k > 1
  /\ IF BareIn(str, open, k, Lex!Operators)
     THEN BareIn(str, open, k - 1, Lex!Operators) /\ Lex!Last(lits) = <<str[k]>> /\ str[k] # "|"
     ELSE ~BareIn(str, open, k - 1, Lex!Blanks \union Lex!Operators)
WithCharacterIn(str, open, lits, k) ==
  IF BareIn(str, open, k, Lex!Blanks) THEN lits
  ELSE IF JoinsIn(str, open, k, lits)
  THEN Append(Lex!Front(lits), Append(Lex!Last(lits), str[k]))
  ELSE Append(lits, <<str[k]>>)
LiteralsOf(str, open) ==
  CHOOSE g : g = [k \in 0 .. Len(str) |->
                    IF k = 0 THEN <<>> ELSE WithCharacterIn(str, open, g[k - 1], k)]

\* Both depend on the line only.
LEMMA SameReading ==
  ASSUME input' = input
  PROVE  /\ Lex!Open' = Lex!Open /\ Lex!Literals' = Lex!Literals
         /\ \A k, S : Lex!Bare(k, S)' <=> Lex!Bare(k, S)
         /\ \A k, lits : Lex!Joins(k, lits)' <=> Lex!Joins(k, lits)
<1>1. Lex!Open = OpenOf(input) /\ Lex!Open' = OpenOf(input')
  BY DEF Lex!Open, OpenOf, Lex!OpenBehind, Lex!Quotes
<1>2. Lex!Open' = Lex!Open
  BY <1>1
<1>3. Lex!Literals = LiteralsOf(input, Lex!Open) /\ Lex!Literals' = LiteralsOf(input', Lex!Open')
  BY DEF Lex!Literals, LiteralsOf, Lex!WithCharacter, WithCharacterIn, Lex!Joins, JoinsIn, Lex!Bare, BareIn,
         Lex!Operators, Lex!Blanks, Lex!Last, Lex!Front
<1>4. Lex!Literals' = Lex!Literals
  BY <1>2, <1>3
<1>5. \A k, S : Lex!Bare(k, S)' <=> Lex!Bare(k, S)
  BY <1>2 DEF Lex!Bare
<1>6. \A k, lits : Lex!Joins(k, lits)' <=> Lex!Joins(k, lits)
  BY <1>2 DEF Lex!Joins, Lex!Bare, Lex!Operators, Lex!Blanks, Lex!Last
<1>7. QED
  BY <1>2, <1>4, <1>5, <1>6

\* While the line stays, so does what is read of it.
LEMMA SameSpelling ==
  ASSUME input' = input
  PROVE  \A lits, from, k : /\ AtToken(lits, k)' <=> AtToken(lits, k)
                            /\ InWord(lits, from, k)' <=> InWord(lits, from, k)
<1>1. ASSUME NEW lits, NEW k PROVE AtToken(lits, k)' <=> AtToken(lits, k)
  BY SameReading DEF AtToken, Fresh, Lex!Blanks
<1>2. ASSUME NEW lits, NEW from, NEW k PROVE InWord(lits, from, k)' <=> InWord(lits, from, k)
  BY <1>1, SameReading DEF InWord, Lex!Between, Lex!Blanks, Lex!Operators
<1>3. QED
  BY <1>1, <1>2

\* Nothing is read, and no quote open.
LEMMA SpellInit == Lex!Init => SpellInv
<1> SUFFICES ASSUME Lex!Init PROVE SpellInv
  OBVIOUS
<1>1. input \in Seq(Lex!Char) /\ i = 0 /\ tokens = <<>> /\ lexing = "tokens"
  BY LexerParameters DEF Lex!Init, Lex!Parameters
<1>2. Lex!Open[1] = "none" /\ Lex!Literals[0] = <<>>
  BY <1>1, OpenIs, LiteralsAre
<1>3. Lits = <<>>
  BY <1>1 DEF Lits
<1>4. Fresh(0)
  BY DEF Fresh, Lex!Joins
<1>5. QED
  BY <1>1, <1>2, <1>3, <1>4 DEF SpellInv, AtToken

\* Where the loop over tokens goes on.
LEMMA SpellTokens ==
  ASSUME input' = input, lexing' = "tokens", Lex!Open[i' + 1] = "none", Lits' = Lex!Literals[i'], Fresh(i')
  PROVE  SpellInv'
<1>1. Lex!Open' = Lex!Open /\ Lex!Literals' = Lex!Literals
  BY SameReading
<1>2. Fresh(i)'
  BY SameReading DEF Fresh, Lex!Blanks
<1>3. QED
  BY <1>1, <1>2 DEF SpellInv, AtToken

\* Where the loop over segments goes on.
LEMMA SpellWord ==
  ASSUME input' = input, lexing' = "word", Lex!Open[i' + 1] = "none",
         NEW lits, lits = Lits', NEW from, from = start', NEW k, k = i', InWord(lits, from, k),
         start' = i' <=> wordSegments' = <<>>
  PROVE  SpellInv'
<1>1. Lex!Open' = Lex!Open
  BY SameReading
<1>2. InWord(Lits, start, i)'
  <2>1. InWord(lits, from, k)'
    BY SameSpelling
  <2>2. Lits' = lits /\ start' = from /\ i' = k
    OBVIOUS
  <2>3. QED
    BY <2>1, <2>2 DEF InWord, AtToken, Fresh, Lex!Between
<1>3. QED
  BY <1>1, <1>2 DEF SpellInv

\* skip_whitespace: what it goes past are blanks, and the next is none.
LEMMA BlanksRead ==
  ASSUME LexInv, SpellInv, Lex!SkipWhitespace
  PROVE  /\ i < Len(input) /\ i' \in i + 1 .. Len(input)
         /\ \A k \in i .. i' : Lex!Open[k + 1] = "none"
         /\ \A k \in i + 1 .. i' : Lex!Bare(k, Lex!Blanks)
<1> DEFINE to == Lex!RunEnd(i, Lex!Char \ Lex!Blanks)
<1>1. /\ lexing = "tokens" /\ Lex!At(Lex!Blanks) /\ i' = to
      /\ UNCHANGED <<input, tokens, start, wordSegments, lexing>>
  BY DEF Lex!SkipWhitespace
<1>2. /\ input \in Seq(Lex!Char) /\ i \in 0 .. Len(input) /\ Len(input) \in Nat
      /\ Lex!Open[i + 1] = "none" /\ Lits = Lex!Literals[i]
  BY <1>1 DEF LexInv, Lex!TypeOK, SpellInv, AtToken
<1>3. i < Len(input) /\ input[i + 1] \in Lex!Blanks
  BY <1>1, <1>2 DEF Lex!At, Lex!AtEnd, Lex!Next1
<1>4. to \in i .. Len(input) /\ to # i
  <2>1. input[i + 1] \notin Lex!Char \ Lex!Blanks
    BY <1>3
  <2>2. QED
    BY <1>2, <1>3, <2>1, RunEnds
<1>5. \A k \in i + 1 .. to : input[k] \in Lex!Blanks
  <2>1. \A l \in i .. to - 1 : input[l + 1] \notin Lex!Char \ Lex!Blanks
    BY <1>2, RunEnds
  <2>2. ASSUME NEW k \in i + 1 .. to PROVE input[k] \in Lex!Blanks
    <3>1. k - 1 \in i .. to - 1 /\ k - 1 + 1 = k /\ k \in 1 .. Len(input)
      BY <1>2, <1>4
    <3>2. input[k] \in Lex!Char
      BY <1>2, <3>1
    <3>3. QED
      BY <2>1, <3>1, <3>2
  <2>3. QED
    BY <2>2
<1> HIDE DEF to
<1>6. \A k \in i .. to : Lex!Open[k + 1] = "none"
  <2>1. \A ch \in Lex!Blanks : ch \notin Lex!Quotes
    BY DEF Lex!Blanks, Lex!Quotes
  <2>2. \A k \in i + 1 .. to : IF Lex!Open[i + 1] = "none" THEN input[k] \notin Lex!Quotes
                               ELSE input[k] # Lex!Open[i + 1]
    BY <1>2, <1>5, <2>1
  <2>3. \A k \in i .. to : Lex!Open[k + 1] = Lex!Open[i + 1]
    BY <1>2, <1>4, <2>2, StaysOpen
  <2>4. QED
    BY <1>2, <2>3
<1>7. \A k \in i + 1 .. to : Lex!Bare(k, Lex!Blanks)
  <2> SUFFICES ASSUME NEW k \in i + 1 .. to PROVE Lex!Bare(k, Lex!Blanks)
    OBVIOUS
  <2>1. k - 1 \in i .. to /\ k - 1 + 1 = k
    BY <1>2, <1>4
  <2>2. Lex!Open[k] = "none"
    BY <1>6, <2>1
  <2>3. QED
    BY <1>5, <2>2 DEF Lex!Bare
<1>8. QED
  BY <1>1, <1>2, <1>3, <1>4, <1>6, <1>7

\* Blanks make no token, and behind one the next is fresh.
LEMMA BlanksSpelled ==
  ASSUME LexInv, SpellInv, Lex!SkipWhitespace
  PROVE  SpellInv'
<1> DEFINE to == i'
<1>1. /\ lexing = "tokens" /\ UNCHANGED <<input, tokens, start, wordSegments, lexing>>
  BY DEF Lex!SkipWhitespace
<1>2. /\ input \in Seq(Lex!Char) /\ i \in 0 .. Len(input) /\ Len(input) \in Nat
      /\ Lex!Open[i + 1] = "none" /\ Lits = Lex!Literals[i]
  BY <1>1 DEF LexInv, Lex!TypeOK, SpellInv, AtToken
<1>4. to \in i .. Len(input) /\ to # i
  BY <1>2, BlanksRead
<1>6. \A k \in i .. to : Lex!Open[k + 1] = "none"
  BY BlanksRead
<1>7. \A k \in i + 1 .. to : Lex!Bare(k, Lex!Blanks)
  BY BlanksRead
<1> HIDE DEF to
<1>8. Lex!Literals[to] = Lex!Literals[i]
  <2> DEFINE n == to - i
             all == Lex!Literals
             Good == {j \in 0 .. n : all[i + j] = all[i]}
  <2>1. n \in Nat /\ i + 0 = i /\ i + n = to
    BY <1>2, <1>4
  <2>2. 0 \in Good
    BY <2>1
  <2>3. ASSUME NEW j \in 1 .. n, j - 1 \in Good PROVE j \in Good
    <3>1. i + j \in i + 1 .. to /\ i + j \in 1 .. Len(input) /\ i + (j - 1) = i + j - 1 /\ j \in 0 .. n
      BY <1>2, <1>4
    <3>2. all[i + j - 1] = all[i]
      BY <2>3, <3>1
    <3>3. all[i + j] = Lex!WithCharacter(all[i + j - 1], i + j)
      BY <1>2, <3>1, LiteralsAre
    <3>4. all[i + j] = all[i + j - 1]
      BY <1>7, <3>1, <3>3 DEF Lex!WithCharacter
    <3>5. QED
      BY <3>1, <3>2, <3>4
  <2>4. Good = 0 .. n
    <3> HIDE DEF Good, n
    <3>1. Good \in SUBSET (0 .. n)
      BY DEF Good
    <3>2. QED
      BY <2>1, <2>2, <2>3, <3>1, UpTo
  <2>5. n \in 0 .. n
    BY <2>1
  <2>6. n \in Good
    <3> HIDE DEF Good, n
    <3> QED
      BY <2>4, <2>5
  <2>7. QED
    BY <2>1, <2>6
<1>9. Fresh(to)
  <2>1. Lex!Bare(to, Lex!Blanks)
    BY <1>2, <1>4, <1>7
  <2>2. ASSUME to < Len(input), ~Lex!Bare(to + 1, Lex!Blanks), Lex!Joins(to + 1, Lex!Literals[to]) PROVE FALSE
    <3> DEFINE k == to + 1
    <3>1. k - 1 = to
      BY <1>2, <1>4
    <3>2. ~Lex!Bare(to, Lex!Operators) /\ Lex!Bare(to, Lex!Blanks \union Lex!Operators)
      BY <2>1 DEF Lex!Bare, Lex!Blanks, Lex!Operators
    <3>3. Lex!Joins(k, Lex!Literals[to])
      BY <2>2
    <3> HIDE DEF k
    <3>4. QED
      BY <3>1, <3>2, <3>3 DEF Lex!Joins
  <2>3. QED
    BY <2>2 DEF Fresh
<1>10. Lits' = Lits
  BY <1>1 DEF Lits
<1>11. to \in i .. to
  BY <1>2, <1>4
<1>12. Lex!Open[to + 1] = "none"
  BY <1>6, <1>11
<1>13. QED
  BY <1>1, <1>2, <1>8, <1>9, <1>10, <1>12, SpellTokens DEF to

\* Behind an operator only the same character goes on with it.
LEMMA FreshBehindOperator ==
  ASSUME NEW k \in Nat \ {0}, Lex!Bare(k, Lex!Operators),
         k < Len(input) => Lex!Last(Lex!Literals[k]) # <<input[k + 1]>> \/ input[k + 1] = "|"
  PROVE  Fresh(k)
<1> SUFFICES ASSUME k < Len(input), Lex!Joins(k + 1, Lex!Literals[k]) PROVE FALSE
  BY DEF Fresh
<1> DEFINE m == k + 1
<1>1. m - 1 = k /\ Lex!Joins(m, Lex!Literals[k]) /\ (Lex!Last(Lex!Literals[k]) # <<input[m]>> \/ input[m] = "|")
  OBVIOUS
<1> HIDE DEF m
<1>2. Lex!Bare(k, Lex!Blanks \union Lex!Operators)
  BY DEF Lex!Bare
<1>3. QED
  BY <1>1, <1>2 DEF Lex!Joins

\* Two characters.
LEMMA Pair ==
  ASSUME NEW S, NEW ch \in S
  PROVE  Append(<<ch>>, ch) = <<ch, ch>>
<1> DEFINE one == <<ch>>
           two == <<ch, ch>>
           long == Append(one, ch)
<1>1. one \in Seq(S) /\ Len(one) = 1 /\ one[1] = ch
  OBVIOUS
<1>2. two \in Seq(S) /\ Len(two) = 2 /\ two[1] = ch /\ two[2] = ch
  OBVIOUS
<1> HIDE DEF one, two
<1>3. /\ long \in Seq(S) /\ Len(long) = Len(one) + 1 /\ long[Len(one) + 1] = ch
      /\ \A j \in 1 .. Len(one) : long[j] = one[j]
  BY <1>1, AppendProperties
<1> HIDE DEF long
<1>4. 1 \in 1 .. Len(one) /\ Len(one) + 1 = 2
  BY <1>1
<1>5. Len(long) = 2 /\ long[1] = ch /\ long[2] = ch
  BY <1>1, <1>3, <1>4
<1>6. long = two
  <2>1. long = [j \in 1 .. 2 |-> long[j]] /\ two = [j \in 1 .. 2 |-> two[j]]
    BY <1>2, <1>3, <1>5
  <2>2. \A j \in 1 .. 2 : long[j] = two[j]
    BY <1>2, <1>5
  <2>3. QED
    BY <2>1, <2>2
<1>7. QED
  BY <1>6 DEF long, one, two

\* handle_operator looks one character ahead; reading on gives the same token.
LEMMA OperatorSpelled ==
  ASSUME LexInv, SpellInv, Lex!HandleOperator
  PROVE  SpellInv'
<1> DEFINE ch == input[i + 1]
           k == i + 1
           twice == ch # "|" /\ i + 2 <= Len(input) /\ input[i + 2] = ch
           op == Lex!Between(i, i')
           token == Lex!CreateToken(Lex!GetOpType(op), op, <<>>)
<1>1. /\ lexing = "tokens" /\ UNCHANGED <<input, start, wordSegments, lexing>>
      /\ tokens' = Append(tokens, token) /\ i < Len(input) /\ ch \in Lex!Operators
      /\ i' = IF twice THEN i + 2 ELSE i + 1
      /\ op = IF twice THEN <<ch, ch>> ELSE <<ch>>
      /\ token \in Lex!Token /\ token.literal = op
  <2>1. input \in Seq(Lex!Char) /\ i \in 0 .. Len(input)
    BY DEF LexInv, Lex!TypeOK
  <2>2. QED
    BY <2>1, OperatorCut
<1>2. /\ input \in Seq(Lex!Char) /\ i \in 0 .. Len(input) /\ Len(input) \in Nat
      /\ Lex!Open[k] = "none" /\ Lits = Lex!Literals[i] /\ Fresh(i)
  BY <1>1 DEF LexInv, Lex!TypeOK, SpellInv, AtToken
<1>3. i < Len(input) /\ ch \in Lex!Operators /\ k \in 1 .. Len(input) /\ k - 1 = i
  BY <1>1, <1>2
<1>4. ch \in {"|", "<", ">"} /\ ch \notin Lex!Blanks /\ ch \notin Lex!Quotes
  BY <1>3 DEF Lex!Operators, Lex!Blanks, Lex!Quotes
<1>5. Lex!Bare(k, Lex!Operators) /\ ~Lex!Bare(k, Lex!Blanks)
  BY <1>2, <1>3, <1>4 DEF Lex!Bare
<1>6. Lex!Open[k + 1] = "none"
  <2> DEFINE m == k
  <2>1. m \in 1 .. Len(input) /\ input[m] \notin Lex!Quotes /\ Lex!Open[m] = "none"
    BY <1>2, <1>3, <1>4
  <2> HIDE DEF m, k
  <2>2. Lex!Open[m + 1] = Lex!OpenBehind("none", input[m])
    BY <1>2, <2>1, OpenIs
  <2>3. Lex!Open[m + 1] = "none"
    BY <2>1, <2>2, Quotation DEF OpenSet
  <2>4. QED
    BY <2>3 DEF m
<1>7. Lits \in Texts /\ Lex!Literals[k] = Append(Lits, <<ch>>)
  <2>1. ~Lex!Joins(k, Lex!Literals[i])
    BY <1>2, <1>3, <1>5 DEF Fresh
  <2>2. Lex!Literals[k] = Lex!WithCharacter(Lex!Literals[i], k)
    BY <1>2, <1>3, LiteralsAre
  <2>3. Lits \in Texts
    BY <1>2, LiteralsAre
  <2>4. QED
    BY <1>2, <1>5, <2>1, <2>2, <2>3 DEF Lex!WithCharacter
<1>8. ch \in Lex!Char /\ <<ch>> \in Seq(Lex!Char)
  BY <1>2, <1>3
<1>9. Lex!Last(Lex!Literals[k]) = <<ch>> /\ Lex!Front(Lex!Literals[k]) = Lits
  BY <1>7, <1>8, TextAppended
<1>10. (twice => op = <<ch, ch>>) /\ (~twice => op = <<ch>>)
  BY <1>1
<1>11. Lits' = Append(Lits, op)
  <2> HIDE DEF token, op
  <2>1. QED
    BY <1>1, LitsAppended
<1> HIDE DEF token
<1>12. CASE ~twice
  <2>1. i' = k /\ Lits' = Lex!Literals[k]
    BY <1>1, <1>7, <1>10, <1>11, <1>12
  <2>2. k < Len(input) => Lex!Last(Lex!Literals[k]) # <<input[k + 1]>> \/ input[k + 1] = "|"
    <3>1. k < Len(input) => i + 2 <= Len(input) /\ i + 2 = k + 1
      BY <1>2
    <3>2. ASSUME k < Len(input), <<ch>> = <<input[k + 1]>> PROVE input[k + 1] = "|"
      <4>1. ch = input[k + 1]
        BY <3>2
      <4>2. QED
        BY <1>12, <3>1, <3>2, <4>1
    <3>3. QED
      BY <1>9, <3>2
  <2>3. Fresh(k)
    <3>1. k \in Nat \ {0}
      BY <1>3
    <3> HIDE DEF k
    <3>2. QED
      BY <1>5, <2>2, <3>1, FreshBehindOperator
  <2>4. QED
    BY <1>1, <1>6, <2>1, <2>3, SpellTokens
<1>13. CASE twice
  <2> DEFINE m == k + 1
  <2>1. /\ m \in 1 .. Len(input) /\ m = i + 2 /\ m - 1 = k /\ input[m] = ch /\ ch # "|" /\ m > 1
        /\ m \in Nat \ {0} /\ Lex!Open[m] = "none" /\ i' = m
    BY <1>1, <1>2, <1>6, <1>13
  <2> HIDE DEF m, k
  <2>2. Lex!Bare(m, Lex!Operators) /\ ~Lex!Bare(m, Lex!Blanks)
    BY <1>3, <1>4, <2>1 DEF Lex!Bare
  <2>3. Lex!Open[m + 1] = "none"
    <3>1. Lex!Open[m + 1] = Lex!OpenBehind("none", ch)
      BY <1>2, <2>1, OpenIs
    <3>2. QED
      BY <1>4, <3>1, Quotation DEF OpenSet
  <2>4. Lex!Joins(m, Lex!Literals[k])
    BY <1>5, <1>9, <2>1, <2>2 DEF Lex!Joins
  <2>5. Lex!Literals[m] = Append(Lits, Append(<<ch>>, ch))
    <3>1. Lex!Literals[m] = Lex!WithCharacter(Lex!Literals[k], m)
      BY <1>2, <2>1, LiteralsAre
    <3>2. QED
      BY <1>9, <2>1, <2>2, <2>4, <3>1 DEF Lex!WithCharacter
  <2>6. Append(<<ch>>, ch) = <<ch, ch>> /\ Lits' = Lex!Literals[m]
    <3>1. Append(<<ch>>, ch) = <<ch, ch>>
      BY <1>8, Pair
    <3>2. op = <<ch, ch>>
      BY <1>10, <1>13
    <3> HIDE DEF op, ch
    <3>3. QED
      BY <1>11, <2>5, <3>1, <3>2
  <2>7. Lex!Last(Lex!Literals[m]) = <<ch, ch>>
    <3>1. <<ch, ch>> \in Seq(Lex!Char)
      BY <1>8
    <3>2. QED
      BY <1>7, <2>5, <2>6, <3>1, TextAppended
  <2>8. Fresh(m)
    <3>1. <<ch, ch>> # <<input[m + 1]>>
      OBVIOUS
    <3>2. QED
      BY <2>1, <2>2, <2>7, <3>1, FreshBehindOperator
  <2>9. QED
    BY <1>1, <2>1, <2>3, <2>6, <2>8, SpellTokens
<1>14. QED
  BY <1>12, <1>13

\* What holds between two segments of a word.
LEMMA WordRead ==
  ASSUME LexInv, SpellInv, lexing = "word"
  PROVE  /\ input \in Seq(Lex!Char) /\ i \in 0 .. Len(input) /\ Len(input) \in Nat /\ start \in 0 .. i
         /\ start \in 0 .. Len(input) /\ i \in start .. Len(input)
         /\ Lex!Open[i + 1] = "none" /\ InWord(Lits, start, i) /\ (start = i <=> wordSegments = <<>>)
         /\ Lits \in Texts /\ wordSegments \in Seq(Lex!Segment)
<1>1. Lits \in Texts
  <2>1. Lex!CreateToken("END", <<>>, <<>>) \in Lex!Token
    <3>1. "END" \in Lex!Types /\ <<>> \in Seq(Lex!Char) /\ <<>> \in Seq(Lex!Segment)
      BY DEF Lex!Types
    <3>2. QED
      BY <3>1, TokenMade
  <2>2. QED
    BY <2>1, LitsAppended
<1>2. /\ input \in Seq(Lex!Char) /\ i \in 0 .. Len(input) /\ start \in 0 .. i
      /\ wordSegments \in Seq(Lex!Segment)
  BY DEF LexInv, Lex!TypeOK
<1>3. Len(input) \in Nat /\ start \in 0 .. Len(input) /\ i \in start .. Len(input)
  BY <1>2
<1>4. QED
  BY <1>1, <1>2, <1>3 DEF SpellInv

\* A character inside quotes, or a quote, ends no word.
LEMMA NotBare ==
  ASSUME NEW k, Lex!Open[k] # "none" \/ input[k] \in Lex!Quotes
                \/ input[k] \notin Lex!Blanks \union Lex!Operators
  PROVE  ~Lex!Bare(k, Lex!Blanks \union Lex!Operators)
  BY DEF Lex!Bare, Lex!Blanks, Lex!Operators, Lex!Quotes

\* handle_word: nothing of the word is read yet.
LEMMA WordBegun ==
  ASSUME LexInv, SpellInv, Lex!HandleWord
  PROVE  SpellInv'
<1>1. /\ lexing = "tokens" /\ start' = i /\ wordSegments' = <<>> /\ lexing' = "word"
      /\ UNCHANGED <<input, i, tokens>>
  BY DEF Lex!HandleWord
<1>2. Lex!Open[i + 1] = "none" /\ AtToken(Lits, i)
  BY <1>1 DEF SpellInv
<1>3. Lits' = Lits
  BY <1>1 DEF Lits
<1>4. InWord(Lits, i, i)
  BY <1>2 DEF InWord
<1>5. QED
  BY <1>1, <1>2, <1>3, <1>4, SpellWord

\* From an opening quote on.
LEMMA QuoteRead ==
  ASSUME LexInv, SpellInv, lexing = "word", Lex!At(Lex!Quotes)
  PROVE  LET quote == input[i + 1]
             close == Lex!RunEnd(i + 1, {quote})
         IN  /\ quote \in Lex!Quotes /\ close \in i + 1 .. Len(input) /\ i < Len(input)
             /\ Lex!Open[close + 1] = quote
             /\ InWord(Lits, start, close)
             /\ close < Len(input) => input[close + 1] = quote
             /\ \A k \in i + 1 .. close : Lex!Open[k + 1] = quote
<1> DEFINE quote == input[i + 1]
           close == Lex!RunEnd(i + 1, {quote})
           from == i + 1
           lits == Lits
<1>1. /\ input \in Seq(Lex!Char) /\ i \in 0 .. Len(input) /\ Len(input) \in Nat
      /\ start \in 0 .. Len(input) /\ i \in start .. Len(input)
      /\ Lex!Open[i + 1] = "none" /\ InWord(lits, start, i) /\ lits \in Texts
  BY WordRead
<1> HIDE DEF lits
<1>2. i < Len(input) /\ quote \in Lex!Quotes /\ from \in 1 .. Len(input) /\ from \in start + 1 .. Len(input) /\ from - 1 = i
  BY <1>1 DEF Lex!At, Lex!AtEnd, Lex!Next1
<1>3. /\ close \in from .. Len(input)
      /\ close < Len(input) => input[close + 1] = quote
      /\ \A l \in from .. close - 1 : input[l + 1] # quote
  BY <1>1, <1>2, RunEnds
<1> HIDE DEF close
<1>4. quote # "none"
  BY <1>2 DEF Lex!Quotes
<1>5. Lex!Open[from + 1] = quote
  <2> DEFINE open == Lex!Open
  <2>1. open[from] = "none" /\ quote = input[from]
    BY <1>1
  <2> HIDE DEF from, quote
  <2>2. open[from + 1] = Lex!OpenBehind("none", quote)
    BY <1>1, <1>2, <2>1, OpenIs
  <2>3. QED
    BY <1>2, <2>2, Quotation DEF OpenSet
<1>6. \A k \in from .. close : Lex!Open[k + 1] = quote
  <2>1. \A k \in from + 1 .. close : input[k] # quote
    <3> SUFFICES ASSUME NEW k \in from + 1 .. close PROVE input[k] # quote
      OBVIOUS
    <3>1. k - 1 \in from .. close - 1 /\ k - 1 + 1 = k
      BY <1>2, <1>3
    <3>2. QED
      BY <1>3, <3>1
  <2>2. from \in 0 .. Len(input) /\ close \in from .. Len(input)
    BY <1>2, <1>3
  <2>3. \A k \in from + 1 .. close : IF Lex!Open[from + 1] = "none" THEN input[k] \notin Lex!Quotes
                                    ELSE input[k] # Lex!Open[from + 1]
    BY <1>4, <1>5, <2>1
  <2> HIDE DEF from, quote
  <2>4. QED
    BY <1>1, <1>5, <2>2, <2>3, StaysOpen
<1>7. InWord(lits, start, from)
  <2>1. ~Lex!Bare(from, Lex!Blanks \union Lex!Operators)
    BY <1>2, NotBare
  <2>2. InWord(lits, start, from - 1)
    BY <1>1, <1>2
  <2> HIDE DEF from, quote
  <2>3. QED
    BY <1>1, <1>2, <2>1, <2>2, WordReads
<1>8. InWord(lits, start, close)
  <2>1. \A k \in from + 1 .. close : ~Lex!Bare(k, Lex!Blanks \union Lex!Operators)
    <3> SUFFICES ASSUME NEW k \in from + 1 .. close PROVE ~Lex!Bare(k, Lex!Blanks \union Lex!Operators)
      OBVIOUS
    <3>1. k - 1 \in from .. close /\ k - 1 + 1 = k
      BY <1>2, <1>3
    <3>2. Lex!Open[k] # "none"
      BY <1>4, <1>6, <3>1
    <3>3. QED
      BY <3>2, NotBare
  <2>2. from \in start .. Len(input)
    BY <1>1, <1>2
  <2> HIDE DEF from, quote
  <2>3. QED
    BY <1>1, <1>3, <1>7, <2>1, <2>2, WordReadsOn
<1>9. Lex!Open[close + 1] = quote
  <2>1. close \in from .. close
    BY <1>2, <1>3
  <2> HIDE DEF from, quote
  <2>2. QED
    BY <1>6, <2>1
<1>10. QED
  BY <1>2, <1>3, <1>6, <1>8, <1>9 DEF close, lits

\* extract_quoted_segment: up to the closing quote, blanks and operators are text.
LEMMA QuotedSpelled ==
  ASSUME LexInv, SpellInv, Lex!QuotedSegment
  PROVE  SpellInv'
<1> DEFINE quote == input[i + 1]
           close == Lex!RunEnd(i + 1, {quote})
           to == close + 1
           lits == Lits
<1>1. /\ lexing = "word" /\ Lex!At(Lex!Quotes) /\ close < Len(input)
      /\ wordSegments' # <<>> /\ i' = to
      /\ UNCHANGED <<input, tokens, start, lexing>>
  <2>1. /\ lexing = "word" /\ Lex!At(Lex!Quotes) /\ close < Len(input) /\ i' = to
        /\ UNCHANGED <<input, tokens, start, lexing>>
        /\ wordSegments' = Append(wordSegments, [quote |-> Lex!QuoteType(quote), value |-> Lex!Between(i + 1, close)])
    BY DEF Lex!QuotedSegment, Lex!Next1
  <2>2. QED
    BY <2>1
<1>2. /\ quote \in Lex!Quotes /\ close \in i + 1 .. Len(input)
      /\ Lex!Open[close + 1] = quote /\ InWord(Lits, start, close) /\ input[close + 1] = quote
  BY <1>1, QuoteRead
<1>3. /\ input \in Seq(Lex!Char) /\ i \in 0 .. Len(input) /\ Len(input) \in Nat /\ start \in 0 .. i
      /\ start \in 0 .. Len(input) /\ lits \in Texts
  BY <1>1, WordRead
<1> HIDE DEF close, quote
<1>4. to \in 1 .. Len(input) /\ to \in start + 1 .. Len(input) /\ to - 1 = close /\ to # start
  BY <1>1, <1>2, <1>3
<1>5. quote # "none" /\ quote \in OpenSet
  BY <1>2 DEF Lex!Quotes, OpenSet
<1>6. Lex!Open[to] = quote /\ input[to] = quote
  BY <1>2
<1>7. InWord(lits, start, to - 1)
  BY <1>2, <1>4
<1> HIDE DEF to, lits
<1>8. Lex!Open[to + 1] = "none"
  <2>1. Lex!Open[to + 1] = Lex!OpenBehind(quote, quote)
    BY <1>3, <1>4, <1>6, OpenIs
  <2>2. QED
    BY <1>5, <2>1, Quotation
<1>9. InWord(lits, start, to)
  <2>1. ~Lex!Bare(to, Lex!Blanks \union Lex!Operators)
    BY <1>5, <1>6, NotBare
  <2>2. QED
    BY <1>3, <1>4, <1>7, <2>1, WordReads
<1>10. Lits' = lits
  BY <1>1 DEF Lits, lits
<1>11. lexing' = "word" /\ start' = start /\ (start' = i' <=> wordSegments' = <<>>)
  BY <1>1, <1>4
<1>12. QED
  BY <1>1, <1>8, <1>9, <1>10, <1>11, SpellWord

\* With no closing quote the quote is open at the end of the line.
LEMMA UnclosedSpelled ==
  ASSUME LexInv, SpellInv, Lex!UnclosedQuote
  PROVE  SpellInv'
<1>1. /\ lexing = "word" /\ Lex!At(Lex!Quotes) /\ Lex!RunEnd(i + 1, {input[i + 1]}) = Len(input)
      /\ lexing' = "unclosed" /\ input' = input
  BY DEF Lex!UnclosedQuote, Lex!Next1
<1>2. Lex!Open[Len(input) + 1] \in Lex!Quotes
  <2> DEFINE close == Lex!RunEnd(i + 1, {input[i + 1]})
  <2>1. close = Len(input)
    BY <1>1
  <2>2. input[i + 1] \in Lex!Quotes /\ Lex!Open[close + 1] = input[i + 1]
    BY <1>1, QuoteRead
  <2> HIDE DEF close
  <2>3. QED
    BY <2>1, <2>2
<1>3. Lex!Open' = Lex!Open
  BY <1>1, SameReading
<1>4. QED
  BY <1>1, <1>2, <1>3 DEF SpellInv, Lex!Quotes

\* extract_unquoted_segment: up to a blank, an operator or a quote.
LEMMA UnquotedRead ==
  ASSUME LexInv, SpellInv, Lex!UnquotedSegment
  PROVE  /\ i < Len(input) /\ i' \in i + 1 .. Len(input) /\ Lex!Open[i' + 1] = "none"
         /\ \A k \in i + 1 .. i' : input[k] \notin Lex!Blanks \union Lex!Operators \union Lex!Quotes
<1> DEFINE S == Lex!Blanks \union Lex!Operators \union Lex!Quotes
           to == Lex!RunEnd(i, S)
           lits == Lits
<1>1. /\ lexing = "word" /\ ~Lex!AtEnd /\ ~Lex!At(S) /\ i' = to /\ wordSegments' # <<>>
      /\ UNCHANGED <<input, tokens, start, lexing>>
  <2>1. /\ lexing = "word" /\ ~Lex!AtEnd /\ ~Lex!At(S) /\ i' = to
        /\ UNCHANGED <<input, tokens, start, lexing>>
        /\ wordSegments' = Append(wordSegments, [quote |-> "none", value |-> Lex!Between(i, i')])
    BY DEF Lex!UnquotedSegment, Lex!GetUnquotedLen
  <2>2. QED
    BY <2>1
<1>2. /\ input \in Seq(Lex!Char) /\ i \in 0 .. Len(input) /\ Len(input) \in Nat /\ start \in 0 .. i
      /\ start \in 0 .. Len(input) /\ i \in start .. Len(input)
      /\ Lex!Open[i + 1] = "none" /\ InWord(lits, start, i) /\ lits \in Texts
  BY <1>1, WordRead
<1>3. i < Len(input) /\ input[i + 1] \notin S
  BY <1>1, <1>2 DEF Lex!At, Lex!AtEnd, Lex!Next1
<1> HIDE DEF S, lits
<1>4. /\ to \in i .. Len(input) /\ to # i
      /\ \A l \in i .. to - 1 : input[l + 1] \notin S
  BY <1>2, <1>3, RunEnds
<1> HIDE DEF to
<1>5. \A k \in i + 1 .. to : input[k] \notin S
  <2> SUFFICES ASSUME NEW k \in i + 1 .. to PROVE input[k] \notin S
    OBVIOUS
  <2>1. k - 1 \in i .. to - 1 /\ k - 1 + 1 = k
    BY <1>2, <1>4
  <2>2. QED
    BY <1>4, <2>1
<1>6. Lex!Open[to + 1] = "none"
  <2>1. \A k \in i + 1 .. to : IF Lex!Open[i + 1] = "none" THEN input[k] \notin Lex!Quotes
                              ELSE input[k] # Lex!Open[i + 1]
    BY <1>2, <1>5 DEF S
  <2>2. \A k \in i .. to : Lex!Open[k + 1] = Lex!Open[i + 1]
    BY <1>2, <1>4, <2>1, StaysOpen
  <2>3. to \in i .. to
    BY <1>2, <1>4
  <2>4. QED
    BY <1>2, <2>2, <2>3
<1>7. QED
  BY <1>1, <1>2, <1>3, <1>4, <1>5, <1>6 DEF S

\* Its characters go on with the word.
LEMMA UnquotedSpelled ==
  ASSUME LexInv, SpellInv, Lex!UnquotedSegment
  PROVE  SpellInv'
<1> DEFINE S == Lex!Blanks \union Lex!Operators \union Lex!Quotes
           to == i'
           lits == Lits
<1>1. /\ lexing = "word" /\ wordSegments' # <<>> /\ UNCHANGED <<input, tokens, start, lexing>>
  <2>1. /\ lexing = "word" /\ UNCHANGED <<input, tokens, start, lexing>>
        /\ wordSegments' = Append(wordSegments, [quote |-> "none", value |-> Lex!Between(i, i')])
    BY DEF Lex!UnquotedSegment
  <2>2. QED
    BY <2>1
<1>2. /\ input \in Seq(Lex!Char) /\ i \in 0 .. Len(input) /\ Len(input) \in Nat /\ start \in 0 .. i
      /\ start \in 0 .. Len(input) /\ i \in start .. Len(input)
      /\ Lex!Open[i + 1] = "none" /\ InWord(lits, start, i) /\ lits \in Texts
  BY <1>1, WordRead
<1> HIDE DEF lits
<1>4. to \in i .. Len(input) /\ to # i
  BY <1>2, UnquotedRead
<1>5. (\A k \in i + 1 .. to : input[k] \notin S) /\ Lex!Open[to + 1] = "none"
  BY UnquotedRead
<1> HIDE DEF to, S
<1>7. InWord(lits, start, to)
  <2>1. \A k \in i + 1 .. to : ~Lex!Bare(k, Lex!Blanks \union Lex!Operators)
    BY <1>5, NotBare DEF S
  <2>2. QED
    BY <1>2, <1>4, <2>1, WordReadsOn
<1>8. Lits' = lits
  BY <1>1 DEF Lits, lits
<1>9. lexing' = "word" /\ start' = start /\ (start' = i' <=> wordSegments' = <<>>)
  BY <1>1, <1>2, <1>4 DEF to
<1>10. QED
  BY <1>1, <1>5, <1>7, <1>8, <1>9, SpellWord DEF to

\* The word is all that was read since it began, and the next token is fresh.
LEMMA WordEnded ==
  ASSUME LexInv, SpellInv, Lex!EndWord
  PROVE  SpellInv'
<1> DEFINE piece == Lex!Between(start, i)
           token == Lex!CreateToken("WORD", piece, wordSegments)
           k == i + 1
           lits == Lits
<1>1. /\ lexing = "word" /\ lexing' = "tokens" /\ tokens' = Append(tokens, token)
      /\ UNCHANGED <<input, i, start, wordSegments>>
      /\ Lex!AtEnd \/ Lex!At(Lex!Blanks \union Lex!Operators)
  BY DEF Lex!EndWord
<1>2. /\ input \in Seq(Lex!Char) /\ i \in 0 .. Len(input) /\ Len(input) \in Nat /\ start \in 0 .. i
      /\ start \in 0 .. Len(input) /\ i \in start .. Len(input)
      /\ Lex!Open[k] = "none" /\ InWord(lits, start, i) /\ lits \in Texts
      /\ wordSegments \in Seq(Lex!Segment)
  BY <1>1, WordRead
<1>3. start # i
  <2>1. wordSegments # <<>>
    BY <1>1 DEF LexInv, WordSoFar
  <2>2. QED
    BY <1>1, <2>1, WordRead
<1>4. Lex!Literals[i] = Append(lits, piece) /\ ~Lex!Bare(i, Lex!Blanks \union Lex!Operators)
  BY <1>2, <1>3 DEF InWord
<1>5. piece \in Seq(Lex!Char)
  BY <1>2, Pieces
<1> HIDE DEF piece
<1>6. token \in Lex!Token /\ token.literal = piece
  <2>1. "WORD" \in Lex!Types
    BY DEF Lex!Types
  <2>2. token \in Lex!Token
    BY <1>2, <1>5, <2>1, TokenMade
  <2>3. QED
    BY <2>2 DEF Lex!CreateToken
<1> HIDE DEF token
<1>7. Lits' = Append(lits, piece)
  BY <1>1, <1>6, LitsAppended
<1> HIDE DEF lits
<1>8. Fresh(i)
  <2>1. ASSUME i < Len(input), ~Lex!Bare(k, Lex!Blanks), Lex!Joins(k, Lex!Literals[i]) PROVE FALSE
    <3>1. input[k] \in Lex!Blanks \union Lex!Operators
      BY <1>1, <1>2, <2>1 DEF Lex!At, Lex!AtEnd, Lex!Next1
    <3>2. Lex!Bare(k, Lex!Operators)
      BY <1>2, <2>1, <3>1 DEF Lex!Bare
    <3>3. k - 1 = i
      BY <1>2
    <3> HIDE DEF k
    <3>4. Lex!Bare(i, Lex!Operators)
      BY <2>1, <3>2, <3>3 DEF Lex!Joins
    <3>5. QED
      BY <1>4, <3>4 DEF Lex!Bare
  <2>2. QED
    BY <2>1 DEF Fresh
<1>9. i' = i /\ Lex!Open[i' + 1] = "none" /\ Lits' = Lex!Literals[i'] /\ Fresh(i')
  BY <1>1, <1>2, <1>4, <1>7, <1>8
<1>10. QED
  BY <1>1, <1>9, SpellTokens

\* The END token has an empty literal.
LEMMA LineEnded ==
  ASSUME LexInv, SpellInv, Lex!End
  PROVE  SpellInv'
<1> DEFINE token == Lex!CreateToken("END", <<>>, <<>>)
<1>1. /\ lexing = "tokens" /\ i = Len(input) /\ lexing' = "done" /\ tokens' = Append(tokens, token)
      /\ UNCHANGED <<input, i>>
  BY DEF Lex!End, Lex!AtEnd
<1>2. token \in Lex!Token /\ token.literal = <<>>
  <2>1. "END" \in Lex!Types /\ <<>> \in Seq(Lex!Char) /\ <<>> \in Seq(Lex!Segment)
    BY DEF Lex!Types
  <2>2. token \in Lex!Token
    BY <2>1, TokenMade
  <2>3. QED
    BY <2>2 DEF Lex!CreateToken
<1> HIDE DEF token
<1>3. Lits' = Append(Lits, <<>>)
  BY <1>1, <1>2, LitsAppended
<1>4. Lex!Open[Len(input) + 1] = "none" /\ Lits = Lex!Literals[Len(input)]
  BY <1>1 DEF SpellInv, AtToken
<1>5. Lex!Open' = Lex!Open /\ Lex!Literals' = Lex!Literals
  BY <1>1, SameReading
<1>6. QED
  BY <1>1, <1>3, <1>4, <1>5 DEF SpellInv

\* Every step of the lexer keeps it, and so does every step of the other two.
LEMMA SpellNext == LexInv /\ SpellInv /\ [Lex!Next]_lexVars => SpellInv'
<1> SUFFICES ASSUME LexInv, SpellInv, [Lex!Next]_lexVars PROVE SpellInv'
  OBVIOUS
<1>1. CASE UNCHANGED lexVars
  <2>1. UNCHANGED <<input, i, tokens, start, wordSegments, lexing>>
    BY <1>1 DEF lexVars
  <2>2. Lits' = Lits
    BY <2>1 DEF Lits
  <2>3. Lex!Open' = Lex!Open /\ Lex!Literals' = Lex!Literals
    BY <2>1, SameReading
  <2>4. AtToken(Lits, i) => AtToken(Lits, i)'
    <3> SUFFICES ASSUME AtToken(Lits, i) PROVE AtToken(Lits, i)'
      OBVIOUS
    <3>1. Lits = Lex!Literals[i] /\ Fresh(i)
      BY DEF AtToken
    <3>2. Fresh(i)'
      BY <2>1, <3>1, SameReading DEF Fresh, Lex!Blanks
    <3>3. QED
      BY <2>1, <2>2, <2>3, <3>1, <3>2 DEF AtToken
  <2>5. InWord(Lits, start, i) => InWord(Lits, start, i)'
    <3> SUFFICES ASSUME InWord(Lits, start, i) PROVE InWord(Lits, start, i)'
      OBVIOUS
    <3>1. CASE i = start
      BY <2>1, <2>4, <3>1 DEF InWord
    <3>2. CASE i # start
      BY <2>1, <2>2, <2>3, <3>2, SameReading DEF InWord, Lex!Between, Lex!Blanks, Lex!Operators
    <3>3. QED
      BY <3>1, <3>2
  <2>6. QED
    BY <2>1, <2>2, <2>3, <2>4, <2>5 DEF SpellInv
<1>2. QED
  BY <1>1, BlanksSpelled, OperatorSpelled, WordBegun, LineEnded, QuotedSpelled, UnclosedSpelled,
     UnquotedSpelled, WordEnded DEF Lex!Next

----------------------------------------------------------------------------
(* The segments of a word spell it.                                        *)

\* The lexer's own instance of it.
LEMMA SameFlat == \A seqs : Lex!FlattenSeq(seqs) = FlattenSeq(seqs)
  BY DEF Lex!FlattenSeq, FlattenSeq

\* Two pieces of the line, one behind the other.
LEMMA PiecesJoin ==
  ASSUME input \in Seq(Lex!Char), NEW from \in 0 .. Len(input), NEW at \in from .. Len(input),
         NEW to \in at .. Len(input)
  PROVE  Lex!Between(from, at) \o Lex!Between(at, to) = Lex!Between(from, to)
<1> DEFINE m == from + 1
<1>1. m \in 1 .. Len(input) + 1 /\ at \in m - 1 .. Len(input) /\ to \in at .. Len(input)
  OBVIOUS
<1> HIDE DEF m
<1>2. SubSeq(input, m, at) \o SubSeq(input, at + 1, to) = SubSeq(input, m, to)
  BY <1>1, ConcatAdjacentSubSeq
<1>3. QED
  BY <1>2 DEF m, Lex!Between

\* Lexer.Typed, which depends on no variable.
TypedOf(s) ==
  CASE s.quote = "none" -> s.value
    [] s.quote = "single" -> <<"'">> \o s.value \o <<"'">>
    [] s.quote = "double" -> <<"\"">> \o s.value \o <<"\"">>

\* The lexer's own instance of it.
LEMMA SameTyped == \A s : Lex!Typed(s) = TypedOf(s)
  BY DEF Lex!Typed, TypedOf

\* The segments as they were typed.
TypedAll(segs) == [j \in DOMAIN segs |-> TypedOf(segs[j])]
\* What the lexer stops an unquoted segment at is in none.
Clean(segs) ==
  \A j \in DOMAIN segs :
    segs[j].quote = "none" =>
      \A m \in DOMAIN segs[j].value : segs[j].value[m] \notin Lex!Operators \union Lex!Quotes \union Lex!Blanks

\* The segments so far spell the word so far, those of a token its literal.
SegmentsInv ==
  /\ lexing = "word" => FlattenSeq(TypedAll(wordSegments)) = Lex!Between(start, i) /\ Clean(wordSegments)
  /\ \A k \in DOMAIN tokens :
       /\ tokens[k].type = "WORD" => FlattenSeq(TypedAll(tokens[k].segments)) = tokens[k].literal
       /\ WellCut(tokens[k].segments) /\ Clean(tokens[k].segments)

\* A segment as it was typed is a text.
LEMMA TypedText ==
  ASSUME NEW seg \in Lex!Segment
  PROVE  /\ TypedOf(seg) \in Seq(Lex!Char)
         /\ seg.quote = "none" => TypedOf(seg) = seg.value
         /\ seg.quote = "single" => TypedOf(seg) = <<"'">> \o seg.value \o <<"'">>
         /\ seg.quote = "double" => TypedOf(seg) = <<"\"">> \o seg.value \o <<"\"">>
<1>1. seg.value \in Seq(Lex!Char) /\ seg.quote \in {"none", "single", "double"}
  BY DEF Lex!Segment
<1>2. "'" \in Lex!Char /\ "\"" \in Lex!Char
  BY DEF Lex!Char, Lex!Quotes
<1>3. /\ seg.quote = "none" => TypedOf(seg) = seg.value
      /\ seg.quote = "single" => TypedOf(seg) = <<"'">> \o seg.value \o <<"'">>
      /\ seg.quote = "double" => TypedOf(seg) = <<"\"">> \o seg.value \o <<"\"">>
  BY DEF TypedOf
<1>4. ASSUME NEW ch \in Lex!Char, NEW v \in Seq(Lex!Char)
      PROVE  <<ch>> \o v \o <<ch>> \in Seq(Lex!Char)
  <2>1. <<ch>> \in Seq(Lex!Char)
    OBVIOUS
  <2> DEFINE one == <<ch>>
  <2> HIDE DEF one
  <2>2. one \o v \in Seq(Lex!Char)
    BY <2>1, ConcatProperties DEF one
  <2>3. (one \o v) \o one \in Seq(Lex!Char)
    BY <2>1, <2>2, ConcatProperties DEF one
  <2>4. QED
    BY <2>3 DEF one
<1>5. QED
  BY <1>1, <1>2, <1>3, <1>4

\* One segment more.
LEMMA SegmentTyped ==
  ASSUME NEW segs \in Seq(Lex!Segment), NEW seg \in Lex!Segment
  PROVE  /\ FlattenSeq(TypedAll(Append(segs, seg))) = FlattenSeq(TypedAll(segs)) \o TypedOf(seg)
         /\ (/\ Clean(segs)
             /\ seg.quote = "none" => \A m \in DOMAIN seg.value :
                                        seg.value[m] \notin Lex!Operators \union Lex!Quotes \union Lex!Blanks)
              => Clean(Append(segs, seg))
<1> DEFINE more == Append(segs, seg)
           n == Len(segs)
           old == TypedAll(segs)
           new == TypedAll(more)
           text == TypedOf(seg)
           T == Seq(Lex!Char)
<1>1. n \in Nat /\ DOMAIN segs = 1 .. n /\ \A j \in 1 .. n : segs[j] \in Lex!Segment
  OBVIOUS
<1>2. /\ more \in Seq(Lex!Segment) /\ Len(more) = n + 1 /\ more[n + 1] = seg
      /\ \A j \in 1 .. n : more[j] = segs[j]
  BY AppendProperties
<1> HIDE DEF more
<1>3. DOMAIN more = 1 .. n + 1
  BY <1>2
<1> HIDE DEF n
<1>4. /\ old = [j \in 1 .. n |-> TypedOf(segs[j])]
      /\ \A j \in 1 .. n : TypedOf(segs[j]) \in Seq(Lex!Char)
      /\ text \in Seq(Lex!Char)
  BY <1>1, TypedText DEF TypedAll
<1>5. old \in Seq(T) /\ Len(old) = n /\ \A j \in 1 .. n : old[j] = TypedOf(segs[j])
  <2> HIDE DEF old
  <2>1. QED
    BY <1>1, <1>4
<1>6. new = [j \in 1 .. n + 1 |-> TypedOf(more[j])]
  BY <1>3 DEF TypedAll
<1> HIDE DEF old, new, text, T
<1> DEFINE longer == Append(old, text)
<1>7. /\ longer \in Seq(T) /\ Len(longer) = n + 1 /\ longer[n + 1] = text
      /\ \A j \in 1 .. n : longer[j] = old[j]
  <2>1. old \in Seq(T) /\ text \in T
    BY <1>4, <1>5 DEF T
  <2>2. /\ Append(old, text) \in Seq(T) /\ Len(Append(old, text)) = Len(old) + 1
        /\ Append(old, text)[Len(old) + 1] = text
        /\ \A j \in 1 .. Len(old) : Append(old, text)[j] = old[j]
    BY <2>1, AppendProperties
  <2>3. QED
    BY <1>5, <2>2
<1> HIDE DEF longer
<1>8. new = longer
  <2>1. ASSUME NEW j \in 1 .. n + 1 PROVE TypedOf(more[j]) = longer[j]
    <3>1. CASE j = n + 1
      BY <1>2, <1>7, <3>1 DEF text
    <3>2. CASE j # n + 1
      <4>1. j \in 1 .. n
        BY <1>1, <3>2
      <4>2. QED
        BY <1>2, <1>5, <1>7, <4>1
    <3>3. QED
      BY <3>1, <3>2
  <2>2. longer = [j \in 1 .. n + 1 |-> longer[j]]
    BY <1>1, <1>7
  <2>3. QED
    BY <1>6, <2>1, <2>2
<1>9. FlattenSeq(new) = FlattenSeq(old) \o text
  BY <1>4, <1>5, <1>8, FlattenedOn DEF longer, T
<1>10. ASSUME Clean(segs),
              seg.quote = "none" => \A m \in DOMAIN seg.value :
                                      seg.value[m] \notin Lex!Operators \union Lex!Quotes \union Lex!Blanks
       PROVE  Clean(more)
  <2> SUFFICES ASSUME NEW j \in DOMAIN more, more[j].quote = "none"
               PROVE  \A m \in DOMAIN more[j].value :
                        more[j].value[m] \notin Lex!Operators \union Lex!Quotes \union Lex!Blanks
    BY DEF Clean
  <2>1. CASE j = n + 1
    BY <1>2, <1>10, <2>1
  <2>2. CASE j # n + 1
    <3>1. j \in 1 .. n
      BY <1>1, <1>3, <2>2
    <3>2. more[j] = segs[j] /\ j \in DOMAIN segs
      BY <1>1, <1>2, <3>1
    <3>3. QED
      BY <1>10, <3>2 DEF Clean
  <2>3. QED
    BY <2>1, <2>2
<1>11. QED
  BY <1>9, <1>10 DEF old, new, text, more

\* No segment spells nothing.
LEMMA NothingTyped == FlattenSeq(TypedAll(<<>>)) = <<>> /\ Clean(<<>>) /\ WellCut(<<>>)
<1>1. TypedAll(<<>>) = <<>>
  BY DEF TypedAll
<1>2. FlattenSeq(<<>>) = <<>>
  <2> DEFINE none == <<>>
  <2>1. Len(none) = 0
    OBVIOUS
  <2> HIDE DEF none
  <2>2. FlattenSeq(none) = none
    BY <2>1 DEF FlattenSeq
  <2>3. QED
    BY <2>2 DEF none
<1>3. QED
  BY <1>1, <1>2 DEF Clean, WellCut

\* There is no token yet.
LEMMA SegmentsInit == Lex!Init => SegmentsInv
  BY DEF Lex!Init, SegmentsInv

\* One token more, with its segments.
LEMMA TokenTyped ==
  ASSUME LexInv, SegmentsInv, NEW token \in Lex!Token, tokens' = Append(tokens, token), lexing' # "word",
         token.type = "WORD" => FlattenSeq(TypedAll(token.segments)) = token.literal,
         WellCut(token.segments), Clean(token.segments)
  PROVE  SegmentsInv'
<1> DEFINE more == Append(tokens, token)
           Spells(t) == /\ t.type = "WORD" => FlattenSeq(TypedAll(t.segments)) = t.literal
                        /\ WellCut(t.segments) /\ Clean(t.segments)
<1>1. tokens \in Seq(Lex!Token) /\ Len(tokens) \in Nat /\ DOMAIN tokens = 1 .. Len(tokens)
  BY DEF LexInv, Lex!TypeOK
<1>2. /\ more \in Seq(Lex!Token) /\ Len(more) = Len(tokens) + 1 /\ more[Len(tokens) + 1] = token
      /\ \A k \in 1 .. Len(tokens) : more[k] = tokens[k]
  BY <1>1, AppendProperties
<1>3. \A k \in DOMAIN tokens : Spells(tokens[k])
  BY DEF SegmentsInv
<1>4. Spells(token)
  OBVIOUS
<1> HIDE DEF more, Spells
<1>5. ASSUME NEW k \in DOMAIN more PROVE Spells(more[k])
  <2>1. k = Len(tokens) + 1 \/ k \in DOMAIN tokens
    BY <1>1, <1>2
  <2>2. QED
    BY <1>1, <1>2, <1>3, <1>4, <2>1
<1>6. tokens' = more
  BY DEF more
<1>7. \A k \in DOMAIN tokens' : Spells(tokens'[k])
  BY <1>5, <1>6
<1>8. QED
  BY <1>7 DEF SegmentsInv, Spells, TypedAll, Clean, WellCut, Lex!Operators, Lex!Quotes, Lex!Blanks

\* Where no token is added.
LEMMA TokensKept ==
  ASSUME SegmentsInv, tokens' = tokens,
         NEW segs, segs = wordSegments', NEW from, from = start', NEW k, k = i', input' = input,
         lexing' = "word" => FlattenSeq(TypedAll(segs)) = Lex!Between(from, k) /\ Clean(segs)
  PROVE  SegmentsInv'
<1>1. TypedAll(wordSegments)' = TypedAll(segs) /\ Lex!Between(start, i)' = Lex!Between(from, k)
  BY DEF TypedAll, Lex!Between
<1>2. lexing' = "word" => (FlattenSeq(TypedAll(wordSegments)) = Lex!Between(start, i))'
  BY <1>1
<1>3. lexing' = "word" => Clean(wordSegments)'
  BY DEF Clean, Lex!Operators, Lex!Quotes, Lex!Blanks
<1>4. ASSUME NEW t \in DOMAIN tokens'
      PROVE  /\ (tokens[t].type = "WORD" => FlattenSeq(TypedAll(tokens[t].segments)) = tokens[t].literal)'
             /\ WellCut(tokens[t].segments)' /\ Clean(tokens[t].segments)'
  <2>1. t \in DOMAIN tokens
    OBVIOUS
  <2>2. TypedAll(tokens[t].segments)' = TypedAll(tokens[t].segments)
    BY DEF TypedAll
  <2>3. WellCut(tokens[t].segments)'
    BY <2>1 DEF SegmentsInv, WellCut
  <2>4. Clean(tokens[t].segments)'
    BY <2>1 DEF SegmentsInv, Clean, Lex!Operators, Lex!Quotes, Lex!Blanks
  <2>5. (tokens[t].type = "WORD" => FlattenSeq(TypedAll(tokens[t].segments)) = tokens[t].literal)'
    BY <2>1, <2>2 DEF SegmentsInv
  <2>6. QED
    BY <2>3, <2>4, <2>5
<1>5. QED
  BY <1>2, <1>3, <1>4 DEF SegmentsInv

\* A quoted segment, with its two quotes, is the piece of the line it was cut from.
LEMMA QuotedTyped ==
  ASSUME LexInv, SpellInv, SegmentsInv, Lex!QuotedSegment
  PROVE  SegmentsInv'
<1> DEFINE quote == input[i + 1]
           close == Lex!RunEnd(i + 1, {quote})
           to == close + 1
           at == i + 1
           value == Lex!Between(i + 1, close)
           seg == [quote |-> Lex!QuoteType(quote), value |-> value]
<1>1. /\ lexing = "word" /\ Lex!At(Lex!Quotes) /\ close < Len(input)
      /\ wordSegments' = Append(wordSegments, seg) /\ i' = to
      /\ UNCHANGED <<input, tokens, start, lexing>>
  BY DEF Lex!QuotedSegment, Lex!Next1
<1>2. /\ quote \in Lex!Quotes /\ close \in i + 1 .. Len(input) /\ input[close + 1] = quote /\ i < Len(input)
  BY <1>1, QuoteRead
<1>3. /\ input \in Seq(Lex!Char) /\ i \in 0 .. Len(input) /\ Len(input) \in Nat
      /\ start \in 0 .. Len(input) /\ i \in start .. Len(input) /\ wordSegments \in Seq(Lex!Segment)
  BY <1>1, WordRead
<1> HIDE DEF close
<1>4. /\ at \in i .. Len(input) /\ at = i + 1 /\ at \in 0 .. Len(input) /\ close \in at .. Len(input)
      /\ to \in close .. Len(input) /\ to = close + 1 /\ close \in 0 .. Len(input)
      /\ to \in at .. Len(input) /\ to \in i .. Len(input) /\ start \in 0 .. Len(input)
  BY <1>1, <1>2, <1>3
<1>5. Lex!Between(i, at) = <<quote>> /\ Lex!Between(close, to) = <<quote>>
  <2>1. Lex!Between(i, at) = <<input[i + 1]>>
    BY <1>3, <1>4, Pieces
  <2> HIDE DEF quote, at, to
  <2>2. Lex!Between(close, to) = <<input[close + 1]>>
    BY <1>3, <1>4, Pieces
  <2>3. QED
    BY <1>2, <2>1, <2>2 DEF quote
<1>6. value = Lex!Between(at, close) /\ value \in Seq(Lex!Char)
  <2>1. value = Lex!Between(at, close)
    OBVIOUS
  <2> HIDE DEF value, at
  <2>2. QED
    BY <1>3, <1>4, <2>1, Pieces
<1> HIDE DEF quote, value, at, to
<1>7. <<quote>> \o value \o <<quote>> = Lex!Between(i, to)
  <2>1. Lex!Between(i, at) \o Lex!Between(at, close) = Lex!Between(i, close)
    BY <1>3, <1>4, PiecesJoin
  <2>2. Lex!Between(i, close) \o Lex!Between(close, to) = Lex!Between(i, to)
    <3>1. close \in i .. Len(input)
      BY <1>2, <1>3, <1>4
    <3>2. QED
      BY <1>3, <1>4, <3>1, PiecesJoin
  <2>3. QED
    BY <1>5, <1>6, <2>1, <2>2
<1>8. seg \in Lex!Segment /\ seg.quote # "none" /\ TypedOf(seg) = <<quote>> \o value \o <<quote>>
  <2>1. seg \in Lex!Segment /\ seg.value = value
    BY <1>6 DEF Lex!Segment, Lex!QuoteType
  <2>2. CASE quote = "'"
    <3>1. seg.quote = "single"
      BY <2>2 DEF Lex!QuoteType
    <3>2. QED
      BY <2>1, <2>2, <3>1, TypedText
  <2>3. CASE quote # "'"
    <3>1. seg.quote = "double" /\ quote = "\""
      BY <1>2, <2>3 DEF Lex!QuoteType, Lex!Quotes
    <3>2. QED
      BY <2>1, <3>1, TypedText
  <2>4. QED
    BY <2>2, <2>3
<1> HIDE DEF seg
<1>9. /\ FlattenSeq(TypedAll(wordSegments')) = FlattenSeq(TypedAll(wordSegments)) \o TypedOf(seg)
      /\ Clean(wordSegments')
  BY <1>1, <1>3, <1>8, SegmentTyped DEF SegmentsInv
<1>10. FlattenSeq(TypedAll(wordSegments')) = Lex!Between(start, to)
  <2>1. FlattenSeq(TypedAll(wordSegments)) = Lex!Between(start, i)
    BY <1>1 DEF SegmentsInv
  <2>2. Lex!Between(start, i) \o Lex!Between(i, to) = Lex!Between(start, to)
    BY <1>3, <1>4, PiecesJoin
  <2>3. QED
    BY <1>7, <1>8, <1>9, <2>1, <2>2
<1>11. QED
  BY <1>1, <1>9, <1>10, TokensKept

\* An unquoted one is that piece itself, and what it stops at is not in it.
LEMMA UnquotedTyped ==
  ASSUME LexInv, SpellInv, SegmentsInv, Lex!UnquotedSegment
  PROVE  SegmentsInv'
<1> DEFINE S == Lex!Blanks \union Lex!Operators \union Lex!Quotes
           to == Lex!RunEnd(i, S)
           value == Lex!Between(i, to)
           seg == [quote |-> "none", value |-> value]
<1>1. /\ lexing = "word" /\ ~Lex!AtEnd /\ ~Lex!At(S) /\ i' = to
      /\ wordSegments' = Append(wordSegments, seg)
      /\ UNCHANGED <<input, tokens, start, lexing>>
  BY DEF Lex!UnquotedSegment, Lex!GetUnquotedLen
<1>2. /\ input \in Seq(Lex!Char) /\ i \in 0 .. Len(input) /\ Len(input) \in Nat
      /\ start \in 0 .. Len(input) /\ i \in start .. Len(input) /\ wordSegments \in Seq(Lex!Segment)
  BY <1>1, WordRead
<1> HIDE DEF S
<1>3. /\ to \in i .. Len(input)
      /\ \A l \in i .. to - 1 : input[l + 1] \notin S
  BY <1>2, RunEnds
<1> HIDE DEF to
<1>4. value \in Seq(Lex!Char) /\ Len(value) = to - i
  BY <1>2, <1>3, Pieces
<1>5. \A m \in DOMAIN value : value[m] \notin S
  <2> SUFFICES ASSUME NEW m \in DOMAIN value PROVE value[m] \notin S
    OBVIOUS
  <2>1. m \in 1 .. to - i
    <3> HIDE DEF value
    <3>1. QED
      BY <1>4
  <2>2. value[m] = input[i + m]
    BY <1>2, <1>3, <2>1 DEF Lex!Between
  <2>3. i + m - 1 \in i .. to - 1 /\ i + m - 1 + 1 = i + m
    BY <1>2, <1>3, <2>1
  <2> HIDE DEF value
  <2>4. input[i + m] \notin S
    BY <1>3, <2>3
  <2>5. QED
    BY <2>2, <2>4
<1> HIDE DEF value
<1>6. /\ seg \in Lex!Segment /\ TypedOf(seg) = value
      /\ \A m \in DOMAIN seg.value : seg.value[m] \notin Lex!Operators \union Lex!Quotes \union Lex!Blanks
  <2>1. seg \in Lex!Segment /\ seg.quote = "none" /\ seg.value = value
    BY <1>4 DEF Lex!Segment
  <2>2. QED
    BY <1>5, <2>1, TypedText DEF S
<1> HIDE DEF seg
<1>7. /\ FlattenSeq(TypedAll(wordSegments')) = FlattenSeq(TypedAll(wordSegments)) \o value
      /\ Clean(wordSegments')
  BY <1>1, <1>2, <1>6, SegmentTyped DEF SegmentsInv
<1>8. FlattenSeq(TypedAll(wordSegments')) = Lex!Between(start, to)
  <2>1. FlattenSeq(TypedAll(wordSegments)) = Lex!Between(start, i)
    BY <1>1 DEF SegmentsInv
  <2>2. Lex!Between(start, i) \o Lex!Between(i, to) = Lex!Between(start, to)
    BY <1>2, <1>3, PiecesJoin
  <2>3. QED
    BY <1>7, <2>1, <2>2 DEF value
<1>9. QED
  BY <1>1, <1>7, <1>8, TokensKept

\* Every step of the lexer keeps it.
LEMMA SegmentsNext == LexInv /\ SpellInv /\ SegmentsInv /\ [Lex!Next]_lexVars => SegmentsInv'
<1> SUFFICES ASSUME LexInv, SpellInv, SegmentsInv, [Lex!Next]_lexVars PROVE SegmentsInv'
  OBVIOUS
<1>1. CASE Lex!SkipWhitespace
  <2>1. tokens' = tokens /\ input' = input /\ lexing' # "word"
    BY <1>1 DEF Lex!SkipWhitespace
  <2>2. QED
    BY <2>1, TokensKept
<1>2. CASE Lex!HandleOperator
  <2> DEFINE op == Lex!Between(i, i')
             token == Lex!CreateToken(Lex!GetOpType(op), op, <<>>)
  <2>1. input \in Seq(Lex!Char) /\ i \in 0 .. Len(input)
    BY DEF LexInv, Lex!TypeOK
  <2>2. /\ lexing' # "word" /\ tokens' = Append(tokens, token)
        /\ token \in Lex!Token /\ token.segments = <<>> /\ token.type # "WORD"
    BY <1>2, <2>1, OperatorCut
  <2> HIDE DEF token
  <2>3. QED
    BY <2>2, NothingTyped, TokenTyped
<1>3. CASE Lex!HandleWord
  <2>1. tokens' = tokens /\ input' = input /\ wordSegments' = <<>> /\ start' = i /\ i' = i
    BY <1>3 DEF Lex!HandleWord
  <2>2. Lex!Between(i, i) = <<>>
    <3>1. input \in Seq(Lex!Char) /\ i \in 0 .. Len(input) /\ i \in i .. Len(input) /\ i - i = 0
      BY DEF LexInv, Lex!TypeOK
    <3>2. Lex!Between(i, i) \in Seq(Lex!Char) /\ Len(Lex!Between(i, i)) = i - i
      BY <3>1, Pieces
    <3>3. QED
      BY <3>1, <3>2
  <2>3. QED
    BY <2>1, <2>2, NothingTyped, TokensKept
<1>4. CASE Lex!End
  <2> DEFINE token == Lex!CreateToken("END", <<>>, <<>>)
  <2>1. lexing' # "word" /\ tokens' = Append(tokens, token)
    BY <1>4 DEF Lex!End
  <2>2. token \in Lex!Token /\ token.segments = <<>> /\ token.type # "WORD"
    <3>1. "END" \in Lex!Types /\ <<>> \in Seq(Lex!Char) /\ <<>> \in Seq(Lex!Segment)
      BY DEF Lex!Types
    <3>2. QED
      BY <3>1, TokenMade
  <2> HIDE DEF token
  <2>3. QED
    BY <2>1, <2>2, NothingTyped, TokenTyped
<1>5. CASE Lex!UnclosedQuote
  <2>1. tokens' = <<>> /\ lexing' # "word"
    BY <1>5 DEF Lex!UnclosedQuote
  <2>2. QED
    BY <2>1 DEF SegmentsInv
<1>6. CASE Lex!EndWord
  <2> DEFINE piece == Lex!Between(start, i)
             token == Lex!CreateToken("WORD", piece, wordSegments)
  <2>1. lexing = "word" /\ lexing' # "word" /\ tokens' = Append(tokens, token)
    BY <1>6 DEF Lex!EndWord
  <2>2. /\ input \in Seq(Lex!Char) /\ i \in start .. Len(input) /\ start \in 0 .. Len(input)
        /\ wordSegments \in Seq(Lex!Segment)
    BY <2>1, WordRead
  <2>3. piece \in Seq(Lex!Char)
    BY <2>2, Pieces
  <2>4. FlattenSeq(TypedAll(wordSegments)) = piece /\ Clean(wordSegments) /\ WellCut(wordSegments)
    BY <2>1 DEF SegmentsInv, LexInv, WordSoFar
  <2> HIDE DEF piece
  <2>5. token \in Lex!Token /\ token.segments = wordSegments /\ token.literal = piece
    <3>1. "WORD" \in Lex!Types
      BY DEF Lex!Types
    <3>2. token \in Lex!Token /\ token.segments = wordSegments
      BY <2>2, <2>3, <3>1, TokenMade
    <3>3. QED
      BY <3>2 DEF Lex!CreateToken
  <2> HIDE DEF token
  <2>6. QED
    BY <2>1, <2>4, <2>5, TokenTyped
<1>7. CASE UNCHANGED lexVars
  <2>1. UNCHANGED <<input, i, tokens, start, wordSegments, lexing>>
    BY <1>7 DEF lexVars
  <2>2. lexing' = "word" => FlattenSeq(TypedAll(wordSegments)) = Lex!Between(start, i) /\ Clean(wordSegments)
    BY <2>1 DEF SegmentsInv
  <2>3. QED
    BY <2>1, <2>2, TokensKept
<1>8. QED
  BY <1>1, <1>2, <1>3, <1>4, <1>5, <1>6, <1>7, QuotedTyped, UnquotedTyped DEF Lex!Next

\* FrontEnd.TokensAsWritten, for lines of any length: the lexer cuts a line as
\* one reads it, and a word's segments are the word.
THEOREM LinesReadAsWritten == Spec => []TokensAsWritten
<1> DEFINE All == IInv /\ SpellInv /\ SegmentsInv
<1>1. Init => All
  BY AllInit, SpellInit, SegmentsInit DEF Init
<1>2. All /\ [Next]_vars => All'
  <2> SUFFICES ASSUME All, [Next]_vars PROVE All'
    OBVIOUS
  <2>1. LexInv
    BY DEF IInv
  <2>2. QED
    BY <2>1, LexerSteps, AllNext, SpellNext, SegmentsNext
<1>3. All => TokensAsWritten
  <2>1. SpellInv => Lex!TokensAsWritten
    BY DEF SpellInv, Lits, Lex!TokensAsWritten
  <2>2. SegmentsInv => Lex!SegmentsSpellWord
    BY SameFlat, SameTyped DEF SegmentsInv, TypedAll, Clean, WellCut, Lex!SegmentsSpellWord
  <2>3. QED
    BY <2>1, <2>2 DEF TokensAsWritten
<1>4. QED
  BY <1>1, <1>2, <1>3, PTL DEF Spec

----------------------------------------------------------------------------
(* Places in order, and the characters at them.                            *)

\* What ParserProofs proves of InOrder.
LEMMA SameOrder ==
  \A S : /\ P!IsFiniteSet(S) <=> IsFiniteSet(S)
         /\ P!Cardinality(S) = Cardinality(S)
         /\ P!InOrder(S) = InOrder(S) /\ \A k : P!Rank(S, k) = Rank(S, k)
<1>1. \A S : P!IsFiniteSet(S) <=> IsFiniteSet(S)
  BY DEF P!IsFiniteSet, IsFiniteSet
<1>2. \A S : P!Cardinality(S) = Cardinality(S)
  BY DEF P!Cardinality, Cardinality
<1>3. \A S, k : P!Rank(S, k) = Rank(S, k)
  BY <1>2 DEF P!Rank, Rank
<1>4. ASSUME NEW S PROVE P!InOrder(S) = InOrder(S)
  <2>1. P!InOrder(S) = [n \in 1 .. P!Cardinality(S) |-> CHOOSE k \in S : P!Rank(S, k) = n]
    BY DEF P!InOrder
  <2>2. P!InOrder(S) = [n \in 1 .. Cardinality(S) |-> CHOOSE k \in S : Rank(S, k) = n]
    BY <1>2, <1>3, <2>1
  <2>3. QED
    BY <2>2 DEF InOrder
<1>5. QED
  BY <1>1, <1>2, <1>3, <1>4

\* Each member has its place.
LEMMA InTheirOrder ==
  ASSUME NEW S \in SUBSET Nat, IsFiniteSet(S)
  PROVE  /\ InOrder(S) \in Seq(S) /\ Len(InOrder(S)) = Cardinality(S) /\ Cardinality(S) \in Nat
         /\ \A k \in S : \E n \in 1 .. Cardinality(S) : InOrder(S)[n] = k
<1>1. /\ P!InOrder(S) \in Seq(S) /\ Len(P!InOrder(S)) = Cardinality(S) /\ Cardinality(S) \in Nat
      /\ \A k \in S : P!Rank(S, k) \in 1 .. Cardinality(S) /\ P!InOrder(S)[P!Rank(S, k)] = k
  BY P!Ordered, SameOrder
<1>2. QED
  BY <1>1, SameOrder

\* None, and one beyond all others.
LEMMA OrderGrows ==
  /\ InOrder({}) = <<>>
  /\ \A S \in SUBSET Nat, k \in Nat :
       IsFiniteSet(S) /\ (\A m \in S : m < k) => InOrder(S \union {k}) = Append(InOrder(S), k)
<1>1. InOrder({}) = <<>>
  BY P!OrderedEmpty, SameOrder
<1>2. ASSUME NEW S \in SUBSET Nat, NEW k \in Nat, IsFiniteSet(S), \A m \in S : m < k
      PROVE  InOrder(S \union {k}) = Append(InOrder(S), k)
  <2>1. P!InOrder(S \union {k}) = Append(P!InOrder(S), k)
    BY <1>2, P!OrderedAppend, SameOrder
  <2>2. QED
    BY <2>1, SameOrder
<1>3. QED
  BY <1>1, <1>2

\* The order of numbers that grow with others is the order of those.
LEMMA OrderOfImage ==
  ASSUME NEW n \in Nat, NEW f \in [1 .. n -> Nat], \A k, m \in 1 .. n : k < m => f[k] < f[m],
         NEW S \in SUBSET (1 .. n)
  PROVE  LET image == {f[k] : k \in S}
         IN  /\ Cardinality(image) = Cardinality(S)
             /\ InOrder(image) = [m \in DOMAIN InOrder(S) |-> f[InOrder(S)[m]]]
<1> DEFINE To(m) == {k \in S : k <= m}
           Image(m) == {f[k] : k \in To(m)}
           Is(m) == /\ IsFiniteSet(Image(m))
                    /\ Len(InOrder(Image(m))) = Len(InOrder(To(m)))
                    /\ InOrder(Image(m)) = [j \in DOMAIN InOrder(To(m)) |-> f[InOrder(To(m))[j]]]
           Good == {m \in 0 .. n : Is(m)}
<1>a. \A k \in S : k \in 1 .. n /\ k \in Nat /\ 1 <= k /\ k <= n /\ f[k] \in Nat
  BY Zenon, SMT
<1>1. ASSUME NEW m \in 0 .. n PROVE To(m) \in SUBSET Nat /\ IsFiniteSet(To(m)) /\ Image(m) \in SUBSET Nat
  <2>1. To(m) \in SUBSET (1 .. n) /\ To(m) \in SUBSET Nat
    BY <1>a
  <2>2. IsFiniteSet(To(m))
    <3>1. IsFiniteSet(1 .. n)
      BY FS_Interval
    <3> HIDE DEF To
    <3>2. QED
      BY <2>1, <3>1, FS_Subset
  <2>3. QED
    BY <1>a, <2>1, <2>2
<1>2. 0 \in Good
  <2>1. To(0) = {}
    <3>1. \A k \in S : ~(k <= 0)
      BY <1>a
    <3>2. QED
      BY <3>1
  <2>2. Image(0) = {}
    BY <2>1
  <2>3. IsFiniteSet({})
    BY FS_EmptySet
  <2> HIDE DEF To, Image
  <2>4. Is(0)
    <3>1. InOrder({}) = <<>>
      BY OrderGrows
    <3>2. <<>> = [j \in DOMAIN <<>> |-> f[<<>>[j]]]
      OBVIOUS
    <3>3. QED
      BY <2>1, <2>2, <2>3, <3>1, <3>2
  <2> HIDE DEF Is
  <2>5. QED
    BY <2>4
<1>3. ASSUME NEW m \in 1 .. n, m - 1 \in Good PROVE m \in Good
  <2>1. m - 1 \in 0 .. n /\ m \in 0 .. n /\ m \in Nat /\ \A k \in Nat : k <= m <=> k <= m - 1 \/ k = m
    OBVIOUS
  <2>a. Is(m - 1)
    BY <1>3
  <2>2. CASE m \notin S
    <3>1. To(m) = To(m - 1)
      BY <1>a, <2>1, <2>2
    <3>2. Image(m) = Image(m - 1)
      BY <3>1
    <3> HIDE DEF To, Image
    <3>3. Is(m)
      BY <2>a, <3>1, <3>2
    <3> HIDE DEF Is
    <3>4. QED
      BY <2>1, <3>3
  <2>3. CASE m \in S
    <3> DEFINE A == To(m - 1)
               B == Image(m - 1)
               a == InOrder(A)
               b == InOrder(B)
    <3>1. To(m) = A \union {m} /\ \A k \in A : k < m
      <4>1. \A k \in A : k \in Nat /\ k <= m - 1
        BY <1>a
      <4>2. \A k : k \in To(m) <=> k \in A \union {m}
        BY <1>a, <2>1, <2>3
      <4>3. \A k \in A : k < m
        BY <2>1, <4>1
      <4> HIDE DEF To, A
      <4>4. QED
        BY <4>2, <4>3
    <3>2. Image(m) = B \union {f[m]}
      BY <3>1
    <3>3. \A k \in B : k < f[m]
      <4>1. \A k \in A : k \in 1 .. n
        BY <1>a
      <4>2. \A k \in A : f[k] < f[m]
        BY <3>1, <4>1
      <4>3. QED
        BY <4>2
    <3>4. A \in SUBSET Nat /\ IsFiniteSet(A) /\ B \in SUBSET Nat /\ IsFiniteSet(B) /\ f[m] \in Nat
      BY <1>1, <2>1, <2>a
    <3>5. Len(b) = Len(a) /\ b = [j \in DOMAIN a |-> f[a[j]]]
      BY <2>a
    <3>6. IsFiniteSet(B \union {f[m]})
      BY <3>4, FS_AddElement
    <3> HIDE DEF To, Image, Good, a, b, A, B
    <3>7. InOrder(To(m)) = Append(a, m) /\ InOrder(Image(m)) = Append(b, f[m])
      BY <2>1, <3>1, <3>2, <3>3, <3>4, OrderGrows DEF a, b
    <3>8. a \in Seq(Nat) /\ b \in Seq(Nat)
      <4>1. a \in Seq(A) /\ b \in Seq(B)
        BY <3>4, InTheirOrder DEF a, b
      <4>2. \A k \in A : k \in Nat
        BY <3>4
      <4>3. \A k \in B : k \in Nat
        BY <3>4
      <4>4. QED
        BY <4>1, <4>2, <4>3
    <3>9. /\ Append(b, f[m]) = [j \in DOMAIN Append(a, m) |-> f[Append(a, m)[j]]]
          /\ Len(Append(b, f[m])) = Len(Append(a, m))
      <4> DEFINE fm == f[m]
                 l == Len(a)
      <4>1. fm \in Nat /\ m \in Nat /\ l \in Nat
        BY <2>1, <3>4, <3>8
      <4> HIDE DEF fm, l
      <4>2. /\ Append(a, m) \in Seq(Nat) /\ Len(Append(a, m)) = l + 1 /\ Append(a, m)[l + 1] = m
            /\ \A j \in 1 .. l : Append(a, m)[j] = a[j]
        BY <3>8, <4>1, AppendProperties DEF l
      <4>3. /\ Append(b, fm) \in Seq(Nat) /\ Len(Append(b, fm)) = l + 1 /\ Append(b, fm)[l + 1] = fm
            /\ \A j \in 1 .. l : Append(b, fm)[j] = b[j]
        BY <3>5, <3>8, <4>1, AppendProperties DEF l
      <4>4. \A j \in 1 .. l : b[j] = f[a[j]]
        BY <3>5, <3>8 DEF l
      <4>5. \A j \in 1 .. l + 1 : j = l + 1 \/ j \in 1 .. l
        BY <4>1
      <4> DEFINE more == Append(a, m)
                 longer == Append(b, fm)
      <4> HIDE DEF more, longer
      <4>6. DOMAIN more = 1 .. l + 1 /\ longer = [j \in 1 .. l + 1 |-> longer[j]]
        <5>1. more \in Seq(Nat) /\ longer \in Seq(Nat) /\ Len(more) = l + 1 /\ Len(longer) = l + 1
          BY <4>2, <4>3 DEF more, longer
        <5>2. QED
          BY <4>1, <5>1
      <4>7. \A j \in 1 .. l + 1 : longer[j] = f[more[j]]
        BY <4>2, <4>3, <4>4, <4>5 DEF more, longer, fm
      <4>8. longer = [j \in DOMAIN more |-> f[more[j]]] /\ Len(longer) = Len(more)
        BY <4>2, <4>3, <4>6, <4>7 DEF more, longer
      <4>9. QED
        BY <4>8 DEF more, longer, fm
    <3>10. Is(m)
      BY <3>2, <3>6, <3>7, <3>9
    <3> HIDE DEF Is
    <3>11. QED
      BY <2>1, <3>10 DEF Good
  <2>4. QED
    BY <2>2, <2>3
<1>4. Is(n)
  <2>1. Good = 0 .. n
    <3> HIDE DEF Good
    <3>1. Good \in SUBSET (0 .. n)
      BY DEF Good
    <3>2. QED
      BY <1>2, <1>3, <3>1, UpTo
  <2>2. n \in 0 .. n
    OBVIOUS
  <2> HIDE DEF Is
  <2>3. QED
    BY <2>1, <2>2
<1>5. To(n) = S
  BY <1>a
<1>6. Image(n) = {f[k] : k \in S}
  BY <1>5
<1>7. Len(InOrder(S)) = Cardinality(S) /\ Len(InOrder(Image(n))) = Cardinality(Image(n))
  <2>1. n \in 0 .. n
    OBVIOUS
  <2> HIDE DEF To, Image
  <2>2. QED
    BY <1>1, <1>4, <1>5, <2>1, InTheirOrder
<1> HIDE DEF To, Image
<1>8. QED
  BY <1>4, <1>5, <1>6, <1>7

\* The characters at some places are a text,
LEMMA TextOfPlaces ==
  ASSUME input \in Seq(Lex!Char), NEW S \in SUBSET (1 .. Len(input))
  PROVE  IsFiniteSet(S) /\ TextAt(S) \in Seq(Lex!Char) /\ InOrder(S) \in Seq(S)
<1>a. \A k \in S : k \in 1 .. Len(input) /\ k \in Nat /\ input[k] \in Lex!Char
  BY Zenon, SMT
<1>1. IsFiniteSet(S) /\ S \in SUBSET Nat
  <2>1. IsFiniteSet(1 .. Len(input))
    BY FS_Interval
  <2>2. IsFiniteSet(S)
    BY <2>1, FS_Subset
  <2>3. QED
    BY <1>a, <2>2
<1> DEFINE p == InOrder(S)
<1>2. p \in Seq(S)
  BY <1>1, InTheirOrder
<1> HIDE DEF p
<1>3. Len(p) \in Nat /\ DOMAIN p = 1 .. Len(p) /\ \A n \in 1 .. Len(p) : input[p[n]] \in Lex!Char
  <2>1. Len(p) \in Nat /\ DOMAIN p = 1 .. Len(p) /\ \A n \in 1 .. Len(p) : p[n] \in S
    BY <1>2
  <2>2. QED
    BY <1>a, <2>1
<1>4. [n \in DOMAIN p |-> input[p[n]]] \in Seq(Lex!Char)
  BY <1>3
<1>5. QED
  BY <1>1, <1>2, <1>4 DEF p, TextAt

\* which goes on with the next place,
LEMMA TextGrows ==
  ASSUME input \in Seq(Lex!Char), NEW k \in 1 .. Len(input), NEW S \in SUBSET (1 .. k - 1)
  PROVE  TextAt(S \union {k}) = Append(TextAt(S), input[k])
<1>1. S \in SUBSET (1 .. Len(input)) /\ S \in SUBSET Nat /\ k \in Nat /\ \A m \in S : m < k
  OBVIOUS
<1> DEFINE p == InOrder(S)
           q == InOrder(S \union {k})
<1>2. IsFiniteSet(S) /\ p \in Seq(S) /\ TextAt(S) = [n \in DOMAIN p |-> input[p[n]]]
  BY <1>1, TextOfPlaces DEF TextAt
<1>3. q = Append(p, k) /\ TextAt(S \union {k}) = [n \in DOMAIN q |-> input[q[n]]]
  BY <1>1, <1>2, OrderGrows DEF TextAt
<1> HIDE DEF p, q
<1>4. p \in Seq(Nat)
  BY <1>1, <1>2
<1> DEFINE more == Append(p, k)
           text == TextAt(S)
<1>5. /\ Len(p) \in Nat /\ DOMAIN more = 1 .. Len(p) + 1 /\ more[Len(p) + 1] = k
      /\ \A n \in 1 .. Len(p) : more[n] = p[n]
  BY <1>1, <1>4
<1>6. /\ text \in Seq(Lex!Char) /\ Len(text) = Len(p) /\ input[k] \in Lex!Char
      /\ \A n \in 1 .. Len(p) : text[n] = input[p[n]]
  <2>1. text \in Seq(Lex!Char) /\ DOMAIN p = 1 .. Len(p)
    BY <1>1, <1>4, TextOfPlaces
  <2>2. QED
    BY <1>2, <1>5, <2>1
<1> HIDE DEF more, text
<1> DEFINE l == Len(p)
           ch == input[k]
           longer == Append(text, ch)
<1>7. /\ longer \in Seq(Lex!Char) /\ Len(longer) = l + 1 /\ longer[l + 1] = ch
      /\ \A n \in 1 .. l : longer[n] = text[n]
  <2> HIDE DEF ch
  <2>1. QED
    BY <1>6, AppendProperties DEF ch
<1> HIDE DEF longer, ch
<1>8. \A n \in 1 .. l + 1 : n = l + 1 \/ n \in 1 .. l
  BY <1>5
<1>9. \A n \in 1 .. l + 1 : longer[n] = input[more[n]]
  BY <1>5, <1>6, <1>7, <1>8 DEF ch
<1>10. longer = [n \in DOMAIN more |-> input[more[n]]]
  <2>1. longer = [n \in 1 .. l + 1 |-> longer[n]]
    BY <1>7
  <2>2. QED
    BY <1>5, <1>9, <2>1
<1>11. QED
  BY <1>3, <1>10 DEF more, text, longer, ch

\* and with a piece of the line.
LEMMA TextGoesOn ==
  ASSUME input \in Seq(Lex!Char), NEW at \in 0 .. Len(input), NEW to \in at .. Len(input),
         NEW S \in SUBSET (1 .. at)
  PROVE  TextAt(S \union (at + 1 .. to)) = TextAt(S) \o Lex!Between(at, to)
<1> DEFINE n == to - at
           text == TextAt(S)
           Good == {j \in 0 .. n : TextAt(S \union (at + 1 .. at + j)) = text \o Lex!Between(at, at + j)}
<1>1. n \in Nat /\ at + 0 = at /\ at + n = to
  OBVIOUS
<1>2. text \in Seq(Lex!Char)
  BY TextOfPlaces
<1> HIDE DEF text
<1> HIDE DEF n
<1>3. 0 \in Good
  <2>1. at + 1 .. at + 0 = {}
    OBVIOUS
  <2>2. Lex!Between(at, at) = <<>>
    <3>1. at \in at .. Len(input) /\ at - at = 0
      OBVIOUS
    <3>2. Lex!Between(at, at) \in Seq(Lex!Char) /\ Len(Lex!Between(at, at)) = 0
      BY <3>1, Pieces
    <3>3. QED
      BY <3>2
  <2>3. text \o <<>> = text
    BY <1>2
  <2>4. S \union (at + 1 .. at + 0) = S
    BY <2>1, Zenon
  <2>5. 0 \in 0 .. n /\ TextAt(S \union (at + 1 .. at + 0)) = text
    <3>1. 0 \in 0 .. n
      BY <1>1
    <3>2. QED
      BY <2>4, <3>1 DEF text
  <2>6. Lex!Between(at, at + 0) = <<>>
    BY <1>1, <2>2
  <2>7. QED
    BY <2>3, <2>5, <2>6
<1> USE DEF n
<1>4. ASSUME NEW j \in 1 .. n, j - 1 \in Good PROVE j \in Good
  <2> DEFINE k == at + j
             before_ == S \union (at + 1 .. k - 1)
             piece == Lex!Between(at, k - 1)
  <2>1. k \in 1 .. Len(input) /\ k \in at + 1 .. Len(input) /\ at + (j - 1) = k - 1 /\ j \in 0 .. n
    OBVIOUS
  <2>2. before_ \in SUBSET (1 .. k - 1)
    BY <2>1
  <2>3. S \union (at + 1 .. k) = before_ \union {k}
    BY <2>1
  <2>4. TextAt(before_) = text \o piece
    BY <1>4, <2>1
  <2> HIDE DEF k, before_
  <2>5. piece \in Seq(Lex!Char) /\ Append(piece, input[k]) = Lex!Between(at, k) /\ input[k] \in Lex!Char
    BY <2>1, PieceNext
  <2>6. TextAt(before_ \union {k}) = Append(TextAt(before_), input[k])
    BY <2>1, <2>2, TextGrows
  <2> HIDE DEF piece
  <2>7. Append(text \o piece, input[k]) = text \o Append(piece, input[k])
    <3> DEFINE ch == input[k]
    <3>1. ch \in Lex!Char
      BY <2>5
    <3> HIDE DEF ch
    <3> DEFINE one == <<ch>>
    <3>2. text \o piece \in Seq(Lex!Char) /\ one \in Seq(Lex!Char)
      BY <1>2, <2>5, <3>1, ConcatProperties
    <3>3. /\ Append(text \o piece, ch) = (text \o piece) \o one
          /\ Append(piece, ch) = piece \o one
      BY <2>5, <3>1, <3>2, AppendIsConcat
    <3> HIDE DEF one
    <3>4. text \in Seq(Lex!Char) /\ piece \in Seq(Lex!Char)
      BY <1>2, <2>5
    <3>5. (text \o piece) \o one = text \o (piece \o one)
      BY ONLY <3>2, <3>4, ConcatAssociative
    <3>6. QED
      BY <3>3, <3>5 DEF ch
  <2>8. TextAt(S \union (at + 1 .. k)) = text \o Lex!Between(at, k)
    BY <2>3, <2>4, <2>5, <2>6, <2>7
  <2>9. QED
    BY <2>1, <2>8 DEF k
<1>5. Good = 0 .. n
  <2> HIDE DEF Good, n
  <2>1. Good \in SUBSET (0 .. n)
    BY DEF Good
  <2>2. QED
    BY <1>1, <1>3, <1>4, <2>1, UpTo
<1>6. n \in Good
  <2> HIDE DEF Good
  <2>1. QED
    BY <1>1, <1>5
<1>7. QED
  BY <1>1, <1>6 DEF text

----------------------------------------------------------------------------
(* The lexer: where the tokens stand in the line.                          *)

Delimiters == {k \in DOMAIN input : Delimits(k)}

\* The text of a word without its quotes.
Unquoted(segs) == FlattenSeq([j \in DOMAIN segs |-> segs[j].value])

\* A token that begins at a place of the line, and what it is made of there.
EndOf(token, at) == at + Len(token.literal) - 1
TokenAt(token, at) ==
  LET to == EndOf(token, at)
  IN  /\ at \in 1 .. Len(input) + 1 /\ to \in at - 1 .. Len(input)
      /\ token.literal = Lex!Between(at - 1, to)
      /\ token.type = "WORD" => /\ at \in WordStarts /\ WordFrom(at) = at .. to
                                /\ Unquoted(token.segments) = TextAt((at .. to) \ Delimiters)
      /\ token.type = "PIPE" => at = to /\ at \in BareAt({"|"})
      /\ token.type \in P!Redirections => at <= to /\ at .. to \subseteq BareAt({"<", ">"})
      /\ token.type = "END" => at = Len(input) + 1

\* Where each token begins: one behind the other, and nothing between them but
\* blanks.
Placed(toks, from, upto) ==
  /\ from \in Seq(Nat) /\ Len(from) = Len(toks)
  /\ \A k \in 1 .. Len(toks) : TokenAt(toks[k], from[k]) /\ EndOf(toks[k], from[k]) <= upto
  /\ \A j, k \in 1 .. Len(toks) : j < k => EndOf(toks[j], from[j]) < from[k]
  /\ \A p \in 1 .. upto : p \in BareAt(Lex!Blanks)
                          \/ \E k \in 1 .. Len(toks) : p \in from[k] .. EndOf(toks[k], from[k])

\* A word goes on up to the next separator.
Cut(k) == k = 0 \/ k = Len(input) \/ k \in Separators \/ k + 1 \in Separators
WordAtStart(from, k, segs) ==
  /\ from + 1 \in WordStarts /\ \A p \in from + 1 .. k : p \notin Separators
  /\ Unquoted(segs) = TextAt((from + 1 .. k) \ Delimiters)

PlacesInv ==
  \E toks, from, k, at, segs :
    /\ toks = tokens /\ k = i /\ at = start /\ segs = wordSegments
    /\ lexing = "tokens" => Placed(toks, from, k) /\ Cut(k)
    /\ lexing = "word" => Placed(toks, from, at) /\ WordAtStart(at, k, segs)
    /\ lexing = "done" => Placed(toks, from, k) /\ k = Len(input)

\* The places are those of the line, which stays.
LEMMA SamePlaces ==
  ASSUME input' = input
  PROVE  /\ \A toks, from, upto : Placed(toks, from, upto)' <=> Placed(toks, from, upto)
         /\ \A from, k, segs : WordAtStart(from, k, segs)' <=> WordAtStart(from, k, segs)
         /\ \A k : Cut(k)' <=> Cut(k)
<1>1. Lex!Open' = Lex!Open
  BY SameReading
<1>2. \A S : BareAt(S)' = BareAt(S)
  BY <1>1 DEF BareAt, Lex!Bare
<1>3. Separators' = Separators /\ Delimiters' = Delimiters
  BY <1>1, <1>2 DEF Separators, Delimiters, Delimits, Lex!Blanks, Lex!Operators, Lex!Quotes
<1>4. WordStarts' = WordStarts /\ \A k : WordFrom(k)' = WordFrom(k)
  BY <1>3 DEF WordStarts, WordFrom
<1>5. \A S : TextAt(S)' = TextAt(S)
  BY DEF TextAt
<1>6. \A token, at : TokenAt(token, at)' <=> TokenAt(token, at)
  <2> SUFFICES ASSUME NEW token, NEW at PROVE TokenAt(token, at)' <=> TokenAt(token, at)
    OBVIOUS
  <2>1. EndOf(token, at)' = EndOf(token, at) /\ Unquoted(token.segments)' = Unquoted(token.segments)
    BY DEF EndOf, Unquoted
  <2>2. Lex!Between(at - 1, EndOf(token, at))' = Lex!Between(at - 1, EndOf(token, at))
    BY <2>1 DEF Lex!Between
  <2>3. P!Redirections' = P!Redirections
    BY DEF P!Redirections
  <2>4. TextAt((at .. EndOf(token, at)) \ Delimiters)' = TextAt((at .. EndOf(token, at)) \ Delimiters)
    BY <1>3, <2>1 DEF TextAt
  <2>5. BareAt({"|"})' = BareAt({"|"}) /\ BareAt({"<", ">"})' = BareAt({"<", ">"})
    BY <1>2
  <2>6. QED
    BY <1>4, <2>1, <2>2, <2>3, <2>4, <2>5 DEF TokenAt
<1>7. ASSUME NEW toks, NEW from, NEW upto PROVE Placed(toks, from, upto)' <=> Placed(toks, from, upto)
  <2>1. BareAt(Lex!Blanks)' = BareAt(Lex!Blanks)
    BY <1>1 DEF BareAt, Lex!Bare, Lex!Blanks
  <2>2. QED
    BY <1>6, <2>1 DEF Placed, EndOf
<1>8. ASSUME NEW from, NEW k, NEW segs PROVE WordAtStart(from, k, segs)' <=> WordAtStart(from, k, segs)
  BY <1>3, <1>4, <1>5 DEF WordAtStart, Unquoted, TextAt
<1>9. \A k : Cut(k)' <=> Cut(k)
  BY <1>3 DEF Cut
<1>10. QED
  BY <1>7, <1>8, <1>9

\* Where the loop over tokens goes on,
LEMMA PlacesTokens ==
  ASSUME input' = input, lexing' = "tokens", NEW toks, NEW from, NEW k, toks = tokens', k = i',
         Placed(toks, from, k), Cut(k)
  PROVE  PlacesInv'
<1>1. Placed(toks, from, k)' /\ Cut(k)'
  BY SamePlaces
<1>2. QED
  BY <1>1 DEF PlacesInv

\* and where the loop over segments does.
LEMMA PlacesWord ==
  ASSUME input' = input, lexing' = "word", NEW toks, NEW from, NEW k, NEW at, NEW segs,
         toks = tokens', k = i', at = start', segs = wordSegments',
         Placed(toks, from, at), WordAtStart(at, k, segs)
  PROVE  PlacesInv'
<1>1. Placed(toks, from, at)' /\ WordAtStart(at, k, segs)'
  BY SamePlaces
<1>2. QED
  BY <1>1 DEF PlacesInv

\* One token more, behind those so far; and none, where only blanks are read.
LEMMA TokenPlaced ==
  ASSUME NEW toks \in Seq(Lex!Token), NEW from, NEW upto \in Nat, Placed(toks, from, upto),
         NEW token \in Lex!Token, NEW at \in Nat, NEW more \in Nat, TokenAt(token, at),
         upto < at, upto <= more, EndOf(token, at) <= more,
         \A p \in upto + 1 .. more : p \in BareAt(Lex!Blanks) \/ p \in at .. EndOf(token, at)
  PROVE  Placed(Append(toks, token), Append(from, at), more)
<1> DEFINE new == Append(toks, token)
           places == Append(from, at)
           n == Len(toks)
<1>1. /\ from \in Seq(Nat) /\ Len(from) = n /\ n \in Nat
      /\ \A k \in 1 .. n : TokenAt(toks[k], from[k]) /\ EndOf(toks[k], from[k]) <= upto
      /\ \A j, k \in 1 .. n : j < k => EndOf(toks[j], from[j]) < from[k]
      /\ \A p \in 1 .. upto : p \in BareAt(Lex!Blanks) \/ \E k \in 1 .. n : p \in from[k] .. EndOf(toks[k], from[k])
  BY DEF Placed
<1>2. new \in Seq(Lex!Token) /\ Len(new) = n + 1 /\ new[n + 1] = token /\ \A k \in 1 .. n : new[k] = toks[k]
  BY AppendProperties
<1>3. places \in Seq(Nat) /\ Len(places) = n + 1 /\ places[n + 1] = at /\ \A k \in 1 .. n : places[k] = from[k]
  BY <1>1, AppendProperties
<1> HIDE DEF new, places, n
<1>4. \A k \in 1 .. n + 1 : k = n + 1 \/ k \in 1 .. n
  BY <1>1
<1>5. \A k \in 1 .. n : k \in 1 .. n + 1
  BY <1>1
<1>6. ASSUME NEW k \in 1 .. n PROVE EndOf(toks[k], from[k]) \in Int
  <2>1. TokenAt(toks[k], from[k])
    BY <1>1
  <2>2. EndOf(toks[k], from[k]) \in from[k] - 1 .. Len(input) /\ from[k] \in Nat
    BY <1>1, <2>1 DEF TokenAt
  <2>3. QED
    BY <2>2
<1>7. \A k \in 1 .. n + 1 : TokenAt(new[k], places[k]) /\ EndOf(new[k], places[k]) <= more
  <2> SUFFICES ASSUME NEW k \in 1 .. n + 1 PROVE TokenAt(new[k], places[k]) /\ EndOf(new[k], places[k]) <= more
    OBVIOUS
  <2>1. CASE k = n + 1
    BY <1>2, <1>3, <2>1
  <2>2. CASE k \in 1 .. n
    <3>1. new[k] = toks[k] /\ places[k] = from[k] /\ EndOf(toks[k], from[k]) \in Int
      BY <1>2, <1>3, <1>6, <2>2
    <3>2. EndOf(toks[k], from[k]) <= upto /\ TokenAt(toks[k], from[k])
      BY <1>1, <2>2
    <3>3. QED
      BY <3>1, <3>2
  <2>3. QED
    BY <1>4, <2>1, <2>2
<1>8. \A j, k \in 1 .. n + 1 : j < k => EndOf(new[j], places[j]) < places[k]
  <2> SUFFICES ASSUME NEW j \in 1 .. n + 1, NEW k \in 1 .. n + 1, j < k
               PROVE  EndOf(new[j], places[j]) < places[k]
    OBVIOUS
  <2>1. j \in 1 .. n
    BY <1>1
  <2>2. new[j] = toks[j] /\ places[j] = from[j] /\ EndOf(toks[j], from[j]) \in Int /\ EndOf(toks[j], from[j]) <= upto
    BY <1>1, <1>2, <1>3, <1>6, <2>1
  <2>3. CASE k = n + 1
    BY <1>3, <2>2, <2>3
  <2>4. CASE k \in 1 .. n
    BY <1>1, <1>3, <2>1, <2>2, <2>4
  <2>5. QED
    BY <1>4, <2>3, <2>4
<1>9. ASSUME NEW p \in 1 .. more, p \notin BareAt(Lex!Blanks)
      PROVE  \E k \in 1 .. n + 1 : p \in places[k] .. EndOf(new[k], places[k])
  <2>1. CASE p \in 1 .. upto
    <3>1. PICK k \in 1 .. n : p \in from[k] .. EndOf(toks[k], from[k])
      BY <1>1, <1>9, <2>1
    <3>2. new[k] = toks[k] /\ places[k] = from[k] /\ k \in 1 .. n + 1
      BY <1>2, <1>3, <1>5
    <3>3. QED
      BY <3>1, <3>2
  <2>2. CASE p \in upto + 1 .. more
    <3>1. p \in at .. EndOf(token, at) /\ n + 1 \in 1 .. n + 1
      BY <1>1, <1>9, <2>2
    <3>2. QED
      BY <1>2, <1>3, <3>1
  <2>3. QED
    BY <2>1, <2>2
<1>10. QED
  BY <1>2, <1>3, <1>7, <1>8, <1>9 DEF Placed, new, places

\* Blanks make none.
LEMMA BlanksPlaced ==
  ASSUME NEW toks, NEW from, NEW upto \in Nat, Placed(toks, from, upto), NEW more \in Nat, upto <= more,
         toks \in Seq(Lex!Token), \A p \in upto + 1 .. more : p \in BareAt(Lex!Blanks)
  PROVE  Placed(toks, from, more)
<1>1. \A k \in 1 .. Len(toks) : TokenAt(toks[k], from[k]) /\ EndOf(toks[k], from[k]) <= upto
  BY DEF Placed
<1>2. ASSUME NEW k \in 1 .. Len(toks) PROVE EndOf(toks[k], from[k]) <= more
  <2>1. from[k] \in Nat
    BY DEF Placed
  <2>2. EndOf(toks[k], from[k]) \in from[k] - 1 .. Len(input)
    BY <1>1 DEF TokenAt
  <2>3. QED
    BY <1>1, <2>1, <2>2
<1>3. \A p \in 1 .. more : p \in 1 .. upto \/ p \in upto + 1 .. more
  OBVIOUS
<1>4. QED
  BY <1>1, <1>2, <1>3 DEF Placed

\* What the invariants say between two tokens.
LEMMA AtTokens ==
  ASSUME LexInv, SpellInv, PlacesInv, lexing = "tokens"
  PROVE  /\ input \in Seq(Lex!Char) /\ i \in 0 .. Len(input) /\ Len(input) \in Nat
         /\ tokens \in Seq(Lex!Token) /\ Lex!Open[i + 1] = "none"
         /\ (\E from : Placed(tokens, from, i)) /\ Cut(i)
  BY DEF LexInv, Lex!TypeOK, SpellInv, PlacesInv

\* A character behind blanks is where one was read.
LEMMA BlanksInPlace ==
  ASSUME LexInv, SpellInv, PlacesInv, Lex!SkipWhitespace
  PROVE  PlacesInv'
<1>1. lexing = "tokens" /\ UNCHANGED <<input, tokens, start, wordSegments, lexing>>
  BY DEF Lex!SkipWhitespace
<1>2. /\ input \in Seq(Lex!Char) /\ i \in 0 .. Len(input) /\ Len(input) \in Nat
      /\ tokens \in Seq(Lex!Token)
  BY <1>1, AtTokens
<1>3. PICK from : Placed(tokens, from, i)
  BY <1>1, AtTokens
<1>4. i' \in i + 1 .. Len(input) /\ \A k \in i + 1 .. i' : Lex!Bare(k, Lex!Blanks)
  BY BlanksRead
<1> DEFINE to == i'
<1>5. to \in Nat /\ i \in Nat /\ i <= to /\ to \in i + 1 .. to /\ \A k \in i + 1 .. to : k \in 1 .. Len(input)
  BY <1>2, <1>4
<1>6. \A k \in i + 1 .. to : k \in BareAt(Lex!Blanks)
  BY <1>2, <1>4, <1>5 DEF BareAt
<1>7. Cut(to)
  <2>1. to \in BareAt(Lex!Blanks)
    BY <1>5, <1>6
  <2>2. QED
    BY <2>1 DEF Cut, Separators, BareAt, Lex!Bare
<1> HIDE DEF to
<1>8. Placed(tokens, from, to)
  BY <1>2, <1>3, <1>5, <1>6, BlanksPlaced
<1> DEFINE toks == tokens
<1>9. toks = tokens' /\ to = i' /\ input' = input /\ lexing' = "tokens"
  BY <1>1 DEF to
<1>10. Placed(toks, from, to)
  BY <1>8
<1> HIDE DEF toks
<1>11. QED
  BY <1>7, <1>9, <1>10, PlacesTokens

\* The types the two kinds of operators have.
LEMMA OpTypesAre ==
  /\ Lex!GetOpType(<<"|">>) = "PIPE"
  /\ \A op \in {<<"<">>, <<">">>, <<"<", "<">>, <<">", ">">>} : Lex!GetOpType(op) \in P!Redirections
  /\ P!Redirections \cap {"WORD", "PIPE", "END"} = {}
<1>1. Lex!GetOpType(<<"|">>) = "PIPE"
  BY DEF Lex!GetOpType
<1>2. ASSUME NEW op \in {<<"<">>, <<">">>, <<"<", "<">>, <<">", ">">>}
      PROVE  Lex!GetOpType(op) \in P!Redirections
  BY DEF Lex!GetOpType, P!Redirections
<1>3. QED
  BY <1>1, <1>2 DEF P!Redirections

\* An operator stands where it was read, bare.
LEMMA OperatorInPlace ==
  ASSUME LexInv, SpellInv, PlacesInv, Lex!HandleOperator
  PROVE  PlacesInv'
<1> DEFINE ch == input[i + 1]
           twice == ch # "|" /\ i + 2 <= Len(input) /\ input[i + 2] = ch
           op == Lex!Between(i, i')
           token == Lex!CreateToken(Lex!GetOpType(op), op, <<>>)
           to == i'
           at == i + 1
           toks == tokens
<1>1. input \in Seq(Lex!Char) /\ i \in 0 .. Len(input)
  BY DEF LexInv, Lex!TypeOK
<1>2. /\ lexing = "tokens" /\ UNCHANGED <<input, start, wordSegments, lexing>>
      /\ tokens' = Append(tokens, token) /\ to \in i .. Len(input)
      /\ i < Len(input) /\ ch \in Lex!Operators
      /\ to = IF twice THEN i + 2 ELSE i + 1
      /\ op = IF twice THEN <<ch, ch>> ELSE <<ch>>
      /\ token \in Lex!Token /\ token.literal = op
  BY <1>1, OperatorCut
<1>3. token.type = Lex!GetOpType(op)
  BY DEF Lex!CreateToken
<1>4. Len(input) \in Nat /\ tokens \in Seq(Lex!Token) /\ Lex!Open[at] = "none"
  BY <1>2, AtTokens
<1>5. PICK from : Placed(tokens, from, i)
  BY <1>2, AtTokens
<1>6. ch \in {"|", "<", ">"} /\ ch \notin Lex!Quotes
  BY <1>2 DEF Lex!Operators, Lex!Quotes
<1>7. Len(op) = to - i /\ at \in 1 .. Len(input) /\ at \in Nat /\ to \in Nat /\ i \in Nat
      /\ (to = i + 1 \/ to = i + 2)
  <2>1. i \in Nat /\ Len(input) \in Nat /\ at \in 1 .. Len(input) /\ at \in Nat
    BY <1>1, <1>2
  <2> HIDE DEF op, to, twice, ch, at
  <2>2. CASE twice
    <3>1. to = i + 2 /\ op = <<ch, ch>>
      BY <1>2, <2>2
    <3>2. Len(op) = 2
      BY <3>1
    <3>3. QED
      BY <2>1, <3>1, <3>2
  <2>3. CASE ~twice
    <3>1. to = i + 1 /\ op = <<ch>>
      BY <1>2, <2>3
    <3>2. Len(op) = 1
      BY <3>1
    <3>3. QED
      BY <2>1, <3>1, <3>2
  <2>4. QED
    BY <2>2, <2>3
<1>8. Lex!Open[at + 1] = "none"
  <2>1. Lex!Open[at + 1] = Lex!OpenBehind(Lex!Open[at], input[at]) /\ Lex!Open[at] \in OpenSet
    <3> HIDE DEF at
    <3>1. QED
      BY <1>1, <1>7, OpenIs
  <2>2. QED
    BY <1>4, <1>6, <2>1, Quotation
<1>9. \A k \in at .. to : k \in DOMAIN input /\ input[k] = ch /\ Lex!Open[k] = "none"
  <2> SUFFICES ASSUME NEW k \in at .. to PROVE k \in DOMAIN input /\ input[k] = ch /\ Lex!Open[k] = "none"
    OBVIOUS
  <2>1. k \in 1 .. Len(input) /\ (k = i + 1 \/ k = i + 2)
    BY <1>2, <1>7
  <2>2. CASE k = i + 1
    BY <1>4, <2>1, <2>2
  <2>3. CASE k = i + 2
    <3>1. twice /\ at + 1 = k
      BY <1>1, <1>2, <1>7, <2>3
    <3>2. QED
      BY <1>8, <2>1, <2>3, <3>1
  <2>4. QED
    BY <2>1, <2>2, <2>3
<1> DEFINE type == token.type
<1>10. /\ ch = "|" => to = at /\ type = "PIPE"
       /\ ch \in {"<", ">"} => type \in P!Redirections
  <2>1. ch = "|" => op = <<"|">> /\ ~twice
    BY <1>2
  <2>2. ch \in {"<", ">"} => op \in {<<"<">>, <<">">>, <<"<", "<">>, <<">", ">">>}
    BY <1>2
  <2> HIDE DEF op, ch, twice, token
  <2>3. QED
    BY <1>2, <1>3, <2>1, <2>2, OpTypesAre
<1> HIDE DEF twice, token
<1>11. at .. to \subseteq BareAt({ch}) /\ at .. to \subseteq Separators
  BY <1>2, <1>9 DEF BareAt, Lex!Bare, Separators
<1>12. EndOf(token, at) = to
  <2> HIDE DEF op
  <2>1. QED
    BY <1>2, <1>7 DEF EndOf
<1>13. TokenAt(token, at)
  <2>1. at \in 1 .. Len(input) + 1 /\ to \in at - 1 .. Len(input) /\ at <= to
    BY <1>1, <1>2, <1>7
  <2>2. token.literal = Lex!Between(at - 1, to)
    <3>1. at - 1 = i
      BY <1>7
    <3> HIDE DEF at
    <3>2. QED
      BY <1>2, <3>1
  <2>3. CASE ch = "|"
    <3>1. type = "PIPE" /\ at = to /\ at \in BareAt({"|"})
      BY <1>10, <1>11, <2>1, <2>3
    <3> HIDE DEF at, to, op, ch
    <3>2. QED
      BY <1>12, <2>1, <2>2, <3>1, OpTypesAre DEF TokenAt
  <2>4. CASE ch \in {"<", ">"}
    <3>1. type \in P!Redirections /\ type \notin {"WORD", "PIPE", "END"}
      BY <1>10, <2>4, OpTypesAre
    <3>2. at .. to \subseteq BareAt({"<", ">"})
      BY <1>11, <2>4 DEF BareAt, Lex!Bare
    <3> HIDE DEF at, to, op, ch
    <3>3. QED
      BY <1>12, <2>1, <2>2, <3>1, <3>2 DEF TokenAt
  <2>5. QED
    BY <1>6, <2>3, <2>4
<1> DEFINE new == Append(tokens, token)
           places == Append(from, at)
<1>14. Placed(new, places, to)
  <2>1. i < at /\ i <= to /\ to <= to
    BY <1>7
  <2>2. \A p \in i + 1 .. to : p \in at .. EndOf(token, at)
    BY <1>12
  <2> HIDE DEF at, to, op, ch, type
  <2>3. QED
    BY <1>2, <1>4, <1>5, <1>7, <1>12, <1>13, <2>1, <2>2, TokenPlaced DEF at
<1>15. Cut(to)
  <2>1. to \in at .. to
    BY <1>7
  <2>2. QED
    BY <1>11, <2>1 DEF Cut
<1> HIDE DEF new, places
<1>16. new = tokens' /\ to = i' /\ input' = input /\ lexing' = "tokens"
  BY <1>2 DEF new
<1> HIDE DEF to
<1>17. QED
  BY <1>14, <1>15, <1>16, PlacesTokens

\* The text of a word with one segment more.
LEMMA UnquotedAppended ==
  ASSUME NEW segs \in Seq(Lex!Segment), NEW seg \in Lex!Segment
  PROVE  /\ Unquoted(Append(segs, seg)) = Unquoted(segs) \o seg.value
         /\ Unquoted(segs) \in Seq(Lex!Char) /\ seg.value \in Seq(Lex!Char)
<1> DEFINE more == Append(segs, seg)
           n == Len(segs)
           old == [j \in DOMAIN segs |-> segs[j].value]
           new == [j \in DOMAIN more |-> more[j].value]
           text == seg.value
           T == Seq(Lex!Char)
<1>1. n \in Nat /\ DOMAIN segs = 1 .. n /\ \A j \in 1 .. n : segs[j] \in Lex!Segment
  OBVIOUS
<1>2. /\ more \in Seq(Lex!Segment) /\ Len(more) = n + 1 /\ more[n + 1] = seg
      /\ \A j \in 1 .. n : more[j] = segs[j]
  BY AppendProperties
<1> HIDE DEF more
<1>3. DOMAIN more = 1 .. n + 1
  BY <1>2
<1> HIDE DEF n
<1>4. text \in T /\ \A j \in 1 .. n : segs[j].value \in T
  BY <1>1 DEF Lex!Segment
<1> HIDE DEF T, text
<1>5. old \in Seq(T) /\ Len(old) = n /\ \A j \in 1 .. n : old[j] = segs[j].value
  <2>1. old = [j \in 1 .. n |-> segs[j].value]
    BY <1>1
  <2> HIDE DEF old
  <2>2. QED
    BY <1>1, <1>4, <2>1
<1>6. new = [j \in 1 .. n + 1 |-> more[j].value]
  BY <1>3
<1> HIDE DEF old, new
<1> DEFINE longer == Append(old, text)
<1>7. /\ longer \in Seq(T) /\ Len(longer) = n + 1 /\ longer[n + 1] = text
      /\ \A j \in 1 .. n : longer[j] = old[j]
  BY <1>1, <1>4, <1>5, AppendProperties
<1> HIDE DEF longer
<1>8. new = longer
  <2>1. ASSUME NEW j \in 1 .. n + 1 PROVE more[j].value = longer[j]
    <3>1. CASE j = n + 1
      BY <1>2, <1>7, <3>1 DEF text
    <3>2. CASE j # n + 1
      <4>1. j \in 1 .. n
        BY <1>1, <3>2
      <4>2. QED
        BY <1>2, <1>5, <1>7, <4>1
    <3>3. QED
      BY <3>1, <3>2
  <2>2. longer = [j \in 1 .. n + 1 |-> longer[j]]
    BY <1>1, <1>7
  <2>3. QED
    BY <1>6, <2>1, <2>2
<1>9. FlattenSeq(new) = FlattenSeq(old) \o text /\ FlattenSeq(old) \in T
  BY <1>4, <1>5, <1>8, FlattenedOn DEF longer, T
<1>10. QED
  BY <1>4, <1>9 DEF old, new, text, more, T, Unquoted

\* No segment has none, and there is none at no place.
LEMMA NoText == Unquoted(<<>>) = <<>> /\ TextAt({}) = <<>>
<1>1. [j \in DOMAIN <<>> |-> <<>>[j].value] = <<>>
  OBVIOUS
<1>2. Unquoted(<<>>) = <<>>
  <2> DEFINE none == <<>>
  <2>1. Len(none) = 0
    OBVIOUS
  <2> HIDE DEF none
  <2>2. FlattenSeq(none) = none
    BY <2>1 DEF FlattenSeq
  <2>3. QED
    BY <1>1, <2>2 DEF none, Unquoted
<1>3. TextAt({}) = <<>>
  <2>1. InOrder({}) = <<>>
    BY OrderGrows
  <2>2. QED
    BY <2>1 DEF TextAt
<1>4. QED
  BY <1>2, <1>3

\* A character read outside quotes that is no blank and no operator is no
\* separator; a blank or an operator is one.
LEMMA Separates ==
  ASSUME NEW k \in DOMAIN input
  PROVE  /\ k \in Separators <=> Lex!Bare(k, Lex!Blanks \union Lex!Operators)
         /\ k \in Delimiters <=> Delimits(k)
  BY DEF Separators, BareAt, Delimiters

\* handle_word: a word begins here, and nothing of it is read yet.
LEMMA WordStartsInPlace ==
  ASSUME LexInv, SpellInv, PlacesInv, Lex!HandleWord
  PROVE  PlacesInv'
<1>1. /\ lexing = "tokens" /\ start' = i /\ wordSegments' = <<>> /\ lexing' = "word"
      /\ UNCHANGED <<input, i, tokens>>
      /\ ~Lex!AtEnd /\ ~Lex!At(Lex!Blanks \union Lex!Operators)
  BY DEF Lex!HandleWord
<1>2. /\ input \in Seq(Lex!Char) /\ i \in 0 .. Len(input) /\ Len(input) \in Nat
      /\ tokens \in Seq(Lex!Token) /\ Cut(i)
  BY <1>1, AtTokens
<1>3. PICK from : Placed(tokens, from, i)
  BY <1>1, AtTokens
<1> DEFINE k == i
           at == i + 1
           toks == tokens
           none == <<>>
<1>4. at \in DOMAIN input /\ at - 1 = i /\ input[at] \notin Lex!Blanks \union Lex!Operators /\ i # Len(input)
  BY <1>1, <1>2 DEF Lex!AtEnd, Lex!At, Lex!Next1
<1>5. at \notin Separators
  BY <1>4, Separates, NotBare
<1>6. at \in WordStarts
  <2>1. i = 0 => at = 1
    OBVIOUS
  <2> HIDE DEF at
  <2>2. i = 0 \/ at - 1 \in Separators
    BY <1>2, <1>4, <1>5 DEF Cut, at
  <2>3. QED
    BY <1>4, <1>5, <2>1, <2>2 DEF WordStarts
<1>7. WordAtStart(k, k, none)
  <2>1. k + 1 .. k = {}
    BY <1>2
  <2>2. Unquoted(none) = TextAt((k + 1 .. k) \ Delimiters)
    BY <2>1, NoText
  <2>3. QED
    BY <1>6, <2>1, <2>2 DEF WordAtStart
<1>8. Placed(toks, from, k)
  BY <1>3
<1>9. toks = tokens' /\ k = i' /\ k = start' /\ none = wordSegments' /\ input' = input /\ lexing' = "word"
  BY <1>1
<1> HIDE DEF k, toks, none, at
<1>10. QED
  BY <1>7, <1>8, <1>9, PlacesWord

\* What the invariants say inside a word.
LEMMA AtWord ==
  ASSUME LexInv, SpellInv, PlacesInv, lexing = "word"
  PROVE  /\ input \in Seq(Lex!Char) /\ i \in start .. Len(input) /\ Len(input) \in Nat
         /\ i \in 0 .. Len(input) /\ start \in 0 .. Len(input)
         /\ tokens \in Seq(Lex!Token) /\ Lex!Open[i + 1] = "none" /\ wordSegments \in Seq(Lex!Segment)
         /\ (\E from : Placed(tokens, from, start)) /\ WordAtStart(start, i, wordSegments)
<1>1. tokens \in Seq(Lex!Token)
  BY DEF LexInv, Lex!TypeOK
<1>2. (\E from : Placed(tokens, from, start)) /\ WordAtStart(start, i, wordSegments)
  BY DEF PlacesInv
<1>3. QED
  BY <1>1, <1>2, WordRead

\* A segment more: its value stands behind the word so far, at the places that
\* delimit no quote.
LEMMA SegmentInPlace ==
  ASSUME input \in Seq(Lex!Char), NEW from \in 0 .. Len(input), NEW at \in from .. Len(input),
         NEW segs \in Seq(Lex!Segment), WordAtStart(from, at, segs), NEW seg \in Lex!Segment,
         NEW first \in at .. Len(input), NEW last \in first .. Len(input), NEW to \in last .. Len(input),
         seg.value = Lex!Between(first, last),
         \A p \in at + 1 .. to : p \notin Separators /\ (p \in Delimiters <=> p \notin first + 1 .. last)
  PROVE  WordAtStart(from, to, Append(segs, seg))
<1> DEFINE S == (from + 1 .. at) \ Delimiters
<1>1. from + 1 \in WordStarts /\ Unquoted(segs) = TextAt(S) /\ \A p \in from + 1 .. at : p \notin Separators
  BY DEF WordAtStart
<1>2. \A p \in from + 1 .. to : p \notin Separators
  <2>1. \A p \in from + 1 .. to : p \in from + 1 .. at \/ p \in at + 1 .. to
    OBVIOUS
  <2>2. QED
    BY <1>1, <2>1
<1>3. (from + 1 .. to) \ Delimiters = S \union (first + 1 .. last)
  <2>1. \A p : p \in from + 1 .. to <=> p \in from + 1 .. at \/ p \in at + 1 .. to
    OBVIOUS
  <2>2. \A p \in first + 1 .. last : p \in at + 1 .. to
    OBVIOUS
  <2>3. QED
    BY <2>1, <2>2
<1>4. S \in SUBSET (1 .. first) /\ first \in 0 .. Len(input)
  OBVIOUS
<1> HIDE DEF S
<1>5. TextAt(S \union (first + 1 .. last)) = TextAt(S) \o Lex!Between(first, last)
  BY <1>4, TextGoesOn
<1>6. Unquoted(Append(segs, seg)) = Unquoted(segs) \o seg.value
  BY UnquotedAppended
<1>7. QED
  BY <1>1, <1>2, <1>3, <1>5, <1>6 DEF WordAtStart

\* extract_quoted_segment: all but the two quotes, which delimit.
LEMMA QuotedInPlace ==
  ASSUME LexInv, SpellInv, PlacesInv, Lex!QuotedSegment
  PROVE  PlacesInv'
<1> DEFINE quote == input[i + 1]
           close == Lex!RunEnd(i + 1, {quote})
           first == i + 1
           to == close + 1
           value == Lex!Between(i + 1, close)
           seg == [quote |-> Lex!QuoteType(quote), value |-> value]
           more == Append(wordSegments, seg)
           toks == tokens
           at == start
<1>1. /\ lexing = "word" /\ Lex!At(Lex!Quotes) /\ close < Len(input)
      /\ wordSegments' = more /\ i' = to
      /\ UNCHANGED <<input, tokens, start, lexing>>
  BY DEF Lex!QuotedSegment, Lex!Next1
<1>2. /\ quote \in Lex!Quotes /\ close \in first .. Len(input) /\ input[to] = quote /\ i < Len(input)
      /\ \A k \in first .. close : Lex!Open[k + 1] = quote
  BY <1>1, QuoteRead
<1>3. /\ input \in Seq(Lex!Char) /\ i \in start .. Len(input) /\ Len(input) \in Nat
      /\ i \in 0 .. Len(input) /\ start \in 0 .. Len(input) /\ i \in Nat /\ start \in Nat
      /\ Lex!Open[first] = "none" /\ wordSegments \in Seq(Lex!Segment)
      /\ WordAtStart(start, i, wordSegments)
  BY <1>1, AtWord
<1>4. PICK from : Placed(tokens, from, start)
  BY <1>1, AtWord
<1>5. /\ first \in i .. Len(input) /\ first \in 0 .. Len(input) /\ first = i + 1 /\ first \in Nat
      /\ to \in close .. Len(input) /\ to = close + 1 /\ to \in 1 .. Len(input) /\ close \in Nat
      /\ close \in first .. Len(input)
  <2> HIDE DEF close, quote
  <2>1. QED
    BY <1>1, <1>2, <1>3
<1>6. value = Lex!Between(first, close) /\ value \in Seq(Lex!Char)
  <2>1. value = Lex!Between(first, close)
    OBVIOUS
  <2> HIDE DEF close, value, first
  <2>2. QED
    BY <1>3, <1>5, <2>1, Pieces
<1>7. seg \in Lex!Segment /\ seg.value = value
  BY <1>6 DEF Lex!Segment, Lex!QuoteType
<1>8. quote # "none" /\ quote \in OpenSet /\ input[first] = quote
  BY <1>2 DEF Lex!Quotes, OpenSet
<1> HIDE DEF seg, value, close, quote
<1>9. Lex!Open[to] = quote /\ Lex!Open[to + 1] = "none"
  <2>1. close \in first .. close
    BY <1>5
  <2>2. Lex!Open[to] = quote
    BY <1>2, <2>1
  <2>3. Lex!Open[to + 1] = Lex!OpenBehind(Lex!Open[to], input[to])
    <3> HIDE DEF to
    <3>1. QED
      BY <1>3, <1>5, OpenIs
  <2>4. Lex!OpenBehind(Lex!Open[to], input[to]) = "none"
    <3> HIDE DEF to
    <3>1. QED
      BY <1>2, <1>8, <2>2, Quotation
  <2>5. QED
    BY <2>2, <2>3, <2>4
<1> HIDE DEF first, to
<1>10. ASSUME NEW p \in i + 1 .. to
       PROVE  p \notin Separators /\ (p \in Delimiters <=> p \notin first + 1 .. close)
  <2>1. p \in DOMAIN input /\ p \in Nat
    BY <1>3, <1>5
  <2>2. CASE p = first
    <3>1. Lex!Open[p] = "none" /\ input[p] \in Lex!Quotes
      BY <1>2, <1>3, <1>8, <2>2
    <3>2. p \notin first + 1 .. close
      BY <1>5, <2>2
    <3>3. QED
      BY <2>1, <3>1, <3>2, NotBare, Separates DEF Delimits
  <2>3. CASE p = to
    <3>1. Lex!Open[p] # "none" /\ Lex!Open[p + 1] = "none" /\ input[p] \in Lex!Quotes
      BY <1>2, <1>8, <1>9, <2>3
    <3>2. p \notin first + 1 .. close
      BY <1>5, <2>3
    <3>3. QED
      BY <2>1, <3>1, <3>2, NotBare, Separates DEF Delimits
  <2>4. CASE p # first /\ p # to
    <3>1. p \in first + 1 .. close /\ p - 1 \in first .. close /\ p - 1 + 1 = p /\ p \in first .. close
      BY <1>5, <2>1, <2>4
    <3>2. Lex!Open[p] = quote /\ Lex!Open[p + 1] = quote
      <4>1. Lex!Open[p - 1 + 1] = quote
        BY <1>2, <3>1
      <4>2. QED
        BY <1>2, <3>1, <4>1
    <3>3. QED
      BY <1>8, <2>1, <3>1, <3>2, NotBare, Separates DEF Delimits
  <2>5. QED
    BY <2>2, <2>3, <2>4
<1>11. WordAtStart(start, to, more)
  BY <1>3, <1>5, <1>6, <1>7, <1>10, SegmentInPlace
<1> HIDE DEF more
<1>12. Placed(toks, from, at) /\ WordAtStart(at, to, more)
  BY <1>4, <1>11
<1>13. toks = tokens' /\ to = i' /\ at = start' /\ more = wordSegments' /\ input' = input /\ lexing' = "word"
  BY <1>1
<1> HIDE DEF toks, at
<1>14. QED
  BY <1>12, <1>13, PlacesWord

\* extract_unquoted_segment: all that was read.
LEMMA UnquotedInPlace ==
  ASSUME LexInv, SpellInv, PlacesInv, Lex!UnquotedSegment
  PROVE  PlacesInv'
<1> DEFINE to == i'
           value == Lex!Between(i, to)
           seg == [quote |-> "none", value |-> value]
           more == Append(wordSegments, seg)
           toks == tokens
           at == start
<1>1. /\ lexing = "word" /\ wordSegments' = more
      /\ UNCHANGED <<input, tokens, start, lexing>>
  BY DEF Lex!UnquotedSegment
<1>2. /\ to \in i + 1 .. Len(input)
      /\ \A k \in i + 1 .. to : input[k] \notin Lex!Blanks \union Lex!Operators \union Lex!Quotes
  BY UnquotedRead
<1>3. /\ input \in Seq(Lex!Char) /\ i \in start .. Len(input) /\ Len(input) \in Nat
      /\ i \in 0 .. Len(input) /\ start \in 0 .. Len(input) /\ i \in Nat /\ start \in Nat
      /\ wordSegments \in Seq(Lex!Segment) /\ WordAtStart(start, i, wordSegments)
  BY <1>1, AtWord
<1>4. PICK from : Placed(tokens, from, start)
  BY <1>1, AtWord
<1>5. to \in i .. Len(input) /\ to \in to .. Len(input) /\ to \in 1 .. Len(input) /\ i \in i .. Len(input)
  BY <1>2, <1>3
<1>6. value \in Seq(Lex!Char)
  <2> HIDE DEF to
  <2>1. QED
    BY <1>3, <1>5, Pieces
<1>7. seg \in Lex!Segment /\ seg.value = value
  BY <1>6 DEF Lex!Segment
<1> HIDE DEF seg, to
<1>8. ASSUME NEW p \in i + 1 .. to
      PROVE  p \notin Separators /\ (p \in Delimiters <=> p \notin i + 1 .. to)
  <2>1. p \in DOMAIN input
    BY <1>3, <1>5
  <2>2. input[p] \notin Lex!Blanks \union Lex!Operators \union Lex!Quotes
    BY <1>2
  <2>3. QED
    BY <2>1, <2>2, NotBare, Separates DEF Delimits
<1>9. WordAtStart(start, to, more)
  <2>1. seg.value = Lex!Between(i, to)
    BY <1>7
  <2> HIDE DEF value
  <2>2. QED
    BY <1>3, <1>5, <1>7, <1>8, <2>1, SegmentInPlace
<1> HIDE DEF more
<1>10. Placed(toks, from, at) /\ WordAtStart(at, to, more)
  BY <1>4, <1>9
<1>11. toks = tokens' /\ to = i' /\ at = start' /\ more = wordSegments' /\ input' = input /\ lexing' = "word"
  BY <1>1 DEF to
<1> HIDE DEF toks, at
<1>12. QED
  BY <1>10, <1>11, PlacesWord

\* The word goes up to a separator or the end.
LEMMA WordInPlace ==
  ASSUME LexInv, SpellInv, PlacesInv, Lex!EndWord
  PROVE  PlacesInv'
<1> DEFINE piece == Lex!Between(start, i)
           token == Lex!CreateToken("WORD", piece, wordSegments)
           at == start + 1
           toks == tokens
           k == i
<1>1. /\ lexing = "word" /\ lexing' = "tokens" /\ tokens' = Append(tokens, token)
      /\ UNCHANGED <<input, i, start, wordSegments>>
      /\ Lex!AtEnd \/ Lex!At(Lex!Blanks \union Lex!Operators)
  BY DEF Lex!EndWord
<1>2. /\ input \in Seq(Lex!Char) /\ i \in start .. Len(input) /\ Len(input) \in Nat
      /\ i \in 0 .. Len(input) /\ start \in 0 .. Len(input) /\ i \in Nat /\ start \in Nat
      /\ wordSegments \in Seq(Lex!Segment) /\ tokens \in Seq(Lex!Token)
      /\ WordAtStart(start, i, wordSegments) /\ Lex!Open[i + 1] = "none"
  BY <1>1, AtWord
<1>3. PICK from : Placed(tokens, from, start)
  BY <1>1, AtWord
<1>4. i = Len(input) \/ i + 1 \in Separators
  <2>1. CASE i # Len(input)
    <3>1. input[i + 1] \in Lex!Blanks \union Lex!Operators /\ i + 1 \in DOMAIN input
      BY <1>1, <1>2, <2>1 DEF Lex!AtEnd, Lex!At, Lex!Next1
    <3>2. QED
      BY <1>2, <3>1, Separates DEF Lex!Bare
  <2>2. QED
    BY <2>1
<1>5. Cut(i)
  BY <1>4 DEF Cut
<1>6. piece \in Seq(Lex!Char) /\ Len(piece) = i - start
  BY <1>2, Pieces
<1>7. piece = Lex!Between(at - 1, i)
  <2>1. at - 1 = start
    BY <1>2
  <2>2. QED
    BY <2>1
<1> HIDE DEF piece
<1>8. /\ token \in Lex!Token /\ token.type = "WORD" /\ token.literal = piece /\ token.segments = wordSegments
  <2>1. "WORD" \in Lex!Types
    BY DEF Lex!Types
  <2>2. token \in Lex!Token /\ token.type = "WORD" /\ token.segments = wordSegments
    BY <1>2, <1>6, <2>1, TokenMade
  <2>3. QED
    BY <2>2 DEF Lex!CreateToken
<1> HIDE DEF token
<1>9. EndOf(token, at) = i
  BY <1>2, <1>6, <1>8 DEF EndOf
<1>10. /\ at \in WordStarts /\ \A p \in at .. i : p \notin Separators
       /\ Unquoted(wordSegments) = TextAt((at .. i) \ Delimiters)
  BY <1>2 DEF WordAtStart
<1>11. WordFrom(at) = at .. i
  <2>1. ASSUME NEW m \in at .. i PROVE m \in WordFrom(at)
    <3>1. m \in at .. Len(input) /\ \A p \in at .. m : p \in at .. i
      BY <1>2
    <3>2. QED
      BY <1>10, <3>1 DEF WordFrom
  <2>2. ASSUME NEW m \in WordFrom(at) PROVE m \in at .. i
    <3>1. m \in at .. Len(input) /\ at .. m \cap Separators = {}
      BY DEF WordFrom
    <3>2. CASE m > i
      <4>1. i + 1 \in at .. m /\ i # Len(input)
        BY <1>2, <3>1, <3>2
      <4>2. QED
        BY <1>4, <3>1, <4>1
    <3>3. QED
      BY <1>2, <3>1, <3>2
  <2>3. QED
    BY <2>1, <2>2
<1>12. at \in 1 .. Len(input) + 1 /\ i \in at - 1 .. Len(input) /\ at \in Nat /\ start < at
       /\ start <= i
  BY <1>2
<1> HIDE DEF at
<1>13. TokenAt(token, at)
  BY <1>7, <1>8, <1>9, <1>10, <1>11, <1>12, OpTypesAre DEF TokenAt
<1>14. \A p \in start + 1 .. i : p \in at .. EndOf(token, at)
  BY <1>9 DEF at
<1> DEFINE new == Append(tokens, token)
           places == Append(from, at)
<1>15. Placed(new, places, i)
  <2>1. EndOf(token, at) <= i /\ tokens \in Seq(Lex!Token) /\ start \in Nat /\ i \in Nat
    BY <1>2, <1>9
  <2>2. token \in Lex!Token /\ at \in Nat /\ start < at /\ start <= i
    BY <1>8, <1>12
  <2>3. QED
    BY <1>3, <1>13, <1>14, <2>1, <2>2, TokenPlaced
<1> HIDE DEF new, places
<1>16. Placed(new, places, k) /\ Cut(k)
  BY <1>5, <1>15
<1>17. new = tokens' /\ k = i' /\ input' = input /\ lexing' = "tokens"
  BY <1>1 DEF new
<1> HIDE DEF k
<1>18. QED
  BY <1>16, <1>17, PlacesTokens

\* Where the loop over tokens ends.
LEMMA PlacesEnd ==
  ASSUME input' = input, lexing' = "done", NEW toks, NEW from, NEW k, toks = tokens', k = i',
         Placed(toks, from, k), k = Len(input)
  PROVE  PlacesInv'
<1>1. Placed(toks, from, k)'
  BY SamePlaces
<1>2. QED
  BY <1>1 DEF PlacesInv

\* The END token stands behind the line.
LEMMA EndInPlace ==
  ASSUME LexInv, SpellInv, PlacesInv, Lex!End
  PROVE  PlacesInv'
<1> DEFINE token == Lex!CreateToken("END", <<>>, <<>>)
           at == i + 1
           k == i
<1>1. /\ lexing = "tokens" /\ i = Len(input) /\ lexing' = "done" /\ tokens' = Append(tokens, token)
      /\ UNCHANGED <<input, i>>
  BY DEF Lex!End, Lex!AtEnd
<1>2. /\ input \in Seq(Lex!Char) /\ i \in 0 .. Len(input) /\ Len(input) \in Nat /\ i \in Nat
      /\ tokens \in Seq(Lex!Token) /\ Cut(i)
  BY <1>1, AtTokens
<1>3. PICK from : Placed(tokens, from, i)
  BY <1>1, AtTokens
<1>4. token \in Lex!Token /\ token.literal = <<>> /\ token.type = "END"
  <2>1. "END" \in Lex!Types /\ <<>> \in Seq(Lex!Char) /\ <<>> \in Seq(Lex!Segment)
    BY DEF Lex!Types
  <2>2. token \in Lex!Token /\ token.type = "END"
    BY <2>1, TokenMade
  <2>3. QED
    BY <2>2 DEF Lex!CreateToken
<1> HIDE DEF token
<1>5. EndOf(token, at) = i
  <2>1. Len(token.literal) = 0
    BY <1>4
  <2>2. QED
    BY <1>2, <2>1 DEF EndOf
<1>6. Lex!Between(at - 1, i) = <<>>
  <2>1. at - 1 = i /\ i \in i .. Len(input) /\ i - i = 0
    BY <1>2
  <2>2. Lex!Between(i, i) \in Seq(Lex!Char) /\ Len(Lex!Between(i, i)) = i - i
    BY <1>2, <2>1, Pieces
  <2>3. QED
    BY <2>1, <2>2
<1>7. /\ at \in 1 .. Len(input) + 1 /\ i \in at - 1 .. Len(input) /\ at \in Nat /\ i < at
      /\ at = Len(input) + 1 /\ i + 1 .. i = {}
  BY <1>1, <1>2
<1> HIDE DEF at
<1>8. TokenAt(token, at)
  BY <1>4, <1>5, <1>6, <1>7, OpTypesAre DEF TokenAt
<1> DEFINE new == Append(tokens, token)
           places == Append(from, at)
<1>9. Placed(new, places, i)
  BY <1>2, <1>3, <1>4, <1>5, <1>7, <1>8, TokenPlaced
<1> HIDE DEF new, places
<1>10. Placed(new, places, k) /\ k = Len(input)
  BY <1>1, <1>9
<1>11. new = tokens' /\ k = i' /\ input' = input /\ lexing' = "done"
  BY <1>1 DEF new
<1> HIDE DEF k
<1>12. QED
  BY <1>10, <1>11, PlacesEnd

\* There is no token at first.
LEMMA PlacesInit == Lex!Init => PlacesInv
<1> SUFFICES ASSUME Lex!Init PROVE PlacesInv
  OBVIOUS
<1>1. lexing = "tokens" /\ i = 0 /\ tokens = <<>>
  BY DEF Lex!Init
<1>2. Placed(<<>>, <<>>, 0)
  <2>1. <<>> \in Seq(Nat) /\ Len(<<>>) = 0 /\ 1 .. 0 = {}
    OBVIOUS
  <2>2. QED
    BY <2>1 DEF Placed
<1>3. QED
  BY <1>1, <1>2 DEF PlacesInv, Cut

\* Every step of the lexer keeps them, and so does every step of the other two.
LEMMA PlacesNext == LexInv /\ SpellInv /\ PlacesInv /\ [Lex!Next]_lexVars => PlacesInv'
<1> SUFFICES ASSUME LexInv, SpellInv, PlacesInv, [Lex!Next]_lexVars PROVE PlacesInv'
  OBVIOUS
<1>1. CASE UNCHANGED lexVars
  <2>1. UNCHANGED <<input, i, tokens, start, wordSegments, lexing>>
    BY <1>1 DEF lexVars
  <2>2. PICK toks, from, k, at, segs :
          /\ toks = tokens /\ k = i /\ at = start /\ segs = wordSegments
          /\ lexing = "tokens" => Placed(toks, from, k) /\ Cut(k)
          /\ lexing = "word" => Placed(toks, from, at) /\ WordAtStart(at, k, segs)
          /\ lexing = "done" => Placed(toks, from, k) /\ k = Len(input)
    BY DEF PlacesInv
  <2>3. /\ toks = tokens' /\ k = i' /\ at = start' /\ segs = wordSegments'
        /\ lexing' = "tokens" => Placed(toks, from, k)' /\ Cut(k)'
        /\ lexing' = "word" => Placed(toks, from, at)' /\ WordAtStart(at, k, segs)'
        /\ lexing' = "done" => Placed(toks, from, k)' /\ k = Len(input')
    BY <2>1, <2>2, SamePlaces
  <2>4. QED
    BY <2>3 DEF PlacesInv
<1>2. CASE Lex!UnclosedQuote
  <2>1. lexing' = "unclosed"
    BY <1>2 DEF Lex!UnclosedQuote
  <2>2. QED
    BY <2>1 DEF PlacesInv
<1>3. QED
  BY <1>1, <1>2, BlanksInPlace, OperatorInPlace, WordStartsInPlace, EndInPlace, QuotedInPlace,
     UnquotedInPlace, WordInPlace DEF Lex!Next

----------------------------------------------------------------------------
(* What the places of the tokens say of the line.                          *)

\* Blanks, pipes and arrows outside quotes are three things.
LEMMA BareApart ==
  LET blanks == BareAt(Lex!Blanks)
      pipes == BareAt({"|"})
      arrows == BareAt({"<", ">"})
  IN  /\ Separators = blanks \union pipes \union arrows /\ Separators \subseteq DOMAIN input
      /\ pipes \cap blanks = {} /\ pipes \cap arrows = {} /\ arrows \cap blanks = {}
BY DEF Separators, BareAt, Lex!Bare, Lex!Blanks, Lex!Operators

\* Where the line is one of tokens, and where they stand.
LaidOut(from) == LexInv /\ lexing = "done" /\ Placed(tokens, from, Len(input))

\* Where a token of a line stands.
LEMMA TokenLies ==
  ASSUME NEW from, LaidOut(from), NEW k \in 1 .. Len(tokens)
  PROVE  LET to == EndOf(tokens[k], from[k])
         IN  /\ from[k] \in Nat /\ from[k] \in 1 .. Len(input) + 1 /\ to \in Int /\ to <= Len(input)
             /\ types[k] = tokens[k].type /\ (types[k] = "END" <=> k = Len(tokens))
             /\ k # Len(tokens) => types[k] \in {"WORD", "PIPE"} \union P!Redirections /\ from[k] <= to
             /\ types[k] = "WORD" => /\ from[k] \in WordStarts /\ WordFrom(from[k]) = from[k] .. to
                                     /\ \A p \in from[k] .. to : p \notin Separators
                                     /\ Unquoted(tokens[k].segments) = TextAt((from[k] .. to) \ Delimiters)
             /\ types[k] = "PIPE" => to = from[k] /\ from[k] \in BareAt({"|"})
             /\ types[k] \in P!Redirections => from[k] .. to \subseteq BareAt({"<", ">"})
             /\ tokens[k].literal = Lex!Between(from[k] - 1, to)
<1> DEFINE to == EndOf(tokens[k], from[k])
           at == from[k]
<1>1. /\ input \in Seq(Lex!Char) /\ Len(input) \in Nat /\ at \in Nat /\ TokenAt(tokens[k], at)
      /\ lexing = "done" /\ LexInv
  BY DEF LaidOut, Placed, LexInv, Lex!TypeOK
<1>2. /\ types \in P!TokenLists /\ DOMAIN types = DOMAIN tokens /\ tokens \in Seq(Lex!Token)
  BY <1>1, TokensFit DEF LexInv, Lex!TypeOK
<1>3. k \in DOMAIN tokens /\ types[k] = tokens[k].type
  BY <1>2 DEF types
<1>4. Len(types) = Len(tokens) /\ (types[k] = "END" <=> k = Len(tokens)) /\ types[k] \in P!Types
  <2>1. types \in Seq(P!Types) /\ \A m \in DOMAIN types : types[m] = "END" <=> m = Len(types)
    BY <1>2 DEF P!TokenLists
  <2>2. Len(types) = Len(tokens)
    BY <1>2, <2>1
  <2>3. QED
    BY <1>2, <1>3, <2>1, <2>2
<1>5. /\ at \in 1 .. Len(input) + 1 /\ to \in at - 1 .. Len(input)
      /\ tokens[k].literal = Lex!Between(at - 1, to)
      /\ types[k] = "WORD" => /\ at \in WordStarts /\ WordFrom(at) = at .. to
                              /\ Unquoted(tokens[k].segments) = TextAt((at .. to) \ Delimiters)
      /\ types[k] = "PIPE" => at = to /\ at \in BareAt({"|"})
      /\ types[k] \in P!Redirections => at <= to /\ at .. to \subseteq BareAt({"<", ">"})
  BY <1>1, <1>3 DEF TokenAt
<1> HIDE DEF to, at
<1>6. to \in Int /\ to <= Len(input) /\ at - 1 <= to
  BY <1>1, <1>5
<1>7. ASSUME types[k] = "WORD" PROVE at <= to /\ \A p \in at .. to : p \notin Separators
  <2>1. at \in DOMAIN input /\ at \notin Separators
    BY <1>5, <1>7 DEF WordStarts
  <2>2. at .. at = {at} /\ at \in at .. Len(input)
    BY <1>1, <2>1
  <2>3. at \in WordFrom(at)
    BY <2>1, <2>2 DEF WordFrom
  <2>4. at <= to
    BY <1>1, <1>5, <1>6, <1>7, <2>3
  <2>5. to \in at .. to
    BY <1>1, <1>6, <2>4
  <2>6. at .. to \cap Separators = {}
    BY <1>5, <1>7, <2>5 DEF WordFrom
  <2>7. QED
    BY <2>4, <2>6
<1>8. k # Len(tokens) => types[k] \in {"WORD", "PIPE"} \union P!Redirections
  BY <1>4 DEF P!Types
<1>9. k # Len(tokens) => at <= to
  BY <1>1, <1>5, <1>6, <1>7, <1>8
<1>10. QED
  BY <1>1, <1>3, <1>4, <1>5, <1>6, <1>7, <1>8, <1>9 DEF at, to

\* Its first and last place are numbers.
LEMMA TokenSpans ==
  ASSUME NEW from, LaidOut(from), NEW k \in 1 .. Len(tokens)
  PROVE  LET to == EndOf(tokens[k], from[k])
         IN  /\ from[k] \in Nat /\ 1 <= from[k] /\ from[k] - 1 <= Len(input) /\ to \in Int /\ to <= Len(input)
             /\ \A p \in from[k] .. to : p \in Int /\ from[k] <= p /\ p <= to
<1> DEFINE to == EndOf(tokens[k], from[k])
           at == from[k]
<1>1. Len(input) \in Nat
  BY DEF LaidOut, LexInv, Lex!TypeOK
<1>2. at \in Nat /\ at \in 1 .. Len(input) + 1 /\ to \in Int /\ to <= Len(input)
  BY TokenLies
<1> HIDE DEF at, to
<1>3. 1 <= at /\ at - 1 <= Len(input) /\ \A p \in at .. to : p \in Int /\ at <= p /\ p <= to
  BY <1>1, <1>2
<1>4. QED
  BY <1>2, <1>3 DEF at, to

\* The tokens are one behind the other.
LEMMA TokensGrow ==
  ASSUME NEW from, LaidOut(from), NEW j \in 1 .. Len(tokens), NEW k \in 1 .. Len(tokens), j < k
  PROVE  EndOf(tokens[j], from[j]) < from[k] /\ from[j] < from[k] /\ j # Len(tokens)
<1>1. EndOf(tokens[j], from[j]) < from[k]
  BY DEF LaidOut, Placed
<1>2. j # Len(tokens)
  <2>1. Len(tokens) \in Nat
    BY DEF LaidOut, LexInv, Lex!TypeOK
  <2>2. QED
    BY <2>1
<1>3. from[j] <= EndOf(tokens[j], from[j]) /\ from[j] \in Nat /\ EndOf(tokens[j], from[j]) \in Int
  BY <1>2, TokenLies
<1>4. from[k] \in Nat
  BY TokenLies
<1>5. QED
  BY <1>1, <1>2, <1>3, <1>4

\* And there are only blanks between them.
LEMMA PlaceIn ==
  ASSUME NEW from, LaidOut(from), NEW p \in 1 .. Len(input), p \notin BareAt(Lex!Blanks)
  PROVE  \E k \in 1 .. Len(tokens) :
           /\ p \in from[k] .. EndOf(tokens[k], from[k]) /\ k # Len(tokens)
           /\ types[k] = "WORD" => p \notin Separators
           /\ types[k] = "PIPE" => p = from[k] /\ p \in BareAt({"|"})
           /\ types[k] \in P!Redirections => p \in BareAt({"<", ">"})
           /\ types[k] \in {"WORD", "PIPE"} \union P!Redirections
<1>1. PICK k \in 1 .. Len(tokens) : p \in from[k] .. EndOf(tokens[k], from[k])
  BY DEF LaidOut, Placed
<1> DEFINE to == EndOf(tokens[k], from[k])
<1>a. from[k] \in Nat /\ to \in Int /\ p \in Nat /\ from[k] <= p /\ p <= to
  <2>1. p \in Nat
    BY DEF LaidOut, LexInv, Lex!TypeOK
  <2>2. QED
    BY <1>1, <2>1, TokenSpans
<1>2. /\ types[k] = "END" <=> k = Len(tokens)
      /\ k # Len(tokens) => types[k] \in {"WORD", "PIPE"} \union P!Redirections
      /\ types[k] = "WORD" => \A q \in from[k] .. to : q \notin Separators
      /\ types[k] = "PIPE" => to = from[k] /\ from[k] \in BareAt({"|"})
      /\ types[k] \in P!Redirections => from[k] .. to \subseteq BareAt({"<", ">"})
  BY TokenLies
<1>3. k # Len(tokens)
  <2>1. SUFFICES ASSUME k = Len(tokens) PROVE FALSE
    OBVIOUS
  <2>2. from[k] = Len(input) + 1
    <3>1. TokenAt(tokens[k], from[k]) /\ tokens[k].type = "END"
      BY <1>2, <2>1, TokenLies DEF LaidOut, Placed
    <3>2. QED
      BY <3>1 DEF TokenAt
  <2>3. Len(input) \in Nat
    BY DEF LaidOut, LexInv, Lex!TypeOK
  <2>4. to <= Len(input)
    BY TokenSpans
  <2>5. QED
    BY <1>a, <2>2, <2>3, <2>4
<1>4. types[k] = "PIPE" => p = from[k]
  BY <1>a, <1>2
<1> HIDE DEF to
<1>5. QED
  BY <1>1, <1>2, <1>3, <1>4 DEF to

\* A word begins where a token of that type does.
LEMMA WordsBegin ==
  ASSUME NEW from, LaidOut(from)
  PROVE  WordStarts = {from[k] : k \in {m \in 1 .. Len(tokens) : types[m] = "WORD"}}
<1>1. ASSUME NEW k \in 1 .. Len(tokens), types[k] = "WORD" PROVE from[k] \in WordStarts
  BY <1>1, TokenLies
<1>2. ASSUME NEW p \in WordStarts PROVE \E k \in 1 .. Len(tokens) : types[k] = "WORD" /\ p = from[k]
  <2>1. p \in 1 .. Len(input) /\ p \notin Separators /\ (p = 1 \/ p - 1 \in Separators)
    <3>1. DOMAIN input = 1 .. Len(input)
      BY DEF LaidOut, LexInv, Lex!TypeOK
    <3>2. QED
      BY <3>1 DEF WordStarts
  <2>2. p \notin BareAt(Lex!Blanks)
    BY <2>1, BareApart
  <2>3. PICK k \in 1 .. Len(tokens) :
           /\ p \in from[k] .. EndOf(tokens[k], from[k])
           /\ types[k] = "PIPE" => p = from[k] /\ p \in BareAt({"|"})
           /\ types[k] \in P!Redirections => p \in BareAt({"<", ">"})
           /\ types[k] \in {"WORD", "PIPE"} \union P!Redirections
    BY <2>1, <2>2, PlaceIn
  <2>4. types[k] = "WORD"
    BY <2>1, <2>3, BareApart
  <2>5. /\ \A q \in from[k] .. EndOf(tokens[k], from[k]) : q \notin Separators
        /\ from[k] \in Nat /\ from[k] \in 1 .. Len(input) + 1 /\ EndOf(tokens[k], from[k]) \in Int
    BY <2>4, TokenLies
  <2>6. CASE p # from[k]
    <3>1. p # 1 /\ p - 1 \in from[k] .. EndOf(tokens[k], from[k])
      BY <2>1, <2>3, <2>5, <2>6
    <3>2. QED
      BY <2>1, <2>5, <3>1
  <2>7. QED
    BY <2>4, <2>6
<1>3. QED
  BY <1>1, <1>2

\* A pipe outside quotes is a token.
LEMMA PipesAre ==
  ASSUME NEW from, LaidOut(from)
  PROVE  BareAt({"|"}) = {from[k] : k \in {m \in 1 .. Len(tokens) : types[m] = "PIPE"}}
<1>1. ASSUME NEW k \in 1 .. Len(tokens), types[k] = "PIPE" PROVE from[k] \in BareAt({"|"})
  BY <1>1, TokenLies
<1>2. ASSUME NEW p \in BareAt({"|"}) PROVE \E k \in 1 .. Len(tokens) : types[k] = "PIPE" /\ p = from[k]
  <2>1. p \in 1 .. Len(input) /\ p \in Separators /\ p \notin BareAt(Lex!Blanks) /\ p \notin BareAt({"<", ">"})
    <3>1. DOMAIN input = 1 .. Len(input)
      BY DEF LaidOut, LexInv, Lex!TypeOK
    <3>2. p \in DOMAIN input
      BY DEF BareAt
    <3>3. p \in Separators /\ p \notin BareAt(Lex!Blanks) /\ p \notin BareAt({"<", ">"})
      BY BareApart
    <3>4. QED
      BY <3>1, <3>2, <3>3
  <2>2. PICK k \in 1 .. Len(tokens) :
           /\ types[k] = "WORD" => p \notin Separators
           /\ types[k] = "PIPE" => p = from[k]
           /\ types[k] \in P!Redirections => p \in BareAt({"<", ">"})
           /\ types[k] \in {"WORD", "PIPE"} \union P!Redirections
    BY <2>1, PlaceIn
  <2>3. QED
    BY <2>1, <2>2
<1>3. QED
  BY <1>1, <1>2

\* The arrow a word is behind is the token before it.
LEMMA ArrowBefore ==
  ASSUME NEW from, LaidOut(from), NEW k \in 1 .. Len(tokens), types[k] = "WORD"
  PROVE  BehindArrow(from[k]) <=> k > 1 /\ types[k - 1] \in P!Redirections
<1>1. /\ Len(input) \in Nat /\ DOMAIN input = 1 .. Len(input) /\ Len(tokens) \in Nat
  BY DEF LaidOut, LexInv, Lex!TypeOK
<1>2. from[k] \in Nat /\ from[k] - 1 <= Len(input)
  BY TokenSpans
<1>3. ASSUME k > 1, types[k - 1] \in P!Redirections PROVE BehindArrow(from[k])
  <2> DEFINE j == k - 1
             a == EndOf(tokens[j], from[j])
  <2>1. j \in 1 .. Len(tokens) /\ j < k
    BY <1>1, <1>3
  <2> HIDE DEF j
  <2>2. /\ types[j] \in P!Redirections /\ a < from[k] /\ a \in Int /\ from[j] \in Nat
        /\ from[j] <= a /\ from[j] .. a \subseteq BareAt({"<", ">"})
    <3>1. j # Len(tokens) /\ a < from[k]
      BY <2>1, TokensGrow
    <3>2. types[j] \in P!Redirections
      BY <1>3 DEF j
    <3>3. QED
      BY <2>1, <3>1, <3>2, TokenLies
  <2>3. a \in BareAt({"<", ">"})
    <3>1. a \in from[j] .. a
      BY <2>2
    <3>2. QED
      BY <2>2, <3>1
  <2>4. ASSUME NEW p \in a + 1 .. from[k] - 1, p \notin BareAt(Lex!Blanks) PROVE FALSE
    <3>1. p \in 1 .. Len(input) /\ p \in Int /\ a < p /\ p < from[k]
      BY <1>1, <1>2, <2>2
    <3>2. PICK m \in 1 .. Len(tokens) : p \in from[m] .. EndOf(tokens[m], from[m])
      BY <2>4, <3>1, PlaceIn
    <3>3. from[m] \in Nat /\ EndOf(tokens[m], from[m]) \in Int /\ from[m] <= p /\ p <= EndOf(tokens[m], from[m])
      BY <3>2, TokenSpans
    <3>4. m = j \/ m < j \/ m = k \/ k < m
      BY <1>1 DEF j
    <3>5. CASE m = j
      BY <2>2, <3>1, <3>3, <3>5
    <3>6. CASE m < j
      <4>1. EndOf(tokens[m], from[m]) < from[j]
        BY <2>1, <3>6, TokensGrow
      <4>2. QED
        BY <2>2, <3>1, <3>3, <4>1
    <3>7. CASE m = k
      BY <1>2, <3>1, <3>3, <3>7
    <3>8. CASE k < m
      <4>1. from[k] < from[m]
        BY <3>8, TokensGrow
      <4>2. QED
        BY <1>2, <3>1, <3>3, <4>1
    <3>9. QED
      BY <3>4, <3>5, <3>6, <3>7, <3>8
  <2> HIDE DEF a
  <2>5. QED
    BY <2>2, <2>3, <2>4 DEF BehindArrow
<1>4. ASSUME BehindArrow(from[k]) PROVE k > 1 /\ types[k - 1] \in P!Redirections
  <2>1. PICK a \in BareAt({"<", ">"}) : a < from[k] /\ a + 1 .. from[k] - 1 \subseteq BareAt(Lex!Blanks)
    BY <1>4 DEF BehindArrow
  <2>2. a \in 1 .. Len(input) /\ a \in Separators /\ a \notin BareAt(Lex!Blanks) /\ a \notin BareAt({"|"})
    BY <1>1, BareApart
  <2>3. PICK j \in 1 .. Len(tokens) :
           /\ a \in from[j] .. EndOf(tokens[j], from[j])
           /\ types[j] = "WORD" => a \notin Separators
           /\ types[j] = "PIPE" => a \in BareAt({"|"})
           /\ types[j] \in {"WORD", "PIPE"} \union P!Redirections
    BY <2>2, PlaceIn
  <2>4. types[j] \in P!Redirections
    BY <2>2, <2>3
  <2>5. from[j] \in Nat /\ EndOf(tokens[j], from[j]) \in Int /\ from[j] <= a /\ a <= EndOf(tokens[j], from[j])
    BY <2>3, TokenSpans
  <2>6. j < k
    <3>1. CASE j = k
      BY <1>2, <2>1, <2>2, <2>5, <3>1
    <3>2. CASE k < j
      <4>1. from[k] < from[j]
        BY <3>2, TokensGrow
      <4>2. QED
        BY <1>2, <2>1, <2>2, <2>5, <4>1
    <3>3. QED
      BY <3>1, <3>2
  <2>7. j = k - 1
    <3> SUFFICES ASSUME j # k - 1 PROVE FALSE
      OBVIOUS
    <3> DEFINE m == k - 1
    <3>1. m \in 1 .. Len(tokens) /\ j < m /\ m < k /\ m # Len(tokens)
      BY <1>1, <2>6
    <3> HIDE DEF m
    <3>2. EndOf(tokens[j], from[j]) < from[m]
      BY <3>1, TokensGrow
    <3>3. from[m] < from[k]
      BY <3>1, TokensGrow
    <3> DEFINE to == EndOf(tokens[m], from[m])
    <3>4. /\ from[m] \in Nat /\ to \in Int /\ from[m] <= to
          /\ types[m] \in {"WORD", "PIPE"} \union P!Redirections
          /\ types[m] = "WORD" => \A p \in from[m] .. to : p \notin Separators
          /\ types[m] = "PIPE" => from[m] \in BareAt({"|"})
          /\ types[m] \in P!Redirections => from[m] .. to \subseteq BareAt({"<", ">"})
      BY <3>1, TokenLies
    <3>5. from[m] \in from[m] .. to
      BY <3>4
    <3>6. from[m] \notin BareAt(Lex!Blanks)
      BY <3>4, <3>5, BareApart
    <3>7. from[m] \in a + 1 .. from[k] - 1
      BY <1>2, <2>2, <2>5, <3>2, <3>3, <3>4
    <3>8. QED
      BY <2>1, <3>6, <3>7
  <2>8. QED
    BY <1>1, <2>4, <2>6, <2>7
<1>5. QED
  BY <1>3, <1>4

\* Where the tokens are, in the order they have.
LEMMA InTokenOrder ==
  ASSUME NEW from, LaidOut(from)
  PROVE  /\ Len(tokens) \in Nat /\ from \in [1 .. Len(tokens) -> Nat]
         /\ \A k, m \in 1 .. Len(tokens) : k < m => from[k] < from[m]
<1>1. Len(tokens) \in Nat /\ from \in Seq(Nat) /\ Len(from) = Len(tokens)
  BY DEF LaidOut, Placed, LexInv, Lex!TypeOK
<1>2. from \in [1 .. Len(tokens) -> Nat]
  BY <1>1
<1>3. QED
  BY <1>1, <1>2, TokensGrow

\* The pipes before a token, counted in the line and in the tokens.
LEMMA PipesCounted ==
  ASSUME NEW from, LaidOut(from)
  PROVE  /\ \A k \in 1 .. Len(tokens) :
              P!CommandOf(k) \in Nat /\ Cardinality({p \in BareAt({"|"}) : p < from[k]}) = P!CommandOf(k) - 1
         /\ Cardinality(BareAt({"|"})) = P!CommandOf(Len(tokens)) - 1
         /\ Len(tokens) \in 1 .. Len(tokens)
<1> DEFINE n == Len(tokens)
           Pipes(k) == {m \in 1 .. k - 1 : types[m] = "PIPE"}
           Before(k) == {p \in BareAt({"|"}) : p < from[k]}
<1>1. n \in Nat /\ n \in 1 .. n /\ types[n] = "END"
  <2>1. types \in P!TokenLists /\ DOMAIN types = DOMAIN tokens /\ DOMAIN tokens = 1 .. n /\ n \in Nat
    BY TokensFit DEF LaidOut, LexInv, Lex!TypeOK
  <2>2. types \in Seq(P!Types) /\ types # <<>> /\ Len(types) = n
    BY <2>1 DEF P!TokenLists
  <2>3. n # 0
    BY <2>2
  <2>4. n \in 1 .. n
    BY <2>1, <2>3
  <2>5. QED
    BY <2>1, <2>4, TokenLies
<1>2. from \in [1 .. n -> Nat] /\ \A k, m \in 1 .. n : k < m => from[k] < from[m]
  BY InTokenOrder
<1>3. BareAt({"|"}) = {from[k] : k \in {m \in 1 .. n : types[m] = "PIPE"}}
  BY PipesAre
<1> HIDE DEF n
<1>4. ASSUME NEW k \in 1 .. n
      PROVE  /\ Pipes(k) \in SUBSET (1 .. n) /\ Before(k) = {from[m] : m \in Pipes(k)}
  <2>1. Pipes(k) \in SUBSET (1 .. n)
    BY <1>1
  <2>2. ASSUME NEW m \in 1 .. n, from[m] < from[k] PROVE m \in 1 .. k - 1
    <3>1. k < m => from[k] < from[m]
      BY <1>2
    <3>2. from[m] \in Nat /\ from[k] \in Nat
      BY <1>2
    <3>3. QED
      BY <1>1, <2>2, <3>1, <3>2
  <2>3. ASSUME NEW m \in 1 .. k - 1 PROVE m \in 1 .. n /\ from[m] < from[k]
    <3>1. m \in 1 .. n /\ m < k
      BY <1>1
    <3>2. QED
      BY <1>2, <3>1
  <2>4. QED
    BY <1>3, <2>1, <2>2, <2>3
<1>5. ASSUME NEW k \in 1 .. n
      PROVE  Cardinality(Before(k)) = Cardinality(Pipes(k)) /\ Cardinality(Pipes(k)) \in Nat
  <2>1. Cardinality({from[m] : m \in Pipes(k)}) = Cardinality(Pipes(k))
    <3>1. Pipes(k) \in SUBSET (1 .. n)
      BY <1>4
    <3> HIDE DEF Pipes
    <3>2. QED
      BY <1>1, <1>2, <3>1, OrderOfImage
  <2>2. IsFiniteSet(Pipes(k))
    <3>1. IsFiniteSet(1 .. n) /\ Pipes(k) \in SUBSET (1 .. n)
      BY <1>1, <1>4, FS_Interval
    <3> HIDE DEF Pipes
    <3>2. QED
      BY <3>1, FS_Subset
  <2> HIDE DEF Pipes, Before
  <2>3. QED
    BY <1>4, <2>1, <2>2, FS_CardinalityType
<1>6. ASSUME NEW k \in 1 .. n
      PROVE  P!CommandOf(k) \in Nat /\ Cardinality(Before(k)) = P!CommandOf(k) - 1
  <2>1. P!CommandOf(k) = 1 + Cardinality(Pipes(k))
    BY SameOrder DEF P!CommandOf
  <2> HIDE DEF Pipes, Before
  <2>2. QED
    BY <1>5, <2>1
<1>7. BareAt({"|"}) = Before(n)
  <2>1. ASSUME NEW m \in 1 .. n, types[m] = "PIPE" PROVE from[m] < from[n]
    <3>1. m < n
      BY <1>1, <2>1
    <3>2. QED
      BY <1>1, <1>2, <3>1
  <2>2. QED
    BY <1>3, <2>1
<1> HIDE DEF Before
<1>8. QED
  BY <1>1, <1>6, <1>7 DEF n, Before

\* The arguments of a command are the words of its part of the line.
LEMMA ArgumentsAre ==
  ASSUME NEW from, LaidOut(from), NEW n \in Nat
  PROVE  LET words == P!WordsIn(n, Len(tokens))
             order == InOrder(words)
         IN  /\ words \in SUBSET (1 .. Len(tokens))
             /\ \A k \in words : types[k] = "WORD"
             /\ InOrder(ArgumentsIn(n)) = [m \in DOMAIN order |-> from[order[m]]]
<1> DEFINE words == P!WordsIn(n, Len(tokens))
<1>1. words \in SUBSET (1 .. Len(tokens)) /\ \A k \in words : types[k] = "WORD"
  BY DEF P!WordsIn, P!Part
<1>2. ASSUME NEW k \in 1 .. Len(tokens), types[k] = "WORD"
      PROVE  from[k] \in ArgumentsIn(n) <=> k \in words
  <2>1. from[k] \in WordStarts
    BY <1>2, TokenLies
  <2>2. Cardinality({p \in BareAt({"|"}) : p < from[k]}) = P!CommandOf(k) - 1 /\ P!CommandOf(k) \in Nat
    BY PipesCounted
  <2>3. from[k] \in StartsIn(n) <=> P!CommandOf(k) = n
    <3> DEFINE count == Cardinality({p \in BareAt({"|"}) : p < from[k]})
    <3>1. from[k] \in StartsIn(n) <=> count = n - 1
      BY <2>1 DEF StartsIn
    <3>2. count = P!CommandOf(k) - 1
      BY <2>2
    <3> HIDE DEF count
    <3>3. QED
      BY <2>2, <3>1, <3>2
  <2>4. BehindArrow(from[k]) <=> k > 1 /\ types[k - 1] \in P!Redirections
    BY <1>2, ArrowBefore
  <2>5. k \in words <=> P!CommandOf(k) = n /\ (k > 1 => types[k - 1] \notin P!Redirections)
    BY <1>2 DEF P!WordsIn, P!Part
  <2>6. QED
    BY <2>3, <2>4, <2>5 DEF ArgumentsIn
<1>3. ArgumentsIn(n) = {from[k] : k \in words}
  <2>1. \A p \in ArgumentsIn(n) : \E k \in 1 .. Len(tokens) : types[k] = "WORD" /\ p = from[k]
    BY WordsBegin DEF ArgumentsIn, StartsIn
  <2> HIDE DEF words
  <2>2. QED
    BY <1>1, <1>2, <2>1
<1>4. /\ Len(tokens) \in Nat /\ from \in [1 .. Len(tokens) -> Nat]
      /\ \A k, m \in 1 .. Len(tokens) : k < m => from[k] < from[m]
  BY InTokenOrder
<1> HIDE DEF words
<1>5. InOrder({from[k] : k \in words}) = [m \in DOMAIN InOrder(words) |-> from[InOrder(words)[m]]]
  BY <1>1, <1>4, OrderOfImage
<1>6. QED
  BY <1>1, <1>3, <1>5 DEF words

\* The text of a word is its literal.
LEMMA WordIsLiteral ==
  ASSUME NEW from, LaidOut(from), NEW k \in 1 .. Len(tokens), types[k] = "WORD"
  PROVE  /\ TextAt(WordFrom(from[k])) = tokens[k].literal
         /\ TextAt(WordFrom(from[k]) \ Delimiters) = Unquoted(tokens[k].segments)
<1> DEFINE to == EndOf(tokens[k], from[k])
           at == from[k]
           start_ == at - 1
<1>1. /\ WordFrom(at) = at .. to /\ tokens[k].literal = Lex!Between(at - 1, to)
      /\ Unquoted(tokens[k].segments) = TextAt((at .. to) \ Delimiters)
      /\ at \in WordStarts
  BY TokenLies
<1>2. /\ input \in Seq(Lex!Char) /\ Len(input) \in Nat
      /\ at \in Nat /\ 1 <= at /\ at - 1 <= Len(input) /\ to \in Int /\ to <= Len(input)
  BY TokenSpans DEF LaidOut, LexInv, Lex!TypeOK
<1>3. at <= to
  <2>1. k # Len(tokens)
    <3>1. types[k] # "END"
      OBVIOUS
    <3>2. QED
      BY <3>1, TokenLies
  <2>2. QED
    BY <2>1, TokenLies
<1> HIDE DEF to, at
<1>4. start_ \in 0 .. Len(input) /\ to \in start_ .. Len(input) /\ start_ + 1 = at /\ {} \in SUBSET (1 .. start_)
  BY <1>2, <1>3
<1> HIDE DEF start_
<1>5. TextAt({} \union (start_ + 1 .. to)) = TextAt({}) \o Lex!Between(start_, to)
  BY <1>2, <1>4, TextGoesOn
<1>6. TextAt(at .. to) = Lex!Between(start_, to)
  <2>1. {} \union (start_ + 1 .. to) = at .. to
    BY <1>4
  <2>2. Lex!Between(start_, to) \in Seq(Lex!Char)
    BY <1>2, <1>4, Pieces
  <2>3. <<>> \o Lex!Between(start_, to) = Lex!Between(start_, to)
    BY <2>2
  <2>4. QED
    BY <1>5, <2>1, <2>3, NoText
<1>7. QED
  BY <1>1, <1>6 DEF at, start_

\* The file of a redirection is a word behind an arrow, in the same command.
LEMMA FileIsWord ==
  ASSUME NEW from, LaidOut(from), NEW k \in 1 .. Len(tokens), types[k] \in P!Redirections,
         k + 1 \in 1 .. Len(tokens), types[k + 1] = "WORD"
  PROVE  /\ from[k + 1] \in FilesIn(P!CommandOf(k))
         /\ TextAt(WordFrom(from[k + 1])) = tokens[k + 1].literal
<1> DEFINE m == k + 1
           count == Cardinality({p \in BareAt({"|"}) : p < from[m]})
<1>1. m \in 1 .. Len(tokens) /\ m - 1 = k /\ m > 1 /\ types[m] = "WORD" /\ k \in Nat
  <2>1. Len(tokens) \in Nat
    BY InTokenOrder
  <2>2. QED
    BY <2>1
<1>2. P!CommandOf(m) = P!CommandOf(k)
  <2>1. types[k] # "PIPE"
    BY OpTypesAre
  <2>2. {j \in 1 .. m - 1 : types[j] = "PIPE"} = {j \in 1 .. k - 1 : types[j] = "PIPE"}
    <3>1. \A j \in 1 .. m - 1 : j \in 1 .. k - 1 \/ j = k
      BY <1>1
    <3>2. \A j \in 1 .. k - 1 : j \in 1 .. m - 1
      BY <1>1
    <3>3. QED
      BY <2>1, <3>1, <3>2
  <2>3. QED
    BY <2>2 DEF P!CommandOf
<1> HIDE DEF m
<1>3. count = P!CommandOf(m) - 1
  BY <1>1, PipesCounted
<1>4. from[m] \in WordStarts
  BY <1>1, TokenLies
<1>5. BehindArrow(from[m])
  BY <1>1, ArrowBefore
<1>6. from[m] \in FilesIn(P!CommandOf(k))
  BY <1>2, <1>3, <1>4, <1>5 DEF FilesIn, StartsIn
<1>7. TextAt(WordFrom(from[m])) = tokens[m].literal
  BY <1>1, WordIsLiteral
<1>8. QED
  BY <1>6, <1>7 DEF m

----------------------------------------------------------------------------
(* The expander on a line without variables.                               *)

\* A text without a variable.
NoDollar(str) == \A k \in DOMAIN str : str[k] # "$"

\* One element of a sequence.
LEMMA OneOf ==
  ASSUME NEW T, NEW s \in Seq(T), NEW k \in 1 .. Len(s)
  PROVE  SubSeq(s, k, k) = <<s[k]>> /\ <<s[k]>> \in Seq(T)
<1> DEFINE one == SubSeq(s, k, k)
<1>1. one \in Seq(T) /\ Len(one) = 1 /\ one[1] = s[k]
  OBVIOUS
<1> HIDE DEF one
<1>2. one = <<one[1]>>
  BY <1>1
<1>3. QED
  BY <1>1, <1>2 DEF one

\* It is expanded to itself.
LEMMA PlainText ==
  ASSUME NEW str \in Exp!Text, NoDollar(str), NEW st
  PROVE  Exp!ExpandTextAt(str, st) = str
<1> DEFINE n == Len(str)
           turn == [k \in 1 .. n |-> [adds |-> <<str[k]>>, next |-> k + 1]]
           f == CHOOSE g : Goes(n, turn, g)
           Good == {j \in 0 .. n : f[(n + 1) - j] = SubSeq(str, (n + 1) - j, n)}
<1>1. n \in Nat /\ DOMAIN str = 1 .. n /\ \A k \in 1 .. n : str[k] \in Exp!Char
  BY DEF Exp!Text
<1>2. \A k \in 1 .. n : Exp!ExpandTurn(str, k, st) = [adds |-> <<str[k]>>, next |-> k + 1]
  BY <1>1 DEF Exp!ExpandTurn, NoDollar
<1>3. [k \in DOMAIN str |-> Exp!ExpandTurn(str, k, st)] = turn
  BY <1>1, <1>2
<1>4. Len(turn) = n
  BY <1>1
<1>5. \A k \in 1 .. n : turn[k].adds = <<str[k]>> /\ turn[k].next = k + 1
  OBVIOUS
<1> HIDE DEF turn
<1>6. Exp!ExpandTextAt(str, st) = f[1]
  <2>1. Exp!ExpandTextAt(str, st) = Exp!Loop(turn)
    BY <1>3 DEF Exp!ExpandTextAt
  <2> HIDE DEF n
  <2>2. Exp!Loop(turn) = (CHOOSE g : Goes(n, turn, g))[1]
    BY <1>4 DEF Exp!Loop, Goes
  <2>3. QED
    BY <2>1, <2>2
<1>7. Goes(n, turn, f)
  <2>1. \A k \in 1 .. n : turn[k].adds \in Seq(Exp!Char) /\ turn[k].next \in k + 1 .. n + 1
    <3>1. \A k \in 1 .. n : <<str[k]>> \in Seq(Exp!Char)
      BY OneOf DEF Exp!Text
    <3>2. \A k \in 1 .. n : k + 1 \in k + 1 .. n + 1
      BY <1>1
    <3> HIDE DEF n
    <3>3. QED
      BY <1>5, <3>1, <3>2
  <2> HIDE DEF n
  <2>2. \E g : Goes(n, turn, g)
    BY <1>1, <2>1, LoopEnds
  <2>3. QED
    BY <2>2
<1> HIDE DEF f
<1>8. /\ f[n + 1] = <<>>
      /\ \A k \in 1 .. n : f[k] = <<str[k]>> \o f[k + 1]
  <2>1. \A k \in 1 .. n + 1 : f[k] = IF k > n THEN <<>> ELSE turn[k].adds \o f[turn[k].next]
    BY <1>7 DEF Goes
  <2>2. n + 1 \in 1 .. n + 1 /\ n + 1 > n /\ \A k \in 1 .. n : k \in 1 .. n + 1 /\ ~(k > n)
    BY <1>1
  <2>3. QED
    BY <1>5, <2>1, <2>2
<1>9. 0 \in Good
  <2>1. SubSeq(str, n + 1, n) = <<>>
    BY <1>1 DEF Exp!Text
  <2>2. 0 \in 0 .. n /\ (n + 1) - 0 = n + 1
    BY <1>1
  <2>3. QED
    BY <1>8, <2>1, <2>2
<1>10. ASSUME NEW j \in 1 .. n, j - 1 \in Good PROVE j \in Good
  <2> DEFINE k == (n + 1) - j
  <2>1. k \in 1 .. n /\ (n + 1) - (j - 1) = k + 1 /\ j \in 0 .. n
    BY <1>1
  <2>2. f[k] = <<str[k]>> \o SubSeq(str, k + 1, n)
    BY <1>8, <1>10, <2>1
  <2> HIDE DEF k
  <2>3. <<str[k]>> = SubSeq(str, k, k)
    BY <2>1, OneOf DEF Exp!Text
  <2>4. SubSeq(str, k, k) \o SubSeq(str, k + 1, n) = SubSeq(str, k, n)
    <3>1. str \in Seq(Exp!Char) /\ k \in 1 .. Len(str) + 1 /\ k \in k - 1 .. Len(str) /\ n \in k .. Len(str)
      BY <1>1, <2>1 DEF Exp!Text
    <3> HIDE DEF n
    <3>2. QED
      BY <3>1, ConcatAdjacentSubSeq
  <2>5. QED
    BY <2>1, <2>2, <2>3, <2>4 DEF k
<1>11. Good = 0 .. n
  <2>1. Good \in SUBSET (0 .. n)
    OBVIOUS
  <2> HIDE DEF Good, n
  <2>2. QED
    BY <1>1, <1>9, <1>10, <2>1, UpTo
<1>12. f[1] = SubSeq(str, 1, n)
  <2>1. n \in 0 .. n /\ (n + 1) - n = 1
    BY <1>1
  <2>2. n \in Good
    BY <1>11, <2>1
  <2>3. QED
    BY <2>1, <2>2
<1>13. QED
  BY <1>6, <1>12 DEF Exp!Text

\* A node's value, and what is put behind it.
TextOf(x) == IF x = NULL THEN <<>> ELSE x

\* A value behind the only node.
LEMMA ValBehind ==
  ASSUME NEW x \in Exp!Text \union {NULL}, NEW str \in Exp!Text
  PROVE  /\ Exp!AppendVal(<<x>>, str) = <<TextOf(x) \o str>> /\ TextOf(x) \o str \in Exp!Text
         /\ TextOf(x) \in Exp!Text /\ <<x>> \in Exp!List
<1>1. TextOf(x) \in Exp!Text
  BY DEF TextOf, Exp!Text
<1>2. Exp!Front(<<x>>) = <<>> /\ Exp!Last(<<x>>) = x
  BY DEF Exp!Front, Exp!Last
<1>3. TextOf(x) \o str \in Exp!Text
  BY <1>1 DEF Exp!Text
<1>4. x = NULL => TextOf(x) \o str = str
  BY DEF TextOf, Exp!Text
<1>5. (IF x = NULL THEN str ELSE x \o str) = TextOf(x) \o str
  BY <1>4 DEF TextOf
<1>6. Exp!AppendVal(<<x>>, str) = Append(<<>>, TextOf(x) \o str)
  BY <1>2, <1>5 DEF Exp!AppendVal
<1>7. <<x>> \in Exp!List
  BY DEF Exp!List
<1>8. QED
  BY <1>1, <1>3, <1>6, <1>7

\* Unquoted text without blanks begins no other node.
LEMMA NoBlanks ==
  ASSUME NEW x \in Exp!Text \union {NULL}, NEW val \in Exp!Text, val # <<>>,
         \A k \in DOMAIN val : val[k] \notin Exp!Blanks
  PROVE  Exp!HandleUnquoted(<<x>>, val) = <<TextOf(x) \o val>>
<1> DEFINE n == Len(val)
           head == TextOf(x)
           At(k) == IF k = 0 THEN x ELSE head \o SubSeq(val, 1, k)
<1>1. n \in Nat \ {0} /\ DOMAIN val = 1 .. n /\ \A k \in 1 .. n : val[k] \in Exp!Char /\ <<val[k]>> \in Exp!Text
  BY DEF Exp!Text
<1>2. <<x>> \in Exp!List /\ head \in Exp!Text
  <2>1. <<>> \in Exp!Text
    BY DEF Exp!Text
  <2>2. QED
    BY <2>1, ValBehind
<1>3. PICK f : /\ f[0] = <<x>>
               /\ \A k \in 1 .. n : f[k] = Exp!UnquotedChar(val[k])[f[k - 1]]
               /\ Exp!HandleUnquoted(<<x>>, val) = f[n]
  BY <1>2, UnquotedFolds
<1> DEFINE Good == {k \in 0 .. n : f[k] = <<At(k)>>}
<1>4. 0 \in Good
  BY <1>1, <1>3
<1>5. ASSUME NEW k \in 0 .. n PROVE At(k) \in Exp!Text \union {NULL} /\ TextOf(At(k)) = head \o SubSeq(val, 1, k)
  <2>1. CASE k = 0
    <3>1. At(k) = x /\ SubSeq(val, 1, 0) = <<>>
      BY <2>1 DEF Exp!Text
    <3>2. head \o <<>> = head
      BY <1>2 DEF Exp!Text
    <3>3. QED
      BY <2>1, <3>1, <3>2
  <2>2. CASE k # 0
    <3>1. SubSeq(val, 1, k) \in Seq(Exp!Char)
      BY <1>1 DEF Exp!Text
    <3> HIDE DEF head
    <3>2. head \o SubSeq(val, 1, k) \in Exp!Text
      BY <1>2, <3>1 DEF Exp!Text
    <3>3. QED
      BY <2>2, <3>2, NullIsNoText DEF TextOf
  <2>3. QED
    BY <2>1, <2>2
<1>6. ASSUME NEW k \in 1 .. n, k - 1 \in Good PROVE k \in Good
  <2>1. k \in 0 .. n /\ k - 1 \in 0 .. n /\ f[k - 1] = <<At(k - 1)>>
    BY <1>6
  <2>2. /\ At(k - 1) \in Exp!Text \union {NULL}
        /\ TextOf(At(k - 1)) = head \o SubSeq(val, 1, k - 1)
    BY <1>5, <2>1
  <2>3. SubSeq(val, 1, k - 1) \o <<val[k]>> = SubSeq(val, 1, k)
    <3>1. SubSeq(val, k, k) = <<val[k]>>
      BY OneOf DEF Exp!Text
    <3>2. SubSeq(val, 1, k - 1) \o SubSeq(val, (k - 1) + 1, k) = SubSeq(val, 1, k)
      <4>1. val \in Seq(Exp!Char) /\ 1 \in 1 .. Len(val) + 1 /\ k - 1 \in 1 - 1 .. Len(val) /\ k \in k - 1 .. Len(val)
        BY <1>1 DEF Exp!Text
      <4>2. QED
        BY <4>1, ConcatAdjacentSubSeq
    <3>3. QED
      BY <3>1, <3>2
  <2>4. (head \o SubSeq(val, 1, k - 1)) \o <<val[k]>> = head \o SubSeq(val, 1, k)
    <3>1. head \in Seq(Exp!Char) /\ SubSeq(val, 1, k - 1) \in Seq(Exp!Char) /\ <<val[k]>> \in Seq(Exp!Char)
      BY <1>1, <1>2 DEF Exp!Text
    <3> DEFINE a == SubSeq(val, 1, k - 1)
               b == <<val[k]>>
    <3> HIDE DEF head, a, b
    <3>2. head \in Seq(Exp!Char) /\ a \in Seq(Exp!Char) /\ b \in Seq(Exp!Char)
      BY <3>1 DEF a, b
    <3>3. (head \o a) \o b = head \o (a \o b)
      BY <3>2, ConcatAssociative
    <3>4. QED
      BY <2>3, <3>3 DEF a, b
  <2> DEFINE y == At(k - 1)
  <2> HIDE DEF At, head
  <2>5. Exp!AppendVal(<<y>>, <<val[k]>>) = <<TextOf(y) \o <<val[k]>>>> /\ <<y>> \in Exp!List
    BY <1>1, <2>2, ValBehind
  <2>6. f[k] = Exp!AppendVal(<<y>>, <<val[k]>>)
    BY <1>1, <1>3, <2>1, <2>5 DEF Exp!UnquotedChar
  <2>7. k # 0
    OBVIOUS
  <2>8. f[k] = <<At(k)>>
    BY <2>2, <2>4, <2>5, <2>6, <2>7 DEF At
  <2>9. QED
    BY <2>1, <2>8
<1>7. Good = 0 .. n
  <2>1. Good \in SUBSET (0 .. n)
    OBVIOUS
  <2> HIDE DEF Good, n
  <2>2. QED
    BY <1>1, <1>4, <1>6, <2>1, UpTo
<1>8. f[n] = <<head \o SubSeq(val, 1, n)>> /\ SubSeq(val, 1, n) = val
  <2>1. n \in 0 .. n /\ n # 0
    BY <1>1
  <2>2. SubSeq(val, 1, n) = val
    BY DEF Exp!Text
  <2>3. n \in Good
    BY <1>7, <2>1
  <2>4. QED
    BY <2>1, <2>2, <2>3
<1>9. QED
  BY <1>3, <1>8

\* Two texts without a variable, one behind the other.
LEMMA NoDollars ==
  ASSUME NEW T, NEW a \in Seq(T), NEW b \in Seq(T)
  PROVE  NoDollar(a \o b) <=> NoDollar(a) /\ NoDollar(b)
<1> DEFINE both == a \o b
           n == Len(a)
           m == Len(b)
<1>1. n \in Nat /\ m \in Nat /\ DOMAIN a = 1 .. n /\ DOMAIN b = 1 .. m
  OBVIOUS
<1>2. /\ DOMAIN both = 1 .. n + m
      /\ \A k \in 1 .. n + m : both[k] = IF k <= n THEN a[k] ELSE b[k - n]
  OBVIOUS
<1> HIDE DEF both, n, m
<1>3. ASSUME NoDollar(both), NEW k \in 1 .. n PROVE a[k] # "$"
  <2>1. k \in 1 .. n + m /\ k <= n
    BY <1>1
  <2>2. QED
    BY <1>2, <1>3, <2>1 DEF NoDollar
<1>4. ASSUME NoDollar(both), NEW k \in 1 .. m PROVE b[k] # "$"
  <2>1. n + k \in 1 .. n + m /\ ~(n + k <= n) /\ n + k - n = k
    BY <1>1
  <2>2. both[n + k] # "$"
    BY <1>2, <1>4, <2>1 DEF NoDollar
  <2>3. both[n + k] = b[k]
    <3> DEFINE j == n + k
    <3>1. j \in 1 .. n + m /\ ~(j <= n) /\ j - n = k
      BY <1>1, <2>1
    <3> HIDE DEF j
    <3>2. both[j] = b[k]
      BY <1>2, <3>1
    <3>3. QED
      BY <3>2 DEF j
  <2>4. QED
    BY <2>2, <2>3
<1>5. ASSUME NoDollar(a), NoDollar(b), NEW k \in 1 .. n + m PROVE both[k] # "$"
  <2>1. CASE k <= n
    <3>1. k \in 1 .. n
      BY <1>1, <2>1
    <3>2. QED
      BY <1>1, <1>2, <1>5, <2>1, <3>1 DEF NoDollar
  <2>2. CASE ~(k <= n)
    <3>1. k - n \in 1 .. m
      BY <1>1, <2>2
    <3>2. QED
      BY <1>1, <1>2, <1>5, <2>2, <3>1 DEF NoDollar
  <2>3. QED
    BY <2>1, <2>2
<1>6. QED
  BY <1>1, <1>2, <1>3, <1>4, <1>5 DEF NoDollar, both

\* A word's text up to a segment is that before it, and the segment's.
LEMMA TextUpTo ==
  ASSUME NEW segs \in Seq(Lex!Segment)
  PROVE  /\ Unquoted(SubSeq(segs, 1, 0)) = <<>> /\ SubSeq(segs, 1, Len(segs)) = segs
         /\ \A k \in 1 .. Len(segs) :
              /\ Unquoted(SubSeq(segs, 1, k)) = Unquoted(SubSeq(segs, 1, k - 1)) \o segs[k].value
              /\ Unquoted(SubSeq(segs, 1, k - 1)) \in Seq(Lex!Char) /\ segs[k].value \in Seq(Lex!Char)
<1>1. SubSeq(segs, 1, 0) = <<>> /\ SubSeq(segs, 1, Len(segs)) = segs
  OBVIOUS
<1>2. ASSUME NEW k \in 1 .. Len(segs)
      PROVE  /\ Unquoted(SubSeq(segs, 1, k)) = Unquoted(SubSeq(segs, 1, k - 1)) \o segs[k].value
             /\ Unquoted(SubSeq(segs, 1, k - 1)) \in Seq(Lex!Char) /\ segs[k].value \in Seq(Lex!Char)
  <2> DEFINE old == SubSeq(segs, 1, k - 1)
  <2>1. old \in Seq(Lex!Segment) /\ segs[k] \in Lex!Segment /\ Len(old) = k - 1
    OBVIOUS
  <2>2. Append(old, segs[k]) = SubSeq(segs, 1, k)
    <3> DEFINE more == Append(old, segs[k])
               new == SubSeq(segs, 1, k)
    <3>1. new \in Seq(Lex!Segment) /\ Len(new) = k /\ \A j \in 1 .. k : new[j] = segs[j]
      OBVIOUS
    <3>2. more \in Seq(Lex!Segment) /\ Len(more) = k /\ \A j \in 1 .. k : more[j] = segs[j]
      OBVIOUS
    <3> HIDE DEF more, new
    <3>3. more = new
      BY <3>1, <3>2, SeqEqual
    <3>4. QED
      BY <3>3 DEF more, new
  <2> HIDE DEF old
  <2>3. QED
    BY <2>1, <2>2, UnquotedAppended DEF old
<1>3. QED
  BY <1>1, <1>2, NoText

\* A word without a variable has none in a segment.
LEMMA SegmentsNoDollar ==
  ASSUME NEW segs \in Seq(Lex!Segment), NoDollar(Unquoted(segs))
  PROVE  \A j \in 1 .. Len(segs) : NoDollar(segs[j].value)
<1> DEFINE n == Len(segs)
           T(k) == Unquoted(SubSeq(segs, 1, k))
           Good == {k \in 0 .. n : NoDollar(T(k)) => \A j \in 1 .. k : NoDollar(segs[j].value)}
<1>1. n \in Nat
  OBVIOUS
<1>2. /\ T(n) = Unquoted(segs)
      /\ \A k \in 1 .. n : /\ T(k) = T(k - 1) \o segs[k].value
                           /\ T(k - 1) \in Seq(Lex!Char) /\ segs[k].value \in Seq(Lex!Char)
  BY TextUpTo
<1> HIDE DEF T, n
<1>3. 0 \in Good
  <2>1. 0 \in 0 .. n /\ \A j : j \notin 1 .. 0
    BY <1>1
  <2>2. QED
    BY <2>1
<1>4. ASSUME NEW k \in 1 .. n, k - 1 \in Good PROVE k \in Good
  <2>1. NoDollar(T(k)) => NoDollar(T(k - 1)) /\ NoDollar(segs[k].value)
    BY <1>2, NoDollars
  <2>2. k \in 0 .. n /\ \A j \in 1 .. k : j = k \/ j \in 1 .. k - 1
    BY <1>1
  <2>3. NoDollar(T(k - 1)) => \A j \in 1 .. k - 1 : NoDollar(segs[j].value)
    BY <1>4
  <2>4. NoDollar(T(k)) => \A j \in 1 .. k : NoDollar(segs[j].value)
    BY <2>1, <2>2, <2>3
  <2>5. QED
    BY <2>2, <2>4
<1>5. Good = 0 .. n
  <2>1. Good \in SUBSET (0 .. n)
    OBVIOUS
  <2> HIDE DEF Good
  <2>2. QED
    BY <1>1, <1>3, <1>4, <2>1, UpTo
<1>6. n \in Good
  <2>1. n \in 0 .. n
    BY <1>1
  <2>2. QED
    BY <1>5, <2>1
<1>7. QED
  BY <1>2, <1>6 DEF n

\* A segment without a variable, and without blanks unless quoted, puts its text
\* behind the node there is.
LEMMA PlainSegment ==
  ASSUME env \in Envs, NEW seg \in Exp!Segment, NoDollar(seg.value),
         seg.quote = "none" => seg.value # <<>> /\ \A k \in DOMAIN seg.value : seg.value[k] \notin Exp!Blanks,
         NEW x \in Exp!Text \union {NULL}
  PROVE  Exp!ProcessSegment(seg)[<<x>>] = <<TextOf(x) \o seg.value>>
<1>1. seg.quote \in {"none", "single", "double"} /\ seg.value \in Exp!Text
  BY DEF Exp!Segment
<1>2. Exp!ExpandText(seg.value) = seg.value
  BY <1>1, PlainText DEF Exp!ExpandText
<1> DEFINE v == seg.value
           made(list) ==
             CASE seg.quote = "single" -> Exp!AppendVal(list, v)
               [] seg.quote = "double" -> Exp!AppendVal(list, Exp!ExpandText(v))
               [] seg.quote = "none" -> Exp!HandleUnquoted(list, Exp!ExpandText(v))
<1>3. /\ Exp!AppendVal(<<x>>, v) = <<TextOf(x) \o v>> /\ <<x>> \in Exp!List
      /\ seg.quote = "none" => Exp!HandleUnquoted(<<x>>, v) = <<TextOf(x) \o v>>
  BY <1>1, ValBehind, NoBlanks
<1>4. Exp!ProcessSegment(seg) = [list \in Exp!List |-> made(list)]
  BY DEF Exp!ProcessSegment
<1>5. made(<<x>>) = <<TextOf(x) \o v>>
  <2>1. CASE seg.quote = "single"
    BY <1>3, <2>1
  <2>2. CASE seg.quote = "double"
    BY <1>2, <1>3, <2>2
  <2>3. CASE seg.quote = "none"
    BY <1>2, <1>3, <2>3
  <2>4. QED
    BY <1>1, <2>1, <2>2, <2>3
<1> HIDE DEF made
<1>6. QED
  BY <1>3, <1>4, <1>5

\* An argument without a variable becomes one node, its text without its quotes.
LEMMA PlainArg ==
  ASSUME env \in Envs, NEW segs \in Seq(Lex!Segment), segs # <<>>, WellCut(segs), Clean(segs),
         NoDollar(Unquoted(segs))
  PROVE  Exp!ExpandArgToList(segs) = <<Unquoted(segs)>> /\ Unquoted(segs) \in Exp!Text
<1> DEFINE n == Len(segs)
           T(k) == Unquoted(SubSeq(segs, 1, k))
           At(k) == IF k = 0 THEN NULL ELSE T(k)
<1>1. n \in Nat \ {0} /\ DOMAIN segs = 1 .. n /\ segs \in Seq(Exp!Segment) /\ \A k \in 1 .. n : segs[k] \in Lex!Segment
  BY CharsFit
<1>2. /\ T(0) = <<>> /\ T(n) = Unquoted(segs)
      /\ \A k \in 1 .. n : /\ T(k) = T(k - 1) \o segs[k].value
                           /\ T(k - 1) \in Seq(Lex!Char) /\ segs[k].value \in Seq(Lex!Char)
  BY TextUpTo
<1>3. PICK f : /\ f[0] = <<NULL>>
               /\ \A k \in 1 .. n : f[k] = Exp!ProcessSegment(segs[k])[f[k - 1]]
               /\ Exp!ExpandArgToList(segs) = IF f[n] = <<NULL>> THEN <<>> ELSE f[n]
  BY <1>1, ArgFolds
<1> DEFINE Good == {k \in 0 .. n : f[k] = <<At(k)>>}
<1> HIDE DEF T, n
<1>4. 0 \in Good
  <2>1. 0 \in 0 .. n /\ At(0) = NULL
    BY <1>1
  <2>2. QED
    BY <1>3, <2>1
<1>5. ASSUME NEW k \in 1 .. n
      PROVE  /\ segs[k] \in Exp!Segment /\ NoDollar(segs[k].value)
             /\ segs[k].quote = "none"
                  => segs[k].value # <<>> /\ \A m \in DOMAIN segs[k].value : segs[k].value[m] \notin Exp!Blanks
  <2>1. segs[k] \in Exp!Segment /\ NoDollar(segs[k].value)
    BY <1>1, SegmentsNoDollar DEF n
  <2>2. segs[k].quote = "none" => segs[k].value # <<>>
    BY <1>1 DEF WellCut
  <2>3. ASSUME segs[k].quote = "none", NEW m \in DOMAIN segs[k].value PROVE segs[k].value[m] \notin Exp!Blanks
    <3>1. segs[k].value[m] \notin Lex!Operators \union Lex!Quotes \union Lex!Blanks
      BY <1>1, <2>3 DEF Clean
    <3>2. segs[k].value[m] \in Lex!Char
      <4> DEFINE v == segs[k].value
      <4>1. v \in Seq(Lex!Char) /\ m \in DOMAIN v
        BY <1>2
      <4> HIDE DEF v
      <4>2. v[m] \in Lex!Char
        BY <4>1
      <4>3. QED
        BY <4>2 DEF v
    <3>3. segs[k].value[m] \in Plain
      BY <3>1, <3>2 DEF Lex!Char
    <3>4. QED
      BY <3>3, LexerParameters
  <2>4. QED
    BY <2>1, <2>2, <2>3
<1>6. ASSUME NEW k \in 0 .. n PROVE At(k) \in Exp!Text \union {NULL} /\ TextOf(At(k)) = T(k) /\ T(k) \in Exp!Text
  <2>1. CASE k = 0
    <3>1. <<>> \in Exp!Text
      BY DEF Exp!Text
    <3>2. QED
      BY <1>2, <2>1, <3>1 DEF TextOf
  <2>2. CASE k # 0
    <3>1. k \in 1 .. n
      BY <1>1, <2>2
    <3>2. T(k - 1) \o segs[k].value \in Seq(Lex!Char)
      BY <1>2, <3>1, ConcatProperties
    <3>3. T(k) \in Exp!Text
      BY <1>2, <3>1, <3>2, CharsFit
    <3>4. QED
      BY <2>2, <3>3, NullIsNoText DEF TextOf
  <2>3. QED
    BY <2>1, <2>2
<1>7. ASSUME NEW k \in 1 .. n, k - 1 \in Good PROVE k \in Good
  <2>1. k \in 0 .. n /\ k - 1 \in 0 .. n /\ k # 0
    BY <1>1
  <2>2. f[k - 1] = <<At(k - 1)>>
    BY <1>7
  <2> DEFINE x == At(k - 1)
  <2>3. x \in Exp!Text \union {NULL} /\ TextOf(x) = T(k - 1) /\ At(k) = T(k)
    BY <1>6, <2>1
  <2> HIDE DEF At
  <2>4. Exp!ProcessSegment(segs[k])[<<x>>] = <<TextOf(x) \o segs[k].value>>
    <3> HIDE DEF x
    <3> QED
      BY <1>5, <2>3, PlainSegment
  <2>5. f[k] = <<At(k)>>
    BY <1>2, <1>3, <2>2, <2>3, <2>4
  <2>6. QED
    BY <2>1, <2>5
<1>8. Good = 0 .. n
  <2>1. Good \in SUBSET (0 .. n)
    OBVIOUS
  <2> HIDE DEF Good
  <2>2. QED
    BY <1>1, <1>4, <1>7, <2>1, UpTo
<1>9. f[n] = <<Unquoted(segs)>> /\ Unquoted(segs) \in Exp!Text
  <2>1. n \in 0 .. n /\ n # 0
    BY <1>1
  <2>2. n \in Good
    BY <1>8, <2>1
  <2>3. QED
    BY <1>2, <1>6, <2>1, <2>2
<1>10. <<Unquoted(segs)>> # <<NULL>>
  BY <1>9, NullIsNoText
<1>11. QED
  BY <1>3, <1>9, <1>10

\* Of a line without a variable no text has one.
LEMMA NoDollarAt ==
  ASSUME input \in Seq(Lex!Char), ~Contains(input, "$")
  PROVE  /\ \A S \in SUBSET (1 .. Len(input)) : NoDollar(TextAt(S))
         /\ \A at \in 0 .. Len(input), to \in Int : to <= Len(input) => NoDollar(Lex!Between(at, to))
<1>1. \A k \in 1 .. Len(input) : input[k] # "$"
  BY DEF Contains
<1>2. ASSUME NEW S \in SUBSET (1 .. Len(input)) PROVE NoDollar(TextAt(S))
  <2> DEFINE p == InOrder(S)
  <2>1. p \in Seq(S)
    BY TextOfPlaces
  <2>2. TextAt(S) = [m \in DOMAIN p |-> input[p[m]]]
    BY DEF TextAt
  <2> HIDE DEF p
  <2>3. \A m \in DOMAIN p : p[m] \in S
    BY <2>1
  <2>4. \A m \in DOMAIN p : input[p[m]] # "$"
    BY <1>1, <2>3
  <2>5. QED
    BY <2>2, <2>4 DEF NoDollar
<1>3. ASSUME NEW at \in 0 .. Len(input), NEW to \in Int, to <= Len(input) PROVE NoDollar(Lex!Between(at, to))
  <2> DEFINE s == SubSeq(input, at + 1, to)
  <2>1. Len(input) \in Nat
    OBVIOUS
  <2>2. \A m \in DOMAIN s : at + m \in 1 .. Len(input) /\ s[m] = input[at + m]
    BY <1>3
  <2> HIDE DEF s
  <2>3. NoDollar(s)
    BY <1>1, <2>2 DEF NoDollar
  <2>4. QED
    BY <2>3 DEF s, Lex!Between
<1>4. QED
  BY <1>2, <1>3

\* The segments of its words are plain, and so are the names of its files.
LEMMA TokensPlain ==
  ASSUME NEW from, LaidOut(from), SegmentsInv, ~Contains(input, "$"), NEW k \in DOMAIN tokens
  PROVE  LET segs == tokens[k].segments
         IN  /\ NoDollar(tokens[k].literal)
             /\ tokens[k].type = "WORD" => /\ segs \in Seq(Lex!Segment) /\ segs # <<>> /\ WellCut(segs) /\ Clean(segs)
                                           /\ NoDollar(Unquoted(segs))
<1> DEFINE to == EndOf(tokens[k], from[k])
<1>1. /\ input \in Seq(Lex!Char) /\ Len(input) \in Nat /\ tokens \in Seq(Lex!Token)
      /\ k \in 1 .. Len(tokens) /\ WordsFit
  BY DEF LaidOut, LexInv, Lex!TypeOK
<1>2. /\ from[k] \in Nat /\ from[k] \in 1 .. Len(input) + 1 /\ to \in Int /\ to <= Len(input)
      /\ types[k] = tokens[k].type
      /\ types[k] = "WORD" => Unquoted(tokens[k].segments) = TextAt((from[k] .. to) \ Delimiters)
      /\ tokens[k].literal = Lex!Between(from[k] - 1, to)
  BY <1>1, TokenLies
<1> HIDE DEF to
<1>3. from[k] - 1 \in 0 .. Len(input) /\ (from[k] .. to) \ Delimiters \in SUBSET (1 .. Len(input))
  BY <1>1, <1>2
<1>4. NoDollar(tokens[k].literal)
  BY <1>1, <1>2, <1>3, NoDollarAt
<1>5. ASSUME tokens[k].type = "WORD" PROVE NoDollar(Unquoted(tokens[k].segments))
  BY <1>1, <1>2, <1>3, <1>5, NoDollarAt
<1>6. tokens[k].segments \in Seq(Lex!Segment)
  <2>1. tokens[k] \in Lex!Token
    BY <1>1
  <2>2. QED
    BY <2>1 DEF Lex!Token
<1>7. tokens[k].type = "WORD" => tokens[k].segments # <<>> /\ WellCut(tokens[k].segments) /\ Clean(tokens[k].segments)
  BY <1>1 DEF WordsFit, SegmentsInv
<1>8. QED
  BY <1>4, <1>5, <1>6, <1>7

\* A command of such a line as it is handed over.
LEMMA HandedPlain ==
  ASSUME NEW from, LaidOut(from), SegmentsInv, LineParsed, ~Contains(input, "$"), NEW k \in DOMAIN parsed
  PROVE  LET command == Handed(parsed[k])
         IN  /\ \A a \in DOMAIN command.args :
                  LET segs == command.args[a].segments
                  IN  /\ segs \in Seq(Lex!Segment) /\ segs # <<>> /\ WellCut(segs) /\ Clean(segs)
                      /\ NoDollar(Unquoted(segs))
             /\ \A r \in DOMAIN command.input_redirection : NoDollar(command.input_redirection[r])
             /\ \A r \in DOMAIN command.output_redirection : NoDollar(command.output_redirection[r])
<1> DEFINE cmd == parsed[k]
           args == [a \in DOMAIN cmd.args |-> [segments |-> tokens[cmd.args[a]].segments, value |-> NULL]]
           in == [r \in DOMAIN cmd.input_redirection |-> File(cmd.input_redirection[r])]
           out == [r \in DOMAIN cmd.output_redirection |-> File(cmd.output_redirection[r])]
<1>1. /\ \A a \in DOMAIN cmd.args : cmd.args[a] \in DOMAIN tokens /\ tokens[cmd.args[a]].type = "WORD"
      /\ \A r \in DOMAIN cmd.input_redirection : cmd.input_redirection[r].file \in DOMAIN tokens
      /\ \A r \in DOMAIN cmd.output_redirection : cmd.output_redirection[r].file \in DOMAIN tokens
  BY DEF LineParsed
<1>2. Handed(cmd) = [args |-> args, input_redirection |-> in, output_redirection |-> out]
  BY DEF Handed
<1> HIDE DEF cmd
<1>3. \A a \in DOMAIN args : /\ a \in DOMAIN cmd.args /\ args[a].segments = tokens[cmd.args[a]].segments
  OBVIOUS
<1>4. ASSUME NEW a \in DOMAIN args
      PROVE  LET segs == args[a].segments
             IN  /\ segs \in Seq(Lex!Segment) /\ segs # <<>> /\ WellCut(segs) /\ Clean(segs)
                 /\ NoDollar(Unquoted(segs))
  <2> HIDE DEF args
  <2>1. cmd.args[a] \in DOMAIN tokens /\ tokens[cmd.args[a]].type = "WORD"
    BY <1>1, <1>3
  <2>2. QED
    BY <1>3, <2>1, TokensPlain
<1>5. \A r \in DOMAIN in : NoDollar(in[r])
  BY <1>1, TokensPlain DEF File
<1>6. \A r \in DOMAIN out : NoDollar(out[r])
  BY <1>1, TokensPlain DEF File
<1> HIDE DEF args, in, out
<1>7. QED
  BY <1>2, <1>4, <1>5, <1>6 DEF cmd

\* Arguments that each become one node.
LEMMA OneNodeEach ==
  ASSUME env \in Envs, NEW args, NEW n \in Nat,
         \A a \in 1 .. n : /\ args[a].segments \in Seq(Exp!Segment)
                           /\ Exp!ExpandArgToList(args[a].segments) = <<Unquoted(args[a].segments)>>
                           /\ Unquoted(args[a].segments) \in Exp!Text
  PROVE  FlattenSeq(Lists(args, n)) = [a \in 1 .. n |-> Unquoted(args[a].segments)]
<1> DEFINE text(a) == Unquoted(args[a].segments)
           Flat(k) == FlattenSeq(Lists(args, k))
           Good == {k \in 0 .. n : Flat(k) = [a \in 1 .. k |-> text(a)]}
<1>1. \A a \in 1 .. n : text(a) \in Exp!Text
  OBVIOUS
<1>2. Flat(0) = <<>>
  <2>1. Lists(args, 0) = <<>>
    BY DEF Lists
  <2>2. FlattenSeq(<<>>) = <<>>
    BY DEF FlattenSeq
  <2>3. QED
    BY <2>1, <2>2
<1>3. ASSUME NEW k \in 1 .. n PROVE Flat(k) = Flat(k - 1) \o <<text(k)>>
  <2> DEFINE m == k - 1
  <2>1. m \in Nat /\ m + 1 = k /\ \A a \in 1 .. m + 1 : a \in 1 .. n
    OBVIOUS
  <2>2. \A a \in 1 .. m + 1 : args[a].segments \in Seq(Exp!Segment)
    BY <2>1
  <2> HIDE DEF m
  <2>3. FlattenSeq(Lists(args, m + 1)) = FlattenSeq(Lists(args, m)) \o Exp!ExpandArgToList(args[m + 1].segments)
    BY <2>1, <2>2, OneMoreList
  <2>4. Exp!ExpandArgToList(args[k].segments) = <<text(k)>>
    OBVIOUS
  <2>5. QED
    BY <2>1, <2>3, <2>4 DEF m
<1> HIDE DEF text, Flat
<1>4. 0 \in Good
  <2>1. 0 \in 0 .. n /\ [a \in 1 .. 0 |-> text(a)] = <<>>
    OBVIOUS
  <2>2. QED
    BY <1>2, <2>1
<1>5. ASSUME NEW k \in 1 .. n, k - 1 \in Good PROVE k \in Good
  <2> DEFINE m == k - 1
             old == [a \in 1 .. m |-> text(a)]
             new == [a \in 1 .. k |-> text(a)]
  <2>1. /\ m \in Nat /\ m + 1 = k /\ k \in 0 .. n /\ \A a \in 1 .. m : a \in 1 .. n /\ a # k
        /\ \A a \in 1 .. k : a = k \/ a \in 1 .. m
    OBVIOUS
  <2>2. Flat(m) = old
    BY <1>5
  <2> HIDE DEF m
  <2>3. old \in Seq(Exp!Text) /\ Len(old) = m /\ text(k) \in Exp!Text
    BY <1>1, <2>1
  <2>4. Append(old, text(k)) = [a \in 1 .. k |-> IF a = k THEN text(k) ELSE old[a]]
    <3> HIDE DEF old
    <3> QED
      BY <2>1, <2>3, AppendIs
  <2>5. Append(old, text(k)) = new
    BY <2>1, <2>4
  <2>6. old \o <<text(k)>> = Append(old, text(k))
    <3> HIDE DEF old
    <3> QED
      BY <2>3
  <2>7. Flat(k) = new
    BY <1>3, <2>2, <2>5, <2>6 DEF m
  <2>8. QED
    BY <2>1, <2>7
<1>6. Good = 0 .. n
  <2>1. Good \in SUBSET (0 .. n)
    OBVIOUS
  <2> HIDE DEF Good
  <2>2. QED
    BY <1>4, <1>5, <2>1, UpTo
<1>7. n \in Good
  <2>1. n \in 0 .. n
    OBVIOUS
  <2>2. QED
    BY <1>6, <2>1
<1>8. QED
  BY <1>7 DEF Flat, text

\* A command whose arguments are the texts of its words, and whose files have
\* the names that were written.
AsWritten(new, old) ==
  /\ Exp!Values(new.args) = [a \in DOMAIN old.args |-> Unquoted(old.args[a].segments)]
  /\ new.input_redirection = old.input_redirection
  /\ new.output_redirection = old.output_redirection

\* Of a line without a variable the commands behind the expander are.
PlainDone ==
  expanding # "wait" /\ ~Contains(input, "$") =>
    \A k \in DOMAIN written : k < c => AsWritten(commands[k], written[k])

\* Names without a variable are kept.
LEMMA RedirsPlain ==
  ASSUME NEW list \in Seq(Exp!Text), \A r \in DOMAIN list : NoDollar(list[r])
  PROVE  Exp!ProcessRedirs(list) = list
<1>1. ASSUME NEW r \in DOMAIN list PROVE Exp!ExpandRedirFile(list[r]) = list[r]
  <2> DEFINE file == list[r]
  <2>1. file \in Exp!Text /\ NoDollar(file)
    OBVIOUS
  <2> HIDE DEF file
  <2>2. DOMAIN file = 1 .. Len(file)
    BY <2>1 DEF Exp!Text
  <2>3. ~Exp!Contains(file, "$")
    BY <2>1, <2>2 DEF Exp!Contains, NoDollar
  <2>4. QED
    BY <2>3 DEF Exp!ExpandRedirFile, file
<1>2. Exp!ProcessRedirs(list) = [r \in DOMAIN list |-> list[r]]
  BY <1>1 DEF Exp!ProcessRedirs
<1>3. QED
  BY <1>2

\* When the expander comes to the files, the arguments are the texts of the words.
LEMMA ArgsPlain ==
  ASSUME IInv, SegmentsInv, NEW from, LaidOut(from), ~Contains(input, "$"), expanding = "redirs"
  PROVE  /\ Exp!Values(commands[c].args)
              = [a \in DOMAIN written[c].args |-> Unquoted(written[c].args[a].segments)]
         /\ \A r \in DOMAIN written[c].input_redirection : NoDollar(written[c].input_redirection[r])
         /\ \A r \in DOMAIN written[c].output_redirection : NoDollar(written[c].output_redirection[r])
<1> DEFINE W == written[c].args
           n == Len(W)
<1>1. /\ env \in Envs /\ W \in Seq(Exp!Arg) /\ \A a \in 1 .. n : W[a].segments \in Seq(Exp!Segment)
      /\ Exp!Values(commands[c].args) = FlattenSeq(Lists(W, n))
  BY AllSpliced
<1>2. /\ LineParsed /\ written = [k \in DOMAIN parsed |-> Handed(parsed[k])] /\ c \in DOMAIN written
  BY DEF IInv, FreedInv, AtWork, ExpandInv, ExpandTypes, Exp!TypeOK
<1>3. c \in DOMAIN parsed /\ written[c] = Handed(parsed[c])
  BY <1>2
<1>4. /\ \A a \in DOMAIN W : LET segs == W[a].segments
                             IN  /\ segs \in Seq(Lex!Segment) /\ segs # <<>> /\ WellCut(segs) /\ Clean(segs)
                                 /\ NoDollar(Unquoted(segs))
      /\ \A r \in DOMAIN written[c].input_redirection : NoDollar(written[c].input_redirection[r])
      /\ \A r \in DOMAIN written[c].output_redirection : NoDollar(written[c].output_redirection[r])
  BY <1>2, <1>3, HandedPlain
<1>5. n \in Nat /\ DOMAIN W = 1 .. n
  BY <1>1
<1> HIDE DEF W, n
<1>6. ASSUME NEW a \in 1 .. n
      PROVE  /\ Exp!ExpandArgToList(W[a].segments) = <<Unquoted(W[a].segments)>>
             /\ Unquoted(W[a].segments) \in Exp!Text
  BY <1>1, <1>4, <1>5, PlainArg
<1>7. FlattenSeq(Lists(W, n)) = [a \in 1 .. n |-> Unquoted(W[a].segments)]
  BY <1>1, <1>5, <1>6, OneNodeEach
<1>8. QED
  BY <1>1, <1>4, <1>5, <1>7 DEF W

\* Then the expander is done with one more.
LEMMA PlainStep ==
  ASSUME IInv, SegmentsInv, NEW from, LaidOut(from), ~Contains(input, "$"), PlainDone, Exp!Redirs
  PROVE  \A k \in DOMAIN written : k < c + 1 => AsWritten(commands'[k], written[k])
<1> DEFINE in == Exp!ProcessRedirs(commands[c].input_redirection)
           out == IF Exp!Contains(in, NULL) THEN commands[c].output_redirection
                  ELSE Exp!ProcessRedirs(commands[c].output_redirection)
<1>1. expanding = "redirs" /\ commands' = [commands EXCEPT ![c] = WithFiles(commands[c], in, out)]
  BY DEF Exp!Redirs, WithFiles
<1>2. /\ commands \in Seq(Exp!Command) /\ c \in 1 .. Len(commands) /\ written \in Seq(Exp!Command)
      /\ Len(written) = Len(commands) /\ \A k \in DOMAIN written : Readable(written[k])
      /\ commands[c].input_redirection = written[c].input_redirection
      /\ commands[c].output_redirection = written[c].output_redirection
  BY <1>1 DEF IInv, ExpandInv, ExpandTypes, Exp!TypeOK, Ahead, AtWork
<1>3. c \in DOMAIN commands /\ c \in DOMAIN written /\ c \in Nat /\ commands[c] \in Exp!Command
  BY <1>2
<1>4. written[c].input_redirection \in Seq(Exp!Text) /\ written[c].output_redirection \in Seq(Exp!Text)
  BY <1>2, <1>3 DEF Readable
<1>5. /\ Exp!Values(commands[c].args)
           = [a \in DOMAIN written[c].args |-> Unquoted(written[c].args[a].segments)]
      /\ \A r \in DOMAIN written[c].input_redirection : NoDollar(written[c].input_redirection[r])
      /\ \A r \in DOMAIN written[c].output_redirection : NoDollar(written[c].output_redirection[r])
  BY <1>1, ArgsPlain
<1>6. /\ Exp!ProcessRedirs(written[c].input_redirection) = written[c].input_redirection
      /\ Exp!ProcessRedirs(written[c].output_redirection) = written[c].output_redirection
  BY <1>4, <1>5, RedirsPlain
<1>7. in = written[c].input_redirection /\ out = written[c].output_redirection
  BY <1>2, <1>6
<1> HIDE DEF in, out
<1>8. in \in Seq(Exp!Text \union {NULL}) /\ out \in Seq(Exp!Text \union {NULL})
  BY <1>4, <1>7
<1> DEFINE command == WithFiles(commands[c], in, out)
<1>9. command.args = commands[c].args /\ command.input_redirection = in /\ command.output_redirection = out
  <2> DEFINE old == commands[c]
  <2>1. old \in Exp!Command
    BY <1>3
  <2> HIDE DEF old
  <2>2. /\ WithFiles(old, in, out).input_redirection = in
        /\ WithFiles(old, in, out).output_redirection = out
    BY <1>8, <2>1, OtherFiles, ZenonT(30)
  <2>3. WithFiles(old, in, out).args = old.args
    BY <2>1 DEF WithFiles, Exp!Command
  <2>4. QED
    BY <2>2, <2>3 DEF old
<1> HIDE DEF command
<1>10. commands'[c] = command /\ \A k \in DOMAIN commands : k # c => commands'[k] = commands[k]
  BY <1>1, <1>2, <1>3 DEF command
<1>11. AsWritten(commands'[c], written[c])
  BY <1>5, <1>7, <1>9, <1>10 DEF AsWritten
<1>12. ASSUME NEW k \in DOMAIN written, k < c PROVE AsWritten(commands'[k], written[k])
  <2>1. k \in DOMAIN commands /\ k # c
    BY <1>2, <1>12
  <2>2. AsWritten(commands[k], written[k])
    BY <1>1, <1>12 DEF PlainDone
  <2>3. QED
    BY <1>10, <2>1, <2>2
<1>13. \A k \in DOMAIN written : k < c + 1 => k = c \/ k < c
  BY <1>2
<1>14. QED
  BY <1>11, <1>12, <1>13

\* It holds at first,
LEMMA PlainInit == Init => PlainDone
  BY DEF Init, PlainDone

\* Only Redirs takes the expander to another command.
LEMMA PlainStays ==
  ASSUME PlainDone, input' = input, written' = written, c' = c, expanding # "wait",
         \A k \in DOMAIN written : k < c => commands'[k] = commands[k]
  PROVE  PlainDone'
<1>1. ~Contains(input, "$") => \A k \in DOMAIN written : k < c => AsWritten(commands'[k], written'[k])
  BY DEF PlainDone
<1>2. QED
  BY <1>1 DEF PlainDone, AsWritten, Exp!Values, Unquoted, Contains

\* and every step keeps it.
LEMMA PlainNext == IInv /\ SegmentsInv /\ PlacesInv /\ PlainDone /\ [Next]_vars => PlainDone'
<1> SUFFICES ASSUME IInv, SegmentsInv, PlacesInv, PlainDone, [Next]_vars PROVE PlainDone'
  OBVIOUS
<1>1. CASE expanding' = "wait"
  BY <1>1 DEF PlainDone
<1>2. CASE StartExpander
  <2>1. written' = [k \in DOMAIN parsed |-> Handed(parsed[k])] /\ c' = 1 /\ LineParsed
    BY <1>2, ExpanderStarted DEF StartExpander, IInv
  <2>2. DOMAIN written' = 1 .. Len(parsed) /\ Len(parsed) \in Nat
    BY <2>1 DEF LineParsed
  <2>3. \A k \in DOMAIN written' : ~(k < 1)
    BY <2>2
  <2>4. QED
    BY <2>1, <2>3 DEF PlainDone
<1>3. CASE ExpandArg
  <2>1. /\ Exp!ExpandArg /\ input' = input /\ written' = written /\ c' = c /\ expanding # "wait"
        /\ \E list : commands' = [commands EXCEPT ![c] = WithArgs(commands[c], list)]
    BY <1>3 DEF ExpandArg, Exp!ExpandArg, lexVars, WithArgs
  <2>2. commands \in Seq(Exp!Command) /\ Len(written) = Len(commands) /\ written \in Seq(Exp!Command) /\ c \in Nat
    BY <2>1 DEF IInv, ExpandInv, ExpandTypes, Exp!TypeOK
  <2>3. ASSUME NEW k \in DOMAIN written, k < c PROVE commands'[k] = commands[k]
    <3>1. k \in DOMAIN commands /\ k # c
      BY <2>2, <2>3
    <3>2. QED
      BY <2>1, <3>1
  <2>4. QED
    BY <2>1, <2>3, PlainStays
<1>4. CASE ExpanderStep
  <2>1. CASE Exp!ArgsDone
    <3>1. input' = input /\ UNCHANGED <<commands, c, written>> /\ expanding # "wait"
      BY <1>4, <2>1 DEF ExpanderStep, Exp!ArgsDone, lexVars
    <3>2. QED
      BY <3>1, PlainStays
  <2>2. CASE Exp!Redirs
    <3>1. /\ input' = input /\ written' = written /\ c' = c + 1 /\ expanding = "redirs"
      BY <1>4, <2>2 DEF ExpanderStep, Exp!Redirs, Exp!NextCommand, lexVars
    <3>2. PICK from : LaidOut(from)
      <4>1. lexing = "done" /\ LexInv
        BY <3>1 DEF IInv, FreedInv, ParseInv, AtWork
      <4>2. QED
        BY <4>1 DEF PlacesInv, LaidOut
    <3>3. ~Contains(input, "$") => \A k \in DOMAIN written : k < c + 1 => AsWritten(commands'[k], written[k])
      BY <2>2, <3>2, PlainStep
    <3>4. ~Contains(input', "$") => \A k \in DOMAIN written' : k < c' => AsWritten(commands'[k], written'[k])
      BY <3>1, <3>3
    <3>5. QED
      BY <3>4 DEF PlainDone, AsWritten, Exp!Values, Unquoted, Contains
  <2>3. QED
    BY <1>4, <2>1, <2>2 DEF ExpanderStep
<1>5. CASE expanding # "wait" /\ UNCHANGED <<lexVars, expVars>>
  <2>1. input' = input /\ UNCHANGED <<commands, c, written>>
    BY <1>5 DEF lexVars, expVars
  <2>2. QED
    BY <1>5, <2>1, PlainStays
<1>6. StartExpander \/ ExpandArg \/ ExpanderStep \/ UNCHANGED <<lexVars, expVars>> \/ expanding' = "wait"
  <2>1. LexerStep => expanding' = "wait"
    <3>1. LexerStep => lexing \in {"tokens", "word"} /\ UNCHANGED expVars
      BY DEF LexerStep, Lex!Next, Lex!SkipWhitespace, Lex!HandleOperator, Lex!HandleWord, Lex!End,
             Lex!QuotedSegment, Lex!UnclosedQuote, Lex!UnquotedSegment, Lex!EndWord
    <3>2. QED
      BY <3>1 DEF IInv, ParseInv, expVars
  <2>2. StartParser \/ ParserStep \/ ResetRefused \/ ResetLoop \/ UNCHANGED vars => UNCHANGED <<lexVars, expVars>>
    BY DEF StartParser, ParserStep, ResetRefused, ResetLoop, vars
  <2>3. QED
    BY <2>1, <2>2 DEF Next
<1>7. QED
  <2>1. UNCHANGED <<lexVars, expVars>> => expanding' = expanding
    BY DEF expVars
  <2>2. QED
    BY <1>1, <1>2, <1>3, <1>4, <1>5, <1>6, <2>1

\* The parser's commands are those written between the pipes, also while the
\* expander works on them.
LineWritten == parsing = "parsed" => P!CommandsAsWritten /\ P!IsPipeline

\* What ParserProofs proves of a line that is read,
LEMMA ParserReads == P!WInv => P!CommandsAsWritten /\ (parsing = "parsed" => P!IsPipeline)
  BY P!CommandsAre DEF P!WInv, P!GInv, P!AcceptsPipelines

\* also after a step.
LEMMA ParserReadsNext == (P!WInv => P!CommandsAsWritten /\ (parsing = "parsed" => P!IsPipeline))'
  BY ParserReads, PTL

\* It holds at first,
LEMMA WrittenAtFirst == Init => LineWritten
  BY DEF Init, LineWritten

\* and every step keeps it.
LEMMA LineWrittenNext == IInv /\ LineWritten /\ [Next]_vars => LineWritten'
<1> SUFFICES ASSUME IInv, LineWritten, [Next]_vars, parsing' = "parsed"
             PROVE  (P!CommandsAsWritten /\ P!IsPipeline)'
  BY DEF LineWritten
<1>1. CASE LexerStep \/ StartParser \/ ParserStep \/ ResetRefused
  <2>1. Reading'
    <3>1. parsing' # "wait"
      OBVIOUS
    <3>2. CASE LexerStep
      <4>1. LexerStep => lexing \in {"tokens", "word"} /\ UNCHANGED <<parVars, expVars>>
        BY DEF LexerStep, Lex!Next, Lex!SkipWhitespace, Lex!HandleOperator, Lex!HandleWord, Lex!End,
               Lex!QuotedSegment, Lex!UnclosedQuote, Lex!UnquotedSegment, Lex!EndWord
      <4>2. parsing = "wait"
        BY <3>2, <4>1 DEF IInv, ParseInv
      <4>3. QED
        BY <3>2, <4>1, <4>2 DEF parVars
    <3>3. CASE StartParser
      BY <3>3 DEF StartParser
    <3>4. CASE ParserStep \/ ResetRefused
      BY <3>4, ParserStepped DEF IInv
    <3>5. QED
      BY <1>1, <3>2, <3>3, <3>4
  <2>2. ParseInv'
    BY ParseNext DEF IInv
  <2>3. P!WInv'
    BY <2>1, <2>2 DEF ParseInv
  <2>4. QED
    BY <2>3, ParserReadsNext
<1>2. CASE StartExpander \/ ExpandArg \/ ExpanderStep \/ ResetLoop \/ UNCHANGED vars
  <2>1. UNCHANGED <<lexVars, parsed, parsing>>
    BY <1>2 DEF StartExpander, ExpandArg, ExpanderStep, ResetLoop, vars, parVars
  <2>2. types' = types /\ P!CommandsAsWritten /\ P!IsPipeline
    BY <2>1, SameTypes DEF LineWritten
  <2>3. P!CommandsAsWritten'
    BY <2>1, <2>2, P!StayWritten
  <2>4. P!IsPipeline'
    BY <2>1, <2>2 DEF P!IsPipeline, P!Redirections
  <2>5. QED
    BY <2>3, <2>4
<1>3. QED
  BY <1>1, <1>2 DEF Next

\* The files of a command are words behind an arrow of its part.
LEMMA FilesTyped ==
  ASSUME NEW from, LaidOut(from), P!IsPipeline, NEW n, NEW kinds \in SUBSET P!Redirections,
         NEW r \in DOMAIN P!WrittenRedirs(n, Len(tokens), kinds)
  PROVE  \E k \in FilesIn(n) : File(P!WrittenRedirs(n, Len(tokens), kinds)[r]) = TextAt(WordFrom(k))
<1> DEFINE S == P!RedirsIn(n, Len(tokens), kinds)
           list == P!WrittenRedirs(n, Len(tokens), kinds)
           places == P!InOrder(S)
           k == places[r]
<1>1. list = [m \in DOMAIN places |-> P!WrittenRedir(n, places[m])]
  BY DEF P!WrittenRedirs
<1>2. r \in DOMAIN places /\ list[r].file = k + 1
  BY <1>1 DEF P!WrittenRedir
<1>3. Len(tokens) \in Nat /\ DOMAIN types = 1 .. Len(tokens) /\ types[Len(tokens)] \notin P!Redirections
  <2>1. /\ types \in P!TokenLists /\ DOMAIN types = DOMAIN tokens /\ DOMAIN tokens = 1 .. Len(tokens)
        /\ Len(tokens) \in Nat
    BY TokensFit DEF LaidOut, LexInv, Lex!TypeOK
  <2>2. Len(types) = Len(tokens) /\ types # <<>>
    BY <2>1 DEF P!TokenLists
  <2>3. Len(tokens) \in DOMAIN types
    BY <2>1, <2>2 DEF P!TokenLists
  <2>4. types[Len(tokens)] = "END"
    BY <2>1, <2>2, <2>3 DEF P!TokenLists
  <2>5. QED
    BY <2>1, <2>4 DEF P!Redirections
<1>4. S \in SUBSET (1 .. Len(tokens)) /\ \A m \in S : P!CommandOf(m) = n /\ types[m] \in P!Redirections
  BY DEF P!RedirsIn, P!Part
<1>5. k \in S
  <2>1. S \in SUBSET Nat /\ IsFiniteSet(S)
    <3>1. IsFiniteSet(1 .. Len(tokens))
      BY <1>3, FS_Interval
    <3> HIDE DEF S
    <3>2. IsFiniteSet(S)
      BY <1>4, <3>1, FS_Subset
    <3>3. QED
      BY <1>4, <3>2
  <2>2. places \in Seq(S)
    <3> HIDE DEF S
    <3>1. InOrder(S) \in Seq(S)
      BY <2>1, InTheirOrder
    <3>2. QED
      BY <3>1, SameOrder
  <2> HIDE DEF places, S
  <2>3. QED
    BY <1>2, <2>2
<1> HIDE DEF list, S, k, places
<1>6. k \in 1 .. Len(tokens) /\ types[k] \in P!Redirections /\ P!CommandOf(k) = n
  BY <1>4, <1>5
<1>7. types[k + 1] = "WORD"
  BY <1>3, <1>6 DEF P!IsPipeline
<1>8. k + 1 \in 1 .. Len(tokens)
  <2>1. k # Len(tokens)
    BY <1>3, <1>6
  <2>2. QED
    BY <1>3, <1>6, <2>1
<1>9. from[k + 1] \in FilesIn(n) /\ TextAt(WordFrom(from[k + 1])) = tokens[k + 1].literal
  BY <1>6, <1>7, <1>8, FileIsWord
<1>10. File(list[r]) = tokens[k + 1].literal
  BY <1>2 DEF File
<1>11. QED
  BY <1>9, <1>10 DEF list

\* The arguments are the words that are typed there.
LEMMA ArgsTyped ==
  ASSUME NEW from, LaidOut(from), NEW n \in Nat, NEW command,
         command.args = P!InOrder(P!WordsIn(n, Len(tokens)))
  PROVE  LET words == InOrder(ArgumentsIn(n))
         IN  [a \in DOMAIN Handed(command).args |-> Unquoted(Handed(command).args[a].segments)]
               = [w \in DOMAIN words |-> TextAt(WordFrom(words[w]) \ Delimiters)]
<1> DEFINE S == P!WordsIn(n, Len(tokens))
           order == InOrder(S)
           words == InOrder(ArgumentsIn(n))
           args == [a \in DOMAIN order |-> [segments |-> tokens[order[a]].segments, value |-> NULL]]
<1>1. /\ S \in SUBSET (1 .. Len(tokens)) /\ \A k \in S : types[k] = "WORD"
      /\ words = [m \in DOMAIN order |-> from[order[m]]]
  BY ArgumentsAre
<1>2. command.args = order
  BY SameOrder
<1>3. Handed(command).args = args
  BY <1>2 DEF Handed
<1>4. order \in Seq(S)
  <2>1. Len(tokens) \in Nat
    BY InTokenOrder
  <2>2. IsFiniteSet(1 .. Len(tokens)) /\ 1 .. Len(tokens) \in SUBSET Nat
    BY <2>1, FS_Interval
  <2> HIDE DEF S
  <2>3. IsFiniteSet(S)
    BY <1>1, <2>2, FS_Subset
  <2>4. QED
    BY <1>1, <2>2, <2>3, InTheirOrder
<1> HIDE DEF S, order, words
<1>5. ASSUME NEW a \in DOMAIN order
      PROVE  Unquoted(args[a].segments) = TextAt(WordFrom(words[a]) \ Delimiters)
  <2>1. order[a] \in S
    BY <1>4
  <2>2. order[a] \in 1 .. Len(tokens) /\ types[order[a]] = "WORD"
    BY <1>1, <2>1
  <2>3. args[a].segments = tokens[order[a]].segments
    OBVIOUS
  <2>4. words[a] = from[order[a]]
    BY <1>1
  <2>5. QED
    BY <2>2, <2>3, <2>4, WordIsLiteral
<1>6. DOMAIN args = DOMAIN order /\ DOMAIN words = DOMAIN order
  BY <1>1
<1> HIDE DEF args
<1>7. QED
  BY <1>3, <1>5, <1>6 DEF words

\* What has come of a line when the expander is done.
LEMMA DoneAsTyped ==
  ASSUME IInv, SegmentsInv, PlacesInv, LineWritten, PlainDone, expanding = "done", parsing = "parsed"
  PROVE  CommandsAsTyped
<1> DEFINE m == P!CommandOf(Len(tokens))
<1>1. PICK from : LaidOut(from)
  <2>1. lexing = "done" /\ LexInv
    BY DEF IInv, ParseInv
  <2>2. QED
    BY <2>1 DEF PlacesInv, LaidOut
<1>2. /\ m \in Nat /\ Cardinality(BareAt({"|"})) = m - 1
      /\ Len(types) = Len(tokens)
  <2>1. types \in P!TokenLists /\ DOMAIN types = DOMAIN tokens /\ DOMAIN tokens = 1 .. Len(tokens) /\ Len(tokens) \in Nat
    BY <1>1, TokensFit DEF LaidOut, LexInv, Lex!TypeOK
  <2>2. Len(types) = Len(tokens)
    BY <2>1 DEF P!TokenLists
  <2>3. QED
    BY <1>1, <2>2, PipesCounted
<1> HIDE DEF m
<1>3. parsed = [k \in 1 .. m |-> P!WrittenCommand(k, Len(tokens))] /\ P!IsPipeline
  BY <1>2 DEF LineWritten, P!CommandsAsWritten, m
<1>4. /\ written = [k \in DOMAIN parsed |-> Handed(parsed[k])] /\ commands \in Seq(Exp!Command)
      /\ written \in Seq(Exp!Command) /\ Len(written) = Len(commands) /\ c \in 1 .. Len(commands) + 1
      /\ ~(c <= Len(commands)) /\ \A k \in DOMAIN written : Readable(written[k])
  BY DEF IInv, FreedInv, ExpandInv, ExpandTypes, Exp!TypeOK
<1>5. Len(commands) = m /\ DOMAIN commands = 1 .. m /\ \A k \in 1 .. m : k < c
  <2>1. DOMAIN written = 1 .. m
    BY <1>3, <1>4
  <2>2. DOMAIN commands = DOMAIN written /\ Len(commands) \in Nat /\ DOMAIN commands = 1 .. Len(commands)
    BY <1>4
  <2>3. Len(commands) = m
    BY <1>2, <2>1, <2>2
  <2>4. QED
    BY <1>4, <2>2, <2>3
<1>6. Len(commands) = 1 + Cardinality(BareAt({"|"}))
  BY <1>2, <1>5
<1>7. ASSUME ~Contains(input, "$"), NEW n \in DOMAIN commands
      PROVE  /\ LET words == InOrder(ArgumentsIn(n))
                IN  Exp!Values(commands[n].args) = [w \in DOMAIN words |-> TextAt(WordFrom(words[w]) \ Delimiters)]
             /\ Range(commands[n].input_redirection) \union Range(commands[n].output_redirection)
                  \subseteq {TextAt(WordFrom(k)) : k \in FilesIn(n)}
  <2> DEFINE cmd == P!WrittenCommand(n, Len(tokens))
             in == P!WrittenRedirs(n, Len(tokens), {"REDIRECT_IN"})
             out == P!WrittenRedirs(n, Len(tokens), {"REDIRECT_OUT", "APPEND"})
  <2>1. n \in Nat /\ n \in DOMAIN written /\ written[n] = Handed(cmd) /\ AsWritten(commands[n], written[n])
    BY <1>2, <1>3, <1>4, <1>5, <1>7 DEF PlainDone
  <2>2. cmd.args = P!InOrder(P!WordsIn(n, Len(tokens))) /\ cmd.input_redirection = in /\ cmd.output_redirection = out
    BY DEF P!WrittenCommand
  <2> HIDE DEF cmd, in, out
  <2>3. LET words == InOrder(ArgumentsIn(n))
        IN  Exp!Values(commands[n].args) = [w \in DOMAIN words |-> TextAt(WordFrom(words[w]) \ Delimiters)]
    BY <1>1, <2>1, <2>2, ArgsTyped DEF AsWritten
  <2>4. /\ commands[n].input_redirection = [r \in DOMAIN in |-> File(in[r])]
        /\ commands[n].output_redirection = [r \in DOMAIN out |-> File(out[r])]
    BY <2>1, <2>2 DEF AsWritten, Handed
  <2>5. {"REDIRECT_IN"} \in SUBSET P!Redirections /\ {"REDIRECT_OUT", "APPEND"} \in SUBSET P!Redirections
    BY DEF P!Redirections
  <2>6. /\ \A r \in DOMAIN in : \E k \in FilesIn(n) : File(in[r]) = TextAt(WordFrom(k))
        /\ \A r \in DOMAIN out : \E k \in FilesIn(n) : File(out[r]) = TextAt(WordFrom(k))
    BY <1>1, <1>3, <2>5, FilesTyped DEF in, out
  <2>7. /\ Range(commands[n].input_redirection) = {File(in[r]) : r \in DOMAIN in}
        /\ Range(commands[n].output_redirection) = {File(out[r]) : r \in DOMAIN out}
    BY <2>4 DEF Range
  <2>8. QED
    BY <2>3, <2>6, <2>7
<1>8. QED
  BY <1>6, <1>7 DEF CommandsAsTyped, Delimiters

\* FrontEnd.CommandsAsTyped, for lines of any length: what a command is given is
\* what was typed between two pipes.
THEOREM CommandsTyped == Spec => []CommandsAsTyped
<1> DEFINE All == IInv /\ SpellInv /\ SegmentsInv /\ PlacesInv /\ LineWritten /\ PlainDone
<1>1. Init => All
  BY AllInit, SpellInit, SegmentsInit, PlacesInit, WrittenAtFirst, PlainInit DEF Init
<1>2. All /\ [Next]_vars => All'
  <2> SUFFICES ASSUME All, [Next]_vars PROVE All'
    OBVIOUS
  <2>1. LexInv
    BY DEF IInv
  <2>2. IInv' /\ SpellInv' /\ SegmentsInv' /\ PlacesInv'
    BY <2>1, LexerSteps, AllNext, SpellNext, SegmentsNext, PlacesNext
  <2>3. QED
    BY <2>2, LineWrittenNext, PlainNext
<1>3. All => CommandsAsTyped
  <2>1. ~(expanding = "done" /\ parsing = "parsed") => CommandsAsTyped
    BY DEF CommandsAsTyped
  <2>2. QED
    BY <2>1, DoneAsTyped
<1>4. QED
  BY <1>1, <1>2, <1>3, PTL DEF Spec
==============================================================================
