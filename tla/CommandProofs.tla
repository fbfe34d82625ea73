--------------------------- MODULE CommandProofs ---------------------------
(***************************************************************************)
(* What goes on behind one command, for every argument, every environment, *)
(* every PATH and every width of long long: exit leaves the number it was  *)
(* given, export lists the environment once and in order, and the search   *)
(* for a program finds what others leave alone; a shell within another has *)
(* the next level, for every width of int.  Each part has an               *)
(* invariant of its own; at the end they are put together for Command,     *)
(* where one part is at work and the others are at rest.  After them is    *)
(* cd, for every tree, every PWD and every argument: what keeps the text   *)
(* in PWD and the place the shell is in together.                          *)
(***************************************************************************)
EXTENDS Command, Cd, Integers, FiniteSetTheorems, SequenceTheorems, WellFoundedInduction, TLAPS

----------------------------------------------------------------------------
(* Numbers and sequences.                                                  *)

\* A set of natural numbers that is not empty has a least one.
LEMMA LeastNat ==
  ASSUME NEW S \in SUBSET Nat, S # {}
  PROVE  \E m \in S : \A n \in S : m <= n
<1> DEFINE R == {p \in Nat \X Nat : p[1] < p[2]}
<1>1. R = OpToRel(<, Nat)
  BY DEF OpToRel
<1>2. IsWellFoundedOn(R, Nat)
  BY <1>1, NatLessThanWellFounded, Zenon
<1>3. PICK m \in S : \A n \in S : ~(<<n, m>> \in R)
  <2> HIDE DEF R
  <2> QED
  BY <1>2, WFMin, Zenon
<1>4. \A n \in S : ~(n < m)
  BY <1>3
<1>5. QED
  BY <1>4

\* Two sequences with the same elements are one.
LEMMA SeqSame ==
  ASSUME NEW T, NEW a \in Seq(T), NEW b \in Seq(T), Len(a) = Len(b),
         \A k \in 1 .. Len(a) : a[k] = b[k]
  PROVE  a = b
<1>1. a = [k \in 1 .. Len(a) |-> a[k]] /\ b = [k \in 1 .. Len(b) |-> b[k]]
  OBVIOUS
<1>2. QED
  BY <1>1

\* A sequence put together of two and an element between them can be taken apart.
LEMMA Joined ==
  ASSUME NEW T, NEW a \in Seq(T), NEW c \in T, NEW b \in Seq(T), NEW s, s = a \o <<c>> \o b
  PROVE  /\ s \in Seq(T) /\ Len(s) = Len(a) + 1 + Len(b)
         /\ Len(a) \in Nat /\ Len(b) \in Nat
         /\ s[Len(a) + 1] = c
         /\ \A k \in 1 .. Len(a) : s[k] = a[k]
         /\ SubSeq(s, 1, Len(a)) = a /\ SubSeq(s, Len(a) + 2, Len(s)) = b
<1>1. /\ s \in Seq(T) /\ Len(s) = Len(a) + 1 + Len(b) /\ Len(a) \in Nat /\ Len(b) \in Nat
      /\ s[Len(a) + 1] = c
      /\ \A k \in 1 .. Len(a) : s[k] = a[k]
      /\ \A k \in 1 .. Len(b) : s[Len(a) + 1 + k] = b[k]
  OBVIOUS
<1>2. SubSeq(s, 1, Len(a)) = a
  <2>1. SubSeq(s, 1, Len(a)) \in Seq(T) /\ Len(SubSeq(s, 1, Len(a))) = Len(a)
    BY <1>1
  <2>2. \A k \in 1 .. Len(a) : SubSeq(s, 1, Len(a))[k] = a[k]
    BY <1>1
  <2>3. QED
    BY <2>1, <2>2, SeqSame
<1>3. SubSeq(s, Len(a) + 2, Len(s)) = b
  <2> DEFINE rest == SubSeq(s, Len(a) + 2, Len(s))
  <2>1. rest \in Seq(T) /\ Len(rest) = Len(b)
    BY <1>1
  <2>2. ASSUME NEW k \in 1 .. Len(b) PROVE rest[k] = b[k]
    <3>1. rest[k] = s[Len(a) + 2 + k - 1]
      BY <1>1
    <3>2. Len(a) + 2 + k - 1 = Len(a) + 1 + k
      BY <1>1
    <3>3. QED
      BY <1>1, <3>1, <3>2
  <2> HIDE DEF rest
  <2>3. rest \in Seq(T) /\ Len(rest) = Len(b) /\ \A k \in 1 .. Len(rest) : rest[k] = b[k]
    BY <2>1, <2>2
  <2>4. rest = b
    BY <2>3, SeqSame
  <2>5. QED
    BY <2>4 DEF rest
<1>4. QED
  BY <1>1, <1>2, <1>3

\* A sequence of one element.
LEMMA Single == ASSUME NEW T, NEW a \in Seq(T), NEW c, Len(a) = 1, a[1] = c PROVE a = <<c>>
  OBVIOUS

\* What holds at 0, and at each number if at the one before it, holds up to n.
LEMMA UpTo ==
  ASSUME NEW n \in Nat, NEW Good \in SUBSET (0 .. n), 0 \in Good,
         \A k \in 1 .. n : k - 1 \in Good => k \in Good
  PROVE  Good = 0 .. n
<1> DEFINE Bad == (0 .. n) \ Good
<1> SUFFICES ASSUME Bad # {} PROVE FALSE
  OBVIOUS
<1>1. Bad \in SUBSET Nat
  OBVIOUS
<1>2. PICK m \in Bad : \A l \in Bad : m <= l
  BY <1>1, LeastNat
<1>3. m \in 1 .. n /\ m - 1 \in 0 .. n /\ ~(m <= m - 1)
  BY <1>2
<1>4. m - 1 \in Good
  BY <1>2, <1>3
<1>5. QED
  BY <1>2, <1>3, <1>4

\* f[k] is made by the k-th step of f[k - 1].
Folds(n, base, step, f) == f = [k \in 0 .. n |-> IF k = 0 THEN base ELSE step[k][f[k - 1]]]

\* Such a function exists, and stays in S if every step does.
LEMMA Folding ==
  ASSUME NEW n \in Nat, NEW S, NEW base \in S, NEW step, \A k \in 1 .. n : step[k] \in [S -> S]
  PROVE  /\ \E f : Folds(n, base, step, f)
         /\ \A f : Folds(n, base, step, f) => \A k \in 0 .. n : f[k] \in S
<1> DEFINE Upto(m, f) == f[0] = base /\ \A k \in 1 .. m : f[k] = step[k][f[k - 1]]
           Good == {m \in 0 .. n : \E f \in [0 .. n -> S] : Upto(m, f)}
<1>1. 0 \in Good
  <2>1. [k \in 0 .. n |-> base] \in [0 .. n -> S] /\ Upto(0, [k \in 0 .. n |-> base])
    OBVIOUS
  <2>2. 0 \in 0 .. n
    OBVIOUS
  <2> HIDE DEF Upto
  <2>3. QED
    BY <2>1, <2>2
<1>2. ASSUME NEW m \in 1 .. n, m - 1 \in Good PROVE m \in Good
  <2>1. PICK g \in [0 .. n -> S] : Upto(m - 1, g)
    BY <1>2
  <2> DEFINE f == [g EXCEPT ![m] = step[m][g[m - 1]]]
  <2>2. m \in 0 .. n /\ m - 1 \in 0 .. n
    OBVIOUS
  <2>3. step[m][g[m - 1]] \in S
    <3>1. g[m - 1] \in S
      BY <2>2
    <3>2. step[m] \in [S -> S]
      OBVIOUS
    <3>3. QED
      BY <3>1, <3>2
  <2>4. f \in [0 .. n -> S]
    BY <2>3
  <2>5. f[m] = step[m][g[m - 1]] /\ \A k \in 0 .. n : k # m => f[k] = g[k]
    BY <2>2
  <2> HIDE DEF f
  <2>6. f[0] = base
    BY <2>1, <2>5
  <2>7. ASSUME NEW k \in 1 .. m PROVE f[k] = step[k][f[k - 1]]
    <3>1. f[k - 1] = g[k - 1]
      BY <2>5
    <3>2. CASE k = m
      BY <2>5, <3>1, <3>2
    <3>3. CASE k # m
      <4>1. k \in 1 .. m - 1 /\ k \in 0 .. n
        BY <3>3
      <4>2. QED
        BY <2>1, <2>5, <3>1, <3>3, <4>1
    <3>4. QED
      BY <3>2, <3>3
  <2>8. QED
    BY <2>2, <2>4, <2>6, <2>7
<1>3. Good = 0 .. n
  <2> HIDE DEF Good
  <2>1. Good \in SUBSET (0 .. n)
    BY DEF Good
  <2>2. QED
    BY <1>1, <1>2, <2>1, UpTo
<1>4. \E f : Folds(n, base, step, f)
  <2>1. PICK f \in [0 .. n -> S] : Upto(n, f)
    <3>1. n \in 0 .. n
      OBVIOUS
    <3> HIDE DEF Upto
    <3>2. QED
      BY <1>3, <3>1
  <2>2. \A k \in 0 .. n : f[k] = IF k = 0 THEN base ELSE step[k][f[k - 1]]
    BY <2>1
  <2>3. f = [k \in 0 .. n |-> IF k = 0 THEN base ELSE step[k][f[k - 1]]]
    BY <2>2
  <2>4. QED
    BY <2>3 DEF Folds
<1>5. ASSUME NEW f, Folds(n, base, step, f) PROVE \A k \in 0 .. n : f[k] \in S
  <2> DEFINE Typed == {k \in 0 .. n : f[k] \in S}
  <2>1. \A k \in 0 .. n : f[k] = IF k = 0 THEN base ELSE step[k][f[k - 1]]
    BY <1>5 DEF Folds
  <2>2. 0 \in Typed
    <3>1. 0 \in 0 .. n
      OBVIOUS
    <3>2. f[0] = base
      BY <2>1, <3>1
    <3>3. QED
      BY <3>1, <3>2
  <2>3. ASSUME NEW k \in 1 .. n, k - 1 \in Typed PROVE k \in Typed
    <3>1. k \in 0 .. n /\ k # 0
      OBVIOUS
    <3>2. f[k] = step[k][f[k - 1]]
      BY <2>1, <3>1
    <3>3. step[k] \in [S -> S] /\ f[k - 1] \in S
      BY <2>3
    <3>4. QED
      BY <3>1, <3>2, <3>3
  <2>4. Typed = 0 .. n
    <3> HIDE DEF Typed
    <3>1. Typed \in SUBSET (0 .. n)
      BY DEF Typed
    <3>2. QED
      BY <2>2, <2>3, <3>1, UpTo
  <2>5. QED
    BY <2>4
<1>6. QED
  BY <1>4, <1>5

\* SequencesExt.Hd!FlattenSeq, of no sequence and of one more.
LEMMA Flattened ==
  ASSUME NEW S, NEW seqs \in Seq(Seq(S))
  PROVE  \E f : /\ f[0] = <<>> /\ \A k \in 1 .. Len(seqs) : f[k] = f[k - 1] \o seqs[k]
                /\ \A k \in 0 .. Len(seqs) : f[k] \in Seq(S)
                /\ Hd!FlattenSeq(seqs) = f[Len(seqs)]
<1> DEFINE n == Len(seqs)
           step == [k \in 1 .. n |-> [t \in Seq(S) |-> t \o seqs[k]]]
           Is(g) == g = [k \in 1 .. n |-> IF k = 1 THEN seqs[k] ELSE g[k - 1] \o seqs[k]]
<1>1. n \in Nat /\ \A k \in 1 .. n : seqs[k] \in Seq(S)
  OBVIOUS
<1>2. Hd!FlattenSeq(seqs) = IF n = 0 THEN seqs ELSE (CHOOSE g : Is(g))[n]
  BY DEF Hd!FlattenSeq
<1> HIDE DEF n
<1>3. \A k \in 1 .. n : /\ step[k] \in [Seq(S) -> Seq(S)]
                        /\ \A t \in Seq(S) : step[k][t] = t \o seqs[k]
  BY <1>1
<1>4. PICK f : Folds(n, <<>>, step, f) /\ \A k \in 0 .. n : f[k] \in Seq(S)
  <2> HIDE DEF step
  <2>1. <<>> \in Seq(S)
    OBVIOUS
  <2>2. QED
    BY <1>1, <1>3, <2>1, Folding
<1>5. f = [k \in 0 .. n |-> IF k = 0 THEN <<>> ELSE step[k][f[k - 1]]]
  BY <1>4 DEF Folds
<1> HIDE DEF step
<1>6. f[0] = <<>>
  BY <1>1, <1>5
<1>7. ASSUME NEW k \in 1 .. n PROVE f[k] = f[k - 1] \o seqs[k]
  <2>1. k \in 0 .. n /\ k # 0 /\ k - 1 \in 0 .. n
    BY <1>1
  <2>2. f[k] = step[k][f[k - 1]]
    BY <1>5, <2>1
  <2>3. QED
    BY <1>3, <1>4, <2>1, <2>2
<1>8. CASE n = 0
  <2>1. seqs = <<>>
    BY <1>8 DEF n
  <2>2. Hd!FlattenSeq(seqs) = f[n]
    BY <1>2, <1>6, <1>8, <2>1
  <2>3. QED
    BY <1>4, <1>6, <1>7, <2>2 DEF n
<1>9. CASE n # 0
  <2> DEFINE h == [k \in 1 .. n |-> f[k]]
  <2>1. \A k \in 1 .. n : h[k] = IF k = 1 THEN seqs[k] ELSE h[k - 1] \o seqs[k]
    <3> SUFFICES ASSUME NEW k \in 1 .. n PROVE h[k] = IF k = 1 THEN seqs[k] ELSE h[k - 1] \o seqs[k]
      OBVIOUS
    <3>1. h[k] = f[k - 1] \o seqs[k]
      BY <1>7
    <3>2. CASE k = 1
      <4>1. h[k] = <<>> \o seqs[k]
        <5>1. k - 1 = 0
          BY <3>2
        <5> HIDE DEF h
        <5>2. QED
          BY <1>6, <3>1, <5>1
      <4>2. <<>> \o seqs[k] = seqs[k]
        <5> DEFINE t == seqs[k]
        <5>1. t \in Seq(S)
          BY <1>1
        <5> HIDE DEF t
        <5>2. <<>> \o t = t
          BY <5>1, ConcatEmptySeq
        <5>3. QED
          BY <5>2 DEF t
      <4>3. QED
        BY <3>2, <4>1, <4>2
    <3>3. CASE k # 1
      <4>1. k - 1 \in 1 .. n
        BY <1>1, <3>3
      <4>2. QED
        BY <3>1, <3>3, <4>1
    <3>4. QED
      BY <3>2, <3>3
  <2>2. h = [k \in 1 .. n |-> h[k]]
    OBVIOUS
  <2> HIDE DEF h
  <2>3. Is(h)
    BY <2>1, <2>2
  <2> DEFINE flat == CHOOSE g : Is(g)
  <2>4. Is(flat)
    <3> HIDE DEF Is
    <3>1. QED
      BY <2>3
  <2>5. Hd!FlattenSeq(seqs) = flat[n]
    BY <1>2, <1>9
  <2> HIDE DEF flat
  <2>6. \A k \in 1 .. n : flat[k] = IF k = 1 THEN seqs[k] ELSE flat[k - 1] \o seqs[k]
    BY <2>4
  <2>7. \A k \in 1 .. n : flat[k] = h[k]
    <3> DEFINE Good == {k \in 0 .. n : k # 0 => flat[k] = h[k]}
    <3>1. 0 \in Good
      BY <1>1
    <3>2. ASSUME NEW k \in 1 .. n, k - 1 \in Good PROVE k \in Good
      <4>1. k \in 0 .. n /\ (k # 1 => k - 1 \in 1 .. n /\ k - 1 # 0)
        BY <1>1
      <4>2. k # 1 => flat[k - 1] = h[k - 1]
        BY <3>2, <4>1
      <4>3. flat[k] = h[k]
        BY <2>1, <2>6, <4>2
      <4>4. QED
        BY <4>1, <4>3
    <3>3. Good = 0 .. n
      <4> HIDE DEF Good
      <4>1. Good \in SUBSET (0 .. n)
        BY DEF Good
      <4>2. QED
        BY <1>1, <3>1, <3>2, <4>1, UpTo
    <3>4. ASSUME NEW k \in 1 .. n PROVE flat[k] = h[k]
      <4>1. k \in 0 .. n /\ k # 0
        BY <1>1
      <4>2. QED
        BY <3>3, <4>1
    <3>5. QED
      BY <3>4
  <2>8. n \in 1 .. n
    BY <1>1, <1>9
  <2>9. Hd!FlattenSeq(seqs) = f[n]
    BY <2>5, <2>7, <2>8 DEF h
  <2>10. QED
    BY <1>4, <1>6, <1>7, <2>9 DEF n
<1>10. QED
  BY <1>8, <1>9

\* One sequence more.
LEMMA FlattenedOn ==
  ASSUME NEW S, NEW seqs \in Seq(Seq(S)), NEW more \in Seq(S)
  PROVE  Hd!FlattenSeq(Append(seqs, more)) = Hd!FlattenSeq(seqs) \o more /\ Hd!FlattenSeq(seqs) \in Seq(S)
<1> DEFINE longer == Append(seqs, more)
           n == Len(seqs)
           m == n + 1
<1>1. seqs \in Seq(Seq(S)) /\ n \in Nat
  OBVIOUS
<1>2. /\ longer \in Seq(Seq(S)) /\ Len(longer) = m /\ longer[m] = more
      /\ \A k \in 1 .. n : longer[k] = seqs[k]
  BY <1>1, AppendProperties
<1> HIDE DEF longer
<1>3. PICK f : /\ f[0] = <<>> /\ \A k \in 1 .. n : f[k] = f[k - 1] \o seqs[k]
               /\ \A k \in 0 .. n : f[k] \in Seq(S)
               /\ Hd!FlattenSeq(seqs) = f[n]
  BY Flattened
<1>4. PICK g : /\ g[0] = <<>> /\ \A k \in 1 .. m : g[k] = g[k - 1] \o longer[k]
               /\ Hd!FlattenSeq(longer) = g[m]
  <2> HIDE DEF m, n
  <2>1. QED
    BY <1>2, Flattened
<1>5. m \in 1 .. m /\ m - 1 = n /\ \A k \in 1 .. n : k \in 1 .. m
  BY <1>1
<1> HIDE DEF m, n
<1>6. g[n] = f[n]
  <2> DEFINE Good == {k \in 0 .. n : g[k] = f[k]}
  <2>1. 0 \in Good
    BY <1>1, <1>3, <1>4
  <2>2. ASSUME NEW k \in 1 .. n, k - 1 \in Good PROVE k \in Good
    <3>1. k \in 0 .. n /\ k \in 1 .. m /\ g[k - 1] = f[k - 1]
      BY <1>1, <1>5, <2>2
    <3>2. g[k] = g[k - 1] \o longer[k] /\ longer[k] = seqs[k]
      BY <1>2, <1>4, <3>1
    <3>3. f[k] = f[k - 1] \o seqs[k]
      BY <1>3
    <3>4. QED
      BY <3>1, <3>2, <3>3
  <2>3. Good = 0 .. n
    <3> HIDE DEF Good
    <3>1. Good \in SUBSET (0 .. n)
      BY DEF Good
    <3>2. QED
      BY <1>1, <2>1, <2>2, <3>1, UpTo
  <2>4. n \in 0 .. n
    BY <1>1
  <2>5. QED
    BY <2>3, <2>4
<1>7. g[m] = g[n] \o more
  BY <1>2, <1>4, <1>5
<1>8. f[n] \in Seq(S)
  <2>1. n \in 0 .. n
    BY <1>1
  <2>2. QED
    BY <1>3, <2>1
<1>9. QED
  BY <1>3, <1>4, <1>6, <1>7, <1>8 DEF longer

\* Nothing but empty sequences.
LEMMA FlattenedEmpty ==
  ASSUME NEW S, NEW seqs \in Seq(Seq(S)), \A k \in DOMAIN seqs : seqs[k] = <<>>
  PROVE  Hd!FlattenSeq(seqs) = <<>>
<1> DEFINE n == Len(seqs)
<1>1. n \in Nat /\ \A k \in 1 .. n : seqs[k] = <<>>
  OBVIOUS
<1>2. PICK f : /\ f[0] = <<>> /\ \A k \in 1 .. n : f[k] = f[k - 1] \o seqs[k]
               /\ Hd!FlattenSeq(seqs) = f[n]
  BY Flattened
<1> HIDE DEF n
<1> DEFINE Good == {k \in 0 .. n : f[k] = <<>>}
<1>3. 0 \in Good
  BY <1>1, <1>2
<1>4. ASSUME NEW k \in 1 .. n, k - 1 \in Good PROVE k \in Good
  <2>1. f[k] = f[k - 1] \o seqs[k]
    BY <1>2
  <2>2. f[k - 1] = <<>> /\ seqs[k] = <<>> /\ k \in 0 .. n
    BY <1>1, <1>4
  <2>3. QED
    BY <2>1, <2>2
<1>5. Good = 0 .. n
  <2> HIDE DEF Good
  <2>1. Good \in SUBSET (0 .. n)
    BY DEF Good
  <2>2. QED
    BY <1>1, <1>3, <1>4, <2>1, UpTo
<1>6. QED
  BY <1>1, <1>2, <1>5

\* F[s] is what a loop over s gives, which starts with base and takes a step for
\* each element, whichever way its turns g are written.
LoopOver(V, C, base, step, F) ==
  /\ F \in [Seq(C) -> V]
  /\ F[<<>>] = base
  /\ \A s \in Seq(C), c \in C : F[Append(s, c)] = step[F[s]][c]
  /\ \A s \in Seq(C) : \E f \in [0 .. Len(s) -> V] :
       f[0] = base /\ \A k \in 1 .. Len(s) : f[k] = step[f[k - 1]][s[k]]
  /\ \A s \in Seq(C) : \A g :
       g[0] = base /\ (\A k \in 1 .. Len(s) : g[k - 1] \in V => g[k] = step[g[k - 1]][s[k]])
         => g[Len(s)] = F[s]

\* There is one for any step.
LEMMA Loops ==
  ASSUME NEW V, NEW C, NEW base \in V, NEW step \in [V -> [C -> V]]
  PROVE  \E F : LoopOver(V, C, base, step, F)
<1> DEFINE Turns(s, f) == f[0] = base /\ \A k \in 1 .. Len(s) : f[k] = step[f[k - 1]][s[k]]
           Same(s, g) == g[0] = base /\ \A k \in 1 .. Len(s) : g[k - 1] \in V => g[k] = step[g[k - 1]][s[k]]
           The(s) == CHOOSE f \in [0 .. Len(s) -> V] : Turns(s, f)
           F == [s \in Seq(C) |-> The(s)[Len(s)]]
<1>1. ASSUME NEW s \in Seq(C) PROVE \E f \in [0 .. Len(s) -> V] : Turns(s, f)
  <2> DEFINE n == Len(s)
             turn == [k \in 1 .. n |-> [v \in V |-> step[v][s[k]]]]
  <2>1. n \in Nat /\ \A k \in 1 .. n : s[k] \in C
    OBVIOUS
  <2>2. \A k \in 1 .. n : /\ turn[k] \in [V -> V]
                          /\ \A v \in V : turn[k][v] = step[v][s[k]]
    BY <2>1
  <2>3. turn \in [1 .. n -> [V -> V]]
    BY <2>2
  <2> HIDE DEF turn, n
  <2>4. PICK f : Folds(n, base, turn, f) /\ \A k \in 0 .. n : f[k] \in V
    BY <2>1, <2>2, Folding
  <2>5. f = [k \in 0 .. n |-> IF k = 0 THEN base ELSE turn[k][f[k - 1]]]
    BY <2>4 DEF Folds
  <2>6. f \in [0 .. n -> V]
    BY <2>4, <2>5
  <2>7. f[0] = base
    BY <2>1, <2>5
  <2>8. ASSUME NEW k \in 1 .. n PROVE f[k] = step[f[k - 1]][s[k]]
    <3>1. k \in 0 .. n /\ k # 0 /\ k - 1 \in 0 .. n
      BY <2>1
    <3>2. f[k] = turn[k][f[k - 1]]
      BY <2>5, <3>1
    <3>3. f[k - 1] \in V
      BY <2>6, <3>1
    <3>4. QED
      BY <2>2, <3>2, <3>3
  <2>9. QED
    BY <2>6, <2>7, <2>8 DEF n
<1>2. ASSUME NEW s \in Seq(C) PROVE The(s) \in [0 .. Len(s) -> V] /\ Turns(s, The(s))
  <2> HIDE DEF Turns
  <2>1. QED
    BY <1>1
<1> HIDE DEF The
<1>3. F \in [Seq(C) -> V]
  <2>1. ASSUME NEW s \in Seq(C) PROVE The(s)[Len(s)] \in V
    <3>1. Len(s) \in 0 .. Len(s)
      OBVIOUS
    <3>2. QED
      BY <1>2, <3>1
  <2>2. QED
    BY <2>1
<1>4. ASSUME NEW s \in Seq(C), NEW g, Same(s, g) PROVE g[Len(s)] = F[s]
  <2> DEFINE n == Len(s)
             f == The(s)
             Good == {k \in 0 .. n : g[k] = f[k]}
  <2>1. n \in Nat /\ f \in [0 .. n -> V] /\ Turns(s, f)
    BY <1>2
  <2> HIDE DEF f, n
  <2>2. 0 \in Good
    BY <1>4, <2>1
  <2>3. ASSUME NEW k \in 1 .. n, k - 1 \in Good PROVE k \in Good
    <3>1. k \in 0 .. n /\ k - 1 \in 0 .. n /\ g[k - 1] = f[k - 1]
      BY <2>1, <2>3
    <3>2. f[k - 1] \in V
      BY <2>1, <3>1
    <3>3. g[k] = step[g[k - 1]][s[k]] /\ f[k] = step[f[k - 1]][s[k]]
      BY <1>4, <2>1, <3>1, <3>2 DEF n
    <3>4. QED
      BY <3>1, <3>3
  <2>4. Good = 0 .. n
    <3> HIDE DEF Good
    <3>1. Good \in SUBSET (0 .. n)
      BY DEF Good
    <3>2. QED
      BY <2>1, <2>2, <2>3, <3>1, UpTo
  <2>5. n \in Good
    <3>1. n \in 0 .. n
      BY <2>1
    <3> HIDE DEF Good
    <3>2. QED
      BY <2>4, <3>1
  <2>6. F[s] = f[n]
    BY DEF f, n
  <2>7. g[n] = f[n]
    BY <2>5
  <2>8. QED
    BY <2>6, <2>7 DEF n
<1>5. F[<<>>] = base
  <2> DEFINE e == <<>>
  <2>1. e \in Seq(C) /\ Len(e) = 0
    OBVIOUS
  <2> HIDE DEF e
  <2>2. The(e)[0] = base
    BY <1>2, <2>1
  <2>3. F[e] = The(e)[0]
    BY <2>1
  <2>4. QED
    BY <2>2, <2>3 DEF e
<1>6. ASSUME NEW s \in Seq(C), NEW c \in C PROVE F[Append(s, c)] = step[F[s]][c]
  <2> DEFINE t == Append(s, c)
             n == Len(s)
             m == n + 1
             f == The(t)
  <2>1. /\ t \in Seq(C) /\ Len(t) = m /\ t[m] = c /\ n \in Nat /\ (\A k \in 1 .. n : t[k] = s[k] /\ k \in 1 .. m)
        /\ m \in 1 .. m /\ m - 1 = n
    BY AppendProperties
  <2> HIDE DEF t, m
  <2>2. f[0] = base /\ \A k \in 1 .. m : f[k] = step[f[k - 1]][t[k]]
    BY <1>2, <2>1
  <2>3. F[t] = f[m]
    BY <2>1
  <2> HIDE DEF f
  <2>4. Same(s, f)
    BY <2>1, <2>2
  <2>5. f[n] = F[s]
    <3> HIDE DEF Same, F
    <3>1. QED
      BY <1>4, <2>4
  <2>6. f[m] = step[f[n]][c]
    BY <2>1, <2>2
  <2>7. QED
    BY <2>3, <2>5, <2>6 DEF t
<1> HIDE DEF F
<1>7. LoopOver(V, C, base, step, F)
  BY <1>1, <1>3, <1>4, <1>5, <1>6 DEF LoopOver
<1>8. QED
  BY <1>7

\* The start of a sequence, and the start one longer.
LEMMA Starts ==
  ASSUME NEW T, NEW s \in Seq(T)
  PROVE  /\ SubSeq(s, 1, 0) = <<>> /\ SubSeq(s, 1, Len(s)) = s
         /\ \A k \in 1 .. Len(s) :
              /\ SubSeq(s, 1, k - 1) \in Seq(T) /\ s[k] \in T
              /\ SubSeq(s, 1, k) = Append(SubSeq(s, 1, k - 1), s[k])
<1>1. SubSeq(s, 1, 0) = <<>>
  BY SubSeqEmpty
<1>2. SubSeq(s, 1, Len(s)) = s
  BY SubSeqFull
<1>3. ASSUME NEW k \in 1 .. Len(s)
      PROVE  /\ SubSeq(s, 1, k - 1) \in Seq(T) /\ s[k] \in T
             /\ SubSeq(s, 1, k) = Append(SubSeq(s, 1, k - 1), s[k])
  <2> DEFINE t == SubSeq(s, 1, k - 1)
             u == SubSeq(s, 1, k)
             w == Append(t, s[k])
  <2>1. /\ Len(s) \in Nat /\ k \in Int /\ k - 1 \in Int /\ 1 <= k /\ k - 1 >= 0
        /\ \A m \in 1 .. Len(s) : s[m] \in T
    OBVIOUS
  <2>2. u \in Seq(T) /\ Len(u) = k /\ \A m \in 1 .. k : u[m] = s[m]
    <3>1. \A m \in 1 .. k : s[m] \in T
      BY <2>1
    <3>2. /\ u \in Seq(T) /\ Len(u) = IF 1 <= k THEN k - 1 + 1 ELSE 0
          /\ \A m \in 1 .. k - 1 + 1 : u[m] = s[1 + m - 1]
      BY <2>1, <3>1, SubSeqProperties
    <3> HIDE DEF u
    <3>3. QED
      BY <2>1, <3>2
  <2>3. t \in Seq(T) /\ Len(t) = k - 1 /\ \A m \in 1 .. k - 1 : t[m] = s[m]
    <3>1. \A m \in 1 .. k - 1 : s[m] \in T
      BY <2>1
    <3> DEFINE l == k - 1
    <3>2. l \in Int
      BY <2>1
    <3> HIDE DEF l
    <3>3. /\ SubSeq(s, 1, l) \in Seq(T) /\ Len(SubSeq(s, 1, l)) = IF 1 <= l THEN l - 1 + 1 ELSE 0
          /\ \A m \in 1 .. l - 1 + 1 : SubSeq(s, 1, l)[m] = s[1 + m - 1]
      BY <3>1, <3>2, SubSeqProperties DEF l
    <3>4. t = SubSeq(s, 1, l)
      BY DEF l
    <3> HIDE DEF t
    <3>5. QED
      BY <2>1, <3>2, <3>3, <3>4 DEF l
  <2> HIDE DEF t, u
  <2>4. w \in Seq(T) /\ Len(w) = k /\ w[k] = s[k] /\ \A m \in 1 .. k - 1 : w[m] = t[m]
    BY <2>1, <2>3
  <2> HIDE DEF w
  <2>5. \A m \in 1 .. Len(u) : u[m] = w[m]
    <3> SUFFICES ASSUME NEW m \in 1 .. Len(u) PROVE u[m] = w[m]
      OBVIOUS
    <3>1. m = k \/ m \in 1 .. k - 1
      BY <2>1, <2>2
    <3>2. QED
      BY <2>2, <2>3, <2>4, <3>1
  <2>6. u = w
    BY <2>2, <2>4, <2>5, SeqSame
  <2>7. QED
    BY <2>1, <2>3, <2>6 DEF t, u, w
<1>4. QED
  BY <1>1, <1>2, <1>3

\* What is so of the empty sequence, and of a longer one if of the one before
\* its last element, is so of every sequence.
LEMMA LongerSequences ==
  ASSUME NEW T, NEW G \in SUBSET Seq(T), <<>> \in G, \A s \in G, c \in T : Append(s, c) \in G
  PROVE  G = Seq(T)
<1> SUFFICES ASSUME NEW s \in Seq(T) PROVE s \in G
  OBVIOUS
<1> DEFINE n == Len(s)
           Good == {k \in 0 .. n : SubSeq(s, 1, k) \in G}
<1>1. n \in Nat
  OBVIOUS
<1>2. 0 \in Good
  <2>1. SubSeq(s, 1, 0) \in G
    BY Starts
  <2>2. 0 \in 0 .. n
    BY <1>1
  <2>3. QED
    BY <2>1, <2>2
<1>3. ASSUME NEW k \in 1 .. n, k - 1 \in Good PROVE k \in Good
  <2>1. SubSeq(s, 1, k - 1) \in G /\ k \in 0 .. n
    BY <1>3
  <2>2. s[k] \in T /\ SubSeq(s, 1, k) = Append(SubSeq(s, 1, k - 1), s[k])
    BY Starts
  <2>3. QED
    BY <2>1, <2>2
<1>4. Good = 0 .. n
  <2> HIDE DEF Good
  <2>1. Good \in SUBSET (0 .. n)
    BY DEF Good
  <2>2. QED
    BY <1>1, <1>2, <1>3, <2>1, UpTo
<1>5. SubSeq(s, 1, n) \in G
  <2>1. n \in 0 .. n
    BY <1>1
  <2>2. n \in Good
    <3> HIDE DEF Good
    <3>1. QED
      BY <1>4, <2>1
  <2>3. QED
    BY <2>2
<1>6. SubSeq(s, 1, n) = s
  BY Starts
<1>7. QED
  BY <1>5, <1>6

\* What is left of an element appended.
LEMMA AppendedSame ==
  ASSUME NEW T, NEW p \in Seq(T), NEW q \in Seq(T), NEW c \in T, NEW e \in T
  PROVE  /\ Append(p, c) = Append(q, e) => p = q /\ c = e
         /\ Append(p, c) # <<>>
         /\ Append(p, c) \in Seq(T) /\ <<>> \in Seq(T)
<1>1. Append(p, c) # <<>> /\ Append(p, c) \in Seq(T) /\ <<>> \in Seq(T)
  OBVIOUS
<1>2. ASSUME Append(p, c) = Append(q, e) PROVE p = q /\ c = e
  <2> DEFINE a == Append(p, c)
             b == Append(q, e)
  <2>1. Len(a) = Len(p) + 1 /\ a[Len(p) + 1] = c /\ \A k \in 1 .. Len(p) : a[k] = p[k]
    OBVIOUS
  <2>2. Len(b) = Len(q) + 1 /\ b[Len(q) + 1] = e /\ \A k \in 1 .. Len(q) : b[k] = q[k]
    OBVIOUS
  <2>3. a = b
    BY <1>2
  <2>4. Len(p) \in Nat /\ Len(q) \in Nat
    OBVIOUS
  <2> HIDE DEF a, b
  <2>5. Len(p) = Len(q)
    BY <2>1, <2>2, <2>3, <2>4
  <2>6. \A k \in 1 .. Len(p) : p[k] = q[k]
    BY <2>1, <2>2, <2>3, <2>5
  <2>7. p = q
    BY <2>5, <2>6, SeqSame
  <2>8. QED
    BY <2>1, <2>2, <2>3, <2>5, <2>7
<1>3. QED
  BY <1>1, <1>2

----------------------------------------------------------------------------
(* exit.                                                                   *)

\* Where the digits are being read, and the number so far fits.
NumberFits ==
  IF sign = 1 THEN written <= LLongMax ELSE written <= LLongMax + 1

\* ft_atoll_safe, which is given a number only, holds the one whose digits it
\* has read; once it has left the loop exit_code is that number, with its sign.
ReadSoFar ==
  /\ exitAt \in {"check", "atoll"} => res = 0 /\ written = 0
  /\ exitAt \in {"atoll", "digits"} => args # <<>>
  /\ exitAt \in {"atoll", "digits", "finish"} /\ args # <<>> => Ex!IsNumeral(Ex!Arg)
  /\ exitAt = "digits" => res = written /\ NumberFits
  /\ exitAt = "finish" /\ args # <<>> => exitCode = sign * written /\ exitCode \in Ex!LLong
  /\ exitAt = "finish" /\ args = <<>> => exitCode = last

ExitInv == Ex!TypeOK /\ ReadSoFar /\ Ex!NumberGivesStatus /\ Ex!OutcomeOfArguments

\* Skip stops at the first character it should not skip, or at the end.
LEMMA SkipEnd ==
  ASSUME NEW T, NEW str \in Seq(T), NEW k \in 0 .. Len(str), NEW S
  PROVE  /\ Ex!Skip(str, k, S) \in k .. Len(str)
         /\ Ex!Skip(str, k, S) < Len(str) => str[Ex!Skip(str, k, S) + 1] \notin S
         /\ \A l \in k .. Ex!Skip(str, k, S) - 1 : str[l + 1] \in S
<1> DEFINE Stops == {t \in k .. Len(str) : t < Len(str) => str[t + 1] \notin S}
           End(t) == /\ t < Len(str) => str[t + 1] \notin S
                     /\ \A l \in k .. t - 1 : str[l + 1] \in S
<1>1. Len(str) \in Nat /\ k \in Nat
  OBVIOUS
<1>2. Stops \in SUBSET Nat /\ Len(str) \in Stops
  BY <1>1
<1>3. PICK m \in Stops : \A n \in Stops : m <= n
  BY <1>2, LeastNat
<1>4. m \in k .. Len(str) /\ End(m)
  <2>1. ASSUME NEW l \in k .. m - 1 PROVE str[l + 1] \in S
    <3>1. l \in k .. Len(str) /\ ~(m <= l)
      BY <1>1, <1>3
    <3>2. l \notin Stops
      BY <1>3, <3>1
    <3>3. QED
      BY <3>1, <3>2
  <2>2. QED
    BY <1>3, <2>1
<1>5. Ex!Skip(str, k, S) = CHOOSE t \in k .. Len(str) : End(t)
  BY DEF Ex!Skip
<1>6. QED
  BY <1>4, <1>5

\* is_valid_exit_arg accepts blank* sign? digit+ blank*.
LEMMA ValidIsNumeral ==
  ASSUME NEW str \in Seq(Ex!Char)
  PROVE  Ex!IsValidExitArg(str) <=> Ex!IsNumeral(str)
<1> DEFINE skipped == Ex!Skip(str, 0, Ex!Blanks)
           first == Ex!AfterSign(str, skipped)
           end == Ex!Skip(str, first, Ex!Digits)
           back == Ex!Skip(str, end, Ex!Blanks)
<1>1. Len(str) \in Nat /\ DOMAIN str = 1 .. Len(str)
  OBVIOUS
<1>2. /\ skipped \in 0 .. Len(str)
      /\ skipped < Len(str) => str[skipped + 1] \notin Ex!Blanks
      /\ \A l \in 0 .. skipped - 1 : str[l + 1] \in Ex!Blanks
  BY <1>1, SkipEnd
<1>3. /\ first \in {skipped, skipped + 1} /\ first \in 0 .. Len(str)
      /\ first = skipped + 1 => str[first] \in Ex!Signs
      /\ first = skipped /\ skipped < Len(str) => str[skipped + 1] \notin Ex!Signs
  BY <1>1, <1>2 DEF Ex!AfterSign
<1>4. /\ end \in first .. Len(str)
      /\ end < Len(str) => str[end + 1] \notin Ex!Digits
      /\ \A l \in first .. end - 1 : str[l + 1] \in Ex!Digits
  BY <1>3, SkipEnd
<1>5. /\ back \in end .. Len(str)
      /\ back < Len(str) => str[back + 1] \notin Ex!Blanks
      /\ \A l \in end .. back - 1 : str[l + 1] \in Ex!Blanks
  BY <1>3, <1>4, SkipEnd
<1>6. Ex!IsValidExitArg(str) <=> end > first /\ back = Len(str)
  BY DEF Ex!IsValidExitArg
<1>7. Ex!Blanks \cap Ex!Signs = {} /\ Ex!Blanks \cap Ex!Digits = {} /\ Ex!Signs \cap Ex!Digits = {}
  <2>1. \A c \in Ex!Digits : c \notin {" ", "+", "-"}
    <3>1. \A d \in 1 .. 10 : Ex!DigitChars[d] \notin {" ", "+", "-"}
      <4>1. /\ Ex!DigitChars[1] = "0" /\ Ex!DigitChars[2] = "1" /\ Ex!DigitChars[3] = "2"
            /\ Ex!DigitChars[4] = "3" /\ Ex!DigitChars[5] = "4" /\ Ex!DigitChars[6] = "5"
            /\ Ex!DigitChars[7] = "6" /\ Ex!DigitChars[8] = "7" /\ Ex!DigitChars[9] = "8"
            /\ Ex!DigitChars[10] = "9"
        BY DEF Ex!DigitChars
      <4>2. \A d \in 1 .. 10 : \/ d = 1 \/ d = 2 \/ d = 3 \/ d = 4 \/ d = 5
                             \/ d = 6 \/ d = 7 \/ d = 8 \/ d = 9 \/ d = 10
        OBVIOUS
      <4>3. QED
        BY <4>1, <4>2, Zenon
    <3>2. QED
      BY <3>1 DEF Ex!Digits
  <2>2. QED
    BY <2>1 DEF Ex!Blanks, Ex!Signs
<1> HIDE DEF skipped, first, end, back
<1>8. ASSUME end > first, back = Len(str) PROVE Ex!IsNumeral(str)
  <2>1. /\ skipped \in 0 .. Len(str) /\ first \in 0 .. Len(str) /\ end \in 0 .. Len(str)
        /\ first = skipped \/ (first = skipped + 1 /\ str[first] \in Ex!Signs)
        /\ first < end
    BY <1>1, <1>2, <1>3, <1>4, <1>8
  <2>2. ASSUME NEW k \in DOMAIN str
        PROVE  /\ k <= skipped \/ k > end => str[k] \in Ex!Blanks
               /\ first < k /\ k <= end => str[k] \in Ex!Digits
    <3>1. k - 1 \in 0 .. Len(str) - 1 /\ (k - 1) + 1 = k
      BY <1>1
    <3>2. k <= skipped => k - 1 \in 0 .. skipped - 1
      BY <1>1, <1>2
    <3>3. k > end => k - 1 \in end .. back - 1
      BY <1>1, <1>4, <1>3, <1>8
    <3>4. first < k /\ k <= end => k - 1 \in first .. end - 1
      BY <1>1, <1>4, <1>3
    <3>5. QED
      BY <1>2, <1>4, <1>5, <3>1, <3>2, <3>3, <3>4
  <2>3. QED
    BY <2>1, <2>2 DEF Ex!IsNumeral
<1>9. ASSUME Ex!IsNumeral(str) PROVE end > first /\ back = Len(str)
  <2>1. PICK a, b, c \in 0 .. Len(str) :
          /\ b = a \/ (b = a + 1 /\ str[b] \in Ex!Signs)
          /\ b < c
          /\ \A k \in DOMAIN str :
               /\ k <= a \/ k > c => str[k] \in Ex!Blanks
               /\ b < k /\ k <= c => str[k] \in Ex!Digits
    BY <1>9 DEF Ex!IsNumeral
  <2>2. a + 1 \in DOMAIN str /\ b + 1 \in DOMAIN str /\ c \in DOMAIN str
        /\ str[a + 1] \in Ex!Signs \union Ex!Digits /\ str[b + 1] \in Ex!Digits
    BY <1>1, <2>1
  <2>3. skipped = a
    <3>1. ~(skipped < a)
      BY <1>1, <1>2, <2>1
    <3>2. ~(a < skipped)
      BY <1>1, <1>2, <1>7, <2>1, <2>2
    <3>3. QED
      BY <1>1, <1>2, <2>1, <3>1, <3>2
  <2>4. first = b
    <3>1. CASE b = a
      BY <1>1, <1>3, <1>7, <2>1, <2>2, <2>3, <3>1
    <3>2. CASE b = a + 1
      BY <1>1, <1>3, <1>7, <2>1, <2>2, <2>3, <3>2
    <3>3. QED
      BY <2>1, <3>1, <3>2
  <2>5. end = c
    <3>1. ~(end < c)
      BY <1>1, <1>4, <2>1, <2>4
    <3>2. ASSUME c < end PROVE FALSE
      <4>1. c \in first .. end - 1 /\ c + 1 \in DOMAIN str
        BY <1>1, <1>4, <2>1, <2>4, <3>2
      <4>2. str[c + 1] \in Ex!Digits /\ str[c + 1] \in Ex!Blanks
        BY <1>1, <1>4, <2>1, <4>1
      <4>3. QED
        BY <1>7, <4>2
    <3>3. QED
      BY <1>1, <1>4, <2>1, <3>1, <3>2
  <2>6. back = Len(str)
    <3>1. ~(back < Len(str))
      <4> SUFFICES ASSUME back < Len(str) PROVE FALSE
        OBVIOUS
      <4>1. back \in Nat /\ c <= back
        BY <1>1, <1>5, <2>1, <2>5
      <4>a. back + 1 \in DOMAIN str /\ back + 1 > c
        BY <1>1, <2>1, <4>1
      <4>2. QED
        BY <1>5, <2>1, <4>a
    <3>2. back \in Nat /\ back <= Len(str) /\ Len(str) \in Nat
      BY <1>1, <1>5, <2>1, <2>5
    <3>3. QED
      BY <3>1, <3>2
  <2>7. QED
    BY <2>1, <2>4, <2>5, <2>6
<1>10. QED
  BY <1>6, <1>8, <1>9


\* What fits is left as it is by the width.
LEMMA WrapFits == ASSUME Ex!Parameters, NEW n \in 0 .. 2 * LLongMax + 1 PROVE Ex!Wrap(n) = n
  BY SMT DEF Ex!Wrap, Ex!Parameters

\* The wrapped product with the sign, as a signed number, is the product.
LEMMA SignedProduct ==
  ASSUME Ex!Parameters, NEW n \in Nat, NEW s \in {1, -1},
         IF s = 1 THEN n <= LLongMax ELSE n <= LLongMax + 1
  PROVE  Ex!Signed(Ex!Wrap(n * s)) = s * n
  BY SMT DEF Ex!Wrap, Ex!Signed, Ex!Parameters

\* exit(3)'s low byte of C's remainder is the remainder.
LEMMA LowByteIsRemainder == ASSUME NEW n \in Int PROVE Ex!LowByte(n) = n % 256
  BY SMT DEF Ex!LowByte

\* The value of a digit.
LEMMA DigitRange == ASSUME NEW c \in Ex!Digits PROVE Ex!DigitValue(c) \in 0 .. 9
  BY DEF Ex!Digits, Ex!DigitValue, Ex!DigitChars

\* A further digit that the checks let pass keeps the number within its limit;
\* one they refuse takes it, and so all that may follow, beyond.
LEMMA DigitChecked ==
  ASSUME Ex!Parameters, NEW digit \in 0 .. 9, Ex!TypeOK, res = written, NumberFits,
         written' = written * 10 + digit, sign' = sign
  PROVE  /\ sign = 1 => (Ex!CheckOverflowPos(digit) <=> ~(written' <= LLongMax))
         /\ sign = -1 => (Ex!CheckOverflowNeg(digit) <=> ~(written' <= LLongMax + 1))
<1>1. LLongMax \in Nat /\ LLongMax % 10 = 7
  BY DEF Ex!Parameters
<1>2. QED
  BY <1>1, SMT DEF Ex!TypeOK, Ex!ULLong, NumberFits, Ex!CheckOverflowPos, Ex!CheckOverflowNeg


(* The invariant.                                                          *)

\* The argument that is read, and what is_valid_exit_arg says of it.
LEMMA FirstArgument ==
  ASSUME args \in Seq(Seq(Ex!Char)), args # <<>>
  PROVE  /\ Ex!Arg \in Seq(Ex!Char) /\ Len(args) \in Nat \ {0}
         /\ Ex!IsValidExitArg(Ex!Arg) <=> Ex!IsNumeral(Ex!Arg)
<1>1. Ex!Arg \in Seq(Ex!Char) /\ Len(args) \in Nat \ {0}
  BY DEF Ex!Arg
<1>2. QED
  BY <1>1, ValidIsNumeral

\* Every call of exit begins with nothing read.
LEMMA ExitInit == Ex!Init => ExitInv
<1> SUFFICES ASSUME Ex!Init PROVE ExitInv
  OBVIOUS
<1>1. Ex!TypeOK
  BY ExitParameters DEF Ex!Parameters, Ex!Init, Ex!TypeOK, Ex!ULLong
<1>2. QED
  BY <1>1 DEF Ex!Init, ExitInv, ReadSoFar, Ex!NumberGivesStatus, Ex!OutcomeOfArguments

\* Each step of exit keeps what has been read, and what is left, as stated.
LEMMA ExitNext == ExitInv /\ [Ex!Next]_(Ex!vars) => ExitInv'
<1> SUFFICES ASSUME ExitInv, [Ex!Next]_(Ex!vars) PROVE ExitInv'
  OBVIOUS
<1> USE DEF ExitInv
<1>a. /\ LLongMax \in Nat /\ LLongMax % 10 = 7 /\ NULL \notin Int /\ Ex!Parameters
      /\ Ex!LLong \subseteq Int
  BY ExitParameters DEF Ex!Parameters, Ex!LLong
<1>b. Ex!TypeOK
  OBVIOUS
<1>c. args # <<>> => /\ Ex!Arg \in Seq(Ex!Char) /\ Len(args) \in Nat \ {0}
                     /\ Ex!IsValidExitArg(Ex!Arg) <=> Ex!IsNumeral(Ex!Arg)
  BY <1>b, FirstArgument DEF Ex!TypeOK
<1>1. CASE Ex!NoArgument
  <2>1. Ex!TypeOK'
    BY <1>1, <1>a, <1>b DEF Ex!NoArgument, Ex!TypeOK
  <2>2. QED
    BY <1>1, <1>b, <2>1 DEF Ex!NoArgument, ReadSoFar, Ex!NumberGivesStatus, Ex!OutcomeOfArguments
<1>2. CASE Ex!InvalidArgument
  <2>1. Ex!TypeOK'
    BY <1>2, <1>a, <1>b DEF Ex!InvalidArgument, Ex!Leave, Ex!TypeOK
  <2>2. QED
    BY <1>2, <1>b, <1>c, <2>1
    DEF Ex!InvalidArgument, Ex!Leave, Ex!Arg, ReadSoFar, Ex!NumberGivesStatus, Ex!OutcomeOfArguments
<1>3. CASE Ex!ValidArgument
  <2>1. Ex!TypeOK'
    BY <1>3, <1>b DEF Ex!ValidArgument, Ex!TypeOK
  <2>2. QED
    BY <1>3, <1>b, <1>c, <2>1
    DEF Ex!ValidArgument, Ex!Arg, ReadSoFar, Ex!NumberGivesStatus, Ex!OutcomeOfArguments
<1>4. CASE Ex!GetSign
  <2>1. args # <<>> /\ Ex!Skip(Ex!Arg, 0, Ex!Blanks) \in 0 .. Len(Ex!Arg)
    <3>1. args # <<>> /\ 0 \in 0 .. Len(Ex!Arg)
      BY <1>4, <1>c DEF Ex!GetSign, ReadSoFar
    <3>2. QED
      BY <1>c, <3>1, SkipEnd
  <2>2. exitIndex' \in Nat /\ sign' \in {1, -1}
    BY <1>4, <1>c, <2>1 DEF Ex!GetSign, Ex!AfterSign
  <2>3. Ex!TypeOK'
    BY <1>4, <1>b, <2>2 DEF Ex!GetSign, Ex!TypeOK
  <2>4. QED
    BY <1>4, <1>a, <1>b, <2>1, <2>2, <2>3
    DEF Ex!GetSign, Ex!Arg, ReadSoFar, NumberFits, Ex!NumberGivesStatus, Ex!OutcomeOfArguments
<1>5. CASE Ex!ReadDigit
  <2> DEFINE digit == Ex!DigitValue(Ex!Arg[exitIndex + 1])
  <2>1. digit \in 0 .. 9
    BY <1>5, DigitRange DEF Ex!ReadDigit, Ex!AtDigit
  <2>2. /\ exitAt = "digits" /\ res = written /\ NumberFits /\ args # <<>> /\ Ex!IsNumeral(Ex!Arg)
        /\ written' = written * 10 + digit
        /\ sign' = sign /\ args' = args /\ last' = last /\ exitCode' = exitCode
        /\ exitStatus = NULL /\ written \in Nat /\ sign \in {1, -1} /\ exitIndex \in Nat
    BY <1>5, <1>b DEF Ex!ReadDigit, ReadSoFar, Ex!TypeOK
  <2>3. /\ sign = 1 => (Ex!CheckOverflowPos(digit) <=> ~(written' <= LLongMax))
        /\ sign = -1 => (Ex!CheckOverflowNeg(digit) <=> ~(written' <= LLongMax + 1))
    BY <1>a, <1>b, <2>1, <2>2, DigitChecked
  <2>4. written' \in Nat
    BY <2>1, <2>2
  <2>5. CASE NumberFits'
    <3>1. res' = Ex!Wrap(res * 10 + digit) /\ exitIndex' = exitIndex + 1 /\ UNCHANGED <<exitAt, exitStatus>>
      BY <1>5, <2>2, <2>3, <2>5 DEF Ex!ReadDigit, NumberFits
    <3>2. written' \in 0 .. 2 * LLongMax + 1
      BY <1>a, <2>2, <2>4, <2>5 DEF NumberFits
    <3>3. res' = written'
      BY <1>a, <2>2, <3>1, <3>2, WrapFits
    <3>4. Ex!TypeOK'
      BY <1>b, <2>2, <2>4, <3>1, <3>2, <3>3 DEF Ex!TypeOK, Ex!ULLong
    <3>5. QED
      BY <2>2, <2>5, <3>1, <3>3, <3>4 DEF ReadSoFar, Ex!Arg, Ex!NumberGivesStatus, Ex!OutcomeOfArguments
  <2>6. CASE ~NumberFits'
    <3>1. exitAt' = "exited" /\ exitStatus' = 2 /\ UNCHANGED <<exitIndex, res>>
      BY <1>5, <2>2, <2>3, <2>6 DEF Ex!ReadDigit, NumberFits, Ex!Leave
    <3>2. sign' * written' \notin Ex!LLong
      BY <1>a, <2>2, <2>4, <2>6 DEF NumberFits, Ex!LLong
    <3>3. Ex!TypeOK'
      BY <1>a, <1>b, <2>2, <2>4, <3>1 DEF Ex!TypeOK
    <3>4. QED
      BY <2>2, <3>1, <3>2, <3>3 DEF ReadSoFar, Ex!Arg, Ex!NumberGivesStatus, Ex!OutcomeOfArguments
  <2>7. QED
    BY <2>5, <2>6
<1>6. CASE Ex!Convert
  <2>1. /\ exitAt = "digits" /\ exitAt' = "finish" /\ args # <<>> /\ Ex!IsNumeral(Ex!Arg)
        /\ exitCode' = Ex!Signed(Ex!Wrap(res * sign)) /\ res = written /\ NumberFits
        /\ UNCHANGED <<args, last, exitIndex, sign, res, exitStatus, written>>
    BY <1>6 DEF Ex!Convert, ReadSoFar
  <2>2. written \in Nat /\ sign \in {1, -1}
    BY <1>b DEF Ex!TypeOK
  <2>3. exitCode' = sign * written
    BY <1>a, <2>1, <2>2, SignedProduct DEF NumberFits
  <2>4. sign * written \in Ex!LLong
    BY <1>a, <2>1, <2>2 DEF NumberFits, Ex!LLong
  <2>5. Ex!TypeOK'
    BY <1>b, <2>1, <2>3, <2>4 DEF Ex!TypeOK
  <2>6. QED
    BY <2>1, <2>3, <2>4, <2>5 DEF ReadSoFar, Ex!Arg, Ex!NumberGivesStatus, Ex!OutcomeOfArguments
<1>7. CASE Ex!Finish
  <2>1. /\ exitAt = "finish" /\ UNCHANGED <<args, last, exitIndex, sign, res, exitCode, written>>
        /\ IF Len(args) > 1 THEN exitAt' = "returned" /\ exitStatus' = 1
           ELSE exitAt' = "exited" /\ exitStatus' = Ex!LowByte(exitCode)
    BY <1>7 DEF Ex!Finish, Ex!Leave
  <2>2. exitCode \in Int /\ Ex!LowByte(exitCode) = exitCode % 256 /\ exitCode % 256 \in 0 .. 255
    <3>1. exitCode \in Int
      BY <1>a, <1>b, <2>1 DEF ReadSoFar, Ex!TypeOK
    <3>2. QED
      BY <3>1, LowByteIsRemainder
  <2>3. args = <<>> => exitCode = last /\ exitCode % 256 = last /\ ~(Len(args) > 1)
    BY <1>b, <2>1 DEF ReadSoFar, Ex!TypeOK
  <2>4. args # <<>> => exitCode = sign * written /\ exitCode \in Ex!LLong /\ Ex!IsNumeral(Ex!Arg)
    BY <2>1 DEF ReadSoFar
  <2>5. Ex!TypeOK'
    BY <1>a, <1>b, <2>1, <2>2 DEF Ex!TypeOK
  <2>6. QED
    BY <1>c, <2>1, <2>2, <2>3, <2>4, <2>5
    DEF ReadSoFar, Ex!Arg, Ex!NumberGivesStatus, Ex!OutcomeOfArguments
<1>8. CASE UNCHANGED Ex!vars
  <2>1. UNCHANGED <<args, last, exitAt, exitIndex, sign, res, exitCode, exitStatus, written>>
    BY <1>8 DEF Ex!vars
  <2>2. Ex!TypeOK'
    BY <1>b, <2>1 DEF Ex!TypeOK
  <2>3. ReadSoFar'
    BY <2>1 DEF ReadSoFar, NumberFits, Ex!Arg
  <2>4. Ex!NumberGivesStatus' /\ Ex!OutcomeOfArguments'
    BY <2>1 DEF Ex!Arg, Ex!NumberGivesStatus, Ex!OutcomeOfArguments
  <2>5. QED
    BY <2>2, <2>3, <2>4
<1>9. QED
  BY <1>1, <1>2, <1>3, <1>4, <1>5, <1>6, <1>7, <1>8 DEF Ex!Next

----------------------------------------------------------------------------
(* export without arguments.                                               *)

\* What ft_strcmp compares at place k; the end of a string is 0.
CodeAt(str, k) == IF k <= Len(str) THEN Code[str[k]] ELSE 0

\* s and t are the same before place k, and s has the greater code there.
Exceeds(s, t, k) ==
  /\ \A l \in 1 .. k - 1 : CodeAt(s, l) = CodeAt(t, l)
  /\ CodeAt(s, k) > CodeAt(t, k)

\* Characters have codes of their own, from 1 to 255.
LEMMA CodesDiffer ==
  /\ "=" \in Li!Char
  /\ \A c \in Li!Char : Code[c] \in 1 .. 255
  /\ \A c, d \in Li!Char : Code[c] = Code[d] => c = d
  BY ListingParameters DEF Li!Parameters

\* So of two characters one comes first, and none is the end.
LEMMA CodesOrdered ==
  /\ \A c \in Li!Char : ~(0 >= Code[c]) /\ Code[c] > 0
  /\ \A c, d \in Li!Char : c # d /\ ~(Code[c] > Code[d]) => Code[c] < Code[d] /\ Code[d] > Code[c]
<1>1. \A x, y \in 1 .. 255 : ~(0 >= x) /\ x > 0 /\ (x # y /\ ~(x > y) => x < y /\ y > x)
  OBVIOUS
<1>2. QED
  BY <1>1, CodesDiffer, Zenon

\* What is compared at a place.
LEMMA CodeNat ==
  ASSUME NEW s \in Seq(Li!Char), NEW k \in Nat \ {0}
  PROVE  /\ CodeAt(s, k) \in Nat
         /\ k <= Len(s) => s[k] \in Li!Char /\ CodeAt(s, k) = Code[s[k]] /\ CodeAt(s, k) > 0
         /\ k > Len(s) => CodeAt(s, k) = 0
<1>1. Len(s) \in Nat /\ (k <= Len(s) => s[k] \in Li!Char)
  OBVIOUS
<1>2. CASE k <= Len(s)
  <2>1. s[k] \in Li!Char /\ Code[s[k]] \in 1 .. 255 /\ CodeAt(s, k) = Code[s[k]]
    BY <1>1, <1>2, CodesDiffer DEF CodeAt
  <2>2. CodeAt(s, k) \in 1 .. 255
    BY <2>1
  <2>3. \A x \in 1 .. 255 : x \in Nat /\ x > 0
    OBVIOUS
  <2>4. CodeAt(s, k) \in Nat /\ CodeAt(s, k) > 0
    BY <2>2, <2>3, Zenon
  <2>5. QED
    BY <1>1, <1>2, <2>1, <2>4
<1>3. CASE ~(k <= Len(s))
  BY <1>1, <1>3 DEF CodeAt
<1>4. QED
  BY <1>2, <1>3

\* ft_strcmp(s, t) > 0 says that s has the greater code at the first place where
\* they differ.
LEMMA AfterMeans ==
  ASSUME NEW s \in Seq(Li!Char), NEW t \in Seq(Li!Char)
  PROVE  Li!After(s, t) <=> \E k \in Nat \ {0} : Exceeds(s, t, k)
<1> DEFINE top == Li!Max({Len(s), Len(t)})
           differ == {k \in 1 .. top : CodeAt(s, k) # CodeAt(t, k)}
<1>1. Len(s) \in Nat /\ Len(t) \in Nat
  OBVIOUS
<1>2. top \in Nat /\ top >= Len(s) /\ top >= Len(t)
  <2>1. \E x \in {Len(s), Len(t)} : \A y \in {Len(s), Len(t)} : x >= y
    BY <1>1
  <2>2. top \in {Len(s), Len(t)} /\ \A y \in {Len(s), Len(t)} : top >= y
    BY <2>1, Zenon DEF Li!Max
  <2>3. QED
    BY <1>1, <2>2
<1>3. Li!After(s, t) <=>
        differ # {} /\ CodeAt(s, Li!Min(differ)) > CodeAt(t, Li!Min(differ))
  BY Zenon DEF Li!After, CodeAt
<1>4. ASSUME differ # {}
      PROVE  Li!Min(differ) \in differ /\ \A k \in differ : Li!Min(differ) <= k
  <2>1. differ \in SUBSET Nat
    BY <1>2
  <2>2. \E m \in differ : \A n \in differ : m <= n
    BY <1>4, <2>1, LeastNat
  <2>3. QED
    BY <2>2, Zenon DEF Li!Min
<1>5. ASSUME Li!After(s, t) PROVE Exceeds(s, t, Li!Min(differ)) /\ Li!Min(differ) \in Nat \ {0}
  <2>1. /\ Li!Min(differ) \in 1 .. top /\ \A k \in differ : Li!Min(differ) <= k
        /\ CodeAt(s, Li!Min(differ)) > CodeAt(t, Li!Min(differ))
    BY <1>3, <1>4, <1>5
  <2> DEFINE m == Li!Min(differ)
  <2> HIDE DEF m
  <2>2. ASSUME NEW l \in 1 .. m - 1 PROVE CodeAt(s, l) = CodeAt(t, l)
    <3>1. l \in 1 .. top /\ ~(m <= l)
      BY <1>2, <2>1 DEF m
    <3>2. l \notin differ
      BY <2>1, <3>1 DEF m
    <3>3. QED
      BY <3>1, <3>2
  <2>3. m \in Nat \ {0} /\ CodeAt(s, m) > CodeAt(t, m)
    BY <1>2, <2>1 DEF m
  <2>4. QED
    BY <2>2, <2>3 DEF Exceeds, m
<1>6. ASSUME NEW k \in Nat \ {0}, Exceeds(s, t, k) PROVE Li!After(s, t)
  <2>1. CodeAt(s, k) # CodeAt(t, k) /\ CodeAt(s, k) > CodeAt(t, k)
    <3>1. CodeAt(s, k) \in Nat /\ CodeAt(t, k) \in Nat
      BY CodeNat
    <3>2. QED
      BY <1>6, <3>1 DEF Exceeds
  <2>2. k <= top
    <3>1. CASE k > Len(s) /\ k > Len(t)
      BY <2>1, <3>1 DEF CodeAt
    <3>2. QED
      BY <1>1, <1>2, <3>1
  <2>3. k \in differ
    BY <1>2, <2>1, <2>2
  <2>4. Li!Min(differ) \in differ /\ Li!Min(differ) <= k
    BY <1>4, <2>3
  <2> DEFINE m == Li!Min(differ)
  <2>5. m \in Nat \ {0} /\ m <= k /\ CodeAt(s, m) # CodeAt(t, m)
    BY <1>2, <2>4
  <2> HIDE DEF m
  <2>6. m = k
    <3>1. ~(m < k)
      BY <1>6, <2>5 DEF Exceeds
    <3>2. QED
      BY <2>5, <3>1
  <2>7. QED
    BY <1>3, <2>1, <2>3, <2>6 DEF m
<1>7. QED
  BY <1>5, <1>6

\* No two strings come after each other.
LEMMA AfterAsymmetric ==
  ASSUME NEW s \in Seq(Li!Char), NEW t \in Seq(Li!Char), Li!After(s, t)
  PROVE  ~Li!After(t, s)
<1> SUFFICES ASSUME Li!After(t, s) PROVE FALSE
  OBVIOUS
<1>1. PICK k \in Nat \ {0} : Exceeds(s, t, k)
  BY AfterMeans
<1>2. PICK l \in Nat \ {0} : Exceeds(t, s, l)
  BY AfterMeans
<1>3. /\ CodeAt(s, k) \in Nat /\ CodeAt(t, k) \in Nat /\ CodeAt(s, l) \in Nat /\ CodeAt(t, l) \in Nat
  BY CodeNat
<1>4. k = l \/ k \in 1 .. l - 1 \/ l \in 1 .. k - 1
  OBVIOUS
<1>5. QED
  BY <1>1, <1>2, <1>3, <1>4 DEF Exceeds

\* What comes after another string comes after each that does not, or each that
\* does not comes after that one: the contrapositive of transitivity.
LEMMA AfterBetween ==
  ASSUME NEW a \in Seq(Li!Char), NEW b \in Seq(Li!Char), NEW c \in Seq(Li!Char), Li!After(a, c)
  PROVE  Li!After(a, b) \/ Li!After(b, c)
<1>1. PICK k \in Nat \ {0} : Exceeds(a, c, k)
  BY AfterMeans
<1> DEFINE differ == {l \in 1 .. k : CodeAt(a, l) # CodeAt(b, l)}
<1>2. CASE differ = {}
  <2>1. \A l \in 1 .. k : CodeAt(a, l) = CodeAt(b, l)
    BY <1>2
  <2>2. Exceeds(b, c, k)
    <3>1. \A l \in 1 .. k - 1 : l \in 1 .. k
      OBVIOUS
    <3>2. k \in 1 .. k
      OBVIOUS
    <3>3. QED
      BY <1>1, <2>1, <3>1, <3>2 DEF Exceeds
  <2>3. QED
    BY <2>2, AfterMeans
<1>3. CASE differ # {}
  <2>1. differ \in SUBSET Nat
    OBVIOUS
  <2>2. PICK m \in differ : \A n \in differ : m <= n
    BY <1>3, <2>1, LeastNat
  <2>3. m \in 1 .. k /\ CodeAt(a, m) # CodeAt(b, m)
    OBVIOUS
  <2>4. \A l \in 1 .. m - 1 : CodeAt(a, l) = CodeAt(b, l)
    <3> SUFFICES ASSUME NEW l \in 1 .. m - 1 PROVE CodeAt(a, l) = CodeAt(b, l)
      OBVIOUS
    <3>1. l \in 1 .. k /\ ~(m <= l)
      BY <2>3
    <3>2. l \notin differ
      BY <2>2, <3>1
    <3>3. QED
      BY <3>1, <3>2
  <2>5. /\ CodeAt(a, m) \in Nat /\ CodeAt(b, m) \in Nat /\ CodeAt(c, m) \in Nat
    BY <2>3, CodeNat
  <2>6. CASE CodeAt(a, m) > CodeAt(b, m)
    <3>1. Exceeds(a, b, m)
      BY <2>4, <2>6 DEF Exceeds
    <3>2. QED
      BY <2>3, <3>1, AfterMeans
  <2>7. CASE CodeAt(b, m) > CodeAt(a, m)
    <3>1. CodeAt(a, m) >= CodeAt(c, m)
      <4>1. m = k \/ m \in 1 .. k - 1
        BY <2>3
      <4>2. QED
        BY <1>1, <2>5, <4>1 DEF Exceeds
    <3>2. \A l \in 1 .. m - 1 : CodeAt(a, l) = CodeAt(c, l)
      <4>1. \A l \in 1 .. m - 1 : l \in 1 .. k - 1
        BY <2>3
      <4>2. QED
        BY <1>1, <4>1 DEF Exceeds
    <3>3. CodeAt(b, m) > CodeAt(c, m)
      BY <2>5, <2>7, <3>1
    <3>4. Exceeds(b, c, m)
      BY <2>4, <3>2, <3>3 DEF Exceeds
    <3>5. QED
      BY <2>3, <3>4, AfterMeans
  <2>8. QED
    BY <2>3, <2>5, <2>6, <2>7
<1>4. QED
  BY <1>2, <1>3

\* The nodes of the environment have names of their own, without an equals sign.
LEMMA EnvNodes ==
  ASSUME env \in Envs
  PROVE  /\ env \in Seq(Li!Node) /\ Len(env) \in Nat /\ DOMAIN env = 1 .. Len(env)
         /\ \A n \in DOMAIN env :
              /\ env[n] \in Li!Node /\ env[n].key \in Seq(Li!Char) /\ env[n].key # <<>>
              /\ env[n].value \in Seq(Li!Char) \union {NULL}
              /\ \A k \in DOMAIN env[n].key : env[n].key[k] # "="
         /\ \A m, n \in DOMAIN env : env[m].key = env[n].key => m = n
<1>1. /\ env \in Seq(Li!Node)
      /\ \A n \in DOMAIN env : env[n].key # <<>> /\ ~Li!Contains(env[n].key, "=")
      /\ \A m, n \in DOMAIN env : env[m].key = env[n].key => m = n
  BY ListingParameters DEF Li!Parameters
<1>2. Len(env) \in Nat /\ DOMAIN env = 1 .. Len(env)
  BY <1>1
<1>3. ASSUME NEW n \in DOMAIN env
      PROVE  /\ env[n] \in Li!Node /\ env[n].key \in Seq(Li!Char) /\ env[n].key # <<>>
             /\ env[n].value \in Seq(Li!Char) \union {NULL}
             /\ \A k \in DOMAIN env[n].key : env[n].key[k] # "="
  <2>1. env[n] \in Li!Node
    BY <1>1
  <2>2. env[n].key \in Seq(Li!Char) /\ env[n].value \in Seq(Li!Char) \union {NULL}
    BY <2>1 DEF Li!Node
  <2>3. ASSUME NEW k \in DOMAIN env[n].key PROVE env[n].key[k] # "="
    <3>1. DOMAIN env[n].key = 1 .. Len(env[n].key)
      BY <2>2
    <3>2. QED
      BY <1>1, <3>1 DEF Li!Contains
  <2>4. QED
    BY <1>1, <2>1, <2>2, <2>3
<1>4. QED
  BY <1>1, <1>2, <1>3

\* The character a hidden name is (the provers cannot write it in a formula).
Underscore == "_"

\* What print_export_line takes apart is what create_env_string put together:
\* the first equals sign is the one after the name.
LEMMA LineOfString ==
  ASSUME NEW name \in Seq(Li!Char), NEW text \in Seq(Li!Char) \union {NULL},
         name # <<>>, \A k \in DOMAIN name : name[k] # "=",
         NEW node, node = [key |-> name, value |-> text]
  PROVE  /\ Li!CreateEnvString(node) \in Seq(Li!Char)
         /\ Li!LineOf(Li!CreateEnvString(node)) = node
         /\ Li!Hidden(Li!CreateEnvString(node)) <=> name = <<Underscore>> /\ text # NULL
<1>1. node.key = name /\ node.value = text
  OBVIOUS
<1>2. Len(name) \in Nat \ {0} /\ DOMAIN name = 1 .. Len(name)
  OBVIOUS
<1>b. \A s : Li!Hidden(s) <=> Len(s) >= 2 /\ s[1] = Underscore /\ s[2] = "="
  BY Zenon DEF Li!Hidden, Underscore
<1>a. \A k \in 1 .. Len(name) : name[k] # "="
  BY <1>2
<1>3. CASE text = NULL
  <2>1. Li!CreateEnvString(node) = name
    BY <1>1, <1>3 DEF Li!CreateEnvString
  <2>2. {k \in DOMAIN name : name[k] = "="} = {}
    BY <1>a, <1>2
  <2>3. Li!LineOf(name) = [key |-> name, value |-> NULL]
    BY <2>2 DEF Li!LineOf
  <2>4. ~Li!Hidden(name)
    <3>1. Len(name) >= 2 => name[2] # "="
      BY <1>a, <1>2
    <3>2. QED
      BY <1>b, <3>1
  <2>5. QED
    BY <1>1, <1>3, <2>1, <2>3, <2>4
<1>4. CASE text # NULL
  <2> DEFINE str == name \o <<"=">> \o text
             eqs == {k \in DOMAIN str : str[k] = "="}
  <2>1. text \in Seq(Li!Char) /\ "=" \in Li!Char
    BY <1>4, CodesDiffer
  <2>2. Li!CreateEnvString(node) = str
    BY <1>1, <1>4 DEF Li!CreateEnvString
  <2>3. /\ str \in Seq(Li!Char) /\ Len(str) = Len(name) + 1 + Len(text)
        /\ Len(name) \in Nat /\ Len(text) \in Nat
        /\ str[Len(name) + 1] = "="
        /\ \A k \in 1 .. Len(name) : str[k] = name[k]
        /\ SubSeq(str, 1, Len(name)) = name /\ SubSeq(str, Len(name) + 2, Len(str)) = text
    BY <2>1, Joined
  <2> HIDE DEF str
  <2>4. Len(name) + 1 \in eqs /\ \A k \in eqs : Len(name) + 1 <= k
    <3>1. DOMAIN str = 1 .. Len(str)
      BY <2>3
    <3>2. ASSUME NEW k \in eqs PROVE Len(name) + 1 <= k
      <4>1. k \in 1 .. Len(str) /\ str[k] = "="
        BY <3>1
      <4>2. k \notin 1 .. Len(name)
        BY <1>a, <2>3, <4>1
      <4>3. QED
        BY <2>3, <4>1, <4>2
    <3>3. QED
      BY <2>3, <3>1, <3>2
  <2>5. Li!Min(eqs) = Len(name) + 1
    <3>1. eqs \in SUBSET Nat
      BY <2>3
    <3> HIDE DEF eqs
    <3>2. Li!Min(eqs) \in eqs /\ \A k \in eqs : Li!Min(eqs) <= k
      BY <2>4, Zenon DEF Li!Min
    <3>3. Li!Min(eqs) \in Nat /\ Li!Min(eqs) <= Len(name) + 1 /\ Len(name) + 1 <= Li!Min(eqs)
      BY <2>4, <3>1, <3>2, Zenon
    <3>4. QED
      BY <2>3, <3>3
  <2>6. eqs # {}
    BY <2>4
  <2>7. Li!LineOf(str) =
          [key |-> SubSeq(str, 1, (Len(name) + 1) - 1), value |-> SubSeq(str, (Len(name) + 1) + 1, Len(str))]
    BY <2>5, <2>6 DEF Li!LineOf
  <2>8. (Len(name) + 1) - 1 = Len(name) /\ (Len(name) + 1) + 1 = Len(name) + 2
    BY <2>3
  <2>9. Li!LineOf(str) = node
    BY <1>1, <2>3, <2>7, <2>8
  <2>10. ASSUME Li!Hidden(str) PROVE name = <<Underscore>>
    <3>1. str[1] = Underscore /\ str[2] = "="
      BY <1>b, <2>10
    <3>2. ~(Len(name) >= 2)
      <4>1. Len(name) >= 2 => 2 \in 1 .. Len(name)
        BY <2>3
      <4>2. QED
        BY <1>a, <2>3, <3>1, <4>1
    <3>3. Len(name) = 1 /\ 1 \in 1 .. Len(name)
      BY <1>2, <2>3, <3>2
    <3>4. name[1] = Underscore
      BY <2>3, <3>1, <3>3
    <3>5. QED
      BY <3>3, <3>4, Single
  <2>11. ASSUME name = <<Underscore>> PROVE Li!Hidden(str)
    <3>1. Len(name) = 1 /\ name[1] = Underscore
      BY <2>11
    <3>2. Len(str) >= 2 /\ str[1] = Underscore /\ str[1 + 1] = "="
      <4>1. 1 \in 1 .. Len(name)
        BY <3>1
      <4>2. str[1] = name[1]
        BY <2>3, <4>1
      <4>3. str[1 + 1] = "="
        BY <2>3, <3>1
      <4>4. Len(str) >= 2
        BY <2>3, <3>1
      <4>5. QED
        BY <3>1, <4>2, <4>3, <4>4
    <3>3. QED
      BY <1>b, <3>2
  <2>12. QED
    BY <1>1, <1>4, <2>2, <2>3, <2>9, <2>10, <2>11
<1>5. QED
  BY <1>3, <1>4

\* Where nothing comes after anything that follows it.
SortedUpTo(k) == \A l, m \in 1 .. k : l < m => ~Li!After(arr[l], arr[m])

\* The strings are those of the environment, each once.
StringsOfEnv ==
  /\ Len(arr) = Len(env)
  /\ \A k \in DOMAIN arr : \E n \in DOMAIN env : arr[k] = Li!CreateEnvString(env[n])
  /\ \A n \in DOMAIN env : \E k \in DOMAIN arr : arr[k] = Li!CreateEnvString(env[n])
  /\ \A k, l \in DOMAIN arr : arr[k] = arr[l] => k = l

\* After round rounds the last round strings are in their places; within a round
\* none of those passed comes after the one arrived at.
Sorting ==
  /\ Len(arr) = 0 => round = 0 /\ j = 0
  /\ Len(arr) > 0 => round < Len(arr) /\ j + 1 <= Len(arr) - round
  /\ \A l, m \in DOMAIN arr : l < m /\ m > Len(arr) - round => ~Li!After(arr[l], arr[m])
  /\ \A l \in DOMAIN arr : l <= j => ~Li!After(arr[l], arr[j + 1])

\* What is printed are the strings passed, but the hidden ones, in their order.
LinesPrinted ==
  /\ \A l, m \in DOMAIN arr : l < m => ~Li!After(arr[l], arr[m])
  /\ \A m \in DOMAIN out : \E k \in 1 .. round : ~Li!Hidden(arr[k]) /\ out[m] = Li!LineOf(arr[k])
  /\ \A k \in 1 .. round : ~Li!Hidden(arr[k]) => \E m \in DOMAIN out : out[m] = Li!LineOf(arr[k])
  /\ \A m, n \in DOMAIN out : m < n =>
       /\ out[m] # out[n]
       /\ ~Li!After(Li!CreateEnvString(out[m]), Li!CreateEnvString(out[n]))

ListingInv ==
  /\ Li!TypeOK /\ env \in Envs
  /\ listing \in {"array", "sort"} => out = <<>>
  /\ listing = "array" => arr = <<>>
  /\ listing # "array" => StringsOfEnv
  /\ listing = "array" => round = 0 /\ j = 0
  /\ listing = "sort" => Sorting
  /\ listing \in {"print", "done"} => LinesPrinted
  /\ listing = "done" => round = Len(arr)

\* Every listing begins with no strings and no lines.
LEMMA ListingInit == Li!Init => ListingInv
<1> SUFFICES ASSUME Li!Init PROVE ListingInv
  OBVIOUS
<1>1. env \in Envs /\ arr = <<>> /\ round = 0 /\ j = 0 /\ listing = "array" /\ out = <<>>
  BY DEF Li!Init
<1>2. Li!TypeOK
  BY <1>1, EnvNodes DEF Li!TypeOK
<1>3. QED
  BY <1>1, <1>2 DEF ListingInv

\* Each string of the environment can be taken apart into its node.
LEMMA EnvStrings ==
  ASSUME env \in Envs
  PROVE  \A n \in DOMAIN env :
           /\ Li!CreateEnvString(env[n]) \in Seq(Li!Char)
           /\ Li!LineOf(Li!CreateEnvString(env[n])) = env[n]
           /\ Li!Hidden(Li!CreateEnvString(env[n])) <=>
                env[n].key = <<Underscore>> /\ env[n].value # NULL
<1> SUFFICES ASSUME NEW n \in DOMAIN env
             PROVE  /\ Li!CreateEnvString(env[n]) \in Seq(Li!Char)
                    /\ Li!LineOf(Li!CreateEnvString(env[n])) = env[n]
                    /\ Li!Hidden(Li!CreateEnvString(env[n])) <=>
                         env[n].key = <<Underscore>> /\ env[n].value # NULL
  OBVIOUS
<1> DEFINE node == env[n]
           name == env[n].key
           text == env[n].value
<1>1. /\ node \in Li!Node /\ name \in Seq(Li!Char) /\ text \in Seq(Li!Char) \union {NULL}
      /\ name # <<>> /\ \A k \in DOMAIN name : name[k] # "="
  BY EnvNodes
<1>2. node = [key |-> name, value |-> text]
  BY <1>1 DEF Li!Node
<1> HIDE DEF node, name, text
<1>3. /\ Li!CreateEnvString(node) \in Seq(Li!Char)
      /\ Li!LineOf(Li!CreateEnvString(node)) = node
      /\ Li!Hidden(Li!CreateEnvString(node)) <=> name = <<Underscore>> /\ text # NULL
  BY <1>1, <1>2, LineOfString
<1>4. QED
  BY <1>3 DEF node, name, text

\* env_to_array makes one string of each node, and names differ.
LEMMA ListingArray == ASSUME ListingInv, Li!EnvToArray PROVE ListingInv'
<1>1. /\ listing = "array" /\ listing' = "sort" /\ env' = env /\ round' = 0 /\ j' = 0 /\ out' = <<>>
      /\ arr' = [n \in DOMAIN env |-> Li!CreateEnvString(env[n])] /\ env \in Envs
  BY DEF ListingInv, Li!EnvToArray
<1>2. env \in Seq(Li!Node) /\ Len(env) \in Nat /\ DOMAIN env = 1 .. Len(env)
  BY <1>1, EnvNodes
<1>3. \A n \in DOMAIN env : /\ Li!CreateEnvString(env[n]) \in Seq(Li!Char)
                            /\ Li!LineOf(Li!CreateEnvString(env[n])) = env[n]
  BY <1>1, EnvStrings
<1>4. arr' \in Seq(Seq(Li!Char)) /\ Len(arr') = Len(env) /\ DOMAIN arr' = DOMAIN env
  BY <1>1, <1>2, <1>3
<1>5. \A m, n \in DOMAIN env : env[m] = env[n] => m = n
  BY <1>1, EnvNodes
<1>6. StringsOfEnv'
  BY <1>1, <1>3, <1>4, <1>5 DEF StringsOfEnv
<1>7. Sorting'
  <2>1. Len(arr') \in Nat /\ DOMAIN arr' = 1 .. Len(arr')
    BY <1>2, <1>4
  <2>2. QED
    BY <1>1, <2>1 DEF Sorting
<1>8. Li!TypeOK'
  BY <1>1, <1>2, <1>4 DEF Li!TypeOK
<1>9. QED
  BY <1>1, <1>6, <1>7, <1>8 DEF ListingInv

\* A comparison of sort_strings moves two strings at most, and the one it has
\* arrived at then comes after none of those passed.
LEMMA ListingCompare == ASSUME ListingInv, Li!Compare PROVE ListingInv'
<1>1. /\ listing = "sort" /\ round + 1 < Len(arr) /\ j + 1 < Len(arr) - round
      /\ arr' = IF Li!After(arr[j + 1], arr[j + 2])
                THEN [arr EXCEPT ![j + 1] = arr[j + 2], ![j + 2] = arr[j + 1]] ELSE arr
      /\ j' = j + 1 /\ env' = env /\ round' = round /\ listing' = listing /\ out' = out
      /\ env \in Envs /\ out = <<>> /\ StringsOfEnv /\ Sorting
  BY DEF Li!Compare, ListingInv
<1>2. /\ arr \in Seq(Seq(Li!Char)) /\ Len(arr) \in Nat /\ DOMAIN arr = 1 .. Len(arr)
      /\ round \in Nat /\ j \in Nat
      /\ \A k \in DOMAIN arr : arr[k] \in Seq(Li!Char)
  BY DEF ListingInv, Li!TypeOK
<1>a. /\ round \in Nat /\ j \in Nat /\ Len(arr) \in Nat /\ DOMAIN arr = 1 .. Len(arr)
      /\ round + 1 < Len(arr) /\ j + 1 < Len(arr) - round
  BY <1>1, <1>2
<1> DEFINE a == arr[j + 1]
           b == arr[j + 2]
<1>3. /\ j + 1 \in DOMAIN arr /\ j + 2 \in DOMAIN arr /\ j + 1 # j + 2
      /\ a \in Seq(Li!Char) /\ b \in Seq(Li!Char)
  <2>1. j + 1 \in DOMAIN arr /\ j + 2 \in DOMAIN arr /\ j + 1 # j + 2
    BY <1>a
  <2>2. QED
    BY <1>2, <2>1
<1>4. PICK swap \in [DOMAIN arr -> DOMAIN arr] :
        /\ \A k \in DOMAIN arr : arr'[k] = arr[swap[k]]
        /\ \A k \in DOMAIN arr : \E l \in DOMAIN arr : swap[l] = k
        /\ \A k, l \in DOMAIN arr : swap[k] = swap[l] => k = l
        /\ \A k \in DOMAIN arr : k \notin {j + 1, j + 2} => swap[k] = k
        /\ \/ Li!After(a, b) /\ swap[j + 1] = j + 2 /\ swap[j + 2] = j + 1
           \/ ~Li!After(a, b) /\ swap[j + 1] = j + 1 /\ swap[j + 2] = j + 2
  <2>1. CASE Li!After(a, b)
    <3> DEFINE sw == [k \in DOMAIN arr |-> IF k = j + 1 THEN j + 2 ELSE IF k = j + 2 THEN j + 1 ELSE k]
    <3>1. sw \in [DOMAIN arr -> DOMAIN arr]
      BY <1>3
    <3>2. \A k \in DOMAIN arr : sw[k] = IF k = j + 1 THEN j + 2 ELSE IF k = j + 2 THEN j + 1 ELSE k
      OBVIOUS
    <3> HIDE DEF sw
    <3>3. \A k \in DOMAIN arr : arr'[k] = arr[sw[k]]
      BY <1>1, <1>2, <1>3, <2>1, <3>2
    <3>4. \A k \in DOMAIN arr : sw[sw[k]] = k
      BY <1>2, <1>3, <3>1, <3>2
    <3>5. \A k \in DOMAIN arr : sw[k] \in DOMAIN arr
      BY <3>1
    <3>6. \A k \in DOMAIN arr : k \notin {j + 1, j + 2} => sw[k] = k
      BY <3>2
    <3>7. sw[j + 1] = j + 2 /\ sw[j + 2] = j + 1
      BY <1>2, <1>3, <3>2
    <3>8. /\ \A k \in DOMAIN arr : \E l \in DOMAIN arr : sw[l] = k
          /\ \A k, l \in DOMAIN arr : sw[k] = sw[l] => k = l
      BY <3>4, <3>5, Zenon
    <3>9. QED
      BY <2>1, <3>1, <3>3, <3>6, <3>7, <3>8, Zenon
  <2>2. CASE ~Li!After(a, b)
    <3> DEFINE sw == [k \in DOMAIN arr |-> k]
    <3>1. sw \in [DOMAIN arr -> DOMAIN arr] /\ \A k \in DOMAIN arr : sw[k] = k
      OBVIOUS
    <3>2. arr' = arr
      BY <1>1, <2>2
    <3> HIDE DEF sw
    <3>3. QED
      BY <1>3, <2>2, <3>1, <3>2
  <2>3. QED
    BY <2>1, <2>2
<1> HIDE DEF a, b
<1>5. arr' \in Seq(Seq(Li!Char)) /\ Len(arr') = Len(arr) /\ DOMAIN arr' = DOMAIN arr
  <2>1. CASE Li!After(a, b)
    <3>1. arr' = [arr EXCEPT ![j + 1] = b, ![j + 2] = a]
      BY <1>1, <2>1 DEF a, b
    <3>2. DOMAIN arr' = DOMAIN arr /\ \A k \in DOMAIN arr : arr'[k] \in Seq(Li!Char)
      BY <1>2, <1>4, <3>1
    <3>3. arr' = [k \in DOMAIN arr |-> arr'[k]]
      BY <1>2, <3>1
    <3>4. arr' \in [1 .. Len(arr) -> Seq(Li!Char)]
      BY <1>a, <3>2, <3>3
    <3>5. QED
      BY <1>a, <3>2, <3>4
  <2>2. CASE ~Li!After(a, b)
    BY <1>1, <1>2, <2>2 DEF a, b
  <2>3. QED
    BY <2>1, <2>2
<1>6. Li!TypeOK'
  <2>a. round' = round /\ j' = j + 1 /\ Len(arr') = Len(arr)
    BY <1>1, <1>5
  <2>1. round' \in 0 .. Len(arr') /\ j' \in 0 .. Len(arr')
    BY <1>a, <2>a
  <2>2. QED
    BY <1>1, <1>5, <2>1 DEF ListingInv, Li!TypeOK
<1>7. StringsOfEnv'
  <2>1. Len(arr') = Len(env')
    BY <1>1, <1>5 DEF StringsOfEnv
  <2>2. \A k \in DOMAIN arr : \E n \in DOMAIN env : arr'[k] = Li!CreateEnvString(env[n])
    <3>1. \A k \in DOMAIN arr : \E n \in DOMAIN env : arr[k] = Li!CreateEnvString(env[n])
      BY <1>1 DEF StringsOfEnv
    <3>2. \A k \in DOMAIN arr : swap[k] \in DOMAIN arr /\ arr'[k] = arr[swap[k]]
      BY <1>4
    <3>3. ASSUME NEW k \in DOMAIN arr
          PROVE  \E n \in DOMAIN env : arr'[k] = Li!CreateEnvString(env[n])
      <4>1. swap[k] \in DOMAIN arr /\ arr'[k] = arr[swap[k]]
        BY <3>2
      <4>2. PICK n \in DOMAIN env : arr[swap[k]] = Li!CreateEnvString(env[n])
        BY <3>1, <4>1
      <4>3. QED
        BY <4>1, <4>2
    <3>4. QED
      BY <3>3
  <2>3. \A n \in DOMAIN env : \E k \in DOMAIN arr : arr'[k] = Li!CreateEnvString(env[n])
    <3> SUFFICES ASSUME NEW n \in DOMAIN env
                 PROVE  \E k \in DOMAIN arr : arr'[k] = Li!CreateEnvString(env[n])
      OBVIOUS
    <3>1. PICK k \in DOMAIN arr : arr[k] = Li!CreateEnvString(env[n])
      BY <1>1 DEF StringsOfEnv
    <3>2. PICK l \in DOMAIN arr : swap[l] = k
      BY <1>4
    <3>3. QED
      BY <1>4, <3>1, <3>2
  <2>4. \A k, l \in DOMAIN arr : arr'[k] = arr'[l] => k = l
    <3> SUFFICES ASSUME NEW k \in DOMAIN arr, NEW l \in DOMAIN arr, arr'[k] = arr'[l] PROVE k = l
      OBVIOUS
    <3>1. swap[k] \in DOMAIN arr /\ swap[l] \in DOMAIN arr /\ arr[swap[k]] = arr[swap[l]]
      BY <1>4
    <3>2. swap[k] = swap[l]
      BY <1>1, <3>1 DEF StringsOfEnv
    <3>3. QED
      BY <1>4, <3>2
  <2>5. QED
    BY <1>1, <1>5, <2>1, <2>2, <2>3, <2>4 DEF StringsOfEnv
<1>8. Sorting'
  <2>1. /\ Len(arr') > 0 /\ round' < Len(arr') /\ j' + 1 <= Len(arr') - round'
    BY <1>1, <1>2, <1>5
  <2>2. ASSUME NEW l \in DOMAIN arr, NEW m \in DOMAIN arr, l < m, m > Len(arr) - round
        PROVE  ~Li!After(arr'[l], arr'[m])
    <3>1. m \in Nat /\ l \in Nat /\ m # j + 1 /\ m # j + 2 /\ m > j + 2
      BY <1>a, <2>2
    <3>2. swap[l] \in DOMAIN arr /\ swap[l] < m
      <4>1. swap[l] = l \/ swap[l] = j + 1 \/ swap[l] = j + 2
        BY <1>4
      <4>2. swap[l] \in DOMAIN arr
        BY <1>4
      <4>3. j \in Nat
        BY <1>a
      <4>4. QED
        BY <2>2, <3>1, <4>1, <4>2, <4>3
    <3>3. arr'[l] = arr[swap[l]] /\ arr'[m] = arr[m]
      BY <1>4, <3>1
    <3>4. ~Li!After(arr[swap[l]], arr[m])
      BY <1>1, <2>2, <3>2 DEF Sorting
    <3>5. QED
      BY <3>3, <3>4
  <2>3. ASSUME NEW l \in DOMAIN arr, l <= j + 1 PROVE ~Li!After(arr'[l], arr'[j + 2])
    <3>1. CASE l = j + 1
      <4>1. CASE Li!After(a, b)
        <5>1. arr'[l] = b /\ arr'[j + 2] = a
          BY <1>3, <1>4, <3>1, <4>1 DEF a, b
        <5>2. ~Li!After(b, a)
          BY <1>3, <4>1, AfterAsymmetric
        <5>3. QED
          BY <5>1, <5>2
      <4>2. CASE ~Li!After(a, b)
        <5>1. arr'[l] = a /\ arr'[j + 2] = b
          BY <1>3, <1>4, <3>1, <4>2 DEF a, b
        <5>2. QED
          BY <4>2, <5>1
      <4>3. QED
        BY <4>1, <4>2
    <3>2. CASE l <= j
      <4>1. l \notin {j + 1, j + 2} /\ arr[l] \in Seq(Li!Char)
        BY <1>2, <3>2
      <4>2. arr'[l] = arr[l]
        BY <1>4, <4>1
      <4>3. ~Li!After(arr[l], a)
        BY <1>1, <3>2 DEF Sorting, a
      <4>4. CASE Li!After(a, b)
        <5>1. arr'[j + 2] = a
          BY <1>3, <1>4, <4>4 DEF a
        <5>2. QED
          BY <4>2, <4>3, <5>1
      <4>5. CASE ~Li!After(a, b)
        <5>1. arr'[j + 2] = b
          BY <1>3, <1>4, <4>5 DEF b
        <5>2. ~Li!After(arr[l], b)
          BY <1>3, <4>1, <4>3, <4>5, AfterBetween
        <5>3. QED
          BY <4>2, <5>1, <5>2
      <4>6. QED
        BY <4>4, <4>5
    <3>3. l \in Nat /\ j \in Nat
      BY <1>a
    <3>4. QED
      BY <2>3, <3>1, <3>2, <3>3
  <2>4. j' + 1 = j + 2 /\ round' = round
    BY <1>1, <1>2
  <2>5. \A l, m \in DOMAIN arr : l < m /\ m > Len(arr) - round => ~Li!After(arr'[l], arr'[m])
    BY <2>2
  <2>6. \A l \in DOMAIN arr : l <= j + 1 => ~Li!After(arr'[l], arr'[j + 2])
    BY <2>3
  <2>7. Len(arr') # 0 /\ j' = j + 1
    BY <1>1, <2>1, <1>2, <1>5
  <2>8. /\ \A l, m \in DOMAIN arr' : l < m /\ m > Len(arr') - round' => ~Li!After(arr'[l], arr'[m])
        /\ \A l \in DOMAIN arr' : l <= j' => ~Li!After(arr'[l], arr'[j' + 1])
    BY <1>5, <2>4, <2>5, <2>6, <2>7, Zenon
  <2>9. QED
    BY <2>1, <2>7, <2>8 DEF Sorting
<1>9. QED
  BY <1>1, <1>6, <1>7, <1>8 DEF ListingInv

\* When the inner loop ends, one more string is in its place.
LEMMA ListingNextRound == ASSUME ListingInv, Li!NextRound PROVE ListingInv'
<1>1. /\ listing = "sort" /\ round + 1 < Len(arr) /\ j + 1 >= Len(arr) - round
      /\ round' = round + 1 /\ j' = 0 /\ env' = env /\ arr' = arr /\ listing' = listing /\ out' = out
      /\ env \in Envs /\ out = <<>> /\ StringsOfEnv /\ Sorting
  BY DEF Li!NextRound, ListingInv
<1>2. Len(arr) \in Nat /\ DOMAIN arr = 1 .. Len(arr) /\ round \in Nat /\ j \in Nat
  BY DEF ListingInv, Li!TypeOK
<1>3. /\ Len(arr) > 0 /\ round' < Len(arr) /\ j' + 1 <= Len(arr) - round'
      /\ j + 1 = Len(arr) - round
  <2>1. /\ round + 1 < Len(arr) /\ j + 1 >= Len(arr) - round /\ round' = round + 1 /\ j' = 0
        /\ Len(arr) > 0 => j + 1 <= Len(arr) - round
    BY <1>1 DEF Sorting
  <2>2. Len(arr) \in Nat /\ round \in Nat /\ j \in Nat
    BY <1>2
  <2>3. QED
    BY <2>1, <2>2
<1>4. ASSUME NEW l \in DOMAIN arr, NEW m \in DOMAIN arr, l < m, m > Len(arr) - round'
      PROVE  ~Li!After(arr[l], arr[m])
  <2>1. m = j + 1 \/ m > Len(arr) - round
    BY <1>1, <1>2, <1>3, <1>4
  <2>2. m = j + 1 => l <= j
    BY <1>2, <1>4
  <2>3. QED
    BY <1>1, <1>4, <2>1, <2>2 DEF Sorting
<1>5. \A l \in DOMAIN arr : ~(l <= j')
  BY <1>1, <1>2
<1>6. Sorting'
  <2>1. \A l, m \in DOMAIN arr : l < m /\ m > Len(arr) - round' => ~Li!After(arr[l], arr[m])
    BY <1>4
  <2>2. ~(Len(arr) = 0)
    BY <1>2, <1>3
  <2>3. QED
    BY <1>1, <1>3, <1>5, <2>1, <2>2 DEF Sorting
<1>7. Li!TypeOK'
  <2>1. round' \in 0 .. Len(arr) /\ j' \in 0 .. Len(arr)
    BY <1>1, <1>2
  <2>2. QED
    BY <1>1, <2>1 DEF ListingInv, Li!TypeOK
<1>8. StringsOfEnv'
  BY <1>1 DEF StringsOfEnv
<1>9. QED
  BY <1>1, <1>6, <1>7, <1>8 DEF ListingInv

\* When the outer loop ends, every string is.
LEMMA ListingSorted == ASSUME ListingInv, Li!Sorted PROVE ListingInv'
<1>1. /\ listing = "sort" /\ round + 1 >= Len(arr) /\ listing' = "print"
      /\ round' = 0 /\ j' = 0 /\ env' = env /\ arr' = arr /\ out' = out
      /\ env \in Envs /\ out = <<>> /\ StringsOfEnv /\ Sorting
  BY DEF Li!Sorted, ListingInv
<1>2. Len(arr) \in Nat /\ DOMAIN arr = 1 .. Len(arr) /\ round \in Nat
  BY DEF ListingInv, Li!TypeOK
<1>3. ASSUME NEW l \in DOMAIN arr, NEW m \in DOMAIN arr, l < m PROVE ~Li!After(arr[l], arr[m])
  <2>1. Len(arr) > 0
    BY <1>2
  <2>a. round < Len(arr) /\ round + 1 >= Len(arr)
    BY <1>1, <2>1 DEF Sorting
  <2>b. Len(arr) \in Nat /\ round \in Nat
    BY <1>2
  <2>2. round = Len(arr) - 1
    BY <2>a, <2>b
  <2>3. m > Len(arr) - round
    BY <1>2, <1>3, <2>2
  <2>4. QED
    BY <1>1, <1>3, <2>3 DEF Sorting
<1>4. LinesPrinted'
  BY <1>1, <1>3 DEF LinesPrinted
<1>5. Li!TypeOK'
  <2>1. round' \in 0 .. Len(arr) /\ j' \in 0 .. Len(arr)
    BY <1>1, <1>2
  <2>2. QED
    BY <1>1, <2>1 DEF ListingInv, Li!TypeOK
<1>6. StringsOfEnv'
  BY <1>1 DEF StringsOfEnv
<1>7. QED
  BY <1>1, <1>4, <1>5, <1>6 DEF ListingInv

\* A line is printed for a string that is not hidden, below all before it.
LEMMA ListingPrintLine == ASSUME ListingInv, Li!PrintExportLine PROVE ListingInv'
<1>1. /\ listing = "print" /\ round < Len(arr)
      /\ out' = IF Li!Hidden(arr[round + 1]) THEN out ELSE Append(out, Li!LineOf(arr[round + 1]))
      /\ round' = round + 1 /\ env' = env /\ arr' = arr /\ j' = j /\ listing' = listing
      /\ env \in Envs /\ StringsOfEnv /\ LinesPrinted
  BY DEF Li!PrintExportLine, ListingInv
<1>2. /\ Len(arr) \in Nat /\ DOMAIN arr = 1 .. Len(arr) /\ round \in Nat /\ j \in 0 .. Len(arr)
      /\ out \in Seq(Li!Node)
  BY DEF ListingInv, Li!TypeOK
<1> DEFINE k0 == round + 1
           line == Li!LineOf(arr[k0])
<1>3. k0 \in DOMAIN arr /\ round' \in 0 .. Len(arr) /\ 1 .. k0 \subseteq DOMAIN arr
      /\ 1 .. round' = 1 .. k0 /\ 1 .. k0 = (1 .. round) \union {k0}
      /\ \A k \in 1 .. round : k < k0 /\ k \in DOMAIN arr /\ k # k0
  <2>1. round \in Nat /\ Len(arr) \in Nat /\ round < Len(arr) /\ round' = round + 1 /\ DOMAIN arr = 1 .. Len(arr)
    BY <1>1, <1>2
  <2>2. QED
    BY <2>1
<1>4. \A k \in DOMAIN arr :
        /\ Li!LineOf(arr[k]) \in Li!Node /\ Li!CreateEnvString(Li!LineOf(arr[k])) = arr[k]
  <2> SUFFICES ASSUME NEW k \in DOMAIN arr
               PROVE  /\ Li!LineOf(arr[k]) \in Li!Node
                      /\ Li!CreateEnvString(Li!LineOf(arr[k])) = arr[k]
    OBVIOUS
  <2>1. PICK n \in DOMAIN env : arr[k] = Li!CreateEnvString(env[n])
    BY <1>1 DEF StringsOfEnv
  <2>2. Li!LineOf(arr[k]) = env[n] /\ env[n] \in Li!Node
    BY <1>1, <2>1, EnvStrings, EnvNodes
  <2>3. QED
    BY <2>1, <2>2
<1>5. out' \in Seq(Li!Node)
  BY <1>1, <1>2, <1>3, <1>4
<1>6. Li!TypeOK'
  BY <1>1, <1>2, <1>3, <1>5 DEF ListingInv, Li!TypeOK
<1>7. StringsOfEnv'
  BY <1>1 DEF StringsOfEnv
<1>8. LinesPrinted'
  <2>1. CASE Li!Hidden(arr[k0])
    <3>1. out' = out
      BY <1>1, <2>1
    <3>2. \A m \in DOMAIN out : \E k \in 1 .. k0 : ~Li!Hidden(arr[k]) /\ out[m] = Li!LineOf(arr[k])
      <4>1. 1 .. round \subseteq 1 .. k0
        BY <1>3
      <4>2. QED
        BY <1>1, <4>1 DEF LinesPrinted
    <3>3. \A k \in 1 .. k0 : ~Li!Hidden(arr[k]) => \E m \in DOMAIN out : out[m] = Li!LineOf(arr[k])
      BY <1>1, <1>3, <2>1 DEF LinesPrinted
    <3>4. 1 .. round' = 1 .. k0 /\ arr' = arr
      BY <1>1, <1>3
    <3>5. /\ \A l, m \in DOMAIN arr : l < m => ~Li!After(arr[l], arr[m])
          /\ \A m, n \in DOMAIN out : m < n =>
               /\ out[m] # out[n]
               /\ ~Li!After(Li!CreateEnvString(out[m]), Li!CreateEnvString(out[n]))
      BY <1>1 DEF LinesPrinted
    <3> HIDE DEF k0
    <3>6. QED
      BY <3>1, <3>2, <3>3, <3>4, <3>5, Zenon DEF LinesPrinted
  <2>2. CASE ~Li!Hidden(arr[k0])
    <3>1. /\ out' = Append(out, line) /\ Len(out) \in Nat /\ DOMAIN out = 1 .. Len(out)
          /\ DOMAIN out' = 1 .. Len(out) + 1 /\ out'[Len(out) + 1] = line
          /\ \A m \in DOMAIN out : out'[m] = out[m]
      BY <1>1, <1>2, <2>2
    <3> HIDE DEF line
    <3>2. \A m \in DOMAIN out' : m \in DOMAIN out \/ m = Len(out) + 1
      BY <3>1
    <3>3. Len(out) + 1 \in DOMAIN out' /\ DOMAIN out \subseteq DOMAIN out'
      BY <3>1
    <3>4. \A m \in DOMAIN out' : \E k \in 1 .. k0 : ~Li!Hidden(arr[k]) /\ out'[m] = Li!LineOf(arr[k])
      <4> SUFFICES ASSUME NEW m \in DOMAIN out'
                   PROVE  \E k \in 1 .. k0 : ~Li!Hidden(arr[k]) /\ out'[m] = Li!LineOf(arr[k])
        OBVIOUS
      <4>1. CASE m \in DOMAIN out
        <5>1. PICK k \in 1 .. round : ~Li!Hidden(arr[k]) /\ out[m] = Li!LineOf(arr[k])
          BY <1>1, <4>1 DEF LinesPrinted
        <5>2. k \in 1 .. k0
          BY <1>3
        <5>3. QED
          BY <3>1, <4>1, <5>1, <5>2
      <4>2. CASE m = Len(out) + 1
        <5>1. k0 \in 1 .. k0
          BY <1>3
        <5>2. QED
          BY <2>2, <3>1, <4>2, <5>1 DEF line
      <4>3. QED
        BY <3>2, <4>1, <4>2
    <3>5. \A k \in 1 .. k0 : ~Li!Hidden(arr[k]) => \E m \in DOMAIN out' : out'[m] = Li!LineOf(arr[k])
      <4> SUFFICES ASSUME NEW k \in 1 .. k0, ~Li!Hidden(arr[k])
                   PROVE  \E m \in DOMAIN out' : out'[m] = Li!LineOf(arr[k])
        OBVIOUS
      <4>1. CASE k \in 1 .. round
        <5>1. PICK m \in DOMAIN out : out[m] = Li!LineOf(arr[k])
          BY <1>1, <4>1 DEF LinesPrinted
        <5>2. QED
          BY <3>1, <3>3, <5>1
      <4>2. CASE k = k0
        BY <3>1, <3>3, <4>2 DEF line
      <4>3. QED
        BY <1>3, <4>1, <4>2
    <3>6. ASSUME NEW m \in DOMAIN out', NEW n \in DOMAIN out', m < n
          PROVE  /\ out'[m] # out'[n]
                 /\ ~Li!After(Li!CreateEnvString(out'[m]), Li!CreateEnvString(out'[n]))
      <4>1. m \in DOMAIN out
        BY <3>1, <3>6
      <4>2. CASE n \in DOMAIN out
        BY <1>1, <3>1, <3>6, <4>1, <4>2 DEF LinesPrinted
      <4>3. CASE n = Len(out) + 1
        <5>1. PICK k \in 1 .. round : ~Li!Hidden(arr[k]) /\ out[m] = Li!LineOf(arr[k])
          BY <1>1, <4>1 DEF LinesPrinted
        <5>2. k \in DOMAIN arr /\ k0 \in DOMAIN arr /\ k < k0 /\ k # k0
          BY <1>3
        <5>3. Li!CreateEnvString(out'[m]) = arr[k] /\ Li!CreateEnvString(out'[n]) = arr[k0]
          BY <1>4, <3>1, <4>1, <4>3, <5>1, <5>2 DEF line
        <5>4. ~Li!After(arr[k], arr[k0])
          BY <1>1, <5>2 DEF LinesPrinted
        <5>5. arr[k] # arr[k0]
          BY <1>1, <5>2 DEF StringsOfEnv
        <5>6. QED
          BY <5>3, <5>4, <5>5
      <4>4. QED
        BY <3>2, <4>2, <4>3
    <3>7. 1 .. round' = 1 .. k0 /\ arr' = arr
      BY <1>1, <1>3
    <3>8. \A l, m \in DOMAIN arr : l < m => ~Li!After(arr[l], arr[m])
      BY <1>1 DEF LinesPrinted
    <3> HIDE DEF k0
    <3>9. QED
      BY <3>4, <3>5, <3>6, <3>7, <3>8 DEF LinesPrinted
  <2>3. QED
    BY <2>1, <2>2
<1>9. QED
  BY <1>1, <1>6, <1>7, <1>8 DEF ListingInv

\* Each step of export without arguments keeps the invariant.
LEMMA ListingNext == ListingInv /\ [Li!Next]_(Li!vars) => ListingInv'
<1> SUFFICES ASSUME ListingInv, [Li!Next]_(Li!vars) PROVE ListingInv'
  OBVIOUS
<1>1. CASE Li!Printed
  <2>1. /\ listing = "print" /\ listing' = "done" /\ round = Len(arr)
        /\ UNCHANGED <<env, arr, round, j, out>>
    BY <1>1 DEF Li!Printed
  <2>2. Li!TypeOK'
    BY <2>1 DEF ListingInv, Li!TypeOK
  <2>3. StringsOfEnv' /\ LinesPrinted'
    BY <2>1 DEF ListingInv, StringsOfEnv, LinesPrinted
  <2>4. QED
    BY <2>1, <2>2, <2>3 DEF ListingInv
<1>2. CASE UNCHANGED Li!vars
  <2>1. UNCHANGED <<env, arr, round, j, listing, out>>
    BY <1>2 DEF Li!vars
  <2>2. Li!TypeOK'
    BY <2>1 DEF ListingInv, Li!TypeOK
  <2>3. /\ listing # "array" => StringsOfEnv'
        /\ listing = "sort" => Sorting'
        /\ listing \in {"print", "done"} => LinesPrinted'
    BY <2>1 DEF ListingInv, StringsOfEnv, LinesPrinted, Sorting
  <2>4. QED
    BY <2>1, <2>2, <2>3 DEF ListingInv
<1>3. QED
  BY <1>1, <1>2, ListingArray, ListingCompare, ListingNextRound, ListingSorted, ListingPrintLine
  DEF Li!Next

----------------------------------------------------------------------------
\* With the loop done, each node but a hidden one has its line, and one only.
LEMMA Declares == ListingInv => Li!DeclaresEnvironment
<1> SUFFICES ASSUME ListingInv, listing = "done" PROVE Li!DeclaresEnvironment
  BY DEF Li!DeclaresEnvironment
<1> DEFINE shown == {n \in DOMAIN env : env[n].key # <<Underscore>> \/ env[n].value = NULL}
<1>1. /\ env \in Envs /\ StringsOfEnv /\ LinesPrinted /\ round = Len(arr)
      /\ Len(arr) \in Nat /\ DOMAIN arr = 1 .. Len(arr) /\ out \in Seq(Li!Node)
  BY DEF ListingInv, Li!TypeOK
<1>2. /\ Len(env) \in Nat /\ DOMAIN env = 1 .. Len(env)
      /\ \A m, n \in DOMAIN env : env[m] = env[n] => m = n
  BY <1>1, EnvNodes
<1>3. \A n \in DOMAIN env : /\ Li!LineOf(Li!CreateEnvString(env[n])) = env[n]
                            /\ Li!Hidden(Li!CreateEnvString(env[n])) <=> n \notin shown
  <2> SUFFICES ASSUME NEW n \in DOMAIN env
               PROVE  /\ Li!LineOf(Li!CreateEnvString(env[n])) = env[n]
                      /\ Li!Hidden(Li!CreateEnvString(env[n])) <=> n \notin shown
    OBVIOUS
  <2>1. /\ Li!LineOf(Li!CreateEnvString(env[n])) = env[n]
        /\ Li!Hidden(Li!CreateEnvString(env[n])) <=> env[n].key = <<Underscore>> /\ env[n].value # NULL
    BY <1>1, EnvStrings
  <2>2. QED
    BY <2>1
<1> HIDE DEF shown
<1>a. shown \subseteq DOMAIN env
  BY DEF shown
<1>4. \A m \in DOMAIN out : \E n \in shown : out[m] = env[n]
  <2> SUFFICES ASSUME NEW m \in DOMAIN out PROVE \E n \in shown : out[m] = env[n]
    OBVIOUS
  <2>1. PICK k \in DOMAIN arr : ~Li!Hidden(arr[k]) /\ out[m] = Li!LineOf(arr[k])
    BY <1>1 DEF LinesPrinted
  <2>2. PICK n \in DOMAIN env : arr[k] = Li!CreateEnvString(env[n])
    BY <1>1 DEF StringsOfEnv
  <2>3. QED
    BY <1>3, <2>1, <2>2
<1>5. \A n \in shown : \E m \in DOMAIN out : out[m] = env[n]
  <2> SUFFICES ASSUME NEW n \in shown PROVE \E m \in DOMAIN out : out[m] = env[n]
    OBVIOUS
  <2>1. PICK k \in DOMAIN arr : arr[k] = Li!CreateEnvString(env[n])
    BY <1>1, <1>a DEF StringsOfEnv
  <2>2. ~Li!Hidden(arr[k]) /\ Li!LineOf(arr[k]) = env[n]
    BY <1>3, <1>a, <2>1
  <2>3. QED
    BY <1>1, <2>2 DEF LinesPrinted
<1>6. \A m, n \in DOMAIN out : out[m] = out[n] => m = n
  <2>1. Len(out) \in Nat /\ DOMAIN out = 1 .. Len(out)
    BY <1>1
  <2>2. \A m, n \in DOMAIN out : m < n => out[m] # out[n]
    BY <1>1 DEF LinesPrinted
  <2>3. \A m, n \in DOMAIN out : m < n \/ n < m \/ m = n
    BY <2>1
  <2>4. QED
    BY <2>2, <2>3
<1>7. Li!Range(out) = {env[n] : n \in shown}
  <2>1. Li!Range(out) = {out[m] : m \in DOMAIN out}
    BY DEF Li!Range
  <2>2. QED
    BY <1>4, <1>5, <2>1
<1>8. Len(out) = Li!Cardinality(shown)
  <2>1. \A S : Li!Cardinality(S) = Cardinality(S)
    BY DEF Li!Cardinality, Cardinality
  <2> DEFINE node == [m \in DOMAIN out |-> CHOOSE n \in shown : out[m] = env[n]]
  <2>2. \A m \in DOMAIN out : node[m] \in shown /\ out[m] = env[node[m]]
    BY <1>4
  <2> HIDE DEF node
  <2>3. node \in [DOMAIN out -> shown]
    BY <2>2 DEF node
  <2>4. node \in Bijection(DOMAIN out, shown)
    <3>1. \A m, n \in DOMAIN out : node[m] = node[n] => m = n
      BY <1>6, <2>2
    <3>2. \A n \in shown : \E m \in DOMAIN out : node[m] = n
      BY <1>2, <1>5, <1>a, <2>2
    <3>3. QED
      BY <2>3, <3>1, <3>2, Zenon DEF Bijection, Injection, Surjection, IsInjective
  <2>5. DOMAIN out = 1 .. Len(out) /\ Len(out) \in Nat
    BY <1>1
  <2>6. IsFiniteSet(DOMAIN out) /\ Cardinality(DOMAIN out) = Len(out)
    <3>1. 1 \in Int /\ Len(out) \in Int
      BY <2>5
    <3>2. Cardinality(1 .. Len(out)) = IF 1 > Len(out) THEN 0 ELSE Len(out) - 1 + 1
      BY <3>1, FS_Interval
    <3>3. IsFiniteSet(1 .. Len(out))
      BY <3>1, FS_Interval
    <3>4. QED
      BY <2>5, <3>2, <3>3
  <2>7. Cardinality(DOMAIN out) = Cardinality(shown)
    <3>1. ExistsBijection(DOMAIN out, shown)
      BY <2>4 DEF ExistsBijection
    <3>2. QED
      BY <2>6, <3>1, FS_Bijection
  <2>8. QED
    BY <2>1, <2>6, <2>7
<1>9. QED
  BY <1>7, <1>8, Zenon DEF Li!DeclaresEnvironment, shown, Underscore

\* The string of a name and a value.
StringOf(name, value) == IF value = NULL THEN name ELSE name \o <<"=">> \o value

\* What is stated of two lines, the second somewhere below the first.
LinesInOrder(k, v, l, w) ==
  /\ Len(k) > Len(l) /\ SubSeq(k, 1, Len(l)) = l => w # NULL /\ Code[k[Len(l) + 1]] < Code["="]
  /\ Len(l) > Len(k) /\ SubSeq(l, 1, Len(k)) = k => v = NULL \/ Code[l[Len(k) + 1]] > Code["="]
  /\ \/ Len(k) > Len(l) /\ SubSeq(k, 1, Len(l)) = l
     \/ Len(l) > Len(k) /\ SubSeq(l, 1, Len(k)) = k
     \/ Li!After(l, k)

\* The names of two lines in the order of their strings are in the order stated.
LEMMA NamesInOrder ==
  ASSUME NEW k \in Seq(Li!Char), NEW l \in Seq(Li!Char), k # l,
         NEW v \in Seq(Li!Char) \union {NULL}, NEW w \in Seq(Li!Char) \union {NULL},
         \A n \in DOMAIN k : k[n] # "=", \A n \in DOMAIN l : l[n] # "=",
         NEW s \in Seq(Li!Char), NEW t \in Seq(Li!Char), s = StringOf(k, v), t = StringOf(l, w),
         ~Li!After(s, t)
  PROVE  LinesInOrder(k, v, l, w)
<1>1. /\ Len(k) \in Nat /\ Len(l) \in Nat /\ DOMAIN k = 1 .. Len(k) /\ DOMAIN l = 1 .. Len(l)
      /\ \A n \in 1 .. Len(k) : k[n] \in Li!Char
      /\ \A n \in 1 .. Len(l) : l[n] \in Li!Char
  OBVIOUS
<1>2. "=" \in Li!Char
  BY CodesDiffer
\* What the strings compare at the place of a name and just after it.
<1>3. /\ \A n \in 1 .. Len(k) : CodeAt(s, n) = Code[k[n]] /\ CodeAt(k, n) = Code[k[n]]
      /\ CodeAt(s, Len(k) + 1) = IF v = NULL THEN 0 ELSE Code["="]
  <2>1. CASE v = NULL
    <3>1. s = k
      BY <2>1 DEF StringOf
    <3>2. QED
      BY <1>1, <2>1, <3>1 DEF CodeAt
  <2>2. CASE v # NULL
    <3>1. s = k \o <<"=">> \o v /\ v \in Seq(Li!Char)
      BY <2>2 DEF StringOf
    <3>2. /\ Len(s) = Len(k) + 1 + Len(v) /\ Len(v) \in Nat
          /\ s[Len(k) + 1] = "=" /\ \A n \in 1 .. Len(k) : s[n] = k[n]
      BY <1>2, <3>1, Joined
    <3>3. \A n \in 1 .. Len(k) : n <= Len(s) /\ n <= Len(k)
      BY <1>1, <3>2
    <3>4. Len(k) + 1 <= Len(s)
      BY <1>1, <3>2
    <3>5. QED
      BY <2>2, <3>2, <3>3, <3>4 DEF CodeAt
  <2>3. QED
    BY <2>1, <2>2
<1>4. /\ \A n \in 1 .. Len(l) : CodeAt(t, n) = Code[l[n]] /\ CodeAt(l, n) = Code[l[n]]
      /\ CodeAt(t, Len(l) + 1) = IF w = NULL THEN 0 ELSE Code["="]
  <2>1. CASE w = NULL
    <3>1. t = l
      BY <2>1 DEF StringOf
    <3>2. QED
      BY <1>1, <2>1, <3>1 DEF CodeAt
  <2>2. CASE w # NULL
    <3>1. t = l \o <<"=">> \o w /\ w \in Seq(Li!Char)
      BY <2>2 DEF StringOf
    <3>2. /\ Len(t) = Len(l) + 1 + Len(w) /\ Len(w) \in Nat
          /\ t[Len(l) + 1] = "=" /\ \A n \in 1 .. Len(l) : t[n] = l[n]
      BY <1>2, <3>1, Joined
    <3>3. \A n \in 1 .. Len(l) : n <= Len(t) /\ n <= Len(l)
      BY <1>1, <3>2
    <3>4. Len(l) + 1 <= Len(t)
      BY <1>1, <3>2
    <3>5. QED
      BY <2>2, <3>2, <3>3, <3>4 DEF CodeAt
  <2>3. QED
    BY <2>1, <2>2
<1>5. \A n \in Nat \ {0} : (\A p \in 1 .. n - 1 : CodeAt(s, p) = CodeAt(t, p)) =>
                            ~(CodeAt(s, n) > CodeAt(t, n))
  BY AfterMeans DEF Exceeds
<1>6. ASSUME Len(k) > Len(l), SubSeq(k, 1, Len(l)) = l
      PROVE  w # NULL /\ Code[k[Len(l) + 1]] < Code["="]
  <2> DEFINE n == Len(l) + 1
  <2>1. \A p \in 1 .. Len(l) : SubSeq(k, 1, Len(l))[p] = k[p] /\ p \in 1 .. Len(k)
    BY <1>1, <1>6
  <2>a. \A p \in 1 .. Len(l) : k[p] = l[p] /\ p \in 1 .. Len(k)
    BY <1>6, <2>1
  <2>2. \A p \in 1 .. Len(l) : CodeAt(s, p) = CodeAt(t, p)
    BY <1>3, <1>4, <2>a
  <2>3. n \in Nat \ {0} /\ n \in 1 .. Len(k) /\ 1 .. n - 1 = 1 .. Len(l)
    BY <1>1, <1>6
  <2>4. ~(CodeAt(s, n) > CodeAt(t, n))
    BY <1>5, <2>2, <2>3
  <2>5. /\ k[n] \in Li!Char /\ k[n] # "=" /\ CodeAt(s, n) = Code[k[n]]
        /\ CodeAt(t, n) = IF w = NULL THEN 0 ELSE Code["="]
    BY <1>1, <1>3, <1>4, <2>3
  <2> HIDE DEF n
  <2>7. w # NULL
    BY <2>4, <2>5, CodesOrdered
  <2>8. ~(Code[k[n]] > Code["="])
    BY <2>4, <2>5, <2>7
  <2>9. Code[k[n]] < Code["="]
    BY <1>2, <2>5, <2>8, CodesOrdered
  <2>10. QED
    BY <2>7, <2>9 DEF n
<1>7. ASSUME Len(l) > Len(k), SubSeq(l, 1, Len(k)) = k
      PROVE  v = NULL \/ Code[l[Len(k) + 1]] > Code["="]
  <2> SUFFICES ASSUME v # NULL PROVE Code[l[Len(k) + 1]] > Code["="]
    OBVIOUS
  <2> DEFINE n == Len(k) + 1
  <2>1. \A p \in 1 .. Len(k) : SubSeq(l, 1, Len(k))[p] = l[p] /\ p \in 1 .. Len(l)
    BY <1>1, <1>7
  <2>a. \A p \in 1 .. Len(k) : k[p] = l[p] /\ p \in 1 .. Len(l)
    BY <1>7, <2>1
  <2>2. \A p \in 1 .. Len(k) : CodeAt(s, p) = CodeAt(t, p)
    BY <1>3, <1>4, <2>a
  <2>3. n \in Nat \ {0} /\ n \in 1 .. Len(l) /\ 1 .. n - 1 = 1 .. Len(k)
    BY <1>1, <1>7
  <2>4. ~(CodeAt(s, n) > CodeAt(t, n))
    BY <1>5, <2>2, <2>3
  <2>5. /\ l[n] \in Li!Char /\ l[n] # "=" /\ CodeAt(t, n) = Code[l[n]]
        /\ CodeAt(s, n) = Code["="]
    BY <1>1, <1>3, <1>4, <2>3
  <2> HIDE DEF n
  <2>7. ~(Code["="] > Code[l[n]])
    BY <2>4, <2>5
  <2>8. Code[l[n]] > Code["="]
    BY <1>2, <2>5, <2>7, CodesOrdered
  <2>9. QED
    BY <2>8 DEF n
<1>8. ASSUME ~(Len(k) > Len(l) /\ SubSeq(k, 1, Len(l)) = l),
             ~(Len(l) > Len(k) /\ SubSeq(l, 1, Len(k)) = k)
      PROVE  Li!After(l, k)
  <2> DEFINE differ == {n \in Nat : n \in 1 .. Len(k) /\ n \in 1 .. Len(l) /\ k[n] # l[n]}
  <2>1. differ # {}
    <3> SUFFICES ASSUME differ = {} PROVE FALSE
      OBVIOUS
    <3>1. ASSUME NEW n \in 1 .. Len(k), n \in 1 .. Len(l) PROVE k[n] = l[n]
      <4>1. n \in Nat
        OBVIOUS
      <4>2. n \notin differ
        OBVIOUS
      <4>3. QED
        BY <3>1, <4>1, <4>2
    <3>2. CASE Len(k) = Len(l)
      <4>1. \A n \in 1 .. Len(k) : k[n] = l[n]
        BY <3>1, <3>2
      <4>2. QED
        BY <3>2, <4>1, SeqSame
    <3>3. CASE Len(k) > Len(l)
      <4>1. SubSeq(k, 1, Len(l)) \in Seq(Li!Char) /\ Len(SubSeq(k, 1, Len(l))) = Len(l)
        BY <1>1, <3>3
      <4>2. \A n \in 1 .. Len(l) : SubSeq(k, 1, Len(l))[n] = k[n] /\ n \in 1 .. Len(k)
        BY <1>1, <3>3
      <4>3. \A n \in 1 .. Len(l) : SubSeq(k, 1, Len(l))[n] = l[n]
        BY <3>1, <4>2
      <4>4. SubSeq(k, 1, Len(l)) = l
        BY <4>1, <4>3, SeqSame
      <4>5. QED
        BY <1>8, <3>3, <4>4
    <3>4. CASE Len(l) > Len(k)
      <4>1. SubSeq(l, 1, Len(k)) \in Seq(Li!Char) /\ Len(SubSeq(l, 1, Len(k))) = Len(k)
        BY <1>1, <3>4
      <4>2. \A n \in 1 .. Len(k) : SubSeq(l, 1, Len(k))[n] = l[n] /\ n \in 1 .. Len(l)
        BY <1>1, <3>4
      <4>3. \A n \in 1 .. Len(k) : SubSeq(l, 1, Len(k))[n] = k[n]
        BY <3>1, <4>2
      <4>4. SubSeq(l, 1, Len(k)) = k
        BY <4>1, <4>3, SeqSame
      <4>5. QED
        BY <1>8, <3>4, <4>4
    <3>5. Len(k) = Len(l) \/ Len(k) > Len(l) \/ Len(l) > Len(k)
      <4>1. Len(k) \in Nat /\ Len(l) \in Nat
        BY <1>1
      <4>2. QED
        BY <4>1
    <3>6. QED
      BY <3>2, <3>3, <3>4, <3>5
  <2>2. differ \in SUBSET Nat
    OBVIOUS
  <2>3. PICK n \in differ : \A p \in differ : n <= p
    BY <2>1, <2>2, LeastNat
  <2>4. n \in Nat /\ n \in 1 .. Len(k) /\ n \in 1 .. Len(l) /\ k[n] # l[n]
    OBVIOUS
  <2>5. ASSUME NEW p \in 1 .. n - 1 PROVE k[p] = l[p] /\ p \in 1 .. Len(k) /\ p \in 1 .. Len(l)
    <3>1. p \in 1 .. Len(k) /\ p \in 1 .. Len(l) /\ p \in Nat /\ ~(n <= p)
      BY <1>1, <2>4
    <3>2. p \notin differ
      BY <2>3, <3>1
    <3>3. QED
      BY <3>1, <3>2
  <2>6. ASSUME NEW p \in 1 .. n - 1
        PROVE  CodeAt(s, p) = CodeAt(t, p) /\ CodeAt(l, p) = CodeAt(k, p)
    <3>1. k[p] = l[p] /\ p \in 1 .. Len(k) /\ p \in 1 .. Len(l)
      BY <2>5
    <3>2. CodeAt(s, p) = Code[k[p]] /\ CodeAt(k, p) = Code[k[p]]
      BY <1>3, <3>1
    <3>3. CodeAt(t, p) = Code[l[p]] /\ CodeAt(l, p) = Code[l[p]]
      BY <1>4, <3>1
    <3>4. QED
      BY <3>1, <3>2, <3>3
  <2>7. ~(CodeAt(s, n) > CodeAt(t, n)) /\ n \in Nat \ {0}
    BY <1>5, <2>4, <2>6
  <2>8. /\ k[n] \in Li!Char /\ l[n] \in Li!Char /\ CodeAt(s, n) = Code[k[n]] /\ CodeAt(t, n) = Code[l[n]]
        /\ CodeAt(k, n) = Code[k[n]] /\ CodeAt(l, n) = Code[l[n]]
    BY <1>1, <1>3, <1>4, <2>4
  <2>10. ~(Code[k[n]] > Code[l[n]])
    BY <2>7, <2>8
  <2>11. Code[l[n]] > Code[k[n]]
    BY <2>4, <2>8, <2>10, CodesOrdered
  <2>12. Exceeds(l, k, n)
    BY <2>6, <2>8, <2>11 DEF Exceeds
  <2>13. QED
    BY <2>7, <2>12, AfterMeans
<1>9. QED
  BY <1>6, <1>7, <1>8 DEF LinesInOrder

\* The lines stand in the order stated.
LEMMA InOrder == ListingInv => Li!SortedAsStrings
<1> SUFFICES ASSUME ListingInv, listing = "done",
                    NEW m \in DOMAIN out, NEW n \in DOMAIN out, m < n
             PROVE  LET k == out[m].key
                        l == out[n].key
                        longer(s, t) == Len(s) > Len(t) /\ SubSeq(s, 1, Len(t)) = t
                    IN  CASE longer(k, l) -> out[n].value # NULL /\ Code[k[Len(l) + 1]] < Code["="]
                          [] longer(l, k) -> out[m].value = NULL \/ Code[l[Len(k) + 1]] > Code["="]
                          [] OTHER -> Li!After(l, k)
  BY DEF Li!SortedAsStrings
<1>1. env \in Envs /\ StringsOfEnv /\ LinesPrinted /\ round = Len(arr) /\ DOMAIN arr = 1 .. Len(arr)
  BY DEF ListingInv, Li!TypeOK
<1>2. \A p \in DOMAIN out : \E q \in DOMAIN env : out[p] = env[q]
  <2> SUFFICES ASSUME NEW p \in DOMAIN out PROVE \E q \in DOMAIN env : out[p] = env[q]
    OBVIOUS
  <2>1. PICK r \in DOMAIN arr : out[p] = Li!LineOf(arr[r])
    BY <1>1 DEF LinesPrinted
  <2>2. PICK q \in DOMAIN env : arr[r] = Li!CreateEnvString(env[q])
    BY <1>1 DEF StringsOfEnv
  <2>3. QED
    BY <1>1, <2>1, <2>2, EnvStrings
<1>3. PICK p \in DOMAIN env, q \in DOMAIN env : out[m] = env[p] /\ out[n] = env[q]
  BY <1>2
<1> DEFINE k == env[p].key
           l == env[q].key
           v == env[p].value
           w == env[q].value
           s == Li!CreateEnvString(env[p])
           t == Li!CreateEnvString(env[q])
<1>4. /\ env[p] # env[q] /\ ~Li!After(s, t)
  BY <1>1, <1>3 DEF LinesPrinted
<1>5. k # l
  BY <1>1, <1>4, EnvNodes
<1>6. /\ k \in Seq(Li!Char) /\ l \in Seq(Li!Char)
      /\ v \in Seq(Li!Char) \union {NULL} /\ w \in Seq(Li!Char) \union {NULL}
      /\ \A x \in DOMAIN k : k[x] # "=" 
      /\ \A x \in DOMAIN l : l[x] # "="
  BY <1>1, EnvNodes
<1>7. s \in Seq(Li!Char) /\ t \in Seq(Li!Char)
  BY <1>1, EnvStrings
<1>8. s = StringOf(k, v) /\ t = StringOf(l, w)
  BY DEF Li!CreateEnvString, StringOf
<1>9. out[m].key = k /\ out[n].key = l /\ out[m].value = v /\ out[n].value = w
  BY <1>3
<1> HIDE DEF k, l, v, w, s, t
<1>10. LinesInOrder(k, v, l, w)
  BY <1>4, <1>5, <1>6, <1>7, <1>8, NamesInOrder
<1>11. QED
  BY <1>9, <1>10 DEF LinesInOrder

----------------------------------------------------------------------------
(* The search along PATH, whatever other processes do to the files.        *)

USE NullAssumption, PathsAssumption, MaxChangesAssumption

\* What each step can rely on.
InPlace ==
  /\ at = "get_path" => word \notin {"dot", "dotdot"}
  /\ at \in {"exists", "is_dir", "access", "execve", "sh"} => found \in Places
  /\ at \in {"try", "tryX"} => word = "name" /\ path \in Seq(Dirs)
  /\ at = "tryX" => i <= Len(path)

\* The k-th directory of PATH has a program nobody touches, and what stands
\* before it cannot be executed.
Reachable(k) ==
  /\ Steady(path[k]) /\ files[path[k]] = "program"
  /\ \A l \in 1 .. k - 1 : Steady(path[l]) /\ ~Executable(files[path[l]])

\* The search has not gone past it, and goes on with it once it is found.
NotPassed(k) ==
  /\ at \in {"special", "get_path"} => i = 1
  /\ at \in {"try", "tryX"} => i <= k
  /\ at \in {"exists", "is_dir", "access", "execve"} => found = path[k]
  /\ at \notin {"not_found", "sh"}
  /\ at = "done" => ran = path[k]

Reaches == SearchesPath => \A k \in DOMAIN path : Reachable(k) => NotPassed(k)

SearchInv == TypeOK /\ InPlace /\ Reaches

----------------------------------------------------------------------------
(* Types.                                                                  *)

\* The search begins in its place.
LEMMA TypesInit == Init => TypeOK /\ InPlace
  BY DEF Init, TypeOK, InPlace, Steps

\* Each step of the search, or of others, keeps the types.
LEMMA TypesNext == TypeOK /\ InPlace /\ [Next]_vars => (TypeOK /\ InPlace)'
<1> SUFFICES ASSUME TypeOK, InPlace, [Next]_vars PROVE TypeOK' /\ InPlace'
  OBVIOUS
<1> USE DEF TypeOK, InPlace, Steps, Exit, GoTo, input, world, result
<1>1. CASE CheckSpecialCases
  BY <1>1 DEF CheckSpecialCases, Words
<1>2. CASE GetPath
  <2>1. CASE word = "name" /\ path # NULL
    BY <1>2, <2>1 DEF GetPath
  <2>2. CASE ~(word = "name" /\ path # NULL)
    <3>1. found' \in Places \union {NULL}
      BY <1>2, <2>2 DEF GetPath, Words, Places
    <3>2. at' = IF found' = NULL THEN "not_found" ELSE "exists"
      BY <1>2, <2>2 DEF GetPath
    <3>3. at = "get_path" /\ UNCHANGED <<input, world, i, denied, result>>
      BY <1>2, <2>2 DEF GetPath
    <3>4. QED
      BY <3>1, <3>2, <3>3
  <2>3. QED
    BY <2>1, <2>2
<1>3. CASE TryExists
  BY <1>3 DEF TryExists
<1>4. CASE TryExecutable
  BY <1>4 DEF TryExecutable, Places
<1>5. CASE TryPathsReturn
  BY <1>5 DEF TryPathsReturn
<1>6. CASE HandleCommandNotFound
  BY <1>6 DEF HandleCommandNotFound
<1>7. CASE HandleExecErrorExists
  BY <1>7 DEF HandleExecErrorExists
<1>8. CASE HandleExecErrorIsDir
  BY <1>8 DEF HandleExecErrorIsDir
<1>9. CASE HandleExecErrorAccess
  BY <1>9 DEF HandleExecErrorAccess
<1>10. CASE Execve
  BY <1>10 DEF Execve
<1>11. CASE TryShellExec
  BY <1>11 DEF TryShellExec
<1>12. CASE Change
  BY <1>12 DEF Change
<1>13. CASE UNCHANGED vars
  BY <1>13 DEF vars
<1>14. QED
  BY <1>1, <1>2, <1>3, <1>4, <1>5, <1>6, <1>7, <1>8, <1>9, <1>10, <1>11, <1>12, <1>13
  DEF Next, Search

----------------------------------------------------------------------------
(* The program in PATH.                                                    *)

\* What is steady after a step was so before it, and is the same file.
LEMMA SteadyBefore ==
  ASSUME TypeOK, [Next]_vars, NEW place \in Places, Steady(place)'
  PROVE  Steady(place) /\ files'[place] = files[place]
<1>1. CASE UNCHANGED world
  BY <1>1 DEF world, Steady
<1>2. CASE Change
  <2>1. PICK p \in Places : \E kind \in Kinds \ {files[p]} :
          files' = [files EXCEPT ![p] = kind] /\ touched' = Append(touched, p)
    BY <1>2 DEF Change
  <2>2. p # place
    BY <2>1 DEF Steady, TypeOK
  <2>3. \A n \in DOMAIN touched : n \in DOMAIN touched' /\ touched'[n] = touched[n]
    BY <2>1 DEF TypeOK
  <2>4. QED
    BY <2>1, <2>2, <2>3 DEF Steady, TypeOK
<1>3. QED
  BY <1>1, <1>2 DEF Next, Search, CheckSpecialCases, GetPath, TryExists, TryExecutable,
     TryPathsReturn, HandleCommandNotFound, HandleExecErrorExists, HandleExecErrorIsDir,
     HandleExecErrorAccess, Execve, TryShellExec, world, vars

\* So a program that can be reached could be before the step.
LEMMA ReachableBefore ==
  ASSUME TypeOK, [Next]_vars, SearchesPath', NEW k \in DOMAIN path', Reachable(k)'
  PROVE  SearchesPath /\ k \in DOMAIN path /\ Reachable(k) /\ path' = path
<1>1. path' = path /\ word' = word
  BY DEF Next, Search, CheckSpecialCases, GetPath, TryExists, TryExecutable,
     TryPathsReturn, HandleCommandNotFound, HandleExecErrorExists, HandleExecErrorIsDir,
     HandleExecErrorAccess, Execve, TryShellExec, Change, input, vars
<1>2. SearchesPath /\ path \in Seq(Dirs) /\ k \in DOMAIN path
  BY <1>1 DEF SearchesPath, TypeOK
<1>3. \A l \in DOMAIN path : path[l] \in Places
  BY <1>2 DEF Places
<1>4. Steady(path[k]) /\ files[path[k]] = "program"
  BY <1>1, <1>2, <1>3, SteadyBefore DEF Reachable
<1>5. ASSUME NEW l \in 1 .. k - 1
      PROVE  Steady(path[l]) /\ ~Executable(files[path[l]])
  <2>1. l \in DOMAIN path /\ path[l] \in Places
    BY <1>2, <1>3
  <2>2. Steady(path[l])' /\ ~Executable(files'[path[l]])
    BY <1>1 DEF Reachable
  <2>3. QED
    BY <1>1, <2>1, <2>2, SteadyBefore
<1>6. QED
  BY <1>1, <1>2, <1>4, <1>5 DEF Reachable

\* No step passes a program that can be reached.
LEMMA ReachesNext == SearchInv /\ [Next]_vars => Reaches'
<1> SUFFICES ASSUME SearchInv, [Next]_vars, SearchesPath', NEW k \in DOMAIN path', Reachable(k)'
             PROVE  NotPassed(k)'
  BY DEF Reaches
<1>1. /\ TypeOK /\ InPlace /\ SearchesPath /\ k \in DOMAIN path /\ Reachable(k) /\ path' = path
      /\ NotPassed(k)
  BY ReachableBefore DEF SearchInv, Reaches
<1>2. /\ word = "name" /\ path \in Seq(Dirs) /\ path # NULL /\ files[path[k]] = "program"
      /\ path[k] \in Places /\ i \in Nat
  BY <1>1 DEF SearchesPath, TypeOK, Reachable, Places
<1>3. \A l \in 1 .. k - 1 : ~Executable(files[path[l]])
  BY <1>1 DEF Reachable
<1>4. CASE UNCHANGED <<at, i, found, result>>
  BY <1>1, <1>4 DEF NotPassed, result
<1> USE DEF NotPassed, GoTo, Exit, result
<1>5. CASE CheckSpecialCases
  BY <1>1, <1>2, <1>5 DEF CheckSpecialCases
<1>6. CASE GetPath
  BY <1>1, <1>2, <1>6 DEF GetPath
<1>7. CASE TryExists
  BY <1>1, <1>2, <1>7 DEF TryExists
<1>8. CASE TryExecutable
  <2>1. i \in 1 .. k
    BY <1>1, <1>2, <1>8 DEF TryExecutable, TypeOK
  <2>2. i = k => Executable(files[path[i]])
    BY <1>2 DEF Executable
  <2>a. k \in Nat /\ i \in Nat
    BY <1>1, <1>2
  <2>b. i < k => i \in 1 .. k - 1
    BY <2>1, <2>a
  <2>3. i < k => ~Executable(files[path[i]])
    BY <1>3, <2>b
  <2>4. QED
    BY <1>1, <1>2, <1>8, <2>1, <2>2, <2>3 DEF TryExecutable
<1>9. CASE TryPathsReturn
  BY <1>1, <1>2, <1>9 DEF TryPathsReturn
<1>10. CASE HandleCommandNotFound
  BY <1>1, <1>10 DEF HandleCommandNotFound
<1>11. CASE HandleExecErrorExists
  BY <1>1, <1>2, <1>11 DEF HandleExecErrorExists
<1>12. CASE HandleExecErrorIsDir
  BY <1>1, <1>2, <1>12 DEF HandleExecErrorIsDir
<1>13. CASE HandleExecErrorAccess
  BY <1>1, <1>2, <1>13 DEF HandleExecErrorAccess, Executable
<1>14. CASE Execve
  BY <1>1, <1>2, <1>14 DEF Execve
<1>15. CASE TryShellExec
  BY <1>1, <1>15 DEF TryShellExec
<1>16. QED
  BY <1>4, <1>5, <1>6, <1>7, <1>8, <1>9, <1>10, <1>11, <1>12, <1>13, <1>14, <1>15
  DEF Next, Search, Change, vars

----------------------------------------------------------------------------
(* What 126 and 127 say.                                                   *)

\* If it has stayed as it is, the place has a file, or has none.
Present(place) == Steady(place) => files[place] # "none"
Missing(place) == Steady(place) => files[place] = "none"

\* What the search holds was there when it looked; and as long as it holds
\* nothing, there was nothing where it looked.
FoundInv ==
  /\ denied # NULL => Present(denied)
  /\ at = "tryX" => Present(path[i])
  /\ at \in {"exists", "is_dir", "access", "execve"} => Present(found)

MissingInv ==
  SearchesPath =>
    /\ at \in {"special", "get_path"} => i = 1 /\ denied = NULL
    /\ at \in {"try", "tryX"} /\ denied = NULL => \A k \in DOMAIN path : k < i => Missing(path[k])
    /\ at = "not_found" => \A k \in DOMAIN path : Missing(path[k])

NotFoundMeansMissing ==
  code = 127 /\ SearchesPath =>
    \/ \A k \in DOMAIN path : Missing(path[k])
    \/ found # NULL /\ ~Steady(found)
CannotRunMeansPresent ==
  code = 126 =>
    /\ found # NULL
    /\ Steady(found) => files[found] \in Kinds \ {"none", "program", "script"}

LookedInv == FoundInv /\ MissingInv /\ NotFoundMeansMissing /\ CannotRunMeansPresent

\* A step changes nothing about what was there.
LEMMA StaysAsSeen ==
  ASSUME TypeOK, [Next]_vars, NEW place \in Places
  PROVE  /\ Present(place) => Present(place)'
         /\ Missing(place) => Missing(place)'
  BY SteadyBefore DEF Present, Missing

\* Each step keeps what the search has seen, of the files nobody changed.
LEMMA LookedNext == TypeOK /\ InPlace /\ LookedInv /\ [Next]_vars => LookedInv'
<1> SUFFICES ASSUME TypeOK, InPlace, LookedInv, [Next]_vars PROVE LookedInv'
  OBVIOUS
<1>0. /\ word' = word /\ path' = path
      /\ path # NULL => path \in Seq(Dirs) /\ \A k \in DOMAIN path : path[k] \in Places
      /\ i \in Nat \ {0} /\ denied \in Places \union {NULL} /\ found \in Places \union {NULL}
      /\ NULL \notin Places
  <2>1. word' = word /\ path' = path
    BY DEF Next, Search, CheckSpecialCases, GetPath, TryExists, TryExecutable,
       TryPathsReturn, HandleCommandNotFound, HandleExecErrorExists, HandleExecErrorIsDir,
       HandleExecErrorAccess, Execve, TryShellExec, Change, input, vars
  <2>2. path # NULL => path \in Seq(Dirs) /\ \A k \in DOMAIN path : path[k] \in Places
    BY DEF TypeOK, Places
  <2>3. QED
    BY <2>1, <2>2 DEF TypeOK
<1>1. /\ \A p \in Places : Present(p) => Present(p)'
      /\ \A p \in Places : Missing(p) => Missing(p)'
  BY StaysAsSeen
<1>2. ASSUME UNCHANGED world
      PROVE  /\ \A p \in Places : files[p] # "none" => Present(p)'
             /\ \A p \in Places : files[p] = "none" => Missing(p)'
             /\ \A p \in Places \union {NULL} : Steady(p)' <=> Steady(p)
  BY <1>2 DEF Present, Missing, world, Steady
<1>3. CASE at' = at /\ UNCHANGED <<i, denied, found, result>>
  <2>1. FoundInv'
    BY <1>0, <1>1, <1>3 DEF LookedInv, FoundInv, InPlace
  <2>2. MissingInv'
    BY <1>0, <1>1, <1>3 DEF LookedInv, MissingInv, SearchesPath
  <2>3. code = NULL \/ UNCHANGED world
    BY DEF Next, Search, CheckSpecialCases, GetPath, TryExists, TryExecutable,
       TryPathsReturn, HandleCommandNotFound, HandleExecErrorExists, HandleExecErrorIsDir,
       HandleExecErrorAccess, Execve, TryShellExec, Change, vars, world, TypeOK
  <2>4. NotFoundMeansMissing' /\ CannotRunMeansPresent'
    BY <1>0, <1>1, <1>3, <2>3 DEF LookedInv, NotFoundMeansMissing, CannotRunMeansPresent, SearchesPath,
       Steady, result, world
  <2>5. QED
    BY <2>1, <2>2, <2>4 DEF LookedInv
<1>4. ASSUME UNCHANGED world, code' = NULL
      PROVE  NotFoundMeansMissing' /\ CannotRunMeansPresent'
  BY <1>4 DEF NotFoundMeansMissing, CannotRunMeansPresent
<1>5. CASE CheckSpecialCases
  BY <1>0, <1>5 DEF CheckSpecialCases, GoTo, Exit, world, LookedInv, FoundInv, MissingInv,
     NotFoundMeansMissing, CannotRunMeansPresent, SearchesPath, Present, Steady, TypeOK, result
<1> USE DEF LookedInv, FoundInv, MissingInv, InPlace, SearchesPath, GoTo, Exit, result
<1>6. CASE GetPath
  <2>1. UNCHANGED world /\ code' = NULL
    BY <1>6 DEF GetPath, TypeOK
  <2>2. CASE SearchesPath
    BY <1>0, <1>1, <1>2, <1>4, <1>6, <2>1, <2>2 DEF GetPath
  <2>3. CASE ~SearchesPath
    <3>1. word \in {"empty", "slash", "name"} /\ ~(word = "name" /\ path # NULL)
      BY <1>6, <2>3 DEF GetPath, TypeOK, Words
    <3>2. found' = NULL \/ (found' \in Places /\ files[found'] # "none")
      BY <1>6, <3>1 DEF GetPath, Executable, Places
    <3>3. /\ at' = IF found' = NULL THEN "not_found" ELSE "exists"
          /\ denied' = denied
      BY <1>6, <3>1 DEF GetPath
    <3>4. QED
      BY <1>0, <1>1, <1>2, <1>4, <2>1, <2>3, <3>2, <3>3
  <2>4. QED
    BY <2>2, <2>3
<1>7. CASE TryExists
  <2>1. UNCHANGED world /\ code' = NULL /\ path[i] \in Places
    BY <1>0, <1>7 DEF TryExists, TypeOK
  <2>2. CASE files[path[i]] = "none"
    BY <1>0, <1>1, <1>2, <1>4, <1>7, <2>1, <2>2 DEF TryExists
  <2>3. CASE files[path[i]] # "none"
    BY <1>0, <1>1, <1>2, <1>4, <1>7, <2>1, <2>3 DEF TryExists
  <2>4. QED
    BY <2>2, <2>3
<1>8. CASE TryExecutable
  <2>1. UNCHANGED world /\ code' = NULL /\ path[i] \in Places
    BY <1>0, <1>8 DEF TryExecutable, TypeOK
  <2>2. QED
    BY <1>0, <1>1, <1>2, <1>4, <1>8, <2>1 DEF TryExecutable
<1>9. CASE TryPathsReturn
  <2>1. UNCHANGED world /\ code' = NULL
    BY <1>9 DEF TryPathsReturn, TypeOK
  <2>2. QED
    BY <1>0, <1>1, <1>2, <1>4, <1>9, <2>1 DEF TryPathsReturn
<1>10. CASE HandleCommandNotFound
  BY <1>0, <1>1, <1>10 DEF HandleCommandNotFound, NotFoundMeansMissing, CannotRunMeansPresent,
     Missing
<1>17. ASSUME UNCHANGED <<world, denied, found>>, found \in Places,
             at' = "done" \/ (at' \in {"is_dir", "access", "execve", "sh"} /\ Present(found))
      PROVE  FoundInv' /\ MissingInv'
  BY <1>0, <1>1, <1>17
<1>18. ASSUME UNCHANGED <<world, denied, found>>, found \in Places,
             Steady(found) => files[found] \in Kinds \ {"none", "program", "script"}, code' = 126
      PROVE  NotFoundMeansMissing' /\ CannotRunMeansPresent'
  BY <1>0, <1>2, <1>18 DEF NotFoundMeansMissing, CannotRunMeansPresent, world
<1>11. CASE HandleExecErrorExists
  <2>1. UNCHANGED <<world, denied, found>> /\ found \in Places /\ Present(found) /\ code = NULL
    BY <1>11 DEF HandleExecErrorExists, TypeOK
  <2>2. CASE files[found] = "none"
    <3>1. at' = "done" /\ code' = 127 /\ ~Steady(found)
      BY <1>11, <2>1, <2>2 DEF HandleExecErrorExists, Present
    <3>2. ~Steady(found)' /\ found' # NULL
      BY <1>0, <1>2, <2>1, <3>1
    <3>3. NotFoundMeansMissing' /\ CannotRunMeansPresent'
      BY <3>1, <3>2 DEF NotFoundMeansMissing, CannotRunMeansPresent
    <3>4. QED
      BY <1>17, <2>1, <3>1, <3>3
  <2>3. CASE files[found] # "none"
    <3>1. at' = "is_dir" /\ code' = NULL
      BY <1>11, <2>1, <2>3 DEF HandleExecErrorExists
    <3>2. QED
      BY <1>4, <1>17, <2>1, <3>1
  <2>4. QED
    BY <2>2, <2>3
<1>12. CASE HandleExecErrorIsDir
  <2>1. UNCHANGED <<world, denied, found>> /\ found \in Places /\ Present(found) /\ code = NULL
    BY <1>12 DEF HandleExecErrorIsDir, TypeOK
  <2>2. \/ /\ files[found] \in {"dir", "closed"}
           /\ at' = "done" /\ code' = 126
        \/ at' = "access" /\ code' = NULL
    BY <1>12, <2>1 DEF HandleExecErrorIsDir
  <2>3. QED
    BY <1>4, <1>17, <1>18, <2>1, <2>2 DEF Kinds
<1>13. CASE HandleExecErrorAccess
  <2>1. UNCHANGED <<world, denied, found>> /\ found \in Places /\ Present(found) /\ code = NULL
    BY <1>13 DEF HandleExecErrorAccess, TypeOK
  <2>2. files[found] \in Kinds /\ (Steady(found) => files[found] # "none")
    BY <2>1 DEF TypeOK, Present
  <2>3. \/ /\ files[found] \notin {"program", "script"}
           /\ at' = "done" /\ code' = 126
        \/ at' = "execve" /\ code' = NULL
    BY <1>13, <2>1 DEF HandleExecErrorAccess, Executable
  <2>4. QED
    BY <1>4, <1>17, <1>18, <2>1, <2>2, <2>3
<1>14. CASE Execve
  <2>1. UNCHANGED <<world, denied, found>> /\ found \in Places /\ Present(found) /\ code = NULL
    BY <1>14 DEF Execve, TypeOK
  <2>2. files[found] \in Kinds /\ (Steady(found) => files[found] # "none")
    BY <2>1 DEF TypeOK, Present
  <2>3. \/ /\ files[found] \notin {"program", "script"}
           /\ at' = "done" /\ code' = 126
        \/ at' \in {"sh", "done"} /\ code' = NULL
    BY <1>14, <2>1 DEF Execve
  <2>4. QED
    BY <1>4, <1>17, <1>18, <2>1, <2>2, <2>3
<1>15. CASE TryShellExec
  BY <1>0, <1>1, <1>2, <1>4, <1>15 DEF TryShellExec, TypeOK
<1>16. QED
  BY <1>3, <1>5, <1>6, <1>7, <1>8, <1>9, <1>10, <1>11, <1>12, <1>13, <1>14, <1>15
  DEF Next, Search, Change, vars


----------------------------------------------------------------------------
(* A here-document's body, read in pieces and written line by line.        *)

Body == Seq(BodyChar)

\* s is t with nothing put in and nothing out of its place.
Embeds(s, t) ==
  \E place \in [1 .. Len(s) -> 1 .. Len(t)] :
    /\ \A m, n \in 1 .. Len(s) : m < n => place[m] < place[n]
    /\ \A k \in 1 .. Len(s) : s[k] = t[place[k]]

\* Everything is in place in a text itself.
LEMMA EmbedsSelf == ASSUME NEW s \in Body PROVE Embeds(s, s)
<1>1. [k \in 1 .. Len(s) |-> k] \in [1 .. Len(s) -> 1 .. Len(s)]
  OBVIOUS
<1>2. QED
  BY <1>1 DEF Embeds

\* What is left of what is left.
LEMMA EmbedsIn ==
  ASSUME NEW s \in Body, NEW t \in Body, NEW u \in Body, Embeds(s, t), Embeds(t, u)
  PROVE  Embeds(s, u)
<1>1. PICK f \in [1 .. Len(s) -> 1 .. Len(t)] :
        /\ \A m, n \in 1 .. Len(s) : m < n => f[m] < f[n]
        /\ \A k \in 1 .. Len(s) : s[k] = t[f[k]]
  BY DEF Embeds
<1>2. PICK g \in [1 .. Len(t) -> 1 .. Len(u)] :
        /\ \A m, n \in 1 .. Len(t) : m < n => g[m] < g[n]
        /\ \A k \in 1 .. Len(t) : t[k] = u[g[k]]
  BY DEF Embeds
<1> DEFINE h == [k \in 1 .. Len(s) |-> g[f[k]]]
<1>3. h \in [1 .. Len(s) -> 1 .. Len(u)]
  BY <1>1, <1>2
<1>4. \A m, n \in 1 .. Len(s) : m < n => h[m] < h[n]
  BY <1>1, <1>2
<1>5. \A k \in 1 .. Len(s) : s[k] = u[h[k]]
  BY <1>1, <1>2
<1> HIDE DEF h
<1>6. QED
  BY <1>3, <1>4, <1>5 DEF Embeds

\* Two texts in a row.
LEMMA EmbedsJoined ==
  ASSUME NEW s \in Body, NEW t \in Body, NEW u \in Body, NEW v \in Body,
         Embeds(s, t), Embeds(u, v)
  PROVE  Embeds(s \o u, t \o v)
<1> DEFINE a == Len(s)
           b == Len(t)
           su == s \o u
           tv == t \o v
<1>1. PICK f \in [1 .. a -> 1 .. b] :
        /\ \A m, n \in 1 .. a : m < n => f[m] < f[n]
        /\ \A k \in 1 .. a : s[k] = t[f[k]]
  BY DEF Embeds
<1>2. PICK g \in [1 .. Len(u) -> 1 .. Len(v)] :
        /\ \A m, n \in 1 .. Len(u) : m < n => g[m] < g[n]
        /\ \A k \in 1 .. Len(u) : u[k] = v[g[k]]
  BY DEF Embeds
<1>3. /\ a \in Nat /\ b \in Nat /\ Len(u) \in Nat /\ Len(v) \in Nat
      /\ Len(su) = a + Len(u) /\ Len(tv) = b + Len(v)
      /\ \A k \in 1 .. a : su[k] = s[k]
      /\ \A k \in 1 .. Len(u) : su[a + k] = u[k]
      /\ \A k \in 1 .. b : tv[k] = t[k]
      /\ \A k \in 1 .. Len(v) : tv[b + k] = v[k]
  OBVIOUS
<1> DEFINE h == [k \in 1 .. Len(su) |-> IF k <= a THEN f[k] ELSE b + g[k - a]]
<1> HIDE DEF a, b, su, tv
<1>4. ASSUME NEW k \in 1 .. Len(su)
      PROVE  /\ k <= a => k \in 1 .. a /\ h[k] = f[k] /\ f[k] \in 1 .. b
             /\ ~(k <= a) => /\ k - a \in 1 .. Len(u) /\ k = a + (k - a)
                            /\ h[k] = b + g[k - a] /\ g[k - a] \in 1 .. Len(v)
  <2>1. k <= a => k \in 1 .. a
    BY <1>3
  <2>2. ~(k <= a) => k - a \in 1 .. Len(u) /\ k = a + (k - a)
    BY <1>3
  <2>3. QED
    BY <2>1, <2>2
<1>5. \A k \in 1 .. Len(su) : h[k] \in 1 .. Len(tv)
  <2> HIDE DEF h
  <2> SUFFICES ASSUME NEW k \in 1 .. Len(su) PROVE h[k] \in 1 .. Len(tv)
    OBVIOUS
  <2>1. CASE k <= a
    <3>1. h[k] = f[k] /\ f[k] \in 1 .. b
      BY <1>4, <2>1
    <3>2. QED
      BY ONLY <1>3, <3>1
  <2>2. CASE ~(k <= a)
    <3>1. h[k] = b + g[k - a] /\ g[k - a] \in 1 .. Len(v)
      BY <1>4, <2>2
    <3> DEFINE m == g[k - a]
    <3> HIDE DEF m
    <3>2. h[k] = b + m /\ m \in 1 .. Len(v)
      BY <3>1 DEF m
    <3>3. QED
      BY ONLY <1>3, <3>2
  <2>3. QED
    BY <2>1, <2>2
<1>6. h \in [1 .. Len(su) -> 1 .. Len(tv)]
  BY <1>5
<1> HIDE DEF h
<1>7. ASSUME NEW m \in 1 .. Len(su), NEW n \in 1 .. Len(su), m < n PROVE h[m] < h[n]
  <2>1. CASE n <= a
    <3>1. m \in 1 .. a /\ n \in 1 .. a /\ m <= a
      BY <1>3, <1>7, <2>1
    <3>2. h[m] = f[m] /\ h[n] = f[n]
      BY <1>4, <2>1, <3>1
    <3>3. QED
      BY <1>1, <1>7, <3>1, <3>2
  <2>2. CASE m <= a /\ ~(n <= a)
    <3>1. h[m] = f[m] /\ f[m] \in 1 .. b
      BY <1>4, <2>2
    <3>2. h[n] = b + g[n - a] /\ g[n - a] \in 1 .. Len(v)
      BY <1>4, <2>2
    <3>3. QED
      BY <1>3, <3>1, <3>2
  <2>3. CASE ~(m <= a)
    <3>1. ~(n <= a) /\ m - a < n - a
      BY <1>3, <1>7, <2>3
    <3>2. g[m - a] < g[n - a]
      BY <1>2, <1>4, <2>3, <3>1
    <3>3. QED
      BY <1>3, <1>4, <2>3, <3>1, <3>2
  <2>4. QED
    BY <2>1, <2>2, <2>3
<1>8. ASSUME NEW k \in 1 .. Len(su) PROVE su[k] = tv[h[k]]
  <2>1. CASE k <= a
    <3>1. k \in 1 .. a /\ h[k] = f[k] /\ f[k] \in 1 .. b
      BY <1>4, <2>1
    <3>2. s[k] = t[f[k]]
      BY <1>1, <3>1
    <3>3. QED
      BY <1>3, <3>1, <3>2
  <2>2. CASE ~(k <= a)
    <3>1. k - a \in 1 .. Len(u) /\ k = a + (k - a) /\ h[k] = b + g[k - a] /\ g[k - a] \in 1 .. Len(v)
      BY <1>4, <2>2
    <3>2. u[k - a] = v[g[k - a]]
      BY <1>2, <3>1
    <3>3. su[k] = u[k - a]
      BY <1>3, <3>1
    <3>4. QED
      BY <1>3, <3>1, <3>2, <3>3
  <2>3. QED
    BY <2>1, <2>2
<1>9. QED
  BY <1>6, <1>7, <1>8 DEF Embeds, su, tv

\* The beginning of a text.
LEMMA EmbedsBefore ==
  ASSUME NEW s \in Body, NEW t \in Body, NEW u \in Body, Embeds(s, t)
  PROVE  Embeds(s, t \o u)
<1> DEFINE empty == [k \in 1 .. 0 |-> 1]
<1>1. empty \in [1 .. 0 -> 1 .. Len(u)] /\ \A k \in 1 .. 0 : FALSE
  OBVIOUS
<1>2. Embeds(<<>>, u)
  <2> DEFINE e == <<>>
  <2>1. Len(e) = 0
    OBVIOUS
  <2> HIDE DEF e, empty
  <2>2. Embeds(e, u)
    BY <1>1, <2>1 DEF Embeds
  <2>3. QED
    BY <2>2 DEF e
<1>3. Embeds(s \o <<>>, t \o u) /\ s \o <<>> = s
  <2>1. <<>> \in Body
    BY DEF Body
  <2>2. Embeds(s \o <<>>, t \o u)
    BY <1>2, <2>1, EmbedsJoined
  <2>3. QED
    BY <2>2, ConcatEmptySeq DEF Body
<1>4. QED
  BY <1>3

\* What a write that fails leaves of its text.
LEMMA LossEmbeds ==
  ASSUME NEW s \in Body, NEW w \in Hd!Losses(s)
  PROVE  w \in Body /\ Embeds(w, s)
<1>1. PICK n \in 0 .. Len(s) - 1 : \E kept \in [1 .. n -> DOMAIN s] :
        Hd!Increasing(kept) /\ w = [k \in 1 .. n |-> s[kept[k]]]
  BY DEF Hd!Losses
<1>2. PICK kept \in [1 .. n -> DOMAIN s] :
        Hd!Increasing(kept) /\ w = [k \in 1 .. n |-> s[kept[k]]]
  BY <1>1
<1>3. s \in Seq(BodyChar) /\ Len(s) \in Nat /\ DOMAIN s = 1 .. Len(s) /\ n \in Nat
  BY DEF Body
<1>4. w \in Seq(BodyChar) /\ Len(w) = n
  <2>1. \A k \in 1 .. n : s[kept[k]] \in BodyChar
    BY <1>2, <1>3
  <2>2. w \in [1 .. n -> BodyChar]
    BY <1>2, <2>1
  <2>3. QED
    BY <1>3, <2>2
<1>5. \A p, q \in 1 .. n : p < q => kept[p] < kept[q]
  BY <1>2 DEF Hd!Increasing
<1>6. \A k \in 1 .. n : w[k] = s[kept[k]]
  BY <1>2
<1>7. kept \in [1 .. Len(w) -> 1 .. Len(s)]
  BY <1>2, <1>3, <1>4
<1>8. QED
  BY <1>4, <1>5, <1>6, <1>7 DEF Embeds, Body

\* Taking each character as soon as it comes misses none.
LEMMA EmbedsFound ==
  ASSUME NEW s \in Body, NEW t \in Body, Embeds(s, t)
  PROVE  Hd!IsSubsequence(s, t)
<1> DEFINE n == Len(s)
           m == Len(t)
           next(u, k) == IF u < n /\ s[u + 1] = t[k] THEN u + 1 ELSE u
           step == [k \in 1 .. m |-> [u \in 0 .. n |-> next(u, k)]]
           Is(g) == g = [k \in 0 .. m |-> IF k = 0 THEN 0 ELSE next(g[k - 1], k)]
           upTo == CHOOSE g : Is(g)
<1>1. n \in Nat /\ m \in Nat
  BY DEF Body
<1>2. PICK f \in [1 .. n -> 1 .. m] :
        /\ \A p, q \in 1 .. n : p < q => f[p] < f[q]
        /\ \A k \in 1 .. n : s[k] = t[f[k]]
  BY DEF Embeds
<1>3. Hd!IsSubsequence(s, t) <=> upTo[m] = n
  BY DEF Hd!IsSubsequence
<1> HIDE DEF n, m
<1>4. \A k \in 1 .. m : /\ step[k] \in [0 .. n -> 0 .. n]
                        /\ \A u \in 0 .. n : step[k][u] = next(u, k)
  <2>1. \A u \in 0 .. n, k \in 1 .. m : next(u, k) \in 0 .. n
    BY <1>1
  <2> HIDE DEF next
  <2>2. QED
    BY <2>1
<1> HIDE DEF next, step
<1>5. Is(upTo)
  <2>1. 0 \in 0 .. n
    BY <1>1
  <2>2. PICK g : Folds(m, 0, step, g) /\ \A k \in 0 .. m : g[k] \in 0 .. n
    BY <1>1, <1>4, <2>1, Folding
  <2>3. g = [k \in 0 .. m |-> IF k = 0 THEN 0 ELSE step[k][g[k - 1]]]
    BY <2>2 DEF Folds
  <2>4. \A k \in 0 .. m : g[k] = IF k = 0 THEN 0 ELSE next(g[k - 1], k)
    <3> SUFFICES ASSUME NEW k \in 0 .. m PROVE g[k] = IF k = 0 THEN 0 ELSE next(g[k - 1], k)
      OBVIOUS
    <3>1. k # 0 => k \in 1 .. m /\ k - 1 \in 0 .. m
      BY <1>1
    <3>2. g[k] = IF k = 0 THEN 0 ELSE step[k][g[k - 1]]
      BY <2>3
    <3>3. QED
      BY <1>4, <2>2, <3>1, <3>2
  <2>5. g = [k \in 0 .. m |-> g[k]]
    BY <2>3
  <2>6. Is(g)
    BY <2>4, <2>5
  <2> HIDE DEF Is
  <2>7. QED
    BY <2>6
<1>6. \A k \in 0 .. m : upTo[k] = IF k = 0 THEN 0 ELSE next(upTo[k - 1], k)
  <2> HIDE DEF upTo
  <2>1. QED
    BY <1>5
<1> HIDE DEF upTo, Is
<1> DEFINE Good == {k \in 0 .. m : /\ upTo[k] \in 0 .. n
                                   /\ \A q \in 1 .. n : f[q] <= k => q <= upTo[k]}
<1>7. 0 \in Good
  <2>1. 0 \in 0 .. m /\ 0 \in 0 .. n
    BY <1>1
  <2>2. upTo[0] = 0
    BY <1>6, <2>1
  <2>3. \A q \in 1 .. n : ~(f[q] <= 0)
    BY <1>1, <1>2
  <2>4. QED
    BY <2>1, <2>2, <2>3
<1>8. ASSUME NEW k \in 1 .. m, k - 1 \in Good PROVE k \in Good
  <2>1. k \in 0 .. m /\ k # 0 /\ k - 1 \in 0 .. m /\ k \in Nat
    BY <1>1
  <2> DEFINE u == upTo[k - 1]
  <2>2. u \in 0 .. n /\ \A q \in 1 .. n : f[q] <= k - 1 => q <= u
    BY <1>8
  <2>3. upTo[k] = next(u, k)
    BY <1>6, <2>1
  <2> HIDE DEF u
  <2>4. upTo[k] = IF u < n /\ s[u + 1] = t[k] THEN u + 1 ELSE u
    BY <2>3 DEF next
  <2>5. upTo[k] \in 0 .. n /\ u <= upTo[k]
    <3>1. CASE u < n /\ s[u + 1] = t[k]
      BY <1>1, <2>2, <2>4, <3>1
    <3>2. CASE ~(u < n /\ s[u + 1] = t[k])
      BY <1>1, <2>2, <2>4, <3>2
    <3>3. QED
      BY <3>1, <3>2
  <2>6. ASSUME NEW q \in 1 .. n, f[q] <= k PROVE q <= upTo[k]
    <3>1. f[q] \in 1 .. m
      BY <1>2
    <3>2. CASE f[q] <= k - 1
      <4>1. q <= u
        BY <2>2, <3>2
      <4>2. QED
        BY <1>1, <2>2, <2>5, <4>1
    <3>3. CASE f[q] = k
      <4>1. q - 1 <= u
        <5>1. CASE q = 1
          BY <2>2, <5>1
        <5>2. CASE q # 1
          <6>1. q - 1 \in 1 .. n /\ q - 1 < q
            BY <1>1, <5>2
          <6>2. f[q - 1] < f[q] /\ f[q - 1] \in 1 .. m
            BY <1>2, <6>1
          <6>3. f[q - 1] <= k - 1
            BY <2>1, <3>3, <6>2
          <6>4. QED
            BY <2>2, <6>1, <6>3
        <5>3. QED
          BY <5>1, <5>2
      <4>2. CASE q <= u
        BY <1>1, <2>2, <2>5, <4>2
      <4>3. CASE ~(q <= u)
        <5>1. u = q - 1 /\ u + 1 = q /\ u < n
          BY <1>1, <2>2, <4>1, <4>3
        <5>2. s[u + 1] = t[k]
          BY <1>2, <3>3, <5>1
        <5>3. QED
          BY <1>1, <2>2, <2>4, <5>1, <5>2
      <4>4. QED
        BY <4>2, <4>3
    <3>4. QED
      BY <2>1, <2>6, <3>1, <3>2, <3>3
  <2>7. QED
    BY <2>1, <2>5, <2>6
<1>9. Good = 0 .. m
  <2> HIDE DEF Good
  <2>1. Good \in SUBSET (0 .. m)
    BY DEF Good
  <2>2. QED
    BY <1>1, <1>7, <1>8, <2>1, UpTo
<1>10. upTo[m] = n
  <2>1. m \in 0 .. m
    BY <1>1
  <2>2. upTo[m] \in 0 .. n /\ \A q \in 1 .. n : f[q] <= m => q <= upTo[m]
    BY <1>9, <2>1
  <2>3. CASE n = 0
    BY <1>1, <2>2, <2>3
  <2>4. CASE n # 0
    <3>1. n \in 1 .. n
      BY <1>1, <2>4
    <3>2. f[n] <= m
      BY <1>1, <1>2, <3>1
    <3>3. n <= upTo[m]
      BY <2>2, <3>1, <3>2
    <3>4. QED
      BY <1>1, <2>2, <3>3
  <2>5. QED
    BY <2>3, <2>4
<1>11. QED
  BY <1>3, <1>10

\* The concatenation of two lists of texts.
LEMMA FlattenedJoined ==
  ASSUME NEW S, NEW x \in Seq(Seq(S)), NEW y \in Seq(Seq(S))
  PROVE  Hd!FlattenSeq(x \o y) = Hd!FlattenSeq(x) \o Hd!FlattenSeq(y)
<1> DEFINE n == Len(y)
           part(k) == SubSeq(y, 1, k)
           Good == {k \in 0 .. n : Hd!FlattenSeq(x \o part(k)) = Hd!FlattenSeq(x) \o Hd!FlattenSeq(part(k))}
<1>1. n \in Nat
  OBVIOUS
<1>2. \A k \in 0 .. n : part(k) \in Seq(Seq(S))
  OBVIOUS
<1>3. part(0) = <<>> /\ part(n) = y
  OBVIOUS
<1>4. \A k \in 1 .. n : part(k) = Append(part(k - 1), y[k]) /\ y[k] \in Seq(S)
  <2> SUFFICES ASSUME NEW k \in 1 .. n PROVE part(k) = Append(part(k - 1), y[k]) /\ y[k] \in Seq(S)
    OBVIOUS
  <2>1. y[k] \in Seq(S)
    OBVIOUS
  <2>2. SubSeq(y, 1, k) = Append(SubSeq(y, 1, k - 1), y[k])
    <3>1. k - 1 \in 0 .. n /\ k \in Nat
      OBVIOUS
    <3> DEFINE s == SubSeq(y, 1, k - 1)
    <3>2. s \in Seq(Seq(S)) /\ Len(s) = k - 1 /\ \A q \in 1 .. k - 1 : s[q] = y[q]
      BY <3>1
    <3>3. SubSeq(y, 1, k) \in Seq(Seq(S)) /\ Len(SubSeq(y, 1, k)) = k /\ \A q \in 1 .. k : SubSeq(y, 1, k)[q] = y[q]
      BY <3>1
    <3> HIDE DEF s
    <3>4. Append(s, y[k]) \in Seq(Seq(S)) /\ Len(Append(s, y[k])) = k
          /\ \A q \in 1 .. k : Append(s, y[k])[q] = y[q]
      BY <2>1, <3>1, <3>2, AppendProperties
    <3>5. SubSeq(y, 1, k) = Append(s, y[k])
      <4> DEFINE a == SubSeq(y, 1, k)
                 b == Append(s, y[k])
                 V == Seq(S)
      <4>1. a \in Seq(V) /\ b \in Seq(V) /\ Len(a) = Len(b) /\ \A q \in 1 .. Len(a) : a[q] = b[q]
        BY <3>3, <3>4
      <4> HIDE DEF a, b, V
      <4>2. a = b
        BY <4>1, SeqSame
      <4>3. QED
        BY <4>2 DEF a, b
    <3>6. QED
      BY <3>5 DEF s
  <2>3. QED
    BY <2>1, <2>2
<1>5. \A k \in 0 .. n : Hd!FlattenSeq(part(k)) \in Seq(S)
  <2> HIDE DEF part
  <2>1. <<>> \in Seq(S)
    OBVIOUS
  <2>2. QED
    BY <1>2, <2>1, FlattenedOn
<1> HIDE DEF n, part
<1>6. Hd!FlattenSeq(x) \in Seq(S)
  <2>1. <<>> \in Seq(S)
    OBVIOUS
  <2>2. QED
    BY <2>1, FlattenedOn
<1>7. 0 \in Good
  <2>1. x \o <<>> = x
    <3> DEFINE V == Seq(S)
    <3>1. x \in Seq(V)
      OBVIOUS
    <3> HIDE DEF V
    <3>2. QED
      BY <3>1, ConcatEmptySeq
  <2>2. Hd!FlattenSeq(<<>>) = <<>>
    BY DEF Hd!FlattenSeq
  <2>3. Hd!FlattenSeq(x) \o <<>> = Hd!FlattenSeq(x)
    BY <1>6, ConcatEmptySeq
  <2>4. Hd!FlattenSeq(x \o part(0)) = Hd!FlattenSeq(x) \o Hd!FlattenSeq(part(0))
    BY <1>3, <2>1, <2>2, <2>3, Zenon
  <2>5. 0 \in 0 .. n
    BY <1>1
  <2>6. QED
    BY <2>4, <2>5
<1>8. ASSUME NEW k \in 1 .. n, k - 1 \in Good PROVE k \in Good
  <2> DEFINE p == part(k - 1)
             t == y[k]
             fx == Hd!FlattenSeq(x)
             fp == Hd!FlattenSeq(p)
  <2>1. k - 1 \in 0 .. n /\ k \in 0 .. n
    BY <1>1
  <2>2. p \in Seq(Seq(S)) /\ t \in Seq(S) /\ part(k) = Append(p, t) /\ fx \in Seq(S) /\ fp \in Seq(S)
    BY <1>2, <1>4, <1>5, <1>6, <2>1
  <2>3. Hd!FlattenSeq(x \o p) = fx \o fp
    BY <1>8
  <2> HIDE DEF p, t, fx
  <2>4. x \o Append(p, t) = Append(x \o p, t) /\ x \o p \in Seq(Seq(S))
    <3> DEFINE V == Seq(S)
    <3>1. x \in Seq(V) /\ p \in Seq(V) /\ t \in V
      BY <2>2
    <3> HIDE DEF V
    <3>2. Append(p, t) = p \o <<t>> /\ Append(x \o p, t) = (x \o p) \o <<t>> /\ x \o p \in Seq(V)
      BY <3>1
    <3>3. <<t>> \in Seq(V)
      BY <3>1
    <3>4. x \o (p \o <<t>>) = (x \o p) \o <<t>>
      BY <3>1, <3>3, ConcatAssociative
    <3>5. QED
      BY <3>2, <3>4 DEF V
  <2>5. Hd!FlattenSeq(Append(x \o p, t)) = (fx \o fp) \o t
    <3>1. Hd!FlattenSeq(Append(x \o p, t)) = Hd!FlattenSeq(x \o p) \o t
      <4> DEFINE xp == x \o p
      <4>1. xp \in Seq(Seq(S)) /\ t \in Seq(S)
        BY <2>2, <2>4
      <4> HIDE DEF xp
      <4>2. Hd!FlattenSeq(Append(xp, t)) = Hd!FlattenSeq(xp) \o t
        BY <4>1, FlattenedOn
      <4>3. QED
        BY <4>2 DEF xp
    <3>2. QED
      BY <2>3, <3>1
  <2>6. Hd!FlattenSeq(Append(p, t)) = fp \o t
    BY <2>2, FlattenedOn
  <2> HIDE DEF fp
  <2>7. (fx \o fp) \o t = fx \o (fp \o t)
    <3>1. fx \in Seq(S) /\ fp \in Seq(S) /\ t \in Seq(S)
      BY <2>2
    <3>2. QED
      BY <3>1, ConcatAssociative
  <2>8. QED
    BY <2>1, <2>2, <2>4, <2>5, <2>6, <2>7 DEF fx
<1>9. Good = 0 .. n
  <2> HIDE DEF Good
  <2>1. Good \in SUBSET (0 .. n)
    BY DEF Good
  <2>2. QED
    BY <1>1, <1>7, <1>8, <2>1, UpTo
<1>10. QED
  <2>1. n \in 0 .. n
    BY <1>1
  <2>2. QED
    BY <1>3, <1>9, <2>1

\* The lines that end in a place of a text, expanded: Hd!Expanded puts them together.
LineAt(text, k) ==
  IF text[k] = Hd!Newline
  THEN Append(ExpandLine(SubSeq(text, Hd!LineStart(text, k), k - 1)), Hd!Newline) ELSE <<>>
LinesAt(text) == [k \in 1 .. Len(text) |-> LineAt(text, k)]

\* Whatever line of it is expanded gives text.
Expandable(text) ==
  text \in Body /\ \A m \in 1 .. Len(text), n \in 0 .. Len(text) : ExpandLine(SubSeq(text, m, n)) \in Body

WholeLines(text) == text # <<>> => text[Len(text)] = Hd!Newline

\* The last newline before a place, or the beginning.
LEMMA LineStartIs ==
  ASSUME NEW text \in Body, NEW k \in 1 .. Len(text)
  PROVE  /\ Hd!LineStart(text, k) \in 1 .. k
         /\ Hd!LineStart(text, k) # 1 => text[Hd!LineStart(text, k) - 1] = Hd!Newline
         /\ \A m \in Hd!LineStart(text, k) .. k - 1 : text[m] # Hd!Newline
<1> DEFINE before == {0} \union {m \in 1 .. k - 1 : text[m] = Hd!Newline}
           from == {k - m : m \in before}
           greatest == CHOOSE m \in before : \A n \in before : n <= m
<1>1. k \in Nat /\ before \in SUBSET (0 .. k - 1) /\ 0 \in before
  OBVIOUS
<1>2. Hd!LineStart(text, k) = 1 + greatest
  BY DEF Hd!LineStart
<1>3. \A m \in before : m = 0 \/ (m \in 1 .. k - 1 /\ text[m] = Hd!Newline)
  OBVIOUS
<1>4. \A m \in 1 .. k - 1 : m \notin before => text[m] # Hd!Newline
  OBVIOUS
<1> HIDE DEF before
<1>5. from \in SUBSET Nat /\ from # {}
  BY <1>1
<1>6. PICK d \in from : \A e \in from : d <= e
  <2> HIDE DEF from
  <2>1. QED
    BY <1>5, LeastNat
<1>7. PICK g \in before : d = k - g
  BY <1>6
<1>8. \A n \in before : n <= g
  <2> SUFFICES ASSUME NEW n \in before PROVE n <= g
    OBVIOUS
  <2>1. k - n \in from
    OBVIOUS
  <2>2. k - g <= k - n
    BY <1>6, <1>7, <2>1
  <2>3. n \in Int /\ g \in Int
    BY <1>1
  <2>4. QED
    BY <1>1, <2>2, <2>3
<1>9. greatest \in before /\ \A n \in before : n <= greatest
  BY <1>8
<1> HIDE DEF greatest
<1>10. greatest \in 0 .. k - 1
  BY <1>1, <1>9
<1>11. Hd!LineStart(text, k) - 1 = greatest
  BY <1>2, <1>10
<1>12. ASSUME NEW m \in Hd!LineStart(text, k) .. k - 1 PROVE text[m] # Hd!Newline
  <2>1. m \in 1 .. k - 1 /\ ~(m <= greatest)
    BY <1>1, <1>2, <1>10
  <2>2. QED
    BY <1>4, <1>9, <2>1
<1>13. QED
  BY <1>1, <1>2, <1>3, <1>9, <1>10, <1>11, <1>12

\* There is no other place like it.
LEMMA LineStartOnly ==
  ASSUME NEW text \in Body, NEW k \in 1 .. Len(text), NEW p \in 1 .. k,
         p # 1 => text[p - 1] = Hd!Newline, \A m \in p .. k - 1 : text[m] # Hd!Newline
  PROVE  Hd!LineStart(text, k) = p
<1> DEFINE q == Hd!LineStart(text, k)
<1>1. /\ q \in 1 .. k /\ (q # 1 => text[q - 1] = Hd!Newline)
      /\ \A m \in q .. k - 1 : text[m] # Hd!Newline
  BY LineStartIs
<1>2. k \in Nat
  OBVIOUS
<1> HIDE DEF q
<1>3. ~(p < q)
  <2> SUFFICES ASSUME p < q PROVE FALSE
    OBVIOUS
  <2>1. q # 1 /\ q - 1 \in p .. k - 1
    BY <1>1, <1>2
  <2>2. QED
    BY <1>1, <2>1
<1>4. ~(q < p)
  <2> SUFFICES ASSUME q < p PROVE FALSE
    OBVIOUS
  <2>1. p # 1 /\ p - 1 \in q .. k - 1
    BY <1>1, <1>2
  <2>2. QED
    BY <1>1, <2>1
<1>5. p = q
  BY <1>1, <1>2, <1>3, <1>4
<1>6. QED
  BY <1>5 DEF q

\* The same characters, wherever they stand.
LEMMA SamePart ==
  ASSUME NEW a \in Body, NEW b \in Body, NEW d \in Nat, NEW p \in 1 .. Len(a) + 1, NEW k \in p - 1 .. Len(a),
         d + k <= Len(b), \A m \in p .. k : b[d + m] = a[m]
  PROVE  SubSeq(b, d + p, d + k) = SubSeq(a, p, k)
<1>1. /\ a \in Seq(BodyChar) /\ b \in Seq(BodyChar) /\ Len(a) \in Nat /\ Len(b) \in Nat
      /\ k \in Int /\ p \in Nat
  BY DEF Body
<1> DEFINE x == SubSeq(a, p, k)
           y == SubSeq(b, d + p, d + k)
           n == k - p + 1
<1>2. n \in Nat /\ d + p \in 1 .. Len(b) + 1 /\ d + k \in d + p - 1 .. Len(b)
  BY <1>1
<1>3. x \in Seq(BodyChar) /\ Len(x) = n /\ \A m \in 1 .. n : x[m] = a[p + m - 1]
  BY <1>1, <1>2, SubSeqProperties
<1>4. y \in Seq(BodyChar) /\ Len(y) = n /\ \A m \in 1 .. n : y[m] = b[d + p + m - 1]
  BY <1>1, <1>2, SubSeqProperties
<1> HIDE DEF x, y
<1>5. ASSUME NEW m \in 1 .. n PROVE x[m] = y[m]
  <2>1. p + m - 1 \in p .. k /\ d + p + m - 1 = d + (p + m - 1)
    BY <1>1, <1>2
  <2>2. QED
    BY <1>3, <1>4, <2>1
<1> HIDE DEF n
<1>6. x = y
  BY <1>2, <1>3, <1>4, <1>5, SeqSame
<1>7. QED
  BY <1>6 DEF x, y

\* The lines of two texts in a row, if the first ends where a line does.
LEMMA LinesJoined ==
  ASSUME NEW a \in Body, NEW c \in Body, WholeLines(a)
  PROVE  /\ \A k \in 1 .. Len(a) : LineAt(a \o c, k) = LineAt(a, k)
         /\ \A k \in 1 .. Len(c) : LineAt(a \o c, Len(a) + k) = LineAt(c, k)
<1> DEFINE n == Len(a)
           ac == a \o c
<1>1. /\ n \in Nat /\ Len(c) \in Nat /\ ac \in Body /\ Len(ac) = n + Len(c)
      /\ \A k \in 1 .. n : ac[k] = a[k]
      /\ \A k \in 1 .. Len(c) : ac[n + k] = c[k]
  BY DEF Body
<1>2. n # 0 => a[n] = Hd!Newline
  BY DEF WholeLines, Body
<1> HIDE DEF n, ac
<1>3. ASSUME NEW k \in 1 .. n PROVE LineAt(ac, k) = LineAt(a, k)
  <2> DEFINE p == Hd!LineStart(a, k)
  <2>1. p \in 1 .. k /\ (p # 1 => a[p - 1] = Hd!Newline) /\ \A m \in p .. k - 1 : a[m] # Hd!Newline
    BY LineStartIs DEF n
  <2> HIDE DEF p
  <2>2. /\ k \in 1 .. Len(ac) /\ k \in Nat /\ p \in Nat /\ \A m \in p .. k - 1 : m \in 1 .. n
        /\ (p # 1 => p - 1 \in 1 .. n)
    BY <1>1, <2>1
  <2>3. (p # 1 => ac[p - 1] = Hd!Newline) /\ \A m \in p .. k - 1 : ac[m] # Hd!Newline
    BY <1>1, <2>1, <2>2
  <2>4. Hd!LineStart(ac, k) = p
    BY <1>1, <2>1, <2>2, <2>3, LineStartOnly
  <2>5. SubSeq(ac, p, k - 1) = SubSeq(a, p, k - 1)
    <3>1. 0 \in Nat /\ p \in 1 .. n + 1 /\ k - 1 \in p - 1 .. n /\ 0 + (k - 1) <= Len(ac)
      BY <1>1, <2>1, <2>2
    <3>2. \A m \in p .. k - 1 : ac[0 + m] = a[m]
      BY <1>1, <2>2
    <3>3. SubSeq(ac, 0 + p, 0 + (k - 1)) = SubSeq(a, p, k - 1)
      BY <1>1, <3>1, <3>2, SamePart DEF n
    <3>4. 0 + p = p /\ 0 + (k - 1) = k - 1
      BY <2>2
    <3>5. QED
      BY <3>3, <3>4
  <2>6. ac[k] = a[k]
    BY <1>1
  <2>7. QED
    BY <2>4, <2>5, <2>6 DEF LineAt, p
<1>4. ASSUME NEW k \in 1 .. Len(c) PROVE LineAt(ac, n + k) = LineAt(c, k)
  <2> DEFINE p == Hd!LineStart(c, k)
  <2>1. p \in 1 .. k /\ (p # 1 => c[p - 1] = Hd!Newline) /\ \A m \in p .. k - 1 : c[m] # Hd!Newline
    BY LineStartIs
  <2> HIDE DEF p
  <2>2. /\ n + k \in 1 .. Len(ac) /\ k \in Nat /\ p \in Nat /\ n + p \in 1 .. n + k
        /\ (p # 1 => p - 1 \in 1 .. Len(c) /\ n + p - 1 = n + (p - 1))
    BY <1>1, <2>1
  <2>3. n + p # 1 => ac[n + p - 1] = Hd!Newline
    <3>1. CASE p = 1
      <4>1. n + p # 1 => n \in 1 .. n /\ n + p - 1 = n
        BY <1>1, <3>1
      <4>2. QED
        BY <1>1, <1>2, <4>1
    <3>2. CASE p # 1
      BY <1>1, <2>1, <2>2, <3>2
    <3>3. QED
      BY <3>1, <3>2
  <2>4. \A m \in n + p .. n + k - 1 : ac[m] # Hd!Newline
    <3> SUFFICES ASSUME NEW m \in n + p .. n + k - 1 PROVE ac[m] # Hd!Newline
      OBVIOUS
    <3>1. m - n \in p .. k - 1 /\ m - n \in 1 .. Len(c) /\ m = n + (m - n)
      BY <1>1, <2>1, <2>2
    <3>2. QED
      BY <1>1, <2>1, <3>1
  <2>5. Hd!LineStart(ac, n + k) = n + p
    <3> DEFINE nk == n + k
               np == n + p
    <3>0. np - 1 = n + p - 1 /\ nk - 1 = n + k - 1
      BY <1>1, <2>2
    <3>1. nk \in 1 .. Len(ac) /\ np \in 1 .. nk
      BY <2>2
    <3>2. np # 1 => ac[np - 1] = Hd!Newline
      BY <2>3, <3>0
    <3>3. \A m \in np .. nk - 1 : ac[m] # Hd!Newline
      BY <2>4, <3>0
    <3> HIDE DEF nk, np
    <3>4. Hd!LineStart(ac, nk) = np
      BY <1>1, <3>1, <3>2, <3>3, LineStartOnly
    <3>5. QED
      BY <3>4 DEF nk, np
  <2>6. SubSeq(ac, n + p, n + (k - 1)) = SubSeq(c, p, k - 1)
    <3>1. p \in 1 .. Len(c) + 1 /\ k - 1 \in p - 1 .. Len(c) /\ n + (k - 1) <= Len(ac)
      BY <1>1, <2>1, <2>2
    <3>2. \A m \in p .. k - 1 : ac[n + m] = c[m]
      <4>1. \A m \in p .. k - 1 : m \in 1 .. Len(c)
        BY <1>1, <2>1, <2>2
      <4>2. QED
        BY <1>1, <4>1
    <3>3. QED
      BY <1>1, <3>1, <3>2, SamePart
  <2>7. ac[n + k] = c[k] /\ n + (k - 1) = n + k - 1
    BY <1>1, <2>2
  <2>8. SubSeq(ac, Hd!LineStart(ac, n + k), n + k - 1) = SubSeq(c, p, k - 1)
    BY <2>5, <2>6, <2>7
  <2> DEFINE nk == n + k
             part == SubSeq(c, p, k - 1)
  <2>9. ac[nk] = c[k] /\ SubSeq(ac, Hd!LineStart(ac, nk), nk - 1) = part
    <3>1. nk - 1 = n + k - 1
      BY <1>1, <2>2
    <3>2. QED
      BY <2>7, <2>8, <3>1
  <2> HIDE DEF nk, part
  <2>10. LineAt(ac, nk) = IF c[k] = Hd!Newline THEN Append(ExpandLine(part), Hd!Newline) ELSE <<>>
    BY <2>9 DEF LineAt
  <2>11. LineAt(c, k) = IF c[k] = Hd!Newline THEN Append(ExpandLine(part), Hd!Newline) ELSE <<>>
    BY DEF LineAt, part, p
  <2>12. QED
    BY <2>10, <2>11 DEF nk
<1>5. QED
  BY <1>3, <1>4 DEF n, ac

\* A part of a text that can be expanded can be.
LEMMA PartExpandable ==
  ASSUME NEW a \in Body, NEW c \in Body, Expandable(a \o c)
  PROVE  Expandable(a) /\ Expandable(c)
<1> DEFINE n == Len(a)
           ac == a \o c
<1>1. /\ n \in Nat /\ Len(c) \in Nat /\ ac \in Body /\ Len(ac) = n + Len(c)
      /\ \A k \in 1 .. n : ac[k] = a[k]
      /\ \A k \in 1 .. Len(c) : ac[n + k] = c[k]
  BY DEF Body
<1>2. \A p \in 1 .. Len(ac), k \in 0 .. Len(ac) : ExpandLine(SubSeq(ac, p, k)) \in Body
  BY DEF Expandable
<1>3. a \in Seq(BodyChar) /\ c \in Seq(BodyChar) /\ ac \in Seq(BodyChar)
  BY <1>1 DEF Body
<1> HIDE DEF n, ac
<1>4. ASSUME NEW p \in 1 .. n, NEW k \in 0 .. n PROVE ExpandLine(SubSeq(a, p, k)) \in Body
  <2>1. p \in 1 .. Len(ac) /\ k \in 0 .. Len(ac) /\ p \in Nat /\ k \in Nat
    BY <1>1
  <2>2. CASE p <= k
    <3>1. 0 \in Nat /\ p \in 1 .. n + 1 /\ k \in p - 1 .. n /\ 0 + k <= Len(ac)
      BY <1>1, <2>1, <2>2
    <3>2. \A m \in p .. k : ac[0 + m] = a[m]
      BY <1>1, <2>1
    <3>3. SubSeq(ac, 0 + p, 0 + k) = SubSeq(a, p, k)
      BY <1>1, <3>1, <3>2, SamePart DEF n
    <3>4. 0 + p = p /\ 0 + k = k
      BY <2>1
    <3>5. QED
      BY <1>2, <2>1, <3>3, <3>4
  <2>3. CASE ~(p <= k)
    <3>1. SubSeq(ac, p, k) = <<>> /\ SubSeq(a, p, k) = <<>>
      BY <1>3, <2>1, <2>3, SubSeqEmpty
    <3>2. QED
      BY <1>2, <2>1, <3>1
  <2>4. QED
    BY <2>2, <2>3
<1>5. ASSUME NEW p \in 1 .. Len(c), NEW k \in 0 .. Len(c) PROVE ExpandLine(SubSeq(c, p, k)) \in Body
  <2>1. n + p \in 1 .. Len(ac) /\ n + k \in 0 .. Len(ac) /\ p \in Nat /\ k \in Nat
    BY <1>1
  <2>2. CASE p <= k
    <3>1. p \in 1 .. Len(c) + 1 /\ k \in p - 1 .. Len(c) /\ n + k <= Len(ac)
      BY <1>1, <2>1, <2>2
    <3>2. \A m \in p .. k : ac[n + m] = c[m]
      BY <1>1, <2>1
    <3>3. SubSeq(ac, n + p, n + k) = SubSeq(c, p, k)
      BY <1>1, <3>1, <3>2, SamePart
    <3>4. QED
      BY <1>2, <2>1, <3>3
  <2>3. CASE ~(p <= k)
    <3>1. SubSeq(ac, n + p, n + k) = <<>> /\ SubSeq(c, p, k) = <<>>
      BY <1>1, <1>3, <2>1, <2>3, SubSeqEmpty
    <3>2. QED
      BY <1>2, <2>1, <3>1
  <2>4. QED
    BY <2>2, <2>3
<1>6. QED
  BY <1>4, <1>5 DEF Expandable, n

\* The lines of a text are text.
LEMMA LinesTyped ==
  ASSUME NEW text, Expandable(text)
  PROVE  /\ LinesAt(text) \in Seq(Body) /\ Len(LinesAt(text)) = Len(text)
         /\ Hd!Expanded(text) = Hd!FlattenSeq(LinesAt(text))
         /\ Hd!Expanded(text) \in Body
<1>1. text \in Seq(BodyChar) /\ Len(text) \in Nat /\ DOMAIN text = 1 .. Len(text)
  BY DEF Expandable, Body
<1>2. ASSUME NEW k \in 1 .. Len(text) PROVE LineAt(text, k) \in Body
  <2> DEFINE p == Hd!LineStart(text, k)
             line == ExpandLine(SubSeq(text, p, k - 1))
  <2>1. p \in 1 .. Len(text) /\ k - 1 \in 0 .. Len(text)
    BY <1>1, LineStartIs DEF Body
  <2> HIDE DEF p
  <2>2. line \in Seq(BodyChar)
    BY <2>1 DEF Expandable, Body
  <2> HIDE DEF line
  <2>3. Append(line, Hd!Newline) \in Seq(BodyChar)
    BY <2>2, HeredocContentParameters DEF Hd!Parameters
  <2>4. QED
    BY <2>3 DEF LineAt, Body, line, p
<1> DEFINE lines == LinesAt(text)
<1>3. lines \in Seq(Body) /\ Len(lines) = Len(text)
  <2>1. lines \in [1 .. Len(text) -> Body]
    BY <1>2 DEF LinesAt
  <2> HIDE DEF lines
  <2>2. QED
    BY <1>1, <2>1
<1>4. Hd!Expanded(text) = Hd!FlattenSeq(lines)
  <2>1. Hd!Expanded(text) = Hd!FlattenSeq([k \in DOMAIN text |-> LineAt(text, k)])
    BY DEF Hd!Expanded, LineAt
  <2>2. QED
    BY <1>1, <2>1 DEF LinesAt
<1>5. Hd!FlattenSeq(lines) \in Seq(BodyChar)
  <2> HIDE DEF lines
  <2>1. lines \in Seq(Seq(BodyChar)) /\ <<>> \in Seq(BodyChar)
    BY <1>3 DEF Body
  <2>2. QED
    BY <2>1, FlattenedOn
<1>6. QED
  BY <1>3, <1>4, <1>5 DEF Body

\* So a body can be expanded part by part.
LEMMA ExpandedJoined ==
  ASSUME NEW a \in Body, NEW c \in Body, WholeLines(a), Expandable(a \o c)
  PROVE  Hd!Expanded(a \o c) = Hd!Expanded(a) \o Hd!Expanded(c)
<1> DEFINE ac == a \o c
           x == LinesAt(a)
           y == LinesAt(c)
           z == LinesAt(ac)
<1>1. /\ Len(a) \in Nat /\ Len(c) \in Nat /\ Len(ac) = Len(a) + Len(c)
  BY DEF Body
<1>2. Expandable(a) /\ Expandable(c)
  BY PartExpandable
<1>3. /\ x \in Seq(Body) /\ Len(x) = Len(a) /\ Hd!Expanded(a) = Hd!FlattenSeq(x)
      /\ y \in Seq(Body) /\ Len(y) = Len(c) /\ Hd!Expanded(c) = Hd!FlattenSeq(y)
      /\ z \in Seq(Body) /\ Len(z) = Len(ac) /\ Hd!Expanded(ac) = Hd!FlattenSeq(z)
  BY <1>2, LinesTyped
<1>4. /\ \A k \in 1 .. Len(a) : z[k] = x[k]
      /\ \A k \in 1 .. Len(c) : z[Len(a) + k] = y[k]
  <2>1. /\ \A k \in 1 .. Len(a) : k \in 1 .. Len(ac)
        /\ \A k \in 1 .. Len(c) : Len(a) + k \in 1 .. Len(ac)
    BY <1>1
  <2>2. /\ \A k \in 1 .. Len(ac) : z[k] = LineAt(ac, k)
        /\ \A k \in 1 .. Len(a) : x[k] = LineAt(a, k)
        /\ \A k \in 1 .. Len(c) : y[k] = LineAt(c, k)
    BY DEF LinesAt
  <2>3. QED
    BY <2>1, <2>2, LinesJoined
<1> HIDE DEF x, y, z, ac
<1>5. z = x \o y
  <2> DEFINE w == x \o y
  <2>1. w \in Seq(Body) /\ Len(w) = Len(a) + Len(c)
        /\ (\A k \in 1 .. Len(a) : w[k] = x[k]) /\ (\A k \in 1 .. Len(c) : w[Len(a) + k] = y[k])
    <3>1. x \in Seq(Body) /\ y \in Seq(Body) /\ Len(x) = Len(a) /\ Len(y) = Len(c)
      BY <1>3
    <3> HIDE DEF w
    <3>2. w \in Seq(Body) /\ Len(w) = Len(x) + Len(y)
          /\ (\A k \in 1 .. Len(x) : w[k] = x[k]) /\ (\A k \in 1 .. Len(y) : w[Len(x) + k] = y[k])
      BY <3>1 DEF w
    <3>3. QED
      BY <3>1, <3>2
  <2> HIDE DEF w
  <2>2. ASSUME NEW k \in 1 .. Len(z) PROVE z[k] = w[k]
    <3>1. CASE k <= Len(a)
      <4>1. k \in 1 .. Len(a)
        BY <1>1, <1>3, <3>1
      <4>2. QED
        BY <1>4, <2>1, <4>1
    <3>2. CASE ~(k <= Len(a))
      <4>1. k - Len(a) \in 1 .. Len(c) /\ k = Len(a) + (k - Len(a))
        BY <1>1, <1>3, <3>2
      <4>2. QED
        BY <1>4, <2>1, <4>1
    <3>3. QED
      BY <3>1, <3>2
  <2>3. z = w
    <3>1. Len(z) = Len(w)
      BY <1>1, <1>3, <2>1
    <3>2. QED
      BY <1>3, <2>1, <2>2, <3>1, SeqSame
  <2>4. QED
    BY <2>3 DEF w
<1>6. Hd!FlattenSeq(x \o y) = Hd!FlattenSeq(x) \o Hd!FlattenSeq(y)
  BY <1>3, FlattenedJoined DEF Body
<1>7. QED
  BY <1>3, <1>5, <1>6 DEF ac

\* Of nothing, nothing.
LEMMA ExpandedNothing == Hd!Expanded(<<>>) = <<>>
<1> DEFINE e == <<>>
<1>1. DOMAIN e = {}
  OBVIOUS
<1>2. Hd!Expanded(e) = Hd!FlattenSeq([k \in {} |-> LineAt(e, k)])
  BY <1>1 DEF Hd!Expanded, LineAt
<1>3. [k \in {} |-> LineAt(e, k)] = <<>>
  OBVIOUS
<1>4. Hd!FlattenSeq(<<>>) = <<>>
  BY DEF Hd!FlattenSeq
<1> HIDE DEF e
<1>5. Hd!Expanded(e) = <<>>
  BY <1>2, <1>3, <1>4
<1>6. QED
  BY <1>5 DEF e

\* A sequence but its last element.
LEMMA ButLast ==
  ASSUME NEW V, NEW s \in Seq(V), s # <<>>
  PROVE  /\ Len(s) \in Nat \ {0} /\ s[Len(s)] \in V
         /\ SubSeq(s, 1, Len(s) - 1) \in Seq(V) /\ Len(SubSeq(s, 1, Len(s) - 1)) = Len(s) - 1
         /\ \A k \in 1 .. Len(s) - 1 : SubSeq(s, 1, Len(s) - 1)[k] = s[k]
<1> DEFINE n == Len(s)
<1>1. n \in Nat \ {0} /\ s[n] \in V /\ 1 \in 1 .. n + 1 /\ n - 1 \in 0 .. n
  OBVIOUS
<1>2. SubSeq(s, 1, n - 1) \in Seq(V) /\ Len(SubSeq(s, 1, n - 1)) = n - 1
      /\ \A k \in 1 .. n - 1 : SubSeq(s, 1, n - 1)[k] = s[k]
  <2>1. n - 1 \in 1 - 1 .. n
    BY <1>1
  <2> HIDE DEF n
  <2>2. /\ SubSeq(s, 1, n - 1) \in Seq(V)
        /\ Len(SubSeq(s, 1, n - 1)) = IF 1 <= n - 1 THEN n - 1 - 1 + 1 ELSE 0
        /\ \A k \in 1 .. n - 1 - 1 + 1 : SubSeq(s, 1, n - 1)[k] = s[1 + k - 1]
    BY <1>1, <2>1, SubSeqProperties DEF n
  <2>3. n - 1 - 1 + 1 = n - 1 /\ (~(1 <= n - 1) => n - 1 = 0) /\ \A k \in 1 .. n - 1 : 1 + k - 1 = k
    BY <1>1
  <2>4. QED
    BY <2>2, <2>3
<1>3. QED
  BY <1>1, <1>2

\* A list of texts but the last, and the last.
LEMMA FlattenedLast ==
  ASSUME NEW S, NEW seqs \in Seq(Seq(S)), seqs # <<>>
  PROVE  /\ Hd!FlattenSeq(seqs) = Hd!FlattenSeq(SubSeq(seqs, 1, Len(seqs) - 1)) \o seqs[Len(seqs)]
         /\ Hd!FlattenSeq(SubSeq(seqs, 1, Len(seqs) - 1)) \in Seq(S)
<1> DEFINE V == Seq(S)
           n == Len(seqs)
           front == SubSeq(seqs, 1, n - 1)
           end == seqs[n]
<1>1. n \in Nat \ {0} /\ end \in V /\ seqs \in Seq(V)
  OBVIOUS
<1> HIDE DEF V
<1>2. front \in Seq(V) /\ Len(front) = n - 1 /\ \A k \in 1 .. n - 1 : front[k] = seqs[k]
  BY <1>1, ButLast
<1> HIDE DEF front, end
<1>3. Append(front, end) \in Seq(V) /\ Len(Append(front, end)) = n
      /\ \A k \in 1 .. n : Append(front, end)[k] = seqs[k]
  <2>1. /\ Append(front, end) \in Seq(V) /\ Len(Append(front, end)) = Len(front) + 1
        /\ Append(front, end)[Len(front) + 1] = end
        /\ \A k \in 1 .. Len(front) : Append(front, end)[k] = front[k]
    BY <1>1, <1>2, AppendProperties
  <2>2. Len(front) + 1 = n
    BY <1>1, <1>2
  <2>3. ASSUME NEW k \in 1 .. n PROVE Append(front, end)[k] = seqs[k]
    <3>1. CASE k = n
      BY <2>1, <2>2, <3>1 DEF end
    <3>2. CASE k # n
      <4>1. k \in 1 .. n - 1 /\ k \in 1 .. Len(front)
        BY <1>1, <1>2, <3>2
      <4>2. QED
        BY <1>2, <2>1, <4>1
    <3>3. QED
      BY <3>1, <3>2
  <2>4. QED
    BY <2>1, <2>2, <2>3
<1>4. seqs = Append(front, end)
  <2> DEFINE b == Append(front, end)
  <2>1. b \in Seq(V) /\ Len(seqs) = Len(b) /\ \A k \in 1 .. Len(seqs) : seqs[k] = b[k]
    BY <1>3
  <2> HIDE DEF b, n
  <2>2. seqs = b
    BY <1>1, <2>1, SeqSame
  <2>3. QED
    BY <2>2 DEF b
<1>5. Hd!FlattenSeq(Append(front, end)) = Hd!FlattenSeq(front) \o end /\ Hd!FlattenSeq(front) \in Seq(S)
  <2>1. front \in Seq(Seq(S)) /\ end \in Seq(S)
    BY <1>1, <1>2 DEF V
  <2>2. QED
    BY <2>1, FlattenedOn
<1>6. Hd!FlattenSeq(seqs) = Hd!FlattenSeq(front) \o end
  BY <1>4, <1>5
<1>7. QED
  BY <1>5, <1>6 DEF front, end

\* One line, expanded, behind its newline.
LEMMA ExpandedLine ==
  ASSUME NEW line \in Body, \A k \in 1 .. Len(line) : line[k] # Hd!Newline,
         Expandable(Append(line, Hd!Newline))
  PROVE  /\ Hd!Expanded(Append(line, Hd!Newline)) = Append(ExpandLine(line), Hd!Newline)
         /\ ExpandLine(line) \in Body /\ Append(ExpandLine(line), Hd!Newline) \in Body
<1> DEFINE text == Append(line, Hd!Newline)
           n == Len(line) + 1
           lines == LinesAt(text)
<1>1. Hd!Newline \in BodyChar
  BY HeredocContentParameters DEF Hd!Parameters
<1>2. /\ text \in Seq(BodyChar) /\ Len(text) = n /\ text[n] = Hd!Newline
      /\ \A k \in 1 .. Len(line) : text[k] = line[k]
  BY <1>1, AppendProperties DEF Body
<1>3. n \in Nat \ {0} /\ line \in Seq(BodyChar) /\ Len(line) = n - 1
  BY DEF Body
<1> HIDE DEF text
<1>4. /\ lines \in Seq(Body) /\ Len(lines) = n /\ Hd!Expanded(text) = Hd!FlattenSeq(lines)
  BY <1>2, LinesTyped DEF text
<1>5. ASSUME NEW k \in 1 .. n - 1 PROVE lines[k] = <<>>
  <2>1. k \in 1 .. n /\ k \in 1 .. Len(line)
    BY <1>3
  <2>2. text[k] # Hd!Newline /\ lines[k] = LineAt(text, k)
    BY <1>2, <2>1 DEF LinesAt
  <2> HIDE DEF lines, n
  <2>3. QED
    BY <2>2 DEF LineAt
<1>6. Hd!LineStart(text, n) = 1
  <2>1. 1 \in 1 .. n /\ n \in 1 .. Len(text) /\ text \in Body
    BY <1>2, <1>3 DEF Body
  <2>2. \A m \in 1 .. n - 1 : text[m] # Hd!Newline
    BY <1>2, <1>3
  <2> HIDE DEF n
  <2>3. QED
    BY <2>1, <2>2, LineStartOnly
<1>7. SubSeq(text, 1, n - 1) = line
  <2> DEFINE s == SubSeq(text, 1, n - 1)
  <2>1. s \in Seq(BodyChar) /\ Len(s) = n - 1 /\ \A k \in 1 .. n - 1 : s[k] = text[k]
    BY <1>2, <1>3
  <2> HIDE DEF s, n
  <2>2. s = line
    BY <1>2, <1>3, <2>1, SeqSame
  <2>3. QED
    BY <2>2 DEF s
<1>8. lines[n] = Append(ExpandLine(line), Hd!Newline)
  <2>1. lines[n] = LineAt(text, n)
    BY <1>2, <1>3 DEF LinesAt
  <2> HIDE DEF lines, n
  <2>2. QED
    BY <1>2, <1>6, <1>7, <2>1 DEF LineAt
<1>9. ExpandLine(line) \in Body
  <2>1. 1 \in 1 .. Len(text) /\ n - 1 \in 0 .. Len(text)
    BY <1>2, <1>3
  <2> HIDE DEF n
  <2>2. ExpandLine(SubSeq(text, 1, n - 1)) \in Body
    BY <2>1 DEF Expandable, text
  <2>3. QED
    BY <1>7, <2>2
<1>10. Append(ExpandLine(line), Hd!Newline) \in Body
  BY <1>1, <1>9 DEF Body
<1>11. Hd!FlattenSeq(lines) = lines[n]
  <2> DEFINE front == SubSeq(lines, 1, n - 1)
  <2>1. lines \in Seq(Seq(BodyChar)) /\ lines # <<>>
    BY <1>3, <1>4 DEF Body
  <2> HIDE DEF lines, n
  <2>2. Hd!FlattenSeq(lines) = Hd!FlattenSeq(front) \o lines[n]
    BY <1>4, <2>1, FlattenedLast
  <2>3. front \in Seq(Seq(BodyChar)) /\ Len(front) = n - 1 /\ \A k \in 1 .. n - 1 : front[k] = lines[k]
    BY <1>3, <1>4, <2>1
  <2>4. Hd!FlattenSeq(front) = <<>>
    <3>1. \A k \in DOMAIN front : front[k] = <<>>
      BY <1>3, <1>5, <2>3
    <3> HIDE DEF front
    <3>2. QED
      BY <2>3, <3>1, FlattenedEmpty
  <2>5. lines[n] \in Seq(BodyChar)
    BY <1>8, <1>10 DEF Body
  <2> DEFINE x == lines[n]
  <2>6. <<>> \o x = x
    <3> HIDE DEF x
    <3>1. x \in Seq(BodyChar)
      BY <2>5 DEF x
    <3>2. QED
      BY <3>1, ConcatEmptySeq
  <2>7. QED
    BY <2>2, <2>4, <2>6
<1>12. QED
  BY <1>4, <1>8, <1>9, <1>10, <1>11 DEF text

\* An expanded text ends where a line does.
LEMMA ExpandedEnds ==
  ASSUME NEW text, Expandable(text), WholeLines(text), Hd!Expanded(text) # <<>>
  PROVE  /\ Len(Hd!Expanded(text)) \in Nat \ {0}
         /\ Hd!Expanded(text)[Len(Hd!Expanded(text))] = Hd!Newline
<1> DEFINE lines == LinesAt(text)
           n == Len(text)
           x == Hd!FlattenSeq(SubSeq(lines, 1, n - 1))
           l == ExpandLine(SubSeq(text, Hd!LineStart(text, n), n - 1))
<1>1. text \in Seq(BodyChar) /\ n \in Nat
  BY DEF Expandable, Body
<1>2. lines \in Seq(Body) /\ Len(lines) = n /\ Hd!Expanded(text) = Hd!FlattenSeq(lines)
  BY LinesTyped
<1>3. n # 0
  <2> SUFFICES ASSUME n = 0 PROVE FALSE
    OBVIOUS
  <2>1. text = <<>>
    BY <1>1
  <2>2. QED
    BY <2>1, ExpandedNothing
<1>4. text[n] = Hd!Newline /\ n \in 1 .. n /\ Hd!Newline \in BodyChar
  BY <1>1, <1>3, HeredocContentParameters DEF WholeLines, Hd!Parameters
<1>5. l \in Seq(BodyChar)
  <2>1. Hd!LineStart(text, n) \in 1 .. n /\ n - 1 \in 0 .. n
    BY <1>1, <1>4, LineStartIs DEF Body
  <2>2. QED
    BY <2>1 DEF Expandable, Body
<1>6. lines[n] = Append(l, Hd!Newline)
  BY <1>4 DEF LinesAt, LineAt
<1> HIDE DEF lines, l, n
<1>7. Hd!FlattenSeq(lines) = x \o lines[n] /\ x \in Seq(BodyChar)
  <2>1. lines \in Seq(Seq(BodyChar)) /\ lines # <<>>
    BY <1>1, <1>2, <1>3 DEF Body
  <2>2. QED
    BY <1>2, <2>1, FlattenedLast
<1> DEFINE e == x \o Append(l, Hd!Newline)
<1>8. Hd!Expanded(text) = e
  BY <1>2, <1>6, <1>7
<1> HIDE DEF x
<1>9. Len(e) \in Nat \ {0} /\ e[Len(e)] = Hd!Newline
  BY <1>4, <1>5, <1>7
<1>10. QED
  BY <1>8, <1>9

\* A text cut in two.
LEMMA CutText ==
  ASSUME NEW s \in Body, NEW k \in 0 .. Len(s)
  PROVE  /\ SubSeq(s, 1, k) \in Body /\ Len(SubSeq(s, 1, k)) = k
         /\ \A m \in 1 .. k : SubSeq(s, 1, k)[m] = s[m]
         /\ SubSeq(s, k + 1, Len(s)) \in Body /\ Len(SubSeq(s, k + 1, Len(s))) = Len(s) - k
         /\ SubSeq(s, 1, k) \o SubSeq(s, k + 1, Len(s)) = s
<1> DEFINE n == Len(s)
<1>1. s \in Seq(BodyChar) /\ n \in Nat /\ k \in Nat /\ k <= n
  BY DEF Body
<1>2. /\ \A m \in 1 .. k : s[m] \in BodyChar
      /\ \A m \in k + 1 .. n : s[m] \in BodyChar
  BY <1>1
<1>3. /\ 1 \in 1 .. n + 1 /\ k \in 1 - 1 .. n /\ n \in k .. n
  BY <1>1
<1>4. SubSeq(s, 1, k) \o SubSeq(s, k + 1, n) = SubSeq(s, 1, n) /\ SubSeq(s, 1, n) = s
  BY <1>1, <1>3, ConcatAdjacentSubSeq, SubSeqFull
<1> HIDE DEF n
<1>5. /\ SubSeq(s, 1, k) \in Seq(BodyChar)
      /\ Len(SubSeq(s, 1, k)) = IF 1 <= k THEN k - 1 + 1 ELSE 0
      /\ \A m \in 1 .. k - 1 + 1 : SubSeq(s, 1, k)[m] = s[1 + m - 1]
  BY <1>1, <1>2, SubSeqProperties
<1>6. /\ SubSeq(s, k + 1, n) \in Seq(BodyChar)
      /\ Len(SubSeq(s, k + 1, n)) = IF k + 1 <= n THEN n - (k + 1) + 1 ELSE 0
  BY <1>1, <1>2, SubSeqProperties
<1>7. k - 1 + 1 = k /\ n - (k + 1) + 1 = n - k /\ (~(1 <= k) => k = 0) /\ (~(k + 1 <= n) => n - k = 0)
      /\ \A m \in 1 .. k : 1 + m - 1 = m
  BY <1>1
<1>8. QED
  BY <1>4, <1>5, <1>6, <1>7 DEF n, Body

\* What a read takes joins what was read and what is still to be read.
LEMMA TakeText ==
  ASSUME NEW s \in Body, NEW k \in 0 .. Len(s), NEW n \in 0 .. Len(s) - k
  PROVE  /\ SubSeq(s, k + 1, k + n) \in Body /\ k + n \in 0 .. Len(s)
         /\ SubSeq(s, 1, k) \o SubSeq(s, k + 1, k + n) = SubSeq(s, 1, k + n)
         /\ SubSeq(s, k + 1, k + n) \o SubSeq(s, k + n + 1, Len(s)) = SubSeq(s, k + 1, Len(s))
<1> DEFINE kn == k + n
<1>1. s \in Seq(BodyChar) /\ Len(s) \in Nat /\ k \in Nat /\ n \in Nat /\ kn \in k .. Len(s)
  BY DEF Body
<1>2. /\ 1 \in 1 .. Len(s) + 1 /\ k \in 1 - 1 .. Len(s) /\ k + 1 \in 1 .. Len(s) + 1
      /\ kn \in (k + 1) - 1 .. Len(s) /\ Len(s) \in kn .. Len(s) /\ k + 1 \in Int /\ kn \in Int
      /\ kn \in 0 .. Len(s)
  BY <1>1
<1> HIDE DEF kn
<1>3. SubSeq(s, k + 1, kn) \in Seq(BodyChar)
  <2>1. \A m \in k + 1 .. kn : s[m] \in BodyChar
    BY <1>1
  <2>2. QED
    BY <1>2, <2>1, SubSeqProperties
<1>4. SubSeq(s, 1, k) \o SubSeq(s, k + 1, kn) = SubSeq(s, 1, kn)
  BY <1>1, <1>2, ConcatAdjacentSubSeq
<1>5. SubSeq(s, k + 1, kn) \o SubSeq(s, kn + 1, Len(s)) = SubSeq(s, k + 1, Len(s))
  BY <1>1, <1>2, ConcatAdjacentSubSeq
<1>6. kn \in 0 .. Len(s) /\ SubSeq(s, k + 1, kn) \in Body
  BY <1>2, <1>3 DEF Body
<1>7. QED
  BY ONLY <1>4, <1>5, <1>6 DEF kn

\* A read takes something, and no more than there is.
LEMMA ReadWithin ==
  ASSUME NEW size \in Nat \ {0}, NEW m \in Nat, NEW n \in 1 .. Hd!Min({size, m})
  PROVE  n \in 1 .. m
<1>1. \E k \in {size, m} : \A l \in {size, m} : k <= l
  OBVIOUS
<1>2. Hd!Min({size, m}) \in {size, m} /\ \A l \in {size, m} : Hd!Min({size, m}) <= l
  BY <1>1 DEF Hd!Min
<1>3. QED
  BY <1>2

\* The buffer's first line, its newline, and the rest.
LEMMA FirstLine ==
  ASSUME buffer \in Body, Hd!Contains(buffer, Hd!Newline)
  PROVE  /\ Hd!FtLine \in Body /\ \A k \in 1 .. Len(Hd!FtLine) : Hd!FtLine[k] # Hd!Newline
         /\ Hd!DelLineAndRes \in Body
         /\ buffer = Append(Hd!FtLine, Hd!Newline) \o Hd!DelLineAndRes
<1> DEFINE I == {k \in 1 .. Len(buffer) : buffer[k] = Hd!Newline}
           e == Hd!LineEnd
           line == SubSeq(buffer, 1, e - 1)
<1>1. buffer \in Seq(BodyChar) /\ Len(buffer) \in Nat /\ Hd!Newline \in BodyChar
  BY HeredocContentParameters DEF Body, Hd!Parameters
<1>2. I \in SUBSET Nat /\ I # {}
  BY DEF Hd!Contains
<1>3. e = Hd!Min(I)
  BY <1>2 DEF Hd!LineEnd, Hd!SelectInSeq
<1>4. e \in I /\ \A k \in I : e <= k
  <2>1. \E m \in I : \A k \in I : m <= k
    <3> HIDE DEF I
    <3>1. QED
      BY <1>2, LeastNat
  <2> HIDE DEF I
  <2>2. QED
    BY <1>3, <2>1 DEF Hd!Min
<1>5. e \in 1 .. Len(buffer) /\ buffer[e] = Hd!Newline /\ e <= Len(buffer)
  BY <1>1, <1>4
<1>6. Hd!FtLine = line /\ Hd!DelLineAndRes = SubSeq(buffer, e + 1, Len(buffer))
  BY <1>5 DEF Hd!FtLine, Hd!DelLineAndRes
<1>7. \A k \in 1 .. e - 1 : buffer[k] # Hd!Newline
  <2> SUFFICES ASSUME NEW k \in 1 .. e - 1, buffer[k] = Hd!Newline PROVE FALSE
    OBVIOUS
  <2>1. k \in I /\ ~(e <= k)
    BY <1>1, <1>5
  <2>2. QED
    BY <1>4, <2>1
<1> HIDE DEF I, e
<1>8. e - 1 \in 0 .. Len(buffer) /\ e \in 0 .. Len(buffer) /\ e - 1 \in Nat
  BY <1>1, <1>5
<1>9. line \in Body /\ Len(line) = e - 1 /\ \A k \in 1 .. e - 1 : line[k] = buffer[k]
  BY <1>8, CutText
<1>10. Hd!DelLineAndRes \in Body /\ SubSeq(buffer, 1, e) \o Hd!DelLineAndRes = buffer
       /\ SubSeq(buffer, 1, e) \in Body /\ Len(SubSeq(buffer, 1, e)) = e
       /\ \A k \in 1 .. e : SubSeq(buffer, 1, e)[k] = buffer[k]
  BY <1>6, <1>8, CutText
<1>11. SubSeq(buffer, 1, e) = Append(line, Hd!Newline)
  <2> DEFINE x == SubSeq(buffer, 1, e)
             y == Append(line, Hd!Newline)
  <2>1. line \in Seq(BodyChar)
    BY <1>9 DEF Body
  <2> HIDE DEF line
  <2>2. y \in Seq(BodyChar) /\ Len(y) = e /\ y[e] = Hd!Newline /\ \A k \in 1 .. e - 1 : y[k] = buffer[k]
    BY <1>1, <1>5, <1>9, <2>1
  <2>3. x \in Seq(BodyChar) /\ Len(x) = e /\ \A k \in 1 .. e : x[k] = buffer[k]
    BY <1>10 DEF Body
  <2> HIDE DEF x, y
  <2>4. \A k \in 1 .. Len(x) : x[k] = y[k]
    BY <1>1, <1>5, <2>2, <2>3
  <2>5. x = y
    BY <2>2, <2>3, <2>4, SeqSame
  <2>6. QED
    BY <2>5 DEF x, y
<1>12. \A k \in 1 .. Len(line) : line[k] # Hd!Newline
  BY <1>7, <1>9
<1>13. QED
  BY <1>6, <1>9, <1>10, <1>11, <1>12

----------------------------------------------------------------------------
(* HeredocContent: what is written, and what is still to be.               *)

\* The lines so far are written, and the others are in the buffer or in the file.
Reading ==
  /\ \A n \in 1 .. Len(failed) : failed[n] = "write"
  /\ tmpfile = body /\ final \in Body
  /\ \E lines \in Body :
       /\ body = lines \o (Hd!Res \o Hd!Rest(tmpfile)) /\ WholeLines(lines)
       /\ Embeds(final, Hd!Expanded(lines)) /\ (failed = <<>> => final = Hd!Expanded(lines))

\* The lines are written, as many as could be read, as far as they could be.
Written ==
  /\ buffer = NULL /\ final \in Body
  /\ Embeds(final, Hd!Expanded(body)) /\ (failed = <<>> => final = Hd!Expanded(body))
  /\ failed = <<"read">> => Hd!IsPrefix(final, Hd!Expanded(body)) /\ WholeLines(final)
  /\ \A n \in 1 .. Len(failed) : failed[n] \in {"write", "read", "copy"}

\* What was read of them is in the temporary file, but for what no write took.
Copied ==
  /\ tmpfile \in Body /\ Embeds(tmpfile, SubSeq(final, 1, offset))
  /\ (\A n \in 1 .. Len(failed) : failed[n] # "copy") => tmpfile = SubSeq(final, 1, offset)

ContentInv ==
  /\ Hd!TypeOK /\ body \in Bodies
  /\ contentAt = "open" =>
       failed = <<>> /\ buffer = NULL /\ offset = 0 /\ tmpfile = body /\ final = NULL
  /\ contentAt \in {"read", "line"} => Reading
  /\ contentAt = "line" =>
       /\ buffer # NULL
       /\ Hd!Contains(buffer, Hd!Newline) \/ (buffer = <<>> /\ offset = Len(body))
  /\ contentAt = "replace" => Written /\ tmpfile = body
  /\ contentAt = "copy" => Written /\ Copied
  /\ contentAt = "done" => Hd!WhatTheCommandReads /\ Hd!NothingLeftBehind

\* A body is whole lines, and each of them can be expanded.
LEMMA BodyLines ==
  ASSUME body \in Bodies
  PROVE  body \in Body /\ Expandable(body) /\ WholeLines(body) /\ NULL \notin Body
<1>1. /\ body \in Seq(BodyChar) /\ (body # <<>> => Hd!Last(body) = Hd!Newline)
      /\ \A m \in DOMAIN body, n \in 0 .. Len(body) : ExpandLine(SubSeq(body, m, n)) \in Seq(BodyChar)
      /\ NULL \notin Seq(BodyChar)
  BY HeredocContentParameters DEF Hd!Parameters
<1>2. DOMAIN body = 1 .. Len(body)
  BY <1>1
<1>3. QED
  BY <1>1, <1>2 DEF Expandable, WholeLines, Body, Hd!Last

\* A body begins unread.
LEMMA ContentInit == Hd!Init => ContentInv
<1> SUFFICES ASSUME Hd!Init PROVE ContentInv
  OBVIOUS
<1>1. body \in Seq(BodyChar) /\ Len(body) \in Nat /\ 0 <= Len(body)
  BY BodyLines DEF Hd!Init, Body
<1>2. QED
  BY <1>1 DEF Hd!Init, ContentInv, Hd!TypeOK

\* A call that fails is one more.
LEMMA OneMore ==
  ASSUME failed \in Seq(Hd!Calls), NEW call \in Hd!Calls, Hd!Fail(call)
  PROVE  /\ failed' \in Seq(Hd!Calls) /\ failed' # <<>> /\ Len(failed') = Len(failed) + 1
         /\ Hd!Last(failed)' = call
         /\ \A n \in 1 .. Len(failed) : failed'[n] = failed[n] /\ n \in 1 .. Len(failed')
         /\ \A n \in 1 .. Len(failed') : n \in 1 .. Len(failed) \/ failed'[n] = call
<1>1. failed' = Append(failed, call) /\ Len(failed) \in Nat
  BY DEF Hd!Fail
<1>2. /\ failed' \in Seq(Hd!Calls) /\ failed' # <<>> /\ Len(failed') = Len(failed) + 1
      /\ \A n \in 1 .. Len(failed) : failed'[n] = failed[n]
      /\ failed'[Len(failed) + 1] = call
  BY <1>1, AppendProperties
<1>3. QED
  BY <1>1, <1>2 DEF Hd!Last

\* Both files open: nothing is read, nothing is written.
LEMMA ContentOpens == ASSUME ContentInv, Hd!OpenBoth PROVE ContentInv'
<1>1. /\ body' = body /\ body \in Bodies /\ tmpfile' = body /\ tmpfile = body /\ final' = <<>> /\ offset' = 0
      /\ buffer' = NULL /\ contentAt' = "read" /\ failed' = <<>>
  BY DEF Hd!OpenBoth, ContentInv
<1>2. body \in Body /\ Len(body) \in Nat /\ <<>> \in Body
  BY <1>1, BodyLines DEF Body
<1>3. Hd!TypeOK'
  BY <1>1, <1>2 DEF Hd!TypeOK, Body
<1>4. (Hd!Res \o Hd!Rest(tmpfile))' = body
  <2>1. Hd!Res' = <<>> /\ Hd!Rest(tmpfile)' = SubSeq(body, 1, Len(body))
    BY <1>1 DEF Hd!Res, Hd!Rest
  <2>2. SubSeq(body, 1, Len(body)) = body /\ <<>> \o body = body
    BY <1>2, SubSeqFull, ConcatEmptySeq DEF Body
  <2>3. QED
    BY <2>1, <2>2
<1>5. Reading'
  <2> DEFINE lines == <<>>
  <2>1. lines \in Body /\ body = lines \o body /\ WholeLines(lines) /\ Hd!Expanded(lines) = lines
    BY <1>2, ExpandedNothing, ConcatEmptySeq DEF Body, WholeLines
  <2>2. Embeds(lines, lines)
    BY <2>1, EmbedsSelf
  <2>3. final' = lines
    BY <1>1
  <2>4. failed' = <<>> /\ \A n \in 1 .. Len(failed') : FALSE
    BY <1>1
  <2> HIDE DEF lines
  <2>5. QED
    BY <1>1, <1>4, <2>1, <2>2, <2>3, <2>4 DEF Reading
<1>6. QED
  BY <1>1, <1>3, <1>5 DEF ContentInv

\* Nothing is expanded if one of them does not.
LEMMA ContentOpenFails == ASSUME ContentInv, Hd!OpenFails PROVE ContentInv'
<1>1. /\ body' = body /\ body \in Bodies /\ tmpfile' = body /\ offset' = 0
      /\ buffer' = NULL /\ contentAt' = "done" /\ final' \in {NULL, <<>>} /\ failed = <<>>
      /\ failed \in Seq(Hd!Calls) /\ Hd!Fail("open")
  BY DEF Hd!OpenFails, ContentInv, Hd!TypeOK
<1>2. /\ failed' \in Seq(Hd!Calls) /\ failed' # <<>> /\ Hd!Last(failed)' = "open"
  BY <1>1, OneMore DEF Hd!Calls
<1>3. failed' = <<"open">>
  BY <1>1 DEF Hd!Fail
<1>4. Hd!TypeOK'
  <2>1. body \in Seq(BodyChar) /\ <<>> \in Seq(BodyChar)
    BY <1>1, BodyLines DEF Body
  <2>2. QED
    BY <1>1, <1>2, <2>1 DEF Hd!TypeOK
<1>5. Hd!WhatTheCommandReads'
  <2>1. failed' # <<>> /\ failed'[Len(failed')] = "open" /\ tmpfile' = body'
    BY <1>1, <1>2 DEF Hd!Last
  <2>2. QED
    BY <2>1 DEF Hd!WhatTheCommandReads, Hd!Last
<1>6. Hd!NothingLeftBehind'
  BY <1>1, <1>3 DEF Hd!NothingLeftBehind
<1>7. QED
  BY <1>1, <1>4, <1>5, <1>6 DEF ContentInv

\* What the loop over reads and lines knows.
LEMMA WhileReading ==
  ASSUME ContentInv, contentAt \in {"read", "line"}
  PROVE  /\ body \in Bodies /\ body \in Body /\ Len(body) \in Nat /\ tmpfile = body /\ final \in Body
         /\ offset \in 0 .. Len(body) /\ failed \in Seq(Hd!Calls) /\ buffer \in Body \union {NULL}
         /\ Hd!Res \in Body /\ Hd!Rest(tmpfile) \in Body /\ Reading
<1>1. Hd!TypeOK /\ Reading /\ body \in Bodies
  BY DEF ContentInv
<1>2. body \in Body /\ Len(body) \in Nat
  BY <1>1, BodyLines DEF Body
<1>3. tmpfile = body /\ final \in Body /\ offset \in 0 .. Len(body) /\ failed \in Seq(Hd!Calls)
      /\ buffer \in Body \union {NULL}
  <2>1. tmpfile = body /\ final \in Body
    BY <1>1 DEF Reading
  <2>2. failed \in Seq(Hd!Calls) /\ buffer \in Body \union {NULL} /\ offset \in Nat
    BY <1>1 DEF Hd!TypeOK, Body
  <2>3. offset <= Len(body)
    BY <1>1, <2>1 DEF Hd!TypeOK
  <2>4. QED
    BY <1>2, <2>1, <2>2, <2>3
<1>4. Hd!Res \in Body
  BY <1>3 DEF Hd!Res, Body
<1>5. Hd!Rest(tmpfile) \in Body
  BY <1>2, <1>3, CutText DEF Hd!Rest
<1>6. QED
  BY <1>1, <1>2, <1>3, <1>4, <1>5

\* What a read takes from the file comes behind what is in the buffer.
LEMMA ContentRead == ASSUME ContentInv, Hd!ReadFile PROVE ContentInv'
<1>0. contentAt = "read"
  BY DEF Hd!ReadFile
<1>1. /\ body \in Bodies /\ body \in Body /\ Len(body) \in Nat /\ tmpfile = body /\ final \in Body
      /\ offset \in 0 .. Len(body) /\ failed \in Seq(Hd!Calls)
      /\ Hd!Res \in Body /\ Hd!Rest(tmpfile) \in Body /\ Reading
  BY <1>0, WhileReading
<1>2. /\ UNCHANGED <<body, tmpfile, final, failed>>
      /\ \E n \in 1 .. Hd!Min({BufferSize, Len(tmpfile) - offset}) :
           /\ buffer' = Hd!Res \o Hd!Bytes(tmpfile, n) /\ offset' = offset + n
           /\ contentAt' = IF Hd!Contains(Hd!Bytes(tmpfile, n), Hd!Newline) THEN "line" ELSE "read"
  BY DEF Hd!ReadFile
<1>3. PICK n \in 1 .. Hd!Min({BufferSize, Len(tmpfile) - offset}) :
        /\ buffer' = Hd!Res \o Hd!Bytes(tmpfile, n) /\ offset' = offset + n
        /\ contentAt' = IF Hd!Contains(Hd!Bytes(tmpfile, n), Hd!Newline) THEN "line" ELSE "read"
  BY <1>2
<1>4. n \in 1 .. Len(body) - offset
  <2>1. BufferSize \in Nat \ {0} /\ Len(tmpfile) - offset \in Nat
    BY <1>1, HeredocContentParameters DEF Hd!Parameters
  <2>2. QED
    BY <1>1, <2>1, ReadWithin
<1> DEFINE taken == SubSeq(body, offset + 1, offset + n)
           left == SubSeq(body, offset + n + 1, Len(body))
<1>5. /\ taken \in Body /\ offset + n \in 0 .. Len(body)
      /\ taken \o left = SubSeq(body, offset + 1, Len(body)) /\ left \in Body
  <2>1. n \in 0 .. Len(body) - offset /\ offset + n \in 0 .. Len(body)
    BY <1>1, <1>4
  <2>2. QED
    BY <1>1, <2>1, TakeText, CutText
<1>6. Hd!Bytes(tmpfile, n) = taken /\ Hd!Rest(tmpfile) = SubSeq(body, offset + 1, Len(body))
  BY <1>1 DEF Hd!Bytes, Hd!Rest
<1>7. Hd!Rest(tmpfile)' = left
  BY <1>1, <1>2, <1>3 DEF Hd!Rest
<1> HIDE DEF taken, left
<1>8. buffer' = Hd!Res \o taken /\ buffer' \in Body /\ buffer' # NULL
  <2>1. Hd!Res \o taken \in Body
    BY <1>1, <1>5 DEF Body
  <2>2. QED
    BY <1>1, <1>3, <1>6, <2>1, BodyLines
<1>9. (Hd!Res \o Hd!Rest(tmpfile))' = Hd!Res \o Hd!Rest(tmpfile)
  <2>1. Hd!Res' = Hd!Res \o taken
    BY <1>8 DEF Hd!Res
  <2>2. Hd!Res \in Seq(BodyChar) /\ taken \in Seq(BodyChar) /\ left \in Seq(BodyChar)
    BY <1>1, <1>5 DEF Body
  <2>3. (Hd!Res \o taken) \o left = Hd!Res \o (taken \o left)
    BY <2>2, ConcatAssociative
  <2>4. QED
    BY <1>5, <1>6, <1>7, <2>1, <2>3
<1>10. Reading'
  BY <1>1, <1>2, <1>9 DEF Reading
<1>11. contentAt' = "line" => Hd!Contains(buffer, Hd!Newline)'
  <2> SUFFICES ASSUME contentAt' = "line" PROVE Hd!Contains(buffer, Hd!Newline)'
    OBVIOUS
  <2>1. PICK k \in 1 .. Len(taken) : taken[k] = Hd!Newline
    BY <1>3, <1>6 DEF Hd!Contains
  <2>2. /\ Len(Hd!Res) + k \in 1 .. Len(Hd!Res \o taken)
        /\ (Hd!Res \o taken)[Len(Hd!Res) + k] = taken[k]
    BY <1>1, <1>5 DEF Body
  <2>3. QED
    BY <1>8, <2>1, <2>2 DEF Hd!Contains
<1>12. Hd!TypeOK'
  BY <1>1, <1>2, <1>3, <1>5, <1>8 DEF Hd!TypeOK, Body
<1>13. contentAt' \in {"read", "line"}
  BY <1>3
<1>14. QED
  BY <1>1, <1>2, <1>8, <1>10, <1>11, <1>12, <1>13 DEF ContentInv

\* The lines that are written, expanded, and those that are not.
LEMMA LinesSoFar ==
  ASSUME ContentInv, contentAt \in {"read", "line"}
  PROVE  \E lines \in Body :
           /\ body = lines \o (Hd!Res \o Hd!Rest(tmpfile)) /\ WholeLines(lines)
           /\ Hd!Expanded(lines) \in Body /\ Hd!Expanded(Hd!Res \o Hd!Rest(tmpfile)) \in Body
           /\ Hd!Expanded(body) = Hd!Expanded(lines) \o Hd!Expanded(Hd!Res \o Hd!Rest(tmpfile))
           /\ Embeds(final, Hd!Expanded(lines)) /\ (failed = <<>> => final = Hd!Expanded(lines))
           /\ Expandable(lines) /\ Expandable(Hd!Res \o Hd!Rest(tmpfile))
           /\ Hd!Res \o Hd!Rest(tmpfile) \in Body
<1> DEFINE rest == Hd!Res \o Hd!Rest(tmpfile)
<1>1. PICK lines \in Body :
        /\ body = lines \o rest /\ WholeLines(lines)
        /\ Embeds(final, Hd!Expanded(lines)) /\ (failed = <<>> => final = Hd!Expanded(lines))
  BY WhileReading DEF Reading
<1>2. rest \in Body
  BY WhileReading DEF Body
<1> HIDE DEF rest
<1>3. Expandable(lines \o rest)
  BY <1>1, BodyLines, WhileReading
<1>4. Expandable(lines) /\ Expandable(rest)
  BY <1>1, <1>2, <1>3, PartExpandable
<1>5. Hd!Expanded(lines \o rest) = Hd!Expanded(lines) \o Hd!Expanded(rest)
  BY <1>1, <1>2, <1>3, ExpandedJoined
<1>6. Hd!Expanded(lines) \in Body /\ Hd!Expanded(rest) \in Body
  BY <1>4, LinesTyped
<1>7. QED
  BY <1>1, <1>2, <1>4, <1>5, <1>6 DEF rest

\* The beginning of a text is a prefix of it.
LEMMA PrefixOfJoined ==
  ASSUME NEW a \in Body, NEW c \in Body
  PROVE  Hd!IsPrefix(a, a \o c)
<1> DEFINE ac == a \o c
           n == Len(a)
           x == SubSeq(ac, 1, n)
<1>1. a \in Seq(BodyChar) /\ ac \in Body /\ n \in 0 .. Len(ac) /\ n <= Len(ac)
      /\ \A m \in 1 .. n : ac[m] = a[m]
  BY DEF Body
<1> HIDE DEF ac
<1>2. x \in Seq(BodyChar) /\ Len(x) = n /\ \A m \in 1 .. n : x[m] = ac[m]
  BY <1>1, CutText DEF Body
<1> HIDE DEF x
<1>3. x = a
  <2>1. \A m \in 1 .. Len(x) : x[m] = a[m]
    BY <1>1, <1>2
  <2>2. QED
    BY <1>1, <1>2, <2>1, SeqSame DEF n
<1>4. SubSeq(a, 1, n) = a
  BY <1>1, SubSeqFull
<1>5. Hd!IsPrefix(a, ac)
  BY <1>1, <1>3, <1>4 DEF x, n, Hd!IsPrefix
<1>6. QED
  BY <1>5 DEF ac

\* Where the file ends, the buffer has a line or nothing.
LEMMA ContentReadEnds == ASSUME ContentInv, Hd!ReadFileEnds PROVE ContentInv'
<1>0. contentAt = "read"
  BY DEF Hd!ReadFileEnds
<1>1. /\ body \in Bodies /\ body \in Body /\ Len(body) \in Nat /\ tmpfile = body /\ final \in Body
      /\ offset \in 0 .. Len(body) /\ failed \in Seq(Hd!Calls)
      /\ Hd!Res \in Body /\ Hd!Rest(tmpfile) \in Body /\ Reading
  BY <1>0, WhileReading
<1>2. /\ UNCHANGED <<body, tmpfile, final, offset, failed>>
      /\ buffer' = Hd!Res /\ contentAt' = "line" /\ offset = Len(body)
  BY <1>1 DEF Hd!ReadFileEnds
<1>3. buffer' # NULL
  BY <1>1, <1>2, BodyLines
<1>4. Hd!Res' = Hd!Res
  <2> DEFINE res0 == Hd!Res
  <2>1. buffer' = res0 /\ res0 # NULL
    BY <1>2, <1>3
  <2> HIDE DEF res0
  <2>2. Hd!Res' = res0
    BY <2>1 DEF Hd!Res
  <2>3. QED
    BY <2>2 DEF res0
<1>5. Reading'
  <2>1. Hd!Rest(tmpfile)' = Hd!Rest(tmpfile)
    BY <1>2 DEF Hd!Rest
  <2>2. (Hd!Res \o Hd!Rest(tmpfile))' = Hd!Res \o Hd!Rest(tmpfile)
    BY <1>4, <2>1
  <2>3. QED
    BY <1>1, <1>2, <2>2 DEF Reading
<1>6. Hd!Res # <<>> => Hd!Contains(Hd!Res, Hd!Newline)
  <2> SUFFICES ASSUME Hd!Res # <<>> PROVE Hd!Contains(Hd!Res, Hd!Newline)
    OBVIOUS
  <2> DEFINE r == Hd!Res
  <2>1. PICK lines \in Body : body = lines \o (r \o Hd!Rest(tmpfile))
    BY <1>1 DEF Reading
  <2>2. Hd!Rest(tmpfile) = <<>>
    <3>1. Len(body) + 1 \in Int /\ Len(body) \in Int /\ Len(body) < Len(body) + 1
      BY <1>1
    <3>2. Hd!Rest(tmpfile) = SubSeq(body, Len(body) + 1, Len(body))
      BY <1>1, <1>2 DEF Hd!Rest
    <3>3. QED
      BY <3>1, <3>2, SubSeqEmpty
  <2>3. r \o Hd!Rest(tmpfile) = r /\ r \in Seq(BodyChar) /\ Len(r) \in Nat
    BY <1>1, <2>2, ConcatEmptySeq DEF Body
  <2>4. body[Len(body)] = Hd!Newline
    <3>1. body # <<>>
      <4> HIDE DEF r
      <4>1. body = lines \o r /\ lines \in Seq(BodyChar) /\ r # <<>>
        BY <2>1, <2>3 DEF Body, r
      <4>2. QED
        BY <2>3, <4>1, ConcatEqualIffEmpty
    <3>2. QED
      BY <1>1, <3>1, BodyLines DEF WholeLines
  <2> HIDE DEF r
  <2>5. body = lines \o r /\ lines \in Seq(BodyChar) /\ r # <<>>
    BY <2>1, <2>3 DEF Body, r
  <2>6. Len(body) = Len(lines) + Len(r) /\ Len(r) \in 1 .. Len(r) /\ body[Len(lines) + Len(r)] = r[Len(r)]
    BY <2>3, <2>5
  <2>7. r[Len(r)] = Hd!Newline
    BY <2>4, <2>6
  <2>8. QED
    BY <2>6, <2>7 DEF Hd!Contains, r
<1>7. (Hd!Contains(buffer, Hd!Newline) \/ (buffer = <<>> /\ offset = Len(body)))'
  <2>1. CASE Hd!Res = <<>>
    BY <1>2, <2>1
  <2>2. CASE Hd!Res # <<>>
    BY <1>2, <1>6, <2>2 DEF Hd!Contains
  <2>3. QED
    BY <2>1, <2>2
<1>8. Hd!TypeOK'
  BY <1>0, <1>1, <1>2 DEF Hd!TypeOK, Body
<1>9. QED
  BY <1>1, <1>2, <1>3, <1>5, <1>7, <1>8 DEF ContentInv

\* The lines that were read before a read fails are written.
LEMMA ContentReadFails == ASSUME ContentInv, Hd!ReadFileFails PROVE ContentInv'
<1>0. contentAt = "read"
  BY DEF Hd!ReadFileFails
<1>1. /\ body \in Bodies /\ body \in Body /\ Len(body) \in Nat /\ tmpfile = body /\ final \in Body
      /\ offset \in 0 .. Len(body) /\ failed \in Seq(Hd!Calls)
      /\ \A n \in 1 .. Len(failed) : failed[n] = "write"
  BY <1>0, WhileReading DEF Reading
<1>2. /\ UNCHANGED <<body, tmpfile, final, offset>>
      /\ buffer' = NULL /\ contentAt' = "replace" /\ Hd!Fail("read")
  BY DEF Hd!ReadFileFails
<1> DEFINE rest == Hd!Res \o Hd!Rest(tmpfile)
<1>3. PICK lines \in Body :
        /\ WholeLines(lines) /\ Hd!Expanded(lines) \in Body /\ Hd!Expanded(rest) \in Body
        /\ Hd!Expanded(body) = Hd!Expanded(lines) \o Hd!Expanded(rest)
        /\ Embeds(final, Hd!Expanded(lines)) /\ (failed = <<>> => final = Hd!Expanded(lines))
        /\ Expandable(lines)
  BY <1>0, LinesSoFar
<1>4. /\ failed' \in Seq(Hd!Calls) /\ failed' # <<>> /\ Len(failed') = Len(failed) + 1
      /\ \A n \in 1 .. Len(failed') : failed'[n] \in {"write", "read", "copy"}
  <2>1. "read" \in Hd!Calls
    BY DEF Hd!Calls
  <2>2. QED
    BY <1>1, <1>2, <2>1, OneMore
<1> HIDE DEF rest
<1>5. Embeds(final', Hd!Expanded(body)')
  <2>1. Embeds(final, Hd!Expanded(lines) \o Hd!Expanded(rest))
    BY <1>1, <1>3, EmbedsBefore
  <2>2. Hd!Expanded(body)' = Hd!Expanded(body)
    BY <1>2 DEF Hd!Expanded, Hd!FlattenSeq, Hd!LineStart
  <2>3. QED
    BY <1>2, <1>3, <2>1, <2>2
<1>6. failed' = <<"read">> => Hd!IsPrefix(final', Hd!Expanded(body)') /\ WholeLines(final')
  <2> SUFFICES ASSUME failed' = <<"read">>
               PROVE  Hd!IsPrefix(final, Hd!Expanded(body)) /\ WholeLines(final)
    BY <1>2
  <2>1. failed = <<>>
    BY <1>1, <1>4
  <2>2. final = Hd!Expanded(lines)
    BY <1>3, <2>1
  <2>3. Hd!IsPrefix(Hd!Expanded(lines), Hd!Expanded(lines) \o Hd!Expanded(rest))
    BY <1>3, PrefixOfJoined
  <2>4. WholeLines(Hd!Expanded(lines))
    BY <1>3, ExpandedEnds DEF WholeLines
  <2>5. QED
    BY <1>3, <2>2, <2>3, <2>4
<1>7. Written'
  BY <1>1, <1>2, <1>4, <1>5, <1>6 DEF Written
<1>8. Hd!TypeOK'
  BY <1>0, <1>1, <1>2, <1>4 DEF Hd!TypeOK, Body
<1>9. QED
  BY <1>1, <1>2, <1>7, <1>8 DEF ContentInv

\* A line goes from the buffer to the file, as far as its write takes it.
LEMMA ContentLine ==
  ASSUME ContentInv, contentAt = "line", buffer # <<>>,
         NEW w, w \in Hd!Losses(Append(ExpandLine(Hd!FtLine), Hd!Newline))
                \/ w = Append(ExpandLine(Hd!FtLine), Hd!Newline),
         final' = final \o w, buffer' = Hd!DelLineAndRes, contentAt' = "read",
         UNCHANGED <<body, tmpfile, offset>>,
         (UNCHANGED failed /\ w = Append(ExpandLine(Hd!FtLine), Hd!Newline)) \/ Hd!Fail("write")
  PROVE  ContentInv'
<1>1. /\ body \in Bodies /\ body \in Body /\ Len(body) \in Nat /\ tmpfile = body /\ final \in Body
      /\ offset \in 0 .. Len(body) /\ failed \in Seq(Hd!Calls)
      /\ Hd!Res \in Body /\ Hd!Rest(tmpfile) \in Body
      /\ \A n \in 1 .. Len(failed) : failed[n] = "write"
  BY WhileReading DEF Reading
<1>2. buffer # NULL /\ Hd!Contains(buffer, Hd!Newline) /\ buffer \in Body /\ Hd!Res = buffer
  <2>1. buffer # NULL /\ Hd!Contains(buffer, Hd!Newline)
    BY DEF ContentInv
  <2>2. QED
    BY <2>1, WhileReading DEF Hd!Res
<1> DEFINE line == Hd!FtLine
           ended == Append(line, Hd!Newline)
           del == Hd!DelLineAndRes
           text == Append(ExpandLine(line), Hd!Newline)
           rest == del \o Hd!Rest(tmpfile)
<1>3. /\ line \in Body /\ \A k \in 1 .. Len(line) : line[k] # Hd!Newline
      /\ del \in Body /\ buffer = ended \o del
  BY <1>2, FirstLine
<1>4. /\ ended \in Body /\ Len(ended) = Len(line) + 1 /\ ended[Len(ended)] = Hd!Newline /\ rest \in Body
  <2>1. line \in Seq(BodyChar) /\ Hd!Newline \in BodyChar
    BY <1>3, HeredocContentParameters DEF Body, Hd!Parameters
  <2> HIDE DEF line
  <2>2. ended \in Seq(BodyChar) /\ Len(ended) = Len(line) + 1 /\ ended[Len(ended)] = Hd!Newline
    BY <2>1
  <2>3. rest \in Body
    BY <1>1, <1>3 DEF Body
  <2>4. QED
    BY <2>2, <2>3 DEF Body
<1>5. PICK lines \in Body :
        /\ body = lines \o (Hd!Res \o Hd!Rest(tmpfile)) /\ WholeLines(lines)
        /\ Hd!Expanded(lines) \in Body
        /\ Embeds(final, Hd!Expanded(lines)) /\ (failed = <<>> => final = Hd!Expanded(lines))
        /\ Expandable(Hd!Res \o Hd!Rest(tmpfile)) /\ Expandable(body)
  BY LinesSoFar, BodyLines, <1>1
<1> DEFINE more == lines \o ended
<1>6. more \in Body /\ body = more \o rest /\ WholeLines(more)
  <2>1. lines \in Seq(BodyChar) /\ ended \in Seq(BodyChar) /\ rest \in Seq(BodyChar) /\ del \in Seq(BodyChar)
        /\ Hd!Rest(tmpfile) \in Seq(BodyChar)
    BY <1>1, <1>3, <1>4, <1>5 DEF Body
  <2>2. body = lines \o ((ended \o del) \o Hd!Rest(tmpfile))
    BY <1>2, <1>3, <1>5
  <2> DEFINE left == Hd!Rest(tmpfile)
  <2> HIDE DEF ended, del, left
  <2>3. (ended \o del) \o left = ended \o (del \o left)
    BY <2>1, ConcatAssociative DEF left
  <2>4. lines \o (ended \o (del \o left)) = (lines \o ended) \o (del \o left)
    <3> DEFINE r == del \o left
    <3>1. r \in Seq(BodyChar)
      BY <2>1 DEF left
    <3> HIDE DEF r
    <3>2. lines \in Seq(BodyChar) /\ ended \in Seq(BodyChar)
      BY <2>1
    <3>3. lines \o (ended \o r) = (lines \o ended) \o r
      BY ONLY <3>1, <3>2, ConcatAssociative
    <3>4. QED
      BY <3>3 DEF r
  <2>5. body = more \o rest
    BY <2>2, <2>3, <2>4 DEF left
  <2>6. more \in Body /\ more[Len(more)] = Hd!Newline
    BY <1>3, <1>4, <2>1 DEF Body
  <2>7. QED
    BY <2>5, <2>6 DEF WholeLines
<1> HIDE DEF line, ended, del, text, rest, more
<1>7. Expandable(more)
  BY <1>4, <1>5, <1>6, PartExpandable
<1>8. Hd!Expanded(more) = Hd!Expanded(lines) \o Hd!Expanded(ended)
  BY <1>4, <1>5, <1>7, ExpandedJoined DEF more
<1>9. Hd!Expanded(ended) = text /\ text \in Body
  <2>1. Expandable(ended)
    BY <1>4, <1>5, <1>7, PartExpandable DEF more
  <2>2. QED
    BY <1>3, <2>1, ExpandedLine DEF ended, text
<1>10. w \in Body /\ Embeds(w, text) /\ (w \in Hd!Losses(text) \/ w = text)
  <2>1. w \in Hd!Losses(text) \/ w = text
    BY DEF text, line
  <2>2. CASE w = text
    BY <1>9, <2>2, EmbedsSelf
  <2>3. CASE w \in Hd!Losses(text)
    BY <1>9, <2>3, LossEmbeds
  <2>4. QED
    BY <2>1, <2>2, <2>3
<1>11. Embeds(final', Hd!Expanded(more)) /\ final' \in Body
  <2>1. Embeds(final \o w, Hd!Expanded(lines) \o text)
    BY <1>1, <1>5, <1>9, <1>10, EmbedsJoined
  <2>2. final \o w \in Body
    BY <1>1, <1>10 DEF Body
  <2>3. QED
    BY <1>8, <1>9, <2>1, <2>2
<1>12. /\ failed' \in Seq(Hd!Calls) /\ \A n \in 1 .. Len(failed') : failed'[n] = "write"
       /\ failed' = <<>> => failed = <<>> /\ w = text
  <2>1. CASE UNCHANGED failed /\ w = text
    BY <1>1, <2>1
  <2>2. CASE Hd!Fail("write")
    <3>1. "write" \in Hd!Calls
      BY DEF Hd!Calls
    <3>2. QED
      BY <1>1, <2>2, <3>1, OneMore
  <2>3. QED
    BY <2>1, <2>2 DEF text, line
<1>13. failed' = <<>> => final' = Hd!Expanded(more)
  BY <1>5, <1>8, <1>9, <1>12
<1>14. buffer' = del /\ del # NULL /\ buffer' \in Body
  BY <1>1, <1>3, BodyLines DEF del
<1>15. (Hd!Res \o Hd!Rest(tmpfile))' = rest
  <2>1. Hd!Res' = del
    BY <1>14 DEF Hd!Res
  <2>2. Hd!Rest(tmpfile)' = Hd!Rest(tmpfile)
    BY DEF Hd!Rest
  <2>3. QED
    BY <2>1, <2>2 DEF rest
<1>16. Reading'
  BY <1>1, <1>6, <1>11, <1>12, <1>13, <1>15 DEF Reading
<1>17. Hd!TypeOK'
  BY <1>1, <1>11, <1>12, <1>14 DEF Hd!TypeOK, Body
<1>18. QED
  BY <1>1, <1>16, <1>17 DEF ContentInv

\* Each line is written, but for one with a write that fails.
LEMMA ContentLines == ASSUME ContentInv, Hd!ExpandHeredocLine \/ Hd!WriteFails PROVE ContentInv'
<1> DEFINE text == Append(ExpandLine(Hd!FtLine), Hd!Newline)
<1>1. CASE Hd!ExpandHeredocLine
  <2>1. /\ contentAt = "line" /\ buffer # <<>> /\ final' = final \o text
        /\ buffer' = Hd!DelLineAndRes /\ contentAt' = "read"
        /\ UNCHANGED <<body, tmpfile, offset>> /\ UNCHANGED failed
    BY <1>1 DEF Hd!ExpandHeredocLine, Hd!ProcessLine
  <2>2. QED
    BY <2>1, ContentLine
<1>2. CASE Hd!WriteFails
  <2>1. /\ contentAt = "line" /\ buffer # <<>> /\ final' \in {final \o w : w \in Hd!Losses(text)}
        /\ buffer' = Hd!DelLineAndRes /\ contentAt' = "read"
        /\ UNCHANGED <<body, tmpfile, offset>> /\ Hd!Fail("write")
    BY <1>2 DEF Hd!WriteFails, Hd!ProcessLine
  <2>2. PICK w \in Hd!Losses(text) : final' = final \o w
    BY <2>1
  <2>3. QED
    BY <2>1, <2>2, ContentLine
<1>3. QED
  BY <1>1, <1>2

\* When the buffer is empty every line has been written.
LEMMA ContentNoMore == ASSUME ContentInv, Hd!NoMoreLines PROVE ContentInv'
<1>0. contentAt = "line" /\ buffer = <<>>
  BY DEF Hd!NoMoreLines
<1>1. /\ body \in Bodies /\ body \in Body /\ Len(body) \in Nat /\ tmpfile = body /\ final \in Body
      /\ offset \in 0 .. Len(body) /\ failed \in Seq(Hd!Calls)
      /\ \A n \in 1 .. Len(failed) : failed[n] = "write"
  BY <1>0, WhileReading DEF Reading
<1>2. Hd!DelLineAndRes = NULL /\ ~Hd!Contains(buffer, Hd!Newline)
  <2>1. ~Hd!Contains(buffer, Hd!Newline) /\ Len(buffer) = 0
    BY <1>0 DEF Hd!Contains
  <2>2. Hd!LineEnd = Len(buffer) + 1
    BY <2>1 DEF Hd!LineEnd
  <2>3. QED
    BY <2>1, <2>2 DEF Hd!DelLineAndRes
<1>3. /\ UNCHANGED <<body, tmpfile, final, offset, failed>>
      /\ buffer' = NULL /\ contentAt' = "replace"
  BY <1>2 DEF Hd!NoMoreLines
<1>4. offset = Len(body)
  BY <1>0, <1>2 DEF ContentInv
<1>5. Hd!Res \o Hd!Rest(tmpfile) = <<>>
  <2>1. Hd!Rest(tmpfile) = <<>>
    <3>1. Len(body) + 1 \in Int /\ Len(body) \in Int /\ Len(body) < Len(body) + 1
      BY <1>1
    <3>2. Hd!Rest(tmpfile) = SubSeq(body, Len(body) + 1, Len(body))
      BY <1>1, <1>4 DEF Hd!Rest
    <3>3. QED
      BY <3>1, <3>2, SubSeqEmpty
  <2>2. Hd!Res = <<>>
    BY <1>0 DEF Hd!Res
  <2>3. QED
    BY <2>1, <2>2
<1>6. Embeds(final, Hd!Expanded(body)) /\ (failed = <<>> => final = Hd!Expanded(body))
  <2>1. PICK lines \in Body :
          /\ body = lines \o <<>>
          /\ Embeds(final, Hd!Expanded(lines)) /\ (failed = <<>> => final = Hd!Expanded(lines))
    BY <1>0, <1>5, LinesSoFar
  <2>2. body = lines
    BY <2>1, ConcatEmptySeq DEF Body
  <2>3. QED
    BY <2>1, <2>2
<1>7. Written'
  <2>1. Hd!Expanded(body)' = Hd!Expanded(body)
    BY <1>3 DEF Hd!Expanded, Hd!FlattenSeq, Hd!LineStart
  <2>2. failed # <<"read">>
    <3> SUFFICES ASSUME failed = <<"read">> PROVE FALSE
      OBVIOUS
    <3>1. 1 \in 1 .. Len(failed) /\ failed[1] = "read"
      OBVIOUS
    <3>2. QED
      BY <1>1, <3>1
  <2>3. QED
    BY <1>1, <1>3, <1>6, <2>1, <2>2 DEF Written
<1>8. Hd!TypeOK'
  BY <1>0, <1>1, <1>3 DEF Hd!TypeOK, Body
<1>9. QED
  BY <1>1, <1>3, <1>7, <1>8 DEF ContentInv

\* Expanding does not touch the body as it was.
LEMMA SameExpanded == ASSUME body' = body PROVE Hd!Expanded(body)' = Hd!Expanded(body)
  BY DEF Hd!Expanded, Hd!FlattenSeq, Hd!LineStart

\* The temporary file is empty, and nothing is copied.
LEMMA ContentReopen == ASSUME ContentInv, Hd!Reopen PROVE ContentInv'
<1>1. /\ Written /\ Hd!TypeOK /\ body \in Bodies
      /\ UNCHANGED <<body, final, buffer, failed>> /\ contentAt' = "copy" /\ tmpfile' = <<>> /\ offset' = 0
  BY DEF Hd!Reopen, ContentInv
<1>2. final \in Body /\ Len(final) \in Nat /\ buffer = NULL
  BY <1>1 DEF Written, Body
<1>3. Written'
  BY <1>1, SameExpanded DEF Written
<1>4. Copied'
  <2> DEFINE empty == <<>>
  <2>1. SubSeq(final, 1, 0) = empty /\ empty \in Body
    BY SubSeqEmpty DEF Body
  <2>2. Embeds(empty, empty)
    BY <2>1, EmbedsSelf
  <2>3. tmpfile' = empty /\ SubSeq(final, 1, offset)' = empty
    BY <1>1, <2>1
  <2> HIDE DEF empty
  <2>4. QED
    BY <1>1, <2>1, <2>2, <2>3 DEF Copied
<1>5. Hd!TypeOK'
  BY <1>1, <1>2 DEF Hd!TypeOK, Body
<1>6. QED
  BY <1>1, <1>3, <1>4, <1>5 DEF ContentInv

\* A file that does not open again.
LEMMA ContentReopenFails == ASSUME ContentInv, Hd!ReopenFails PROVE ContentInv'
<1>1. /\ Written /\ Hd!TypeOK /\ body \in Bodies /\ tmpfile = body
      /\ UNCHANGED <<body, offset, buffer>> /\ contentAt' = "done" /\ final' = NULL
      /\ \/ Hd!Fail("openFinal") /\ tmpfile' = <<>>
         \/ Hd!Fail("openTmpfile") /\ tmpfile' = tmpfile
  BY DEF Hd!ReopenFails, ContentInv
<1>2. failed \in Seq(Hd!Calls) /\ {"openFinal", "openTmpfile"} \subseteq Hd!Calls /\ offset \in Nat
      /\ buffer = NULL
  BY <1>1 DEF Hd!TypeOK, Hd!Calls, Written
<1>3. /\ failed' \in Seq(Hd!Calls) /\ failed' # <<>>
      /\ \/ failed'[Len(failed')] = "openFinal" /\ tmpfile' = <<>>
         \/ failed'[Len(failed')] = "openTmpfile" /\ tmpfile' = body
  <2>1. CASE Hd!Fail("openFinal") /\ tmpfile' = <<>>
    BY <1>2, <2>1, OneMore DEF Hd!Last
  <2>2. CASE Hd!Fail("openTmpfile") /\ tmpfile' = tmpfile
    BY <1>1, <1>2, <2>2, OneMore DEF Hd!Last
  <2>3. QED
    BY <1>1, <2>1, <2>2
<1>4. body' \in Seq(BodyChar) /\ tmpfile' \in Seq(BodyChar)
  <2>1. body \in Seq(BodyChar) /\ <<>> \in Seq(BodyChar)
    BY <1>1, BodyLines DEF Body
  <2>2. QED
    BY <1>1, <2>1
<1>5. Hd!TypeOK'
  BY <1>1, <1>2, <1>3, <1>4 DEF Hd!TypeOK
<1>6. Hd!WhatTheCommandReads'
  <2>1. body' = body
    BY <1>1
  <2>2. CASE failed'[Len(failed')] = "openFinal" /\ tmpfile' = <<>>
    <3>1. failed' # <<>> /\ failed'[Len(failed')] = "openFinal" /\ tmpfile' = <<>>
      BY <1>3, <2>2
    <3>2. QED
      BY <3>1 DEF Hd!WhatTheCommandReads, Hd!Last
  <2>3. CASE failed'[Len(failed')] = "openTmpfile" /\ tmpfile' = body
    <3>1. failed' # <<>> /\ failed'[Len(failed')] = "openTmpfile" /\ tmpfile' = body'
      BY <1>3, <2>1, <2>3
    <3>2. QED
      BY <3>1 DEF Hd!WhatTheCommandReads, Hd!Last
  <2>4. QED
    BY <1>3, <2>2, <2>3
<1>7. Hd!NothingLeftBehind'
  BY <1>1, <1>2 DEF Hd!NothingLeftBehind
<1>8. QED
  BY <1>1, <1>5, <1>6, <1>7 DEF ContentInv

\* What the loop of copies knows.
LEMMA WhileCopying ==
  ASSUME ContentInv, contentAt = "copy"
  PROVE  /\ Written /\ Copied /\ body \in Bodies /\ body \in Body /\ final \in Body /\ tmpfile \in Body
         /\ Len(final) \in Nat /\ offset \in 0 .. Len(final) /\ failed \in Seq(Hd!Calls)
  BY BodyLines DEF ContentInv, Written, Copied, Hd!TypeOK, Body

\* The next bytes follow those before; with a write that fails, some of them.
LEMMA ContentCopy ==
  ASSUME ContentInv, contentAt = "copy", NEW n \in 1 .. Hd!Min({CopySize, Len(final) - offset}),
         NEW k \in 0 .. n, tmpfile' = tmpfile \o Hd!Bytes(final, k), offset' = offset + n,
         UNCHANGED <<body, final, buffer, contentAt>>,
         (k = n /\ UNCHANGED failed) \/ Hd!Fail("copy")
  PROVE  ContentInv'
<1>1. /\ Written /\ Copied /\ body \in Bodies /\ body \in Body /\ final \in Body /\ tmpfile \in Body
      /\ Len(final) \in Nat /\ offset \in 0 .. Len(final) /\ failed \in Seq(Hd!Calls)
  BY WhileCopying
<1>2. n \in 1 .. Len(final) - offset
  <2>1. CopySize \in Nat \ {0} /\ Len(final) - offset \in Nat
    BY <1>1, HeredocContentParameters DEF Hd!Parameters
  <2>2. QED
    BY <2>1, ReadWithin
<1> DEFINE before == SubSeq(final, 1, offset)
           on == offset + n
           ok == offset + k
           took == SubSeq(final, offset + 1, ok)
           lost == SubSeq(final, ok + 1, on)
           read == SubSeq(final, offset + 1, on)
<1>3. /\ read \in Body /\ on \in 0 .. Len(final) /\ before \in Body
      /\ before \o read = SubSeq(final, 1, on)
  <2>1. n \in 0 .. Len(final) - offset /\ final \in Body /\ offset \in 0 .. Len(final)
    BY <1>1, <1>2
  <2>2. read \in Body /\ on \in 0 .. Len(final) /\ before \o read = SubSeq(final, 1, on)
    BY ONLY <2>1, TakeText DEF Body
  <2>3. before \in Body
    BY ONLY <2>1, CutText DEF Body
  <2>4. QED
    BY <2>2, <2>3
<1>4. took \in Body /\ ok \in 0 .. Len(final)
  <2>1. k \in 0 .. Len(final) - offset
    BY <1>1, <1>2
  <2>2. QED
    BY <1>1, <2>1, TakeText
<1>5. took \o lost = read /\ lost \in Body
  <2>1. final \in Seq(BodyChar)
    BY <1>1 DEF Body
  <2>2. /\ offset + 1 \in 1 .. Len(final) + 1 /\ ok \in (offset + 1) - 1 .. Len(final)
        /\ on \in ok .. Len(final) /\ ok + 1 \in Int /\ on \in Int
        /\ \A m \in ok + 1 .. on : m \in 1 .. Len(final)
    BY <1>1, <1>2
  <2> HIDE DEF on, ok
  <2>3. SubSeq(final, offset + 1, ok) \o SubSeq(final, ok + 1, on) = SubSeq(final, offset + 1, on)
    BY <2>1, <2>2, ConcatAdjacentSubSeq
  <2>4. \A m \in ok + 1 .. on : final[m] \in BodyChar
    BY <2>1, <2>2
  <2>5. SubSeq(final, ok + 1, on) \in Seq(BodyChar)
    BY <2>2, <2>4, SubSeqProperties
  <2>6. QED
    BY <2>3, <2>5 DEF Body
<1>6. /\ tmpfile' = tmpfile \o took /\ offset' = on /\ SubSeq(final, 1, offset)' = before \o read
      /\ k = n => took = read
  BY <1>3 DEF Hd!Bytes
<1>7. Embeds(tmpfile, before) /\ ((\A m \in 1 .. Len(failed) : failed[m] # "copy") => tmpfile = before)
  BY <1>1 DEF Copied
<1> HIDE DEF before, took, lost, read, on, ok
<1>8. Embeds(tmpfile', before \o read) /\ tmpfile' \in Body
  <2>1. Embeds(took, read)
    BY <1>4, <1>5, EmbedsSelf, EmbedsBefore
  <2>2. Embeds(tmpfile \o took, before \o read)
    BY <1>1, <1>3, <1>4, <1>7, <2>1, EmbedsJoined
  <2>3. tmpfile \o took \in Body
    BY <1>1, <1>4 DEF Body
  <2>4. QED
    BY <1>6, <2>2, <2>3
<1>9. CASE k = n /\ UNCHANGED failed
  <2>1. tmpfile = before => tmpfile' = before \o read
    BY <1>6, <1>9
  <2>2. Copied'
    BY <1>6, <1>7, <1>8, <1>9, <2>1 DEF Copied
  <2>3. Written'
    BY <1>1, <1>9, SameExpanded DEF Written
  <2>4. Hd!TypeOK'
    BY <1>1, <1>3, <1>6, <1>8, <1>9 DEF Hd!TypeOK, ContentInv, Body
  <2>5. QED
    BY <1>1, <2>2, <2>3, <2>4 DEF ContentInv
<1>10. CASE Hd!Fail("copy")
  <2>1. /\ failed' \in Seq(Hd!Calls) /\ failed' # <<>> /\ Len(failed') \in 1 .. Len(failed')
        /\ failed'[Len(failed')] = "copy"
        /\ \A m \in 1 .. Len(failed') : m \in 1 .. Len(failed) \/ failed'[m] = "copy"
        /\ \A m \in 1 .. Len(failed) : failed'[m] = failed[m]
    <3>1. "copy" \in Hd!Calls
      BY DEF Hd!Calls
    <3>2. /\ failed' \in Seq(Hd!Calls) /\ failed' # <<>> /\ failed'[Len(failed')] = "copy"
          /\ \A m \in 1 .. Len(failed') : m \in 1 .. Len(failed) \/ failed'[m] = "copy"
          /\ \A m \in 1 .. Len(failed) : failed'[m] = failed[m]
      BY <1>1, <1>10, <3>1, OneMore DEF Hd!Last
    <3>3. QED
      BY <3>2
  <2>2. Copied'
    BY <1>6, <1>8, <2>1 DEF Copied
  <2>3. Written'
    <3>1. failed' # <<"read">>
      BY <2>1
    <3>2. \A m \in 1 .. Len(failed') : failed'[m] \in {"write", "read", "copy"}
      BY <1>1, <2>1 DEF Written
    <3>3. QED
      BY <1>1, <2>1, <3>1, <3>2, SameExpanded DEF Written
  <2>4. Hd!TypeOK'
    BY <1>1, <1>3, <1>6, <1>8, <2>1 DEF Hd!TypeOK, ContentInv, Body
  <2>5. QED
    BY <1>1, <2>2, <2>3, <2>4 DEF ContentInv
<1>11. QED
  BY <1>9, <1>10

\* What the command reads when all has been copied, or when a read of it fails.
LEMMA ContentCopyEnds == ASSUME ContentInv, Hd!CopyEnds PROVE ContentInv'
<1>0. contentAt = "copy"
  BY DEF Hd!CopyEnds
<1>1. /\ Written /\ Copied /\ body \in Bodies /\ body \in Body /\ final \in Body /\ tmpfile \in Body
      /\ Len(final) \in Nat /\ offset \in 0 .. Len(final) /\ failed \in Seq(Hd!Calls)
  BY <1>0, WhileCopying
<1>2. /\ UNCHANGED <<body, tmpfile, offset, buffer>> /\ contentAt' = "done" /\ final' = NULL
      /\ (offset = Len(final) /\ UNCHANGED failed) \/ Hd!Fail("copy")
  BY DEF Hd!CopyEnds
<1> DEFINE e == Hd!Expanded(body)
           before == SubSeq(final, 1, offset)
<1>3. e \in Body /\ Hd!Expanded(body)' = e
  BY <1>1, <1>2, BodyLines, LinesTyped, SameExpanded
<1>4. Embeds(tmpfile, e)
  <2> DEFINE after == SubSeq(final, offset + 1, Len(final))
  <2>1. before \in Body /\ after \in Body /\ before \o after = final
    BY <1>1, CutText
  <2>2. Embeds(tmpfile, before)
    BY <1>1 DEF Copied
  <2> HIDE DEF before, after, e
  <2>3. Embeds(tmpfile, final)
    BY <1>1, <2>1, <2>2, EmbedsBefore
  <2>4. Embeds(final, e)
    BY <1>1 DEF Written, e
  <2>5. QED
    BY <1>1, <1>3, <2>3, <2>4, EmbedsIn
<1>5. Hd!IsSubsequence(tmpfile, e)
  BY <1>1, <1>3, <1>4, EmbedsFound
<1>6. offset = Len(final) /\ (\A n \in 1 .. Len(failed) : failed[n] # "copy") => tmpfile = final
  BY <1>1, SubSeqFull DEF Copied, Body
<1> HIDE DEF e, before
<1>7. CASE offset = Len(final) /\ UNCHANGED failed
  <2>1. failed = <<>> => tmpfile = e
    <3>1. failed = <<>> => \A n \in 1 .. Len(failed) : failed[n] # "copy"
      OBVIOUS
    <3>2. failed = <<>> => final = e
      BY <1>1 DEF Written, e
    <3>3. QED
      BY <1>6, <1>7, <3>1, <3>2
  <2>2. failed = <<"read">> => Hd!IsPrefix(tmpfile, e) /\ WholeLines(tmpfile)
    <3>1. failed = <<"read">> => \A n \in 1 .. Len(failed) : failed[n] # "copy"
      OBVIOUS
    <3>2. failed = <<"read">> => Hd!IsPrefix(final, e) /\ WholeLines(final)
      BY <1>1 DEF Written, e
    <3>3. QED
      BY <1>6, <1>7, <3>1, <3>2
  <2>3. failed # <<>> => Hd!Last(failed) \in {"write", "read", "copy"}
    BY <1>1 DEF Hd!Last, Written
  <2>4. Hd!WhatTheCommandReads'
    <3>1. failed' = failed /\ tmpfile' = tmpfile
      BY <1>2, <1>7
    <3>2. CASE failed = <<>>
      BY <1>3, <2>1, <3>1, <3>2 DEF Hd!WhatTheCommandReads
    <3>3. CASE failed # <<>>
      <4>1. Hd!Last(failed) \notin {"open", "openTmpfile", "openFinal"} /\ Hd!Last(failed)' = Hd!Last(failed)
        BY <2>3, <3>1, <3>3 DEF Hd!Last
      <4>2. failed = <<"read">> => Hd!IsPrefix(tmpfile', e) /\ (tmpfile' # <<>> => Hd!Last(tmpfile') = Hd!Newline)
        BY <2>2, <3>1 DEF WholeLines, Hd!Last
      <4>3. QED
        BY <1>3, <1>5, <3>1, <3>3, <4>1, <4>2 DEF Hd!WhatTheCommandReads
    <3>4. QED
      BY <3>2, <3>3
  <2>5. Hd!TypeOK'
    BY <1>1, <1>2, <1>7 DEF Hd!TypeOK, Body, ContentInv
  <2>6. QED
    BY <1>1, <1>2, <2>4, <2>5 DEF ContentInv, Hd!NothingLeftBehind, Written
<1>8. CASE Hd!Fail("copy")
  <2>1. failed' \in Seq(Hd!Calls) /\ failed' # <<>> /\ Hd!Last(failed)' = "copy"
    <3>1. "copy" \in Hd!Calls
      BY DEF Hd!Calls
    <3>2. QED
      BY <1>1, <1>8, <3>1, OneMore
  <2>2. failed' # <<"read">>
    BY <2>1 DEF Hd!Last
  <2>3. Hd!WhatTheCommandReads'
    <3>1. tmpfile' = tmpfile
      BY <1>2
    <3>2. QED
      BY <1>3, <1>5, <2>1, <2>2, <3>1 DEF Hd!WhatTheCommandReads
  <2>4. Hd!TypeOK'
    BY <1>1, <1>2, <2>1 DEF Hd!TypeOK, Body, ContentInv
  <2>5. QED
    BY <1>1, <1>2, <2>3, <2>4 DEF ContentInv, Hd!NothingLeftBehind, Written
<1>9. QED
  BY <1>2, <1>7, <1>8

\* Every step of the expansion of a body keeps what it knows.
LEMMA ContentNext == ContentInv /\ [Hd!Next]_(Hd!vars) => ContentInv'
<1> SUFFICES ASSUME ContentInv, [Hd!Next]_(Hd!vars) PROVE ContentInv'
  OBVIOUS
<1>1. CASE Hd!CopyExpandedFile
  <2>1. PICK n \in 1 .. Hd!Min({CopySize, Len(final) - offset}) :
          tmpfile' = tmpfile \o Hd!Bytes(final, n) /\ offset' = offset + n
    BY <1>1 DEF Hd!CopyExpandedFile
  <2>2. contentAt = "copy" /\ UNCHANGED <<body, final, buffer, contentAt, failed>> /\ n \in 0 .. n
    BY <1>1, <2>1 DEF Hd!CopyExpandedFile
  <2>3. QED
    BY <2>1, <2>2, ContentCopy
<1>2. CASE Hd!CopyWriteFails
  <2>1. PICK n \in 1 .. Hd!Min({CopySize, Len(final) - offset}) : \E k \in 0 .. n - 1 :
          tmpfile' = tmpfile \o Hd!Bytes(final, k) /\ offset' = offset + n
    BY <1>2 DEF Hd!CopyWriteFails
  <2>2. PICK k \in 0 .. n - 1 : tmpfile' = tmpfile \o Hd!Bytes(final, k) /\ offset' = offset + n
    BY <2>1
  <2>3. contentAt = "copy" /\ UNCHANGED <<body, final, buffer, contentAt>> /\ k \in 0 .. n /\ Hd!Fail("copy")
    BY <1>2, <2>2 DEF Hd!CopyWriteFails
  <2>4. QED
    BY <2>1, <2>2, <2>3, ContentCopy
<1>3. CASE UNCHANGED Hd!vars
  <2>1. UNCHANGED <<body, tmpfile, final, offset, buffer, contentAt, failed>>
    BY <1>3 DEF Hd!vars
  <2>2. Hd!TypeOK' /\ (Hd!Contains(buffer, Hd!Newline) = Hd!Contains(buffer, Hd!Newline)')
    BY <2>1 DEF ContentInv, Hd!TypeOK, Hd!Contains
  <2>3. (Reading => Reading') /\ (Written => Written') /\ (Copied => Copied')
    BY <2>1, SameExpanded DEF Reading, Written, Copied, Hd!Res, Hd!Rest
  <2>4. Hd!WhatTheCommandReads => Hd!WhatTheCommandReads'
    BY <2>1, SameExpanded DEF Hd!WhatTheCommandReads, Hd!Last
  <2>5. Hd!NothingLeftBehind => Hd!NothingLeftBehind'
    BY <2>1 DEF Hd!NothingLeftBehind
  <2>6. QED
    BY <2>1, <2>2, <2>3, <2>4, <2>5 DEF ContentInv
<1>4. QED
  BY <1>1, <1>2, <1>3, ContentOpens, ContentOpenFails, ContentRead, ContentReadEnds, ContentReadFails,
     ContentLines, ContentNoMore, ContentReopen, ContentReopenFails, ContentCopyEnds DEF Hd!Next

\* So nothing is lost between two reads.
LEMMA ContentKept == ContentInv => Hd!NothingLostBetweenReads
<1> SUFFICES ASSUME ContentInv, failed = <<>> PROVE
      /\ contentAt \in {"read", "line"} =>
           final \o Hd!Expanded(Hd!Res \o Hd!Rest(tmpfile)) = Hd!Expanded(body)
      /\ contentAt = "replace" => final = Hd!Expanded(body)
      /\ contentAt = "copy" => tmpfile \o Hd!Rest(final) = Hd!Expanded(body)
  BY DEF Hd!NothingLostBetweenReads
<1>1. contentAt \in {"read", "line"} =>
        final \o Hd!Expanded(Hd!Res \o Hd!Rest(tmpfile)) = Hd!Expanded(body)
  BY LinesSoFar
<1>2. contentAt \in {"replace", "copy"} => final = Hd!Expanded(body)
  BY DEF ContentInv, Written
<1>3. ASSUME contentAt = "copy" PROVE tmpfile \o Hd!Rest(final) = final
  <2>1. Copied /\ final \in Body /\ offset \in 0 .. Len(final)
    BY <1>3, WhileCopying
  <2>2. tmpfile = SubSeq(final, 1, offset)
    BY <2>1 DEF Copied
  <2>3. QED
    BY <2>1, <2>2, CutText DEF Hd!Rest
<1>4. QED
  BY <1>1, <1>2, <1>3

\* The buffer and the file are gone when they should be, and what the command reads is right.
LEMMA ContentRight ==
  ContentInv => Hd!TypeOK /\ Hd!NothingLostBetweenReads /\ Hd!WhatTheCommandReads /\ Hd!NothingLeftBehind
<1>1. ContentInv /\ contentAt # "done" => Hd!WhatTheCommandReads
  BY DEF Hd!WhatTheCommandReads
<1>2. ContentInv /\ contentAt # "done" => Hd!NothingLeftBehind
  BY DEF Hd!NothingLeftBehind, ContentInv, Written
<1>3. QED
  BY <1>1, <1>2, ContentKept DEF ContentInv

----------------------------------------------------------------------------
(* A shell within the shell: numbers of a limited width and their texts.   *)

\* What a width keeps of a number, and that only numbers a multiple of the
\* width apart are kept as one.
LEMMA Modulo ==
  ASSUME NEW M \in Nat \ {0}, NEW n \in Int
  PROVE  /\ n % M \in 0 .. M - 1 /\ \E q \in Int : n = (n % M) + q * M
         /\ \A r \in 0 .. M - 1, q \in Int : n = r + q * M => n % M = r
<1>1. n % M \in 0 .. M - 1 /\ n \div M \in Int /\ n = (n % M) + (n \div M) * M
  BY SMT
<1>2. ASSUME NEW r \in 0 .. M - 1, NEW q \in Int, n = r + q * M PROVE n % M = r
  <2> DEFINE s == n % M
             p == n \div M
  <2>1. s \in 0 .. M - 1 /\ p \in Int /\ r + q * M = s + p * M
    BY <1>1, <1>2
  <2> HIDE DEF s, p
  <2>2. (q - p) * M = s - r
    BY <2>1, SMT
  <2>3. q - p >= 1 => (q - p) * M >= M
    BY <2>1, SMT
  <2>4. q - p <= -1 => (q - p) * M <= -M
    BY <2>1, SMT
  <2>5. q - p = 0
    BY <2>1, <2>2, <2>3, <2>4, SMT
  <2>6. r = s
    BY <2>1, <2>5, SMT
  <2>7. QED
    BY <2>6 DEF s
<1>3. QED
  BY <1>1, <1>2

\* How many ints there are.
Width == 2 * (IntMax + 1)

\* An int that overflows is the int a multiple of the width away.
LEMMA WrapIs ==
  ASSUME Lv!Parameters, NEW n \in Int
  PROVE  /\ Lv!Wrap(n) \in Lv!CInt /\ Lv!CInt \subseteq Int /\ Width \in Nat \ {0}
         /\ \E q \in Int : n = Lv!Wrap(n) + q * Width
         /\ \A m \in Lv!CInt, q \in Int : n = m + q * Width => Lv!Wrap(n) = m
<1> DEFINE a == n + IntMax + 1
<1>1. IntMax \in Nat /\ Width \in Nat \ {0} /\ a \in Int /\ Lv!CInt = -IntMax - 1 .. IntMax
      /\ Width - IntMax - 2 = IntMax
  BY DEF Lv!Parameters, Width, Lv!CInt
<1>2. Lv!Wrap(n) = (a % Width) - IntMax - 1
  BY DEF Lv!Wrap, Width
<1> HIDE DEF a
<1>3. a % Width \in 0 .. Width - 1
  BY <1>1, Modulo
<1>4. Lv!Wrap(n) \in Lv!CInt
  BY <1>1, <1>2, <1>3
<1>5. \E q \in Int : n = Lv!Wrap(n) + q * Width
  <2>1. PICK q \in Int : a = (a % Width) + q * Width
    BY <1>1, Modulo
  <2> DEFINE x == q * Width
  <2>2. x \in Int
    BY <1>1
  <2>3. a = (a % Width) + x
    BY <2>1
  <2> HIDE DEF x
  <2>4. n = Lv!Wrap(n) + x
    <3>1. a = n + IntMax + 1 /\ a % Width \in Int
      BY <1>1, <1>3 DEF a
    <3> DEFINE m == a % Width
    <3>2. m \in Int /\ a = m + x /\ Lv!Wrap(n) = m - IntMax - 1
      BY <1>2, <2>3, <3>1
    <3> HIDE DEF m
    <3>3. QED
      BY <1>1, <2>2, <3>1, <3>2
  <2>5. QED
    BY <2>4 DEF x
<1>6. ASSUME NEW m \in Lv!CInt, NEW q \in Int, n = m + q * Width PROVE Lv!Wrap(n) = m
  <2> DEFINE x == q * Width
  <2>1. x \in Int /\ n = m + x
    BY <1>1, <1>6
  <2> HIDE DEF x
  <2> DEFINE r == m + IntMax + 1
  <2>2. r \in 0 .. Width - 1 /\ a = r + x /\ r - IntMax - 1 = m
    <3>1. m \in -IntMax - 1 .. IntMax /\ Width = 2 * (IntMax + 1)
      BY <1>1 DEF Width
    <3>2. QED
      BY <1>1, <2>1, <3>1 DEF a
  <2> HIDE DEF r
  <2>3. a = r + q * Width
    BY <2>2 DEF x
  <2>7. Width \in Nat \ {0} /\ a \in Int /\ r \in 0 .. Width - 1
    BY <1>1, <2>2
  <2>4. a % Width = r
    BY ONLY <1>6, <2>3, <2>7, Modulo
  <2>5. Lv!Wrap(n) = r - IntMax - 1
    BY <1>2, <2>4
  <2>6. QED
    BY <2>2, <2>5
<1>7. \A m \in Lv!CInt, q \in Int : n = m + q * Width => Lv!Wrap(n) = m
  BY <1>6
<1>8. Lv!CInt \subseteq Int /\ Width \in Nat \ {0}
  BY <1>1
<1>9. QED
  BY <1>4, <1>5, <1>7, <1>8

\* An int is left as it is; and what a width keeps of a sum or a product, it keeps
\* of what it kept of the number.
LEMMA WrapOver ==
  ASSUME Lv!Parameters, NEW n \in Int, NEW d \in Int, NEW s \in Int
  PROVE  /\ n \in Lv!CInt => Lv!Wrap(n) = n
         /\ Lv!Wrap(Lv!Wrap(n) + d) = Lv!Wrap(n + d)
         /\ Lv!Wrap(s * Lv!Wrap(n)) = Lv!Wrap(s * n)
<1> DEFINE w == Lv!Wrap(n)
<1>1. w \in Int /\ Width \in Nat \ {0}
  BY WrapIs
<1>2. PICK q \in Int : n = w + q * Width
  BY WrapIs
<1>3. ASSUME n \in Lv!CInt PROVE Lv!Wrap(n) = n
  <2>1. n = n + 0 * Width
    BY <1>1
  <2>2. QED
    BY <1>3, <2>1, WrapIs
<1> HIDE DEF w
<1>4. ASSUME NEW x \in Int, NEW y \in Int, NEW k \in Int, x = y + k * Width PROVE Lv!Wrap(y) = Lv!Wrap(x)
  <2> DEFINE v == Lv!Wrap(x)
  <2>1. PICK l \in Int : x = v + l * Width
    BY WrapIs
  <2>2. v \in Lv!CInt /\ v \in Int
    BY WrapIs
  <2> HIDE DEF v
  <2>3. y = v + (l - k) * Width
    BY <1>1, <1>4, <2>1, <2>2, SMT
  <2>4. l - k \in Int
    OBVIOUS
  <2>5. Lv!Wrap(y) = v
    BY <2>2, <2>3, <2>4, WrapIs
  <2>6. QED
    BY <2>5 DEF v
<1>5. Lv!Wrap(w + d) = Lv!Wrap(n + d)
  <2> DEFINE x == q * Width
  <2>1. x \in Int /\ n = w + x
    BY <1>1, <1>2
  <2> HIDE DEF x
  <2>2. n + d = (w + d) + x /\ n + d \in Int /\ w + d \in Int
    BY <1>1, <2>1
  <2>3. n + d = (w + d) + q * Width
    BY <2>2 DEF x
  <2>4. QED
    BY <1>4, <2>2, <2>3
<1>6. Lv!Wrap(s * w) = Lv!Wrap(s * n)
  <2>1. s * n = s * w + (s * q) * Width
    BY <1>1, <1>2, SMT
  <2>2. s * n \in Int /\ s * w \in Int /\ s * q \in Int
    BY <1>1
  <2>3. QED
    BY <1>4, <2>1, <2>2
<1>7. QED
  BY <1>3, <1>5, <1>6 DEF w

\* The value of a digit.
LEMMA LevelDigit ==
  /\ \A c \in Lv!Digits : Lv!DigitValue(c) \in 0 .. 9
  /\ \A d \in 0 .. 9 : Lv!DigitChars[d + 1] \in Lv!Digits /\ Lv!DigitValue(Lv!DigitChars[d + 1]) = d
<1>1. \A c \in Lv!Digits : Lv!DigitValue(c) \in 0 .. 9
  BY DEF Lv!Digits, Lv!DigitValue, Lv!DigitChars
<1>2. ASSUME NEW d \in 0 .. 9
      PROVE  Lv!DigitChars[d + 1] \in Lv!Digits /\ Lv!DigitValue(Lv!DigitChars[d + 1]) = d
  <2>1. Lv!DigitChars[d + 1] \in Lv!Digits
    BY DEF Lv!Digits
  <2>2. \A e \in 0 .. 9 : Lv!DigitChars[e + 1] = Lv!DigitChars[d + 1] => e = d
    BY DEF Lv!DigitChars
  <2>3. QED
    BY <2>1, <2>2 DEF Lv!DigitValue
<1>3. QED
  BY <1>1, <1>2

\* The number some digits make, one after the other, without a limit.
OfDigit == [digit \in Lv!Digits |-> Lv!DigitValue(digit)]
Tens == [v \in Nat |-> [c \in Lv!Digits |-> v * 10 + OfDigit[c]]]
ReadBy(F) == LoopOver(Nat, Lv!Digits, 0, Tens, F)

\* There is a function that reads digits.
LEMMA Reader == \E F : ReadBy(F)
<1>1. \A v \in Nat, c \in Lv!Digits : v * 10 + OfDigit[c] \in Nat
  <2>1. \A c \in Lv!Digits : OfDigit[c] \in Nat
    BY LevelDigit DEF OfDigit
  <2>2. QED
    BY <2>1
<1>2. Tens \in [Nat -> [Lv!Digits -> Nat]]
  BY <1>1 DEF Tens
<1>3. 0 \in Nat
  OBVIOUS
<1>4. QED
  BY <1>2, <1>3, Loops DEF ReadBy

\* What is read of a text is its sign and its digits' number; ft_atoi's number is
\* what the width keeps of it.
LEMMA ReadAs ==
  ASSUME Lv!Parameters, NEW F, ReadBy(F), NEW str,
         Lv!Signed(str).digits \in Seq(Lv!Digits), Lv!Signed(str).sign \in {1, -1}
  PROVE  /\ Lv!Written(str) = Lv!Signed(str).sign * F[Lv!Signed(str).digits]
         /\ Lv!FtAtoi(str) = Lv!Wrap(Lv!Written(str))
         /\ Lv!Written(str) \in Int
<1> DEFINE s == Lv!Signed(str)
           ds == s.digits
           m == Len(ds)
           val(k) == Lv!DigitValue(ds[k])
           IsN(g) == g = [k \in 0 .. m |-> IF k = 0 THEN 0 ELSE g[k - 1] * 10 + Lv!DigitValue(s.digits[k])]
           IsW(g) == g = [k \in 0 .. m |->
                            IF k = 0 THEN 0 ELSE Lv!Wrap(Lv!Wrap(g[k - 1] * 10) + Lv!DigitValue(s.digits[k]))]
           plain == CHOOSE g : IsN(g)
           kept == CHOOSE g : IsW(g)
<1>1. m \in Nat /\ ds \in Seq(Lv!Digits) /\ \A k \in 1 .. m : ds[k] \in Lv!Digits /\ val(k) \in 0 .. 9
  BY LevelDigit
<1>2. PICK f \in [0 .. m -> Nat] : f[0] = 0 /\ \A k \in 1 .. m : f[k] = Tens[f[k - 1]][ds[k]]
  BY <1>1 DEF ReadBy, LoopOver
<1>3. \A k \in 1 .. m : f[k - 1] \in Nat /\ f[k] = f[k - 1] * 10 + val(k)
  <2> SUFFICES ASSUME NEW k \in 1 .. m PROVE f[k - 1] \in Nat /\ f[k] = f[k - 1] * 10 + val(k)
    OBVIOUS
  <2>1. k - 1 \in 0 .. m
    BY <1>1
  <2>2. f[k - 1] \in Nat
    BY <1>2, <2>1
  <2>3. QED
    BY <1>1, <1>2, <2>2 DEF Tens, OfDigit
<1>4. plain = f
  <2>1. IsN(f)
    <3>1. \A k \in 0 .. m : f[k] = IF k = 0 THEN 0 ELSE f[k - 1] * 10 + Lv!DigitValue(s.digits[k])
      <4> SUFFICES ASSUME NEW k \in 0 .. m
                   PROVE  f[k] = IF k = 0 THEN 0 ELSE f[k - 1] * 10 + Lv!DigitValue(s.digits[k])
        OBVIOUS
      <4>1. CASE k = 0
        BY <1>2, <4>1
      <4>2. CASE k # 0
        <5>1. k \in 1 .. m
          BY <1>1, <4>2
        <5>2. QED
          BY <1>3, <4>2, <5>1
      <4>3. QED
        BY <4>1, <4>2
    <3>2. QED
      BY <1>2, <3>1
  <2>2. ASSUME NEW g, IsN(g) PROVE g = f
    <3> DEFINE Good == {k \in 0 .. m : g[k] = f[k]}
    <3>1. \A k \in 0 .. m : g[k] = IF k = 0 THEN 0 ELSE g[k - 1] * 10 + Lv!DigitValue(s.digits[k])
      BY <2>2
    <3>2. 0 \in Good
      BY <1>1, <1>2, <3>1
    <3>3. ASSUME NEW k \in 1 .. m, k - 1 \in Good PROVE k \in Good
      <4>1. k \in 0 .. m /\ k # 0 /\ g[k - 1] = f[k - 1]
        BY <1>1, <3>3
      <4>2. g[k] = g[k - 1] * 10 + val(k)
        BY <3>1, <4>1
      <4>3. QED
        BY <1>3, <4>1, <4>2
    <3>4. Good = 0 .. m
      <4> HIDE DEF Good
      <4>1. Good \in SUBSET (0 .. m)
        BY DEF Good
      <4>2. QED
        BY <1>1, <3>2, <3>3, <4>1, UpTo
    <3>5. \A k \in 0 .. m : g[k] = f[k]
      BY <3>4
    <3>6. g = [k \in 0 .. m |-> g[k]]
      BY <2>2, Zenon
    <3>7. QED
      BY <1>2, <3>5, <3>6
  <2>3. IsN(plain)
    <3> HIDE DEF IsN
    <3>1. QED
      BY <2>1
  <2>4. QED
    BY <2>2, <2>3
<1>5. Lv!Written(str) = s.sign * plain[m]
  BY DEF Lv!Written
<1> HIDE DEF plain
<1>6. f[m] = F[ds]
  <2>1. \A t \in Seq(Lv!Digits) : \A g :
          g[0] = 0 /\ (\A k \in 1 .. Len(t) : g[k - 1] \in Nat => g[k] = Tens[g[k - 1]][t[k]])
            => g[Len(t)] = F[t]
    BY DEF ReadBy, LoopOver
  <2>2. \A k \in 1 .. m : f[k - 1] \in Nat => f[k] = Tens[f[k - 1]][ds[k]]
    BY ONLY <1>2
  <2>3. f[0] = 0
    BY ONLY <1>2
  <2>4. QED
    BY ONLY <1>1, <2>1, <2>2, <2>3
<1>7. Lv!Written(str) = s.sign * F[ds] /\ F[ds] \in Nat
  <2>1. f[m] \in Nat
    BY <1>1, <1>2
  <2>2. QED
    BY <1>4, <1>5, <1>6, <2>1
<1> DEFINE w == [k \in 0 .. m |-> Lv!Wrap(f[k])]
<1>8. /\ \A x \in Int : Lv!Wrap(x) \in Int /\ Lv!Wrap(10 * Lv!Wrap(x)) = Lv!Wrap(10 * x)
      /\ \A x \in Int, d \in Int : Lv!Wrap(Lv!Wrap(x) + d) = Lv!Wrap(x + d)
  <2>1. \A x \in Int : Lv!Wrap(x) \in Int
    BY WrapIs
  <2>2. \A x \in Int : Lv!Wrap(10 * Lv!Wrap(x)) = Lv!Wrap(10 * x)
    <3>1. 10 \in Int
      OBVIOUS
    <3>2. QED
      BY ONLY <3>1, Lv!Parameters, WrapOver
  <2>3. \A x \in Int, d \in Int : Lv!Wrap(Lv!Wrap(x) + d) = Lv!Wrap(x + d)
    BY ONLY Lv!Parameters, WrapOver
  <2>4. QED
    BY <2>1, <2>2, <2>3
<1>9. IsW(w)
  <2>1. \A k \in 0 .. m : w[k] = IF k = 0 THEN 0 ELSE Lv!Wrap(Lv!Wrap(w[k - 1] * 10) + Lv!DigitValue(s.digits[k]))
    <3> SUFFICES ASSUME NEW k \in 0 .. m
                 PROVE  w[k] = IF k = 0 THEN 0 ELSE Lv!Wrap(Lv!Wrap(w[k - 1] * 10) + Lv!DigitValue(s.digits[k]))
      OBVIOUS
    <3>1. CASE k = 0
      <4>1. 0 \in Lv!CInt /\ 0 \in Int
        BY DEF Lv!CInt, Lv!Parameters
      <4>2. Lv!Wrap(0) = 0
        BY ONLY Lv!Parameters, <4>1, WrapOver
      <4>3. w[0] = Lv!Wrap(f[0])
        BY <1>1
      <4>4. w[0] = 0
        BY <1>2, <4>2, <4>3
      <4> HIDE DEF w
      <4>5. QED
        BY <3>1, <4>4
    <3>2. CASE k # 0
      <4>1. k \in 1 .. m /\ k - 1 \in 0 .. m
        BY <1>1, <3>2
      <4> DEFINE x == f[k - 1]
                 v == val(k)
      <4>2. w[k - 1] = Lv!Wrap(x) /\ w[k] = Lv!Wrap(f[k])
        BY <4>1
      <4>3. x \in Int /\ v \in Int /\ f[k] = x * 10 + v
        <5>1. v \in 0 .. 9
          BY <1>1, <4>1
        <5> HIDE DEF val
        <5>2. x \in Nat /\ f[k] = x * 10 + v
          BY <1>3, <4>1
        <5>3. QED
          BY <5>1, <5>2
      <4>4. w[k] = IF k = 0 THEN 0 ELSE Lv!Wrap(Lv!Wrap(w[k - 1] * 10) + v)
        <5> HIDE DEF x, v, w, val
        <5>5. Lv!Wrap(x) \in Int
          BY <1>8, <4>3
        <5>6. f[k] = 10 * x + v /\ 10 * x \in Int
          BY ONLY <4>3
        <5> DEFINE kx == Lv!Wrap(x)
        <5> HIDE DEF kx
        <5>7. w[k - 1] = kx /\ kx \in Int
          BY <4>2, <5>5 DEF kx
        <5>8. w[k - 1] * 10 = 10 * kx
          BY ONLY <5>7
        <5>1. f[k] = 10 * x + v /\ 10 * x \in Int /\ Lv!Wrap(x) \in Int /\ w[k - 1] * 10 = 10 * Lv!Wrap(x)
          BY <5>5, <5>6, <5>8 DEF kx
        <5>2. Lv!Wrap(10 * Lv!Wrap(x)) = Lv!Wrap(10 * x)
          BY <1>8, <4>3
        <5>3. Lv!Wrap(Lv!Wrap(10 * x) + v) = Lv!Wrap(10 * x + v)
          BY <1>8, <4>3, <5>1
        <5>4. QED
          BY <3>2, <4>2, <5>1, <5>2, <5>3
      <4> HIDE DEF w
      <4>5. QED
        BY <4>4
    <3>3. QED
      BY <3>1, <3>2
  <2>2. w = [k \in 0 .. m |-> w[k]]
    OBVIOUS
  <2> HIDE DEF w
  <2>3. QED
    BY <2>1, <2>2
<1>10. ASSUME NEW g, IsW(g) PROVE g[m] = w[m]
  <2> DEFINE Good == {k \in 0 .. m : g[k] = w[k]}
  <2>1. \A k \in 0 .. m : g[k] = IF k = 0 THEN 0 ELSE Lv!Wrap(Lv!Wrap(g[k - 1] * 10) + Lv!DigitValue(s.digits[k]))
    BY <1>10
  <2> HIDE DEF w
  <2>2. \A k \in 0 .. m : w[k] = IF k = 0 THEN 0 ELSE Lv!Wrap(Lv!Wrap(w[k - 1] * 10) + Lv!DigitValue(s.digits[k]))
    BY <1>9
  <2>3. 0 \in Good
    BY <1>1, <2>1, <2>2
  <2>4. ASSUME NEW k \in 1 .. m, k - 1 \in Good PROVE k \in Good
    <3>1. k \in 0 .. m /\ k # 0 /\ g[k - 1] = w[k - 1]
      BY <1>1, <2>4
    <3>2. g[k] = Lv!Wrap(Lv!Wrap(g[k - 1] * 10) + val(k)) /\ w[k] = Lv!Wrap(Lv!Wrap(w[k - 1] * 10) + val(k))
      BY <2>1, <2>2, <3>1
    <3>3. QED
      BY <3>1, <3>2
  <2>5. Good = 0 .. m
    <3> HIDE DEF Good
    <3>1. Good \in SUBSET (0 .. m)
      BY DEF Good
    <3>2. QED
      BY <1>1, <2>3, <2>4, <3>1, UpTo
  <2>6. m \in 0 .. m
    BY <1>1
  <2>7. QED
    BY <2>5, <2>6
<1>11. kept[m] = Lv!Wrap(f[m])
  <2>1. IsW(kept)
    <3> HIDE DEF IsW, w
    <3>1. QED
      BY <1>9
  <2>2. m \in 0 .. m
    BY <1>1
  <2> HIDE DEF kept
  <2>3. kept[m] = w[m]
    BY <1>10, <2>1
  <2>4. QED
    BY <2>2, <2>3
<1>12. Lv!FtAtoi(str) = Lv!Wrap(s.sign * kept[m])
  BY DEF Lv!FtAtoi
<1> HIDE DEF kept
<1>13. Lv!Wrap(s.sign * Lv!Wrap(F[ds])) = Lv!Wrap(s.sign * F[ds])
  <2>1. F[ds] \in Int /\ s.sign \in Int
    BY <1>7
  <2> HIDE DEF s, ds
  <2>2. QED
    BY <2>1, WrapOver
<1>14. QED
  BY <1>6, <1>7, <1>11, <1>12, <1>13


\* ft_itoa's digits: how those of a number are made from those of a tenth of it.
LEMMA Decimals ==
  ASSUME Lv!Parameters
  PROVE  \A nb \in 0 .. IntMax + 1 :
           /\ Lv!Decimal[nb] \in Seq(Lv!Digits)
           /\ nb < 10 => Lv!Decimal[nb] = <<Lv!DigitChars[(nb % 10) + 1]>>
           /\ nb >= 10 => Lv!Decimal[nb] = Append(Lv!Decimal[nb \div 10], Lv!DigitChars[(nb % 10) + 1])
<1> DEFINE N == IntMax + 1
           T == Seq(Lv!Digits)
           unit(nb) == Lv!DigitChars[(nb % 10) + 1]
           Turn(f, nb) == IF nb < 10 THEN <<unit(nb)>> ELSE Append(f[nb \div 10], unit(nb))
           IsD(f) == f = [nb \in 0 .. N |-> IF nb < 10 THEN <<unit(nb)>> ELSE Append(f[nb \div 10], unit(nb))]
           UpTill(f, m) == f \in [0 .. m -> T] /\ \A nb \in 0 .. m : f[nb] = Turn(f, nb)
           Good == {m \in 0 .. N : \E f : UpTill(f, m)}
<1>1. N \in Nat
  BY DEF Lv!Parameters
<1>2. ASSUME NEW nb \in Nat
      PROVE  /\ unit(nb) \in Lv!Digits /\ <<unit(nb)>> \in T
             /\ \A s \in T : Append(s, unit(nb)) \in T
             /\ nb >= 10 => nb \div 10 \in 0 .. nb - 1
  <2>1. nb % 10 \in 0 .. 9 /\ (nb >= 10 => nb \div 10 \in 0 .. nb - 1)
    BY SMT
  <2>2. unit(nb) \in Lv!Digits
    BY <2>1, LevelDigit
  <2> HIDE DEF unit
  <2>3. QED
    BY <2>1, <2>2
<1> HIDE DEF unit
<1>3. 0 \in Good
  <2> DEFINE f == [nb \in 0 .. 0 |-> <<unit(0)>>]
  <2>1. <<unit(0)>> \in T
    BY <1>2
  <2> HIDE DEF T
  <2>2. f \in [0 .. 0 -> T] /\ \A nb \in 0 .. 0 : f[nb] = <<unit(nb)>> /\ nb < 10
    BY <2>1
  <2> HIDE DEF f
  <2>3. UpTill(f, 0)
    BY <2>2
  <2>4. QED
    BY <1>1, <2>3
<1>4. ASSUME NEW k \in 1 .. N, k - 1 \in Good PROVE k \in Good
  <2>1. PICK f : UpTill(f, k - 1)
    BY <1>4
  <2>2. k \in Nat /\ k \in 0 .. N
    BY <1>1
  <2> DEFINE new == Turn(f, k)
             g == [nb \in 0 .. k |-> IF nb = k THEN new ELSE f[nb]]
  <2>3. new \in T
    <3>1. CASE k < 10
      BY <1>2, <2>2, <3>1
    <3>2. CASE ~(k < 10)
      <4>1. k \div 10 \in 0 .. k - 1
        BY <1>2, <2>2, <3>2
      <4>2. f[k \div 10] \in T
        BY <2>1, <4>1
      <4>3. QED
        BY <1>2, <2>2, <3>2, <4>2
    <3>3. QED
      BY <3>1, <3>2
  <2> HIDE DEF new, T
  <2>4. g \in [0 .. k -> T]
    <3>1. \A nb \in 0 .. k : nb # k => nb \in 0 .. k - 1
      BY <2>2
    <3>2. QED
      BY <2>1, <2>3, <3>1
  <2>5. \A nb \in 0 .. k : (nb = k => g[nb] = new) /\ (nb # k => g[nb] = f[nb])
    OBVIOUS
  <2> HIDE DEF g
  <2>6. \A nb \in 0 .. k : nb >= 10 => g[nb \div 10] = f[nb \div 10]
    <3> SUFFICES ASSUME NEW nb \in 0 .. k, nb >= 10 PROVE g[nb \div 10] = f[nb \div 10]
      OBVIOUS
    <3> DEFINE d == nb \div 10
    <3>1. nb \in Nat /\ nb <= k
      BY <2>2
    <3>2. d \in 0 .. nb - 1
      BY <1>2, <3>1
    <3> HIDE DEF d
    <3>3. d \in 0 .. k /\ d # k
      BY <2>2, <3>1, <3>2
    <3>4. g[d] = f[d]
      BY <2>5, <3>3
    <3>5. QED
      BY <3>4 DEF d
  <2>7. ASSUME NEW nb \in 0 .. k PROVE g[nb] = Turn(g, nb)
    <3>1. Turn(g, nb) = Turn(f, nb)
      <4>1. nb \in Int /\ (~(nb < 10) => nb >= 10)
        OBVIOUS
      <4>2. QED
        BY <2>6, <4>1
    <3>2. CASE nb = k
      BY <2>5, <3>1, <3>2 DEF new
    <3>3. CASE nb # k
      <4>1. nb \in 0 .. k - 1
        BY <2>2, <3>3
      <4>2. f[nb] = Turn(f, nb)
        BY <2>1, <4>1
      <4> HIDE DEF Turn
      <4>3. QED
        BY <2>5, <3>1, <3>3, <4>2
    <3>4. QED
      BY <3>2, <3>3
  <2>8. UpTill(g, k)
    BY <2>4, <2>7
  <2>9. QED
    BY <2>2, <2>8
<1>5. N \in Good
  <2> HIDE DEF Good
  <2>1. Good \in SUBSET (0 .. N)
    BY DEF Good
  <2>2. Good = 0 .. N
    BY <1>1, <1>3, <1>4, <2>1, UpTo
  <2>3. QED
    BY <1>1, <2>2
<1>6. PICK f : UpTill(f, N)
  BY <1>5
<1>7. IsD(f)
  <2>1. f = [nb \in 0 .. N |-> f[nb]] /\ \A nb \in 0 .. N : f[nb] = Turn(f, nb)
    BY <1>6
  <2>2. QED
    BY <2>1
<1>8. Lv!Decimal = CHOOSE g : IsD(g)
  BY DEF Lv!Decimal, unit
<1>9. IsD(Lv!Decimal)
  <2> HIDE DEF IsD
  <2>1. QED
    BY <1>7, <1>8
<1> DEFINE D == Lv!Decimal
<1> HIDE DEF D
<1>10. \A nb \in 0 .. N : D[nb] = IF nb < 10 THEN <<unit(nb)>> ELSE Append(D[nb \div 10], unit(nb))
  <2>1. D = [nb \in 0 .. N |-> IF nb < 10 THEN <<unit(nb)>> ELSE Append(D[nb \div 10], unit(nb))]
    BY <1>9 DEF D
  <2>2. QED
    BY ONLY <2>1
<1>11. \A nb \in 0 .. N : D[nb] \in T
  <2> DEFINE Bad == {nb \in 0 .. N : D[nb] \notin T}
  <2> SUFFICES ASSUME Bad # {} PROVE FALSE
    OBVIOUS
  <2>1. Bad \in SUBSET Nat
    BY <1>1
  <2>2. PICK m \in Bad : \A n \in Bad : m <= n
    BY <2>1, LeastNat
  <2>3. m \in 0 .. N /\ m \in Nat /\ D[m] \notin T
    BY <1>1, <2>2
  <2>4. CASE m < 10
    BY <1>2, <1>10, <2>3, <2>4
  <2>5. CASE ~(m < 10)
    <3> DEFINE d == m \div 10
    <3>1. d \in 0 .. m - 1
      BY <1>2, <2>3, <2>5
    <3>2. D[m] = Append(D[d], unit(m))
      BY <1>10, <2>3, <2>5
    <3> HIDE DEF d
    <3>3. d \in 0 .. N /\ ~(m <= d)
      BY <1>1, <2>3, <3>1
    <3>4. D[d] \in T
      BY <2>2, <3>3
    <3>5. QED
      BY <1>2, <2>3, <3>2, <3>4
  <2>6. QED
    BY <2>4, <2>5
<1>12. ASSUME NEW nb \in 0 .. N
       PROVE  /\ nb < 10 => D[nb] = <<unit(nb)>>
              /\ nb >= 10 => D[nb] = Append(D[nb \div 10], unit(nb))
  <2>1. nb >= 10 => ~(nb < 10)
    BY <1>1
  <2>2. QED
    BY <1>10, <2>1
<1>13. QED
  BY <1>11, <1>12 DEF D, unit


\* What is read of the digits of a number is the number.
LEMMA DecimalRead ==
  ASSUME Lv!Parameters, NEW F, ReadBy(F), NEW n \in 0 .. IntMax + 1
  PROVE  /\ Lv!Decimal[n] \in Seq(Lv!Digits) /\ Lv!Decimal[n] # <<>>
         /\ F[Lv!Decimal[n]] = n
<1> DEFINE N == IntMax + 1
           T == Seq(Lv!Digits)
           D == Lv!Decimal
           unit(nb) == Lv!DigitChars[(nb % 10) + 1]
           Good(m) == D[m] # <<>> /\ F[D[m]] = m
           Bad == {m \in 0 .. N : ~Good(m)}
<1>1. N \in Nat
  BY DEF Lv!Parameters
<1>2. \A nb \in 0 .. N : /\ D[nb] \in T
                         /\ nb < 10 => D[nb] = <<unit(nb)>>
                         /\ nb >= 10 => D[nb] = Append(D[nb \div 10], unit(nb))
  BY Decimals
<1>3. ASSUME NEW nb \in Nat
      PROVE  /\ unit(nb) \in Lv!Digits /\ OfDigit[unit(nb)] = nb % 10
             /\ nb < 10 => nb % 10 = nb
             /\ nb >= 10 => nb \div 10 \in 0 .. nb - 1 /\ (nb \div 10) * 10 + (nb % 10) = nb
  <2>1. /\ nb % 10 \in 0 .. 9 /\ (nb < 10 => nb % 10 = nb)
        /\ nb >= 10 => nb \div 10 \in 0 .. nb - 1 /\ (nb \div 10) * 10 + (nb % 10) = nb
    BY SMT
  <2>2. unit(nb) \in Lv!Digits /\ Lv!DigitValue(unit(nb)) = nb % 10
    BY <2>1, LevelDigit
  <2> HIDE DEF unit
  <2>3. OfDigit[unit(nb)] = nb % 10
    BY <2>2 DEF OfDigit
  <2>4. QED
    BY <2>1, <2>2, <2>3
<1>4. F[<<>>] = 0 /\ \A s \in T, c \in Lv!Digits : F[Append(s, c)] = Tens[F[s]][c]
  BY DEF ReadBy, LoopOver
<1>5. \A v \in Nat, c \in Lv!Digits : Tens[v][c] = v * 10 + OfDigit[c]
  BY DEF Tens
<1> HIDE DEF D, unit
<1>6. ASSUME Bad # {} PROVE FALSE
  <2>1. Bad \in SUBSET Nat
    BY <1>1
  <2>2. PICK m \in Bad : \A k \in Bad : m <= k
    BY <1>6, <2>1, LeastNat
  <2>3. m \in 0 .. N /\ m \in Nat /\ ~Good(m)
    BY <1>1, <2>2
  <2> DEFINE c == unit(m)
  <2>4. c \in Lv!Digits /\ OfDigit[c] = m % 10
    BY <1>3, <2>3
  <2>5. CASE m < 10
    <3>1. D[m] = <<c>> /\ m % 10 = m
      BY <1>2, <1>3, <2>3, <2>5
    <3> HIDE DEF c
    <3>2. <<c>> = Append(<<>>, c) /\ <<c>> # <<>> /\ <<>> \in T
      BY <2>4
    <3>3. F[<<c>>] = Tens[0][c]
      BY <1>4, <2>4, <3>2
    <3>6. 0 \in Nat /\ c \in Lv!Digits
      BY <2>4
    <3>7. Tens[0][c] = 0 * 10 + OfDigit[c]
      BY ONLY <1>5, <3>6
    <3>4. F[<<c>>] = m
      BY ONLY <2>3, <2>4, <3>1, <3>3, <3>7
    <3>5. QED
      BY <2>3, <3>1, <3>2, <3>4
  <2>6. CASE ~(m < 10)
    <3> DEFINE d == m \div 10
    <3>1. d \in 0 .. m - 1 /\ d * 10 + (m % 10) = m
      BY <1>3, <2>3, <2>6
    <3>2. D[m] = Append(D[d], c)
      BY <1>2, <2>3, <2>6
    <3> HIDE DEF d, c
    <3>3. d \in 0 .. N /\ ~(m <= d) /\ d \in Nat
      BY <1>1, <2>3, <3>1
    <3>4. F[D[d]] = d /\ D[d] \in T
      BY <1>2, <2>2, <3>3
    <3>8. F[Append(D[d], c)] = Tens[F[D[d]]][c]
      BY ONLY <1>4, <2>4, <3>4
    <3>9. Tens[d][c] = d * 10 + OfDigit[c]
      BY ONLY <1>5, <2>4, <3>3
    <3>5. F[D[m]] = d * 10 + OfDigit[c]
      BY ONLY <3>2, <3>4, <3>8, <3>9
    <3>6. D[m] # <<>>
      BY <2>4, <3>2, <3>4
    <3>7. QED
      BY <2>3, <2>4, <3>1, <3>5, <3>6
  <2>7. QED
    BY <2>5, <2>6
<1>7. Good(n)
  BY <1>6
<1>8. QED
  BY <1>2, <1>7 DEF D

\* No digit is a blank or a sign, and - is no blank.
LEMMA Apart ==
  /\ \A c \in Lv!Digits : c \notin Lv!Blanks /\ c \notin {"+", "-"}
  /\ "-" \notin Lv!Blanks /\ "-" \notin Lv!Digits
<1> DEFINE ten == {"0", "1", "2", "3", "4", "5", "6", "7", "8", "9"}
<1>1. Lv!Digits \subseteq ten
  BY DEF Lv!Digits, Lv!DigitChars
<1>2. \A c \in ten : c \notin {"+", "-"}
  OBVIOUS
<1>3. \A c \in ten : c \notin Lv!Blanks
  BY Zenon DEF Lv!Blanks
<1>4. "-" \notin Lv!Blanks
  BY Zenon DEF Lv!Blanks
<1>5. QED
  BY <1>1, <1>2, <1>3, <1>4

\* ft_atoi's loops over blanks and over digits end where SkipEnd says.
LEMMA LevelSkipEnd ==
  ASSUME NEW T, NEW str \in Seq(T), NEW k \in 0 .. Len(str), NEW S
  PROVE  /\ Lv!Skip(str, k, S) \in k .. Len(str)
         /\ Lv!Skip(str, k, S) < Len(str) => str[Lv!Skip(str, k, S) + 1] \notin S
         /\ \A l \in k .. Lv!Skip(str, k, S) - 1 : str[l + 1] \in S
<1>1. Lv!Skip(str, k, S) = Ex!Skip(str, k, S)
  BY DEF Lv!Skip, Ex!Skip
<1>2. QED
  BY <1>1, SkipEnd

\* A text has a sign and digits.
LEMMA SignedIs ==
  ASSUME NEW T, NEW str \in Seq(T)
  PROVE  Lv!Signed(str).sign \in {1, -1} /\ Lv!Signed(str).digits \in Seq(Lv!Digits)
<1> DEFINE k == Lv!Skip(str, 0, Lv!Blanks)
           hasSign == k < Len(str) /\ str[k + 1] \in {"+", "-"}
           first == IF hasSign THEN k + 1 ELSE k
           e == Lv!Skip(str, first, Lv!Digits)
           p == SubSeq(str, first + 1, e)
           sg == IF hasSign /\ str[k + 1] = "-" THEN -1 ELSE 1
<1>1. Lv!Signed(str) = [sign |-> sg, digits |-> p]
  BY DEF Lv!Signed
<1>2. Len(str) \in Nat /\ 0 \in 0 .. Len(str)
  OBVIOUS
<1>3. k \in 0 .. Len(str)
  BY <1>2, LevelSkipEnd
<1> HIDE DEF k
<1>4. first \in 0 .. Len(str)
  BY <1>2, <1>3
<1> HIDE DEF first
<1>5. e \in first .. Len(str) /\ \A l \in first .. e - 1 : str[l + 1] \in Lv!Digits
  BY <1>4, LevelSkipEnd
<1> HIDE DEF e
<1>6. p = [l \in 1 .. e - first |-> str[l + first]] /\ e - first \in Nat
  BY <1>2, <1>4, <1>5
<1>7. \A l \in 1 .. e - first : str[l + first] \in Lv!Digits
  <2> SUFFICES ASSUME NEW l \in 1 .. e - first PROVE str[l + first] \in Lv!Digits
    OBVIOUS
  <2>1. l + first - 1 \in first .. e - 1 /\ (l + first - 1) + 1 = l + first
    BY <1>2, <1>4, <1>5
  <2>2. QED
    BY <1>5, <2>1
<1> HIDE DEF p
<1>8. p \in Seq(Lv!Digits)
  BY <1>6, <1>7
<1>9. sg \in {1, -1}
  OBVIOUS
<1> HIDE DEF sg
<1>10. QED
  BY <1>1, <1>8, <1>9


\* The digits alone, and after a -, are read as they are.
LEMMA SignedDigits ==
  ASSUME NEW s \in Seq(Lv!Digits), s # <<>>
  PROVE  /\ Lv!Signed(s) = [sign |-> 1, digits |-> s]
         /\ Lv!Signed(<<"-">> \o s) = [sign |-> -1, digits |-> s]
<1>1. Len(s) \in Nat \ {0} /\ \A k \in 1 .. Len(s) : s[k] \in Lv!Digits
  OBVIOUS
<1>2. Lv!Signed(s) = [sign |-> 1, digits |-> s]
  <2> DEFINE k == Lv!Skip(s, 0, Lv!Blanks)
             e == Lv!Skip(s, 0, Lv!Digits)
  <2>1. s[1] \notin Lv!Blanks /\ s[1] \notin {"+", "-"}
    BY <1>1, Apart
  <2>2. 0 \in 0 .. Len(s)
    BY <1>1
  <2>3. k = 0
    <3>1. k \in 0 .. Len(s) /\ \A l \in 0 .. k - 1 : s[l + 1] \in Lv!Blanks
      BY <2>2, LevelSkipEnd
    <3> HIDE DEF k
    <3>2. k > 0 => s[0 + 1] \in Lv!Blanks
      BY <1>1, <3>1
    <3>3. QED
      BY <1>1, <2>1, <3>1, <3>2
  <2>4. e = Len(s)
    <3>1. e \in 0 .. Len(s) /\ (e < Len(s) => s[e + 1] \notin Lv!Digits)
      BY <2>2, LevelSkipEnd
    <3> HIDE DEF e
    <3>2. QED
      BY <1>1, <3>1
  <2>5. SubSeq(s, 0 + 1, Len(s)) = s
    BY Starts
  <2>6. Lv!Signed(s) = LET hasSign == k < Len(s) /\ s[k + 1] \in {"+", "-"}
                           first == IF hasSign THEN k + 1 ELSE k
                       IN  [sign |-> IF hasSign /\ s[k + 1] = "-" THEN -1 ELSE 1,
                            digits |-> SubSeq(s, first + 1, Lv!Skip(s, first, Lv!Digits))]
    BY DEF Lv!Signed
  <2> HIDE DEF k
  <2>7. ~(k < Len(s) /\ s[k + 1] \in {"+", "-"})
    BY <2>1, <2>3
  <2>8. Lv!Signed(s) = [sign |-> 1, digits |-> SubSeq(s, k + 1, Lv!Skip(s, k, Lv!Digits))]
    BY ONLY <2>6, <2>7
  <2>9. QED
    BY ONLY <2>3, <2>4, <2>5, <2>8
<1>3. Lv!Signed(<<"-">> \o s) = [sign |-> -1, digits |-> s]
  <2> DEFINE T == Lv!Digits \union {"-"}
             str == <<"-">> \o s
             k == Lv!Skip(str, 0, Lv!Blanks)
             e == Lv!Skip(str, 1, Lv!Digits)
  <2>1. /\ str \in Seq(T) /\ Len(str) = Len(s) + 1 /\ str[1] = "-"
        /\ \A l \in 1 .. Len(s) : str[l + 1] = s[l]
    BY <1>1
  <2>10. Lv!Signed(str) = LET hasSign == k < Len(str) /\ str[k + 1] \in {"+", "-"}
                              first == IF hasSign THEN k + 1 ELSE k
                          IN  [sign |-> IF hasSign /\ str[k + 1] = "-" THEN -1 ELSE 1,
                               digits |-> SubSeq(str, first + 1, Lv!Skip(str, first, Lv!Digits))]
    BY DEF Lv!Signed
  <2> HIDE DEF T, str
  <2>2. 0 \in 0 .. Len(str) /\ 1 \in 0 .. Len(str) /\ 0 < Len(str)
    BY <1>1, <2>1
  <2>3. k = 0
    <3>1. k \in 0 .. Len(str) /\ \A l \in 0 .. k - 1 : str[l + 1] \in Lv!Blanks
      BY <2>1, <2>2, LevelSkipEnd
    <3> HIDE DEF k
    <3>2. k > 0 => str[0 + 1] \in Lv!Blanks
      BY <2>2, <3>1
    <3>3. str[1] \notin Lv!Blanks
      BY <2>1, Apart
    <3>4. QED
      BY <2>2, <3>1, <3>2, <3>3
  <2>4. e = Len(str)
    <3>1. e \in 1 .. Len(str) /\ (e < Len(str) => str[e + 1] \notin Lv!Digits)
      BY <2>1, <2>2, LevelSkipEnd
    <3> HIDE DEF e
    <3>2. ASSUME e < Len(str) PROVE FALSE
      <4>1. e \in 1 .. Len(s)
        BY <1>1, <2>1, <3>1, <3>2
      <4>2. str[e + 1] \in Lv!Digits
        BY <1>1, <2>1, <4>1
      <4>3. QED
        BY <3>1, <3>2, <4>2
    <3>3. QED
      BY <1>1, <2>1, <3>1, <3>2
  <2> DEFINE p == SubSeq(str, 2, Len(str))
  <2>5. p = s
    <3>1. p = [l \in 1 .. Len(s) |-> str[l + 1]]
      BY <1>1, <2>1
    <3>2. p = [l \in 1 .. Len(s) |-> s[l]]
      BY <2>1, <3>1
    <3>3. s = [l \in 1 .. Len(s) |-> s[l]]
      OBVIOUS
    <3>4. QED
      BY <3>2, <3>3
  <2> HIDE DEF k, e
  <2>6. k < Len(str) /\ str[k + 1] = "-"
    BY <2>1, <2>2, <2>3
  <2>7. Lv!Signed(str) = [sign |-> -1, digits |-> SubSeq(str, (k + 1) + 1, Lv!Skip(str, k + 1, Lv!Digits))]
    BY ONLY <2>10, <2>6
  <2>8. (k + 1) + 1 = 2 /\ k + 1 = 1
    BY <2>3
  <2>9. QED
    BY ONLY <2>4, <2>5, <2>7, <2>8 DEF e, str
<1>4. QED
  BY <1>2, <1>3

\* The level written is read back as it was.
LEMMA LevelReadBack ==
  ASSUME Lv!Parameters, NEW n \in Lv!CInt
  PROVE  /\ Lv!FtItoa(n) \in Seq(Lv!Char)
         /\ Lv!Written(Lv!FtItoa(n)) = n /\ Lv!FtAtoi(Lv!FtItoa(n)) = n
<1>1. PICK F : ReadBy(F)
  BY Reader
<1> DEFINE text == Lv!FtItoa(n)
           size == IF n < 0 THEN -n ELSE n
           sg == IF n < 0 THEN -1 ELSE 1
           ds == Lv!Decimal[size]
<1>2. n \in Int /\ size \in 0 .. IntMax + 1 /\ sg * size = n /\ sg \in {1, -1}
  BY DEF Lv!CInt, Lv!Parameters
<1>3. ds \in Seq(Lv!Digits) /\ ds # <<>> /\ F[ds] = size
  BY <1>1, <1>2, DecimalRead
<1>4. text = IF n < 0 THEN <<"-">> \o ds ELSE ds
  BY DEF Lv!FtItoa
<1> HIDE DEF text, ds
<1>5. Lv!Signed(text) = [sign |-> sg, digits |-> ds]
  <2>1. Lv!Signed(ds) = [sign |-> 1, digits |-> ds] /\ Lv!Signed(<<"-">> \o ds) = [sign |-> -1, digits |-> ds]
    BY <1>3, SignedDigits
  <2>2. QED
    BY <1>4, <2>1
<1>6. text \in Seq(Lv!Char)
  <2>1. Lv!Digits \subseteq Lv!Char /\ "-" \in Lv!Char
    BY DEF Lv!Char
  <2>2. ds \in Seq(Lv!Char) /\ <<"-">> \in Seq(Lv!Char)
    BY <1>3, <2>1
  <2>3. QED
    BY <1>4, <2>2
<1> HIDE DEF sg, size
<1>7. Lv!Signed(text).sign = sg /\ Lv!Signed(text).digits = ds
  BY <1>5
<1>8. /\ Lv!Written(text) = Lv!Signed(text).sign * F[Lv!Signed(text).digits]
      /\ Lv!FtAtoi(text) = Lv!Wrap(Lv!Written(text))
  BY <1>1, <1>2, <1>3, <1>7, ReadAs
<1>9. Lv!Written(text) = n
  BY <1>2, <1>3, <1>7, <1>8
<1>10. Lv!Wrap(n) = n
  BY <1>2, WrapOver
<1>11. QED
  BY <1>6, <1>8, <1>9, <1>10 DEF text

\* The last element, and the ones before it.
LEMMA LastFront ==
  ASSUME NEW T, NEW s \in Seq(T), s # <<>>
  PROVE  /\ Len(s) \in Nat \ {0} /\ Lv!Last(s) \in T
         /\ Lv!Front(s) \in Seq(T) /\ Len(Lv!Front(s)) = Len(s) - 1
<1>1. Len(s) \in Nat \ {0} /\ \A k \in 1 .. Len(s) : s[k] \in T
  OBVIOUS
<1>2. Lv!Last(s) \in T
  BY <1>1 DEF Lv!Last
<1>3. Lv!Front(s) = [k \in 1 .. Len(s) - 1 |-> s[k]]
  BY <1>1 DEF Lv!Front
<1>4. QED
  BY <1>1, <1>2, <1>3

\* The last element is the one appended.
LEMMA AppendLast ==
  ASSUME NEW T, NEW s \in Seq(T), NEW c \in T
  PROVE  /\ Append(s, c) \in Seq(T) /\ Append(s, c) # <<>>
         /\ Len(Append(s, c)) = Len(s) + 1 /\ Lv!Last(Append(s, c)) = c
  BY DEF Lv!Last

\* The number init_shlvl makes of the one it reads.
LEMMA NextNumber ==
  ASSUME Lv!Parameters, NEW before \in Int, NEW new, new = Lv!Incremented(Lv!Wrap(before))
  PROVE  /\ new \in Lv!CInt
         /\ -IntMax <= before /\ before < 0 => new = 1
         /\ 0 <= before /\ before < IntMax => new = before + 1
         /\ before = IntMax => new = -IntMax - 1
         /\ new = 1 \/ (new - before - 1) % (2 * (IntMax + 1)) = 0
<1> DEFINE w == Lv!Wrap(before)
           up == (IF w < 0 THEN 0 ELSE w) + 1
<1>1. IntMax \in Nat /\ IntMax >= 9 /\ Lv!CInt = -IntMax - 1 .. IntMax /\ Width \in Nat \ {0}
      /\ Width = 2 * (IntMax + 1)
  BY DEF Lv!Parameters, Lv!CInt, Width
<1>2. w \in Lv!CInt /\ w \in Int /\ (before \in Lv!CInt => w = before)
  BY WrapIs, WrapOver
<1>3. PICK q \in Int : before = w + q * Width
  BY WrapIs
<1>4. new = Lv!Wrap(up)
  BY DEF Lv!Incremented
<1> HIDE DEF w
<1>5. up \in Int
  BY <1>2
<1> HIDE DEF up
<1>6. new \in Lv!CInt /\ new \in Int /\ (up \in Lv!CInt => new = up)
  <2>1. Lv!Wrap(up) \in Lv!CInt /\ Lv!CInt \subseteq Int
    BY <1>5, WrapIs
  <2>2. up \in Lv!CInt => Lv!Wrap(up) = up
    BY ONLY Lv!Parameters, <1>5, WrapOver
  <2>3. QED
    BY <1>4, <2>1, <2>2
<1> USE DEF up
<1>7. -IntMax <= before /\ before < 0 => new = 1
  BY <1>1, <1>2, <1>6
<1>8. 0 <= before /\ before < IntMax => new = before + 1
  BY <1>1, <1>2, <1>6
<1>9. ASSUME before = IntMax PROVE new = -IntMax - 1
  <2>1. up = IntMax + 1
    BY <1>1, <1>2, <1>9
  <2>2. -IntMax - 1 \in Lv!CInt /\ 1 \in Int
    BY <1>1
  <2>3. IntMax + 1 = (-IntMax - 1) + 1 * Width
    BY <1>1
  <2>4. IntMax + 1 \in Int
    BY <1>1
  <2>5. Lv!Wrap(IntMax + 1) = -IntMax - 1
    BY <2>2, <2>3, <2>4, WrapIs
  <2>6. QED
    BY <1>4, <2>1, <2>5
<1>10. new = 1 \/ (new - before - 1) % Width = 0
  <2>1. CASE w < 0
    <3>1. up = 1
      BY <2>1
    <3>2. QED
      BY <1>1, <1>6, <3>1
  <2>2. CASE ~(w < 0)
    <3>1. up = w + 1
      BY <2>2
    <3>2. PICK r \in Int : up = new + r * Width
      BY <1>4, <1>5, WrapIs
    <3> DEFINE x == q * Width
               y == r * Width
               z == (0 - q - r) * Width
    <3>3. x \in Int /\ y \in Int /\ z = 0 - x - y /\ before = w + x /\ w + 1 = new + y
      BY <1>1, <1>3, <3>1, <3>2
    <3>4. 0 - q - r \in Int
      OBVIOUS
    <3> DEFINE a == new - before - 1
    <3>5. a \in Int /\ a = 0 + z
      <4> HIDE DEF x, y, z
      <4>1. QED
        BY <1>2, <1>6, <3>3
    <3> HIDE DEF a
    <3>6. a = 0 + (0 - q - r) * Width
      BY <3>5
    <3>7. 0 \in 0 .. Width - 1
      BY <1>1
    <3> DEFINE k == 0 - q - r
    <3> HIDE DEF k
    <3>10. k \in Int /\ a = 0 + k * Width
      BY <3>4, <3>6 DEF k
    <3>11. a \in Int /\ Width \in Nat \ {0}
      BY <1>1, <3>5
    <3>8. a % Width = 0
      BY ONLY <3>7, <3>10, <3>11, Modulo
    <3>9. QED
      BY <3>8 DEF a
  <2>3. QED
    BY <2>1, <2>2
<1>11. QED
  BY <1>1, <1>6, <1>7, <1>8, <1>9, <1>10

\* The number in the next shell, by the SHLVL it is started with.
LEMMA LevelRead ==
  ASSUME Lv!Parameters, NEW t \in Seq(Lv!Char) \union {NULL}, NEW new,
         new = IF t = NULL THEN 1 ELSE Lv!Incremented(Lv!FtAtoi(t)),
         NEW before, before = IF t = NULL THEN 0 ELSE Lv!Written(t)
  PROVE  /\ new \in Lv!CInt
         /\ -IntMax <= before /\ before < 0 => new = 1
         /\ 0 <= before /\ before < IntMax => new = before + 1
         /\ before = IntMax => new = -IntMax - 1
         /\ new = 1 \/ (new - before - 1) % (2 * (IntMax + 1)) = 0
<1>1. CASE t = NULL
  BY <1>1 DEF Lv!Parameters, Lv!CInt
<1>2. CASE t # NULL
  <2>1. t \in Seq(Lv!Char) /\ before = Lv!Written(t) /\ new = Lv!Incremented(Lv!FtAtoi(t))
    BY <1>2
  <2>2. PICK F : ReadBy(F)
    BY Reader
  <2>3. Lv!FtAtoi(t) = Lv!Wrap(before) /\ before \in Int
    BY <2>1, <2>2, SignedIs, ReadAs
  <2>4. new = Lv!Incremented(Lv!Wrap(before))
    BY <2>1, <2>3
  <2>5. QED
    BY <2>3, <2>4, NextNumber
<1>3. QED
  BY <1>1, <1>2

\* The shell started from outside.
LEMMA LevelInit ==
  ASSUME Lv!Parameters, Lv!Init
  PROVE  Lv!TypeOK
<1>1. PICK t \in Texts : number = IF t = NULL THEN 1 ELSE Lv!Incremented(Lv!FtAtoi(t))
  BY DEF Lv!Init
<1>2. levels = <<Lv!FtItoa(number)>>
  BY DEF Lv!Init
<1>3. number \in Lv!CInt
  <2>1. t \in Seq(Lv!Char) \union {NULL}
    BY DEF Lv!Parameters
  <2>2. QED
    BY <1>1, <2>1, LevelRead
<1>4. Lv!FtItoa(number) \in Seq(Lv!Char)
  BY <1>3, LevelReadBack
<1>5. levels \in Seq(Seq(Lv!Char) \union {NULL}) /\ levels # <<>>
  BY <1>2, <1>4
<1>6. QED
  BY <1>3, <1>5 DEF Lv!TypeOK

\* Every step of the shells keeps the types, and the next level is the next
\* number.
LEMMA LevelStep ==
  ASSUME Lv!Parameters, Lv!TypeOK, Lv!Next
  PROVE  Lv!TypeOK' /\ Lv!NextLevelStep
<1> DEFINE Lines == Seq(Lv!Char) \union {NULL}
<1>1. levels \in Seq(Lines) /\ levels # <<>> /\ number \in Lv!CInt
  BY DEF Lv!TypeOK
<1>2. Len(levels) \in Nat \ {0} /\ Lv!Last(levels) \in Lines /\ Lv!Front(levels) \in Seq(Lines)
      /\ Len(Lv!Front(levels)) = Len(levels) - 1
  BY <1>1, LastFront
<1>3. ASSUME Lv!InitShlvl PROVE Lv!TypeOK' /\ Lv!NextLevelStep
  <2> DEFINE new == number'
             text == Lv!FtItoa(new)
             before == IF Lv!Last(levels) = NULL THEN 0 ELSE Lv!Written(Lv!Last(levels))
  <2>1. new = IF Lv!Last(levels) = NULL THEN 1 ELSE Lv!Incremented(Lv!FtAtoi(Lv!Last(levels)))
    BY <1>3 DEF Lv!InitShlvl
  <2>2. levels' = Append(levels, text)
    BY <1>3 DEF Lv!InitShlvl
  <2>3. /\ new \in Lv!CInt
        /\ -IntMax <= before /\ before < 0 => new = 1
        /\ 0 <= before /\ before < IntMax => new = before + 1
        /\ before = IntMax => new = -IntMax - 1
        /\ new = 1 \/ (new - before - 1) % (2 * (IntMax + 1)) = 0
    <3> DEFINE t == Lv!Last(levels)
    <3>1. t \in Seq(Lv!Char) \union {NULL}
      BY <1>2
    <3>2. new = IF t = NULL THEN 1 ELSE Lv!Incremented(Lv!FtAtoi(t))
      BY <2>1
    <3>3. before = IF t = NULL THEN 0 ELSE Lv!Written(t)
      OBVIOUS
    <3> HIDE DEF t, new, before
    <3>4. QED
      BY ONLY Lv!Parameters, <3>1, <3>2, <3>3, LevelRead
  <2> HIDE DEF new, before
  <2>4. text \in Seq(Lv!Char) /\ Lv!Written(text) = new /\ Lv!FtAtoi(text) = new
    BY <2>3, LevelReadBack
  <2> HIDE DEF text
  <2>5. text \in Lines
    BY <2>4
  <2>6. levels' \in Seq(Lines) /\ levels' # <<>> /\ Lv!Last(levels') = text
    BY <1>1, <2>2, <2>5, AppendLast
  <2>7. Lv!TypeOK'
    BY <2>3, <2>6 DEF Lv!TypeOK, new
  <2>8. Lv!NextLevelStep
    BY <2>3, <2>4, <2>6 DEF Lv!NextLevelStep, new, before
  <2>9. QED
    BY <2>7, <2>8
<1>4. ASSUME Lv!SetShlvl PROVE Lv!TypeOK' /\ Lv!NextLevelStep
  <2>1. PICK t \in Texts : levels' = Append(Lv!Front(levels), t) /\ number' = number
    BY <1>4 DEF Lv!SetShlvl
  <2>2. t \in Lines
    BY DEF Lv!Parameters
  <2> HIDE DEF Lines
  <2>3. levels' \in Seq(Lines) /\ levels' # <<>> /\ Len(levels') = Len(levels)
    BY <1>2, <2>1, <2>2, AppendLast
  <2>4. Lv!TypeOK'
    BY <1>1, <2>1, <2>3 DEF Lv!TypeOK, Lines
  <2>5. ~(Len(levels') > Len(levels))
    BY <1>2, <2>3
  <2>6. QED
    BY <2>4, <2>5 DEF Lv!NextLevelStep
<1>5. ASSUME Lv!Leave PROVE Lv!TypeOK' /\ Lv!NextLevelStep
  <2>1. Len(levels) > 1 /\ levels' = Lv!Front(levels) /\ number' = number
    BY <1>5 DEF Lv!Leave
  <2> HIDE DEF Lines
  <2>2. levels' \in Seq(Lines) /\ levels' # <<>> /\ ~(Len(levels') > Len(levels))
    BY <1>2, <2>1
  <2>3. Lv!TypeOK'
    BY <1>1, <2>1, <2>2 DEF Lv!TypeOK, Lines
  <2>4. QED
    BY <2>2, <2>3 DEF Lv!NextLevelStep
<1>6. QED
  BY <1>3, <1>4, <1>5 DEF Lv!Next

----------------------------------------------------------------------------
(* Command: one part at work, the others at rest.                          *)

CommandInv ==
  /\ command = "program" => SearchInv /\ LookedInv
  /\ command # "program" => NoSearch
  /\ command = "exit" => ExitInv
  /\ command = "export" => ListingInv
  /\ command = "minishell" => Lv!TypeOK
  /\ command = "<<" => ContentInv

\* The search's two invariants hold at first.
LEMMA SearchInit == Init => SearchInv /\ LookedInv
<1>1. Init => SearchInv
  BY TypesInit DEF SearchInv, Init, Reaches, NotPassed
<1>2. Init => LookedInv
  BY DEF Init, LookedInv, FoundInv, MissingInv, NotFoundMeansMissing, CannotRunMeansPresent
<1>3. QED
  BY <1>1, <1>2

\* Each step keeps both.
LEMMA SearchNext == SearchInv /\ LookedInv /\ [Next]_vars => (SearchInv /\ LookedInv)'
  BY TypesNext, ReachesNext, LookedNext DEF SearchInv

\* Whatever part begins, its invariant holds.
LEMMA CommandInvInit == CommandInit => CommandInv
  BY ShellLevelParameters, SearchInit, ExitInit, ListingInit, LevelInit, ContentInit
     DEF CommandInit, CommandInv

\* The part at work keeps its invariant, and the others do not move.
LEMMA CommandInvNext == CommandInv /\ [CommandNext]_commandVars => CommandInv'
<1> SUFFICES ASSUME CommandInv, [CommandNext]_commandVars PROVE CommandInv'
  OBVIOUS
<1>1. ASSUME UNCHANGED vars PROVE NoSearch => NoSearch'
  BY <1>1 DEF NoSearch, vars, input, world, result
<1>2. CASE Program
  <2>1. command = "program" /\ command' = command /\ Next
    BY <1>2 DEF Program
  <2>2. (SearchInv /\ LookedInv)'
    BY <2>1, SearchNext DEF CommandInv
  <2>3. QED
    BY <2>1, <2>2 DEF CommandInv
<1>3. CASE BuiltinExit
  <2>1. command = "exit" /\ command' = command /\ Ex!Next /\ UNCHANGED vars
    BY <1>3 DEF BuiltinExit
  <2>2. ExitInv'
    BY <2>1, ExitNext DEF CommandInv
  <2>3. QED
    BY <1>1, <2>1, <2>2 DEF CommandInv
<1>4. CASE ExportOnl
  <2>1. command = "export" /\ command' = command /\ Li!Next /\ UNCHANGED vars
    BY <1>4 DEF ExportOnl
  <2>2. ListingInv'
    BY <2>1, ListingNext DEF CommandInv
  <2>3. QED
    BY <1>1, <2>1, <2>2 DEF CommandInv
<1>5. CASE NestedShell
  <2>1. command = "minishell" /\ command' = command /\ Lv!Next /\ UNCHANGED vars
    BY <1>5 DEF NestedShell
  <2>2. Lv!TypeOK'
    BY <2>1, LevelStep, ShellLevelParameters DEF CommandInv
  <2>3. QED
    BY <1>1, <2>1, <2>2 DEF CommandInv
<1>6. CASE ExpandHeredocContent
  <2>1. command = "<<" /\ command' = command /\ Hd!Next /\ UNCHANGED vars
    BY <1>6 DEF ExpandHeredocContent
  <2>2. ContentInv'
    BY <2>1, ContentNext DEF CommandInv
  <2>3. QED
    BY <1>1, <2>1, <2>2 DEF CommandInv
<1>7. CASE UNCHANGED commandVars
  <2>1. UNCHANGED <<vars, command, exitVars, listingVars, levelVars, contentVars>>
    BY <1>7 DEF commandVars
  <2>2. UNCHANGED Ex!vars /\ UNCHANGED Li!vars /\ UNCHANGED Hd!vars
    BY <2>1 DEF exitVars, listingVars, contentVars, Ex!vars, Li!vars, Hd!vars
  <2>3. (SearchInv /\ LookedInv => (SearchInv /\ LookedInv)') /\ (ExitInv => ExitInv')
    BY <2>1, <2>2, SearchNext, ExitNext
  <2>4. (ListingInv => ListingInv') /\ (ContentInv => ContentInv')
    BY <2>2, ListingNext, ContentNext
  <2>5. command' = command
    BY <2>1
  <2>7. Lv!TypeOK => Lv!TypeOK'
    BY <2>1 DEF levelVars, Lv!TypeOK
  <2>6. QED
    BY <1>1, <2>1, <2>3, <2>4, <2>5, <2>7 DEF CommandInv
<1>8. QED
  BY <1>2, <1>3, <1>4, <1>5, <1>6, <1>7 DEF CommandNext

\* So it holds in every state.
LEMMA CommandInvAlways == CommandSpec => []CommandInv
  BY CommandInvInit, CommandInvNext, PTL DEF CommandSpec

\* The child always is where its variables make sense, and it is done exactly
\* when it has become a program or left a status, never both.
THEOREM TypeCorrect == CommandSpec => [](command = "program" => TypeOK)
<1>1. CommandInv => (command = "program" => TypeOK)
  BY DEF CommandInv, SearchInv
<1>2. QED
  BY <1>1, CommandInvAlways, PTL

\* A program nobody touches, behind nothing that could be executed, is run: in
\* a PATH of any length, whatever happens to all other files meanwhile.
THEOREM SteadyProgramIsRun == CommandSpec => []SteadyProgramRuns
<1>1. CommandInv => SteadyProgramRuns
  <2>1. CASE command = "program"
    BY <2>1 DEF CommandInv, SearchInv, Reaches, NotPassed, Reachable, SteadyProgramRuns
  <2>2. CASE command # "program"
    BY <2>2 DEF CommandInv, NoSearch, SteadyProgramRuns, SearchesPath
  <2>3. QED
    BY <2>1, <2>2
<1>2. QED
  BY <1>1, CommandInvAlways, PTL

\* A status of 127 or 126 says of the files what it should, but of those others
\* changed meanwhile: in a PATH of any length.
THEOREM StatusIsTrue == CommandSpec => []StatusTellsWhy
<1>1. CommandInv => StatusTellsWhy
  <2>1. CASE command = "program"
    BY <2>1 DEF CommandInv, LookedInv, StatusTellsWhy, NotFoundMeansMissing, CannotRunMeansPresent,
       Missing
  <2>2. CASE command # "program"
    BY <2>2 DEF CommandInv, NoSearch, StatusTellsWhy, SearchesPath
  <2>3. QED
    BY <2>1, <2>2
<1>2. QED
  BY <1>1, CommandInvAlways, PTL

\* exit, for every argument and every width whose largest value ends in 7: what
\* is accepted is what is a number, and the status is the number modulo 256,
\* or 2, or that of the line before; and when it returns instead of leaving.
THEOREM ExitStatus == CommandSpec => []ExitLeavesNumber
<1>1. CommandInv => ExitLeavesNumber
  BY DEF CommandInv, ExitInv, ExitLeavesNumber
<1>2. QED
  BY <1>1, CommandInvAlways, PTL

\* export without arguments, for every environment whose nodes have names of
\* their own: each is declared once, as it is, and in the order of the strings.
THEOREM ExportListsAll == CommandSpec => []EnvironmentListed
<1>1. CommandInv => EnvironmentListed
  BY Declares, InOrder DEF CommandInv, ListingInv, EnvironmentListed
<1>2. QED
  BY <1>1, CommandInvAlways, PTL

\* A here-document's body, of any length, however read cuts it and whatever a
\* buffer holds, for every expansion of a line: while no call fails nothing of
\* it is lost, doubled or out of order, in any state; and what each failing
\* call leaves of it is what the command reads.
THEOREM BodiesExpanded == CommandSpec => []BodyExpanded
<1>1. CommandInv => BodyExpanded
  BY ContentRight DEF CommandInv, BodyExpanded
<1>2. QED
  BY <1>1, CommandInvAlways, PTL

\* A shell within a shell, for every width of int and every text SHLVL may be
\* given: its level is the next one, but at the limits, and what is written is
\* read back as it was.
THEOREM NextLevels == CommandSpec => NextLevel
<1>1. CommandInv /\ [CommandNext]_commandVars => [command = "minishell" => Lv!NextLevelStep]_commandVars
  <2> SUFFICES ASSUME CommandInv, CommandNext, command = "minishell" PROVE Lv!NextLevelStep
    OBVIOUS
  <2>1. Lv!Next /\ Lv!TypeOK
    BY DEF CommandInv, CommandNext, Program, BuiltinExit, ExportOnl, NestedShell, ExpandHeredocContent
  <2>2. QED
    BY <2>1, LevelStep, ShellLevelParameters
<1>2. QED
  BY <1>1, CommandInvAlways, PTL DEF CommandSpec, NextLevel

----------------------------------------------------------------------------
(* cd.                                                                     *)

\* What is so of Root, and of a directory if of its parent, is so of all.
LEMMA BelowRoot ==
  ASSUME NEW S \in SUBSET Directories, Root \in S, \A d \in Directories : Parent[d] \in S => d \in S
  PROVE  S = Directories
  BY DirsAssumption DEF Tree

\* A directory but Root is not its own parent.
LEMMA ParentElse == ASSUME NEW d \in Directories, d # Root PROVE Parent[d] # d
<1> SUFFICES ASSUME Parent[d] = d PROVE FALSE
  OBVIOUS
<1> DEFINE S == Directories \ {d}
<1>1. Root \in S /\ \A e \in Directories : Parent[e] \in S => e \in S
  BY DirsAssumption
<1> HIDE DEF S
<1>2. S = Directories
  <2>1. S \in SUBSET Directories
    BY DEF S
  <2>2. QED
    BY <1>1, <2>1, BelowRoot
<1>3. QED
  BY <1>2 DEF S

\* Every directory has a path.
LEMMA HasPath ==
  /\ PathTo = [d \in Directories |-> IF d = Root THEN <<>> ELSE Append(PathTo[Parent[d]], Name[d])]
  /\ \A d \in Directories : PathTo[d] \in Seq({Name[e] : e \in Directories})
<1> DEFINE V == Seq({Name[e] : e \in Directories})
           Is(f) == f = [d \in Directories |-> IF d = Root THEN <<>> ELSE Append(f[Parent[d]], Name[d])]
           Part(A, f) == /\ A \in SUBSET Directories /\ Root \in A /\ (\A d \in A : Parent[d] \in A)
                         /\ f \in [A -> V] /\ f[Root] = <<>>
                         /\ \A d \in A : d # Root => f[d] = Append(f[Parent[d]], Name[d])
           Found == {d \in Directories : \E A, f : Part(A, f) /\ d \in A}
<1>0. /\ \A d \in Directories : Parent[d] \in Directories /\ Name[d] \in {Name[e] : e \in Directories}
      /\ Root \in Directories /\ Parent[Root] = Root
  BY DirsAssumption
<1>1. <<>> \in V /\ \A p \in V, d \in Directories : Append(p, Name[d]) \in V
  BY <1>0
<1> HIDE DEF V
<1>2. Root \in Found
  <2>1. Part({Root}, [d \in {Root} |-> <<>>])
    BY <1>0, <1>1
  <2> HIDE DEF Part
  <2>2. QED
    BY <1>0, <2>1
<1>3. ASSUME NEW d \in Directories, Parent[d] \in Found PROVE d \in Found
  <2>1. PICK A, f : Part(A, f) /\ Parent[d] \in A
    BY <1>3
  <2>2. CASE d \in A
    <3> HIDE DEF Part
    <3>1. QED
      BY <2>1, <2>2
  <2>3. CASE d \notin A
    <3> DEFINE B == A \union {d}
               g == [e \in B |-> IF e = d THEN Append(f[Parent[d]], Name[d]) ELSE f[e]]
    <3>1. B \in SUBSET Directories /\ Root \in B /\ d # Root /\ \A e \in B : Parent[e] \in B
      BY <2>1, <2>3
    <3>2. g \in [B -> V] /\ g[d] = Append(f[Parent[d]], Name[d]) /\ \A e \in A : g[e] = f[e]
      BY <1>1, <2>1, <2>3
    <3> HIDE DEF B, g
    <3>3. \A e \in B : e # Root => g[e] = Append(g[Parent[e]], Name[e])
      <4> SUFFICES ASSUME NEW e \in B, e # Root PROVE g[e] = Append(g[Parent[e]], Name[e])
        OBVIOUS
      <4>1. CASE e = d
        BY <2>1, <3>2, <4>1
      <4>2. CASE e # d
        <5>1. e \in A /\ Parent[e] \in A
          BY <2>1, <4>2 DEF B
        <5>2. QED
          BY <2>1, <3>2, <5>1
      <4>3. QED
        BY <4>1, <4>2
    <3>4. g[Root] = <<>>
      BY <2>1, <3>2
    <3>5. Part(B, g)
      BY <3>1, <3>2, <3>3, <3>4
    <3>6. d \in B
      BY DEF B
    <3> HIDE DEF Part
    <3>7. QED
      BY <3>5, <3>6
  <2>4. QED
    BY <2>2, <2>3
<1>4. Found = Directories
  <2>1. Found \in SUBSET Directories
    OBVIOUS
  <2> HIDE DEF Found
  <2>2. QED
    BY <1>2, <1>3, <2>1, BelowRoot
<1>5. ASSUME NEW A, NEW f, NEW B, NEW g, Part(A, f), Part(B, g)
      PROVE  \A d \in A \cap B : f[d] = g[d]
  <2> DEFINE S == {d \in Directories : d \in A \cap B => f[d] = g[d]}
  <2>1. Root \in S
    BY <1>0, <1>5
  <2>2. ASSUME NEW d \in Directories, Parent[d] \in S PROVE d \in S
    BY <1>5, <2>2
  <2>3. S = Directories
    <3>1. S \in SUBSET Directories
      OBVIOUS
    <3> HIDE DEF S
    <3>2. QED
      BY <2>1, <2>2, <3>1, BelowRoot
  <2>4. A \in SUBSET Directories
    BY <1>5
  <2>5. QED
    BY <2>3, <2>4
<1> DEFINE Value(d) == CHOOSE p \in V : \E A, f : Part(A, f) /\ d \in A /\ p = f[d]
           h == [d \in Directories |-> Value(d)]
<1>6. ASSUME NEW A, NEW f, Part(A, f), NEW d \in A PROVE Value(d) = f[d] /\ f[d] \in V
  <2>1. f[d] \in V
    BY <1>6
  <2> HIDE DEF Part
  <2>2. Value(d) \in V /\ \E B, g : Part(B, g) /\ d \in B /\ Value(d) = g[d]
    BY <1>6, <2>1
  <2> HIDE DEF Value
  <2>3. PICK B, g : Part(B, g) /\ d \in B /\ Value(d) = g[d]
    BY <2>2
  <2>4. f[d] = g[d]
    BY <1>5, <1>6, <2>3
  <2>5. QED
    BY <2>1, <2>3, <2>4
<1> HIDE DEF Value
<1>7. ASSUME NEW d \in Directories
      PROVE  /\ Value(d) \in V
             /\ Value(d) = IF d = Root THEN <<>> ELSE Append(Value(Parent[d]), Name[d])
  <2>1. PICK A, f : Part(A, f) /\ d \in A
    BY <1>4
  <2>2. Parent[d] \in A /\ Root \in A /\ f[Root] = <<>>
        /\ (d # Root => f[d] = Append(f[Parent[d]], Name[d]))
    BY <2>1
  <2> HIDE DEF Part
  <2>3. Value(d) = f[d] /\ Value(d) \in V /\ Value(Parent[d]) = f[Parent[d]] /\ Value(Root) = f[Root]
    BY <1>6, <2>1, <2>2
  <2>4. QED
    BY <2>2, <2>3
<1>8. Is(h)
  <2>1. \A d \in Directories : h[d] = IF d = Root THEN <<>> ELSE Append(h[Parent[d]], Name[d])
    BY <1>0, <1>7
  <2>2. h = [d \in Directories |-> h[d]]
    OBVIOUS
  <2> HIDE DEF h
  <2>3. QED
    BY <2>1, <2>2
<1>9. Is(PathTo)
  <2>1. PathTo = CHOOSE f : Is(f)
    BY DEF PathTo
  <2> HIDE DEF Is
  <2>2. QED
    BY <1>8, <2>1
<1>10. \A d \in Directories : PathTo[d] \in V
  <2> DEFINE S == {d \in Directories : PathTo[d] \in V}
  <2>1. /\ PathTo[Root] = <<>>
        /\ \A d \in Directories : d # Root => PathTo[d] = Append(PathTo[Parent[d]], Name[d])
    BY <1>0, <1>9
  <2>2. Root \in S /\ \A d \in Directories : Parent[d] \in S => d \in S
    BY <1>0, <1>1, <2>1
  <2>3. S = Directories
    <3>1. S \in SUBSET Directories
      OBVIOUS
    <3> HIDE DEF S
    <3>2. QED
      BY <2>2, <3>1, BelowRoot
  <2>4. QED
    BY <2>3
<1>11. QED
  BY <1>9, <1>10 DEF V

\* Where a step in the tree may lead.
Spots == Directories \union {None}

\* A step leads to a directory or nowhere.
LEMMA SpotsEnter ==
  ASSUME NEW d \in Spots, NEW n PROVE EnterDir(d, n) \in Spots
<1> DEFINE inside == {e \in Directories \ {Root} : There(e) /\ Parent[e] = d /\ Name[e] = n}
<1>1. inside # {} => (CHOOSE e \in inside : TRUE) \in Directories
  OBVIOUS
<1>2. d # None => Parent[d] \in Directories
  BY DirsAssumption DEF Spots
<1> HIDE DEF inside
<1>3. EnterDir(d, n) = IF d = None THEN None
      ELSE CASE n = "." -> d
             [] n = ".." -> Parent[d]
             [] OTHER -> IF inside = {} THEN None ELSE CHOOSE e \in inside : TRUE
  BY DEF EnterDir, inside
<1>4. CASE d = None
  BY <1>3, <1>4 DEF Spots
<1>5. CASE d # None /\ n = "."
  BY <1>3, <1>5
<1>6. CASE d # None /\ n = ".."
  BY <1>2, <1>3, <1>6 DEF Spots
<1>7. CASE d # None /\ n # "." /\ n # ".."
  BY <1>1, <1>3, <1>7 DEF Spots
<1>8. QED
  BY <1>4, <1>5, <1>6, <1>7

\* Follow, one segment after the other.
LEMMA FollowOn ==
  /\ Follow(<<>>) = Root
  /\ \A t \in Seq(Segments) : Follow(t) \in Spots
  /\ \A t \in Seq(Segments), n \in Segments : Follow(Append(t, n)) = EnterDir(Follow(t), n)
<1> DEFINE step == [v \in Spots |-> [c \in Segments |-> EnterDir(v, c)]]
<1>1. step \in [Spots -> [Segments -> Spots]] /\ Root \in Spots
  BY SpotsEnter, DirsAssumption DEF Spots
<1>2. \A v \in Spots, c \in Segments : step[v][c] = EnterDir(v, c)
  OBVIOUS
<1> HIDE DEF step
<1>3. PICK F : LoopOver(Spots, Segments, Root, step, F)
  BY <1>1, Loops
<1>4. ASSUME NEW t \in Seq(Segments) PROVE Follow(t) = F[t]
  <2> DEFINE n == Len(t)
             Is(g) == g = [k \in 0 .. n |-> IF k = 0 THEN Root ELSE EnterDir(g[k - 1], t[k])]
             to == CHOOSE g : Is(g)
  <2>1. n \in Nat /\ \A k \in 1 .. n : t[k] \in Segments /\ k - 1 \in 0 .. n
    OBVIOUS
  <2>2. PICK f \in [0 .. n -> Spots] : f[0] = Root /\ \A k \in 1 .. n : f[k] = step[f[k - 1]][t[k]]
    BY <1>3 DEF LoopOver
  <2>3. Is(f)
    <3>1. ASSUME NEW k \in 0 .. n PROVE f[k] = IF k = 0 THEN Root ELSE EnterDir(f[k - 1], t[k])
      <4>1. CASE k = 0
        BY <2>2, <4>1
      <4>2. CASE k # 0
        <5>1. k \in 1 .. n
          BY <2>1, <4>2
        <5>2. QED
          BY <1>2, <2>1, <2>2, <4>2, <5>1
      <4>3. QED
        BY <4>1, <4>2
    <3>2. QED
      BY <3>1
  <2>4. Is(to)
    <3> HIDE DEF Is
    <3>1. QED
      BY <2>3
  <2>5. Follow(t) = to[n]
    BY DEF Follow
  <2> HIDE DEF to
  <2>6. to[0] = Root
    BY <2>1, <2>4
  <2>7. \A k \in 1 .. n : to[k - 1] \in Spots => to[k] = step[to[k - 1]][t[k]]
    <3> SUFFICES ASSUME NEW k \in 1 .. n, to[k - 1] \in Spots PROVE to[k] = step[to[k - 1]][t[k]]
      OBVIOUS
    <3>1. k \in 0 .. n /\ k # 0
      BY <2>1
    <3>2. to[k] = EnterDir(to[k - 1], t[k])
      BY <2>4, <3>1
    <3>3. QED
      BY <1>2, <2>1, <3>2
  <2>8. to[n] = F[t]
    BY <1>3, <2>6, <2>7 DEF LoopOver
  <2>9. QED
    BY <2>5, <2>8
<1>5. <<>> \in Seq(Segments) /\ \A t \in Seq(Segments), n \in Segments : Append(t, n) \in Seq(Segments)
  OBVIOUS
<1>6. Follow(<<>>) = Root
  BY <1>3, <1>4, <1>5 DEF LoopOver
<1>7. ASSUME NEW t \in Seq(Segments) PROVE Follow(t) \in Spots
  BY <1>3, <1>4 DEF LoopOver
<1>8. ASSUME NEW t \in Seq(Segments), NEW n \in Segments PROVE Follow(Append(t, n)) = EnterDir(Follow(t), n)
  <2>1. F[Append(t, n)] = step[F[t]][n] /\ F[t] \in Spots
    BY <1>3 DEF LoopOver
  <2>2. QED
    BY <1>2, <1>4, <1>5, <2>1
<1>9. QED
  BY <1>6, <1>7, <1>8

\* A step that follows links leads to a directory or nowhere.
LEMMA SpotsThroughLinks == ASSUME NEW d \in Spots, NEW n PROVE Enter(d, n) \in Spots
<1>1. n \in DOMAIN Links => Follow(Links[n]) \in Spots
  BY FollowOn, DirsAssumption DEF Path
<1>2. EnterDir(d, n) \in Spots
  BY SpotsEnter
<1>3. QED
  BY <1>1, <1>2 DEF Enter

\* Walk, one segment after the other.
LEMMA WalkOn ==
  ASSUME NEW d \in Spots
  PROVE  /\ Walk(d, <<>>) = d
         /\ \A t \in Seq(Segments) : Walk(d, t) \in Spots
         /\ \A t \in Seq(Segments), n \in Segments : Walk(d, Append(t, n)) = Enter(Walk(d, t), n)
<1> DEFINE step == [v \in Spots |-> [c \in Segments |-> Enter(v, c)]]
<1>1. step \in [Spots -> [Segments -> Spots]] /\ d \in Spots
  BY SpotsThroughLinks
<1>2. \A v \in Spots, c \in Segments : step[v][c] = Enter(v, c)
  OBVIOUS
<1> HIDE DEF step
<1>3. PICK F : LoopOver(Spots, Segments, d, step, F)
  BY <1>1, Loops
<1>4. ASSUME NEW t \in Seq(Segments) PROVE Walk(d, t) = F[t]
  <2> DEFINE n == Len(t)
             Is(g) == g = [k \in 0 .. n |-> IF k = 0 THEN d ELSE Enter(g[k - 1], t[k])]
             to == CHOOSE g : Is(g)
  <2>1. n \in Nat /\ \A k \in 1 .. n : t[k] \in Segments /\ k - 1 \in 0 .. n
    OBVIOUS
  <2>2. PICK f \in [0 .. n -> Spots] : f[0] = d /\ \A k \in 1 .. n : f[k] = step[f[k - 1]][t[k]]
    BY <1>3 DEF LoopOver
  <2>3. Is(f)
    <3>1. ASSUME NEW k \in 0 .. n PROVE f[k] = IF k = 0 THEN d ELSE Enter(f[k - 1], t[k])
      <4>1. CASE k = 0
        BY <2>2, <4>1
      <4>2. CASE k # 0
        <5>1. k \in 1 .. n
          BY <2>1, <4>2
        <5>2. QED
          BY <1>2, <2>1, <2>2, <4>2, <5>1
      <4>3. QED
        BY <4>1, <4>2
    <3>2. QED
      BY <3>1
  <2>4. Is(to)
    <3> HIDE DEF Is
    <3>1. QED
      BY <2>3
  <2>5. Walk(d, t) = to[n]
    BY DEF Walk
  <2> HIDE DEF to
  <2>6. to[0] = d
    BY <2>1, <2>4
  <2>7. \A k \in 1 .. n : to[k - 1] \in Spots => to[k] = step[to[k - 1]][t[k]]
    <3> SUFFICES ASSUME NEW k \in 1 .. n, to[k - 1] \in Spots PROVE to[k] = step[to[k - 1]][t[k]]
      OBVIOUS
    <3>1. k \in 0 .. n /\ k # 0
      BY <2>1
    <3>2. to[k] = Enter(to[k - 1], t[k])
      BY <2>4, <3>1
    <3>3. QED
      BY <1>2, <2>1, <3>2
  <2>8. to[n] = F[t]
    BY <1>3, <2>6, <2>7 DEF LoopOver
  <2>9. QED
    BY <2>5, <2>8
<1>5. <<>> \in Seq(Segments) /\ \A t \in Seq(Segments), n \in Segments : Append(t, n) \in Seq(Segments)
  OBVIOUS
<1>6. Walk(d, <<>>) = d
  BY <1>3, <1>4, <1>5 DEF LoopOver
<1>7. ASSUME NEW t \in Seq(Segments) PROVE Walk(d, t) \in Spots
  BY <1>3, <1>4 DEF LoopOver
<1>8. ASSUME NEW t \in Seq(Segments), NEW n \in Segments PROVE Walk(d, Append(t, n)) = Enter(Walk(d, t), n)
  <2>1. F[Append(t, n)] = step[F[t]][n] /\ F[t] \in Spots
    BY <1>3 DEF LoopOver
  <2>2. QED
    BY <1>2, <1>4, <1>5, <2>1
<1>9. QED
  BY <1>6, <1>7, <1>8

\* A segment pushed.
LEMMA PushTypes == ASSUME NEW p \in Seq(Segments), NEW c \in Segments PROVE Push(p, c) \in Seq(Segments)
<1>1. CASE c = ".."
  <2>1. p # <<>> => Front(p) \in Seq(Segments)
    BY SubSeqProperties DEF Front
  <2>2. QED
    BY <1>1, <2>1 DEF Push
<1>2. CASE c = "."
  BY <1>2 DEF Push
<1>3. CASE c # "." /\ c # ".."
  BY <1>3 DEF Push
<1>4. QED
  BY <1>1, <1>2, <1>3

\* Normalize, one segment after the other.
LEMMA NormalizeOn ==
  /\ Normalize(<<>>) = <<>>
  /\ \A t \in Seq(Segments) : Normalize(t) \in Seq(Segments)
  /\ \A t \in Seq(Segments), n \in Segments : Normalize(Append(t, n)) = Push(Normalize(t), n)
<1> DEFINE step == [v \in Seq(Segments) |-> [c \in Segments |-> Push(v, c)]]
<1>1. step \in [Seq(Segments) -> [Segments -> Seq(Segments)]] /\ <<>> \in Seq(Segments)
  BY PushTypes
<1>2. \A v \in Seq(Segments), c \in Segments : step[v][c] = Push(v, c)
  OBVIOUS
<1> HIDE DEF step
<1>3. PICK F : LoopOver(Seq(Segments), Segments, <<>>, step, F)
  BY <1>1, Loops
<1>4. ASSUME NEW t \in Seq(Segments) PROVE Normalize(t) = F[t]
  <2> DEFINE n == Len(t)
             Is(g) == g = [k \in 0 .. n |-> IF k = 0 THEN <<>> ELSE Push(g[k - 1], t[k])]
             stack == CHOOSE g : Is(g)
  <2>1. n \in Nat /\ \A k \in 1 .. n : t[k] \in Segments /\ k - 1 \in 0 .. n
    OBVIOUS
  <2>2. PICK f \in [0 .. n -> Seq(Segments)] : f[0] = <<>> /\ \A k \in 1 .. n : f[k] = step[f[k - 1]][t[k]]
    BY <1>3 DEF LoopOver
  <2>3. Is(f)
    <3>1. ASSUME NEW k \in 0 .. n PROVE f[k] = IF k = 0 THEN <<>> ELSE Push(f[k - 1], t[k])
      <4>1. CASE k = 0
        BY <2>2, <4>1
      <4>2. CASE k # 0
        <5>1. k \in 1 .. n
          BY <2>1, <4>2
        <5>2. QED
          BY <1>2, <2>1, <2>2, <4>2, <5>1
      <4>3. QED
        BY <4>1, <4>2
    <3>2. QED
      BY <3>1
  <2>4. Is(stack)
    <3> HIDE DEF Is
    <3>1. QED
      BY <2>3
  <2>5. Normalize(t) = stack[n]
    BY DEF Normalize
  <2> HIDE DEF stack
  <2>6. stack[0] = <<>>
    BY <2>1, <2>4
  <2>7. \A k \in 1 .. n : stack[k - 1] \in Seq(Segments) => stack[k] = step[stack[k - 1]][t[k]]
    <3> SUFFICES ASSUME NEW k \in 1 .. n, stack[k - 1] \in Seq(Segments) PROVE stack[k] = step[stack[k - 1]][t[k]]
      OBVIOUS
    <3>1. k \in 0 .. n /\ k # 0
      BY <2>1
    <3>2. stack[k] = Push(stack[k - 1], t[k])
      BY <2>4, <3>1
    <3>3. QED
      BY <1>2, <2>1, <3>2
  <2>8. stack[n] = F[t]
    BY <1>3, <2>6, <2>7 DEF LoopOver
  <2>9. QED
    BY <2>5, <2>8
<1>5. <<>> \in Seq(Segments) /\ \A t \in Seq(Segments), n \in Segments : Append(t, n) \in Seq(Segments)
  OBVIOUS
<1>6. Normalize(<<>>) = <<>>
  BY <1>3, <1>4, <1>5 DEF LoopOver
<1>7. ASSUME NEW t \in Seq(Segments) PROVE Normalize(t) \in Seq(Segments)
  BY <1>3, <1>4 DEF LoopOver
<1>8. ASSUME NEW t \in Seq(Segments), NEW n \in Segments PROVE Normalize(Append(t, n)) = Push(Normalize(t), n)
  <2>1. F[Append(t, n)] = step[F[t]][n] /\ F[t] \in Seq(Segments)
    BY <1>3 DEF LoopOver
  <2>2. QED
    BY <1>2, <1>4, <1>5, <2>1
<1>9. QED
  BY <1>6, <1>7, <1>8


\* The start and the end of a sequence.
LEMMA FrontAndLast ==
  ASSUME NEW T, NEW p \in Seq(T), p # <<>>
  PROVE  Front(p) \in Seq(T) /\ Last(p) \in T /\ p = Append(Front(p), Last(p))
<1> DEFINE n == Len(p)
<1>1. n \in 1 .. Len(p)
  BY EmptySeq
<1>2. Last(p) = p[n] /\ Front(p) = SubSeq(p, 1, n - 1)
  BY DEF Last, Front
<1>3. /\ SubSeq(p, 1, n - 1) \in Seq(T) /\ p[n] \in T
      /\ SubSeq(p, 1, n) = Append(SubSeq(p, 1, n - 1), p[n])
      /\ SubSeq(p, 1, n) = p
  <2> HIDE DEF n
  <2>1. /\ SubSeq(p, 1, n - 1) \in Seq(T) /\ p[n] \in T
        /\ SubSeq(p, 1, n) = Append(SubSeq(p, 1, n - 1), p[n])
    BY <1>1, Starts
  <2>2. SubSeq(p, 1, n) = p
    BY SubSeqFull DEF n
  <2>3. QED
    BY <2>1, <2>2
<1>4. QED
  BY <1>2, <1>3

\* The tree: whole, with no name twice in a directory, and with the shell in a
\* directory that was made.
TreeInv ==
  /\ There(Root)
  /\ \A d \in Directories : There(d) => There(Parent[d])
  /\ \A d \in Directories : disk[d] # "absent" => disk[Parent[d]] # "absent"
  /\ \A d, e \in Directories \ {Root} :
       There(d) /\ There(e) /\ Parent[d] = Parent[e] /\ Name[d] = Name[e] => d = e
  /\ disk[cwd] # "absent"

\* The steps that are not by a name.
LEMMA EnterDots ==
  ASSUME NEW d \in Directories
  PROVE  /\ EnterDir(d, ".") = d /\ EnterDir(d, "..") = Parent[d] /\ Parent[d] \in Directories
         /\ \A n : EnterDir(None, n) = None /\ Enter(None, n) = None
         /\ Enter(d, ".") = d /\ Enter(d, "..") = Parent[d]
<1>1. d # None /\ Root # None /\ Parent[d] \in Directories
  BY DirsAssumption
<1>2. EnterDir(d, ".") = d /\ EnterDir(d, "..") = Parent[d] /\ \A n : EnterDir(None, n) = None
  BY <1>1 DEF EnterDir
<1>3. "." \notin DOMAIN Links /\ ".." \notin DOMAIN Links
  BY DirsAssumption DEF Names
<1>4. QED
  BY <1>1, <1>2, <1>3 DEF Enter

\* A step by a name leads to the directory of that name.
LEMMA EnterName ==
  ASSUME TreeInv, NEW d \in Directories, NEW n, n # ".", n # ".."
  PROVE  \/ EnterDir(d, n) = None
         \/ \E e \in Directories \ {Root} :
              EnterDir(d, n) = e /\ There(e) /\ Parent[e] = d /\ Name[e] = n
<1> DEFINE inside == {e \in Directories \ {Root} : There(e) /\ Parent[e] = d /\ Name[e] = n}
<1>1. inside # {} => (CHOOSE e \in inside : TRUE) \in inside
  OBVIOUS
<1>2. d # None
  BY DirsAssumption
<1>3. EnterDir(d, n) = IF inside = {} THEN None ELSE CHOOSE e \in inside : TRUE
  BY <1>2 DEF EnterDir
<1>4. CASE inside = {}
  <2> HIDE DEF inside
  <2>1. QED
    BY <1>3, <1>4
<1>5. CASE inside # {}
  <2>1. EnterDir(d, n) \in inside
    <3> HIDE DEF inside
    <3>1. QED
      BY <1>1, <1>3, <1>5
  <2>2. QED
    BY <2>1
<1>6. QED
  BY <1>4, <1>5

\* A directory that is there is found by its name.
LEMMA EnterChild ==
  ASSUME TreeInv, NEW e \in Directories, e # Root, There(e)
  PROVE  /\ Parent[e] \in Directories /\ Name[e] \in Names /\ Name[e] \notin DOMAIN Links
         /\ EnterDir(Parent[e], Name[e]) = e /\ Enter(Parent[e], Name[e]) = e
<1> DEFINE d == Parent[e]
           n == Name[e]
           inside == {x \in Directories \ {Root} : There(x) /\ Parent[x] = d /\ Name[x] = n}
<1>1. d \in Directories /\ n \in Names /\ n # "." /\ n # ".." /\ d # None /\ n \notin DOMAIN Links
  BY DirsAssumption DEF Names
<1>2. inside = {e}
  <2>1. e \in inside
    OBVIOUS
  <2>2. \A x \in inside : x = e
    BY DEF TreeInv
  <2> HIDE DEF inside
  <2>3. QED
    BY <2>1, <2>2
<1>3. EnterDir(d, n) = IF inside = {} THEN None ELSE CHOOSE x \in inside : TRUE
  BY <1>1 DEF EnterDir
<1>4. EnterDir(d, n) = e
  <2> HIDE DEF inside
  <2>1. QED
    BY <1>2, <1>3
<1>5. QED
  BY <1>1, <1>4 DEF Enter

\* A step from a directory that is there leads to one that is, or nowhere.
LEMMA EnterThere ==
  ASSUME TreeInv, NEW d \in Directories, There(d), NEW n
  PROVE  EnterDir(d, n) = None \/ (EnterDir(d, n) \in Directories /\ There(EnterDir(d, n)))
<1>1. CASE n = "."
  BY <1>1, EnterDots
<1>2. CASE n = ".."
  <2>1. EnterDir(d, n) = Parent[d] /\ Parent[d] \in Directories
    BY <1>2, EnterDots
  <2>2. QED
    BY <2>1 DEF TreeInv
<1>3. CASE n # "." /\ n # ".."
  BY <1>3, EnterName
<1>4. QED
  BY <1>1, <1>2, <1>3

\* So does a link.
LEMMA FollowThere ==
  ASSUME TreeInv, NEW t \in Seq(Segments)
  PROVE  Follow(t) = None \/ (Follow(t) \in Directories /\ There(Follow(t)))
<1> DEFINE G == {s \in Seq(Segments) : Follow(s) = None \/ (Follow(s) \in Directories /\ There(Follow(s)))}
<1>1. <<>> \in G
  BY FollowOn, DirsAssumption, EmptySeq DEF TreeInv
<1>2. ASSUME NEW s \in G, NEW c \in Segments PROVE Append(s, c) \in G
  <2>1. Follow(Append(s, c)) = EnterDir(Follow(s), c) /\ Append(s, c) \in Seq(Segments)
    BY FollowOn
  <2>2. CASE Follow(s) = None
    BY <2>1, <2>2, EnterDots, DirsAssumption
  <2>3. CASE Follow(s) # None
    BY <2>1, <2>3, EnterThere
  <2>4. QED
    BY <2>2, <2>3
<1>3. G = Seq(Segments)
  <2>1. G \in SUBSET Seq(Segments)
    OBVIOUS
  <2> HIDE DEF G
  <2>2. QED
    BY <1>1, <1>2, <2>1, LongerSequences
<1>4. QED
  BY <1>3

\* And so does chdir, from a directory that is there.
LEMMA WalkThere ==
  ASSUME TreeInv, NEW d \in Directories, There(d), NEW t \in Seq(Segments)
  PROVE  Walk(d, t) = None \/ (Walk(d, t) \in Directories /\ There(Walk(d, t)))
<1> DEFINE G == {s \in Seq(Segments) : Walk(d, s) = None \/ (Walk(d, s) \in Directories /\ There(Walk(d, s)))}
<1>0. d \in Spots
  BY DEF Spots
<1>1. <<>> \in G
  BY <1>0, WalkOn, EmptySeq
<1>2. ASSUME NEW s \in G, NEW c \in Segments PROVE Append(s, c) \in G
  <2>1. Walk(d, Append(s, c)) = Enter(Walk(d, s), c) /\ Append(s, c) \in Seq(Segments)
    BY <1>0, WalkOn
  <2>2. CASE Walk(d, s) = None
    BY <2>1, <2>2, EnterDots, DirsAssumption
  <2>3. CASE Walk(d, s) # None
    <3>1. CASE Walk(d, s) = Root /\ c \in DOMAIN Links
      <4>1. Links[c] \in Seq(Segments)
        BY <3>1, DirsAssumption DEF Path
      <4>2. Walk(d, Append(s, c)) = Follow(Links[c])
        BY <2>1, <3>1 DEF Enter
      <4>3. QED
        BY <2>1, <4>1, <4>2, FollowThere
    <3>2. CASE ~(Walk(d, s) = Root /\ c \in DOMAIN Links)
      <4>1. Walk(d, Append(s, c)) = EnterDir(Walk(d, s), c)
        BY <2>1, <3>2 DEF Enter
      <4>2. QED
        BY <2>1, <2>3, <4>1, EnterThere
    <3>3. QED
      BY <3>1, <3>2
  <2>4. QED
    BY <2>2, <2>3
<1>3. G = Seq(Segments)
  <2>1. G \in SUBSET Seq(Segments)
    OBVIOUS
  <2> HIDE DEF G
  <2>2. QED
    BY <1>1, <1>2, <2>1, LongerSequences
<1>4. QED
  BY <1>3

----------------------------------------------------------------------------
(* What keeps the tree as it is.                                           *)

\* What cd is given, once it has an argument.
ArgInv == pc \in {"save", "logical", "direct"} => arg \in Arguments

CdInv == CdTypes /\ TreeInv /\ ArgInv

\* A path of a directory, as the system writes it.
LEMMA PathTyped ==
  ASSUME NEW d \in Directories
  PROVE  PathTo[d] \in Seq(Names) /\ PathTo[d] \in Path /\ PathTo[d] # None
<1>1. PathTo[d] \in Seq({Name[e] : e \in Directories})
  BY HasPath
<1>2. {Name[e] : e \in Directories} \subseteq Names /\ Names \subseteq Segments
  BY DEF Names, Segments
<1>3. Seq({Name[e] : e \in Directories}) \subseteq Seq(Names) /\ Seq(Names) \subseteq Seq(Segments)
  BY <1>2
<1>4. QED
  BY <1>1, <1>3, ArgsAssumption DEF Path

\* The string that the logical cd is made with.
LEMMA TargetTyped ==
  ASSUME NEW o \in Path, NEW a \in Arguments
  PROVE  MakeAbsolutePath(o, a) \in Seq(Segments) /\ a.path \in Seq(Segments) /\ a.absolute \in BOOLEAN
<1>1. a.path \in Seq(Segments) /\ a.absolute \in BOOLEAN /\ o \in Seq(Segments)
  BY DEF Arguments, Path
<1>2. o \o a.path \in Seq(Segments)
  BY <1>1
<1>3. ResolveDotdotLogical(o) \in Seq(Segments)
  BY <1>1, FrontAndLast DEF ResolveDotdotLogical
<1>4. QED
  BY <1>1, <1>2, <1>3 DEF MakeAbsolutePath

\* The logical cd leads to a directory that is there.
LEMMA LogicalThere ==
  ASSUME CdInv, pc = "logical"
  PROVE  LET target == MakeAbsolutePath(old, arg) IN
         /\ target \in Seq(Segments) /\ Normalize(target) \in Seq(Segments)
         /\ Walk(Root, target) # None =>
              Walk(Root, target) \in Directories /\ There(Walk(Root, target))
<1> DEFINE target == MakeAbsolutePath(old, arg)
<1>1. old \in Path /\ arg \in Arguments /\ TreeInv /\ There(Root) /\ Root \in Directories
  BY DirsAssumption DEF CdInv, CdTypes, ArgInv, TreeInv
<1>2. target \in Seq(Segments)
  BY <1>1, TargetTyped
<1> HIDE DEF target
<1>3. Normalize(target) \in Seq(Segments)
  BY <1>2, NormalizeOn
<1>4. Walk(Root, target) # None => Walk(Root, target) \in Directories /\ There(Walk(Root, target))
  BY <1>1, <1>2, WalkThere
<1>5. QED
  BY <1>2, <1>3, <1>4 DEF target

\* cd .. by the system itself leads to the parent, there or not.
LEMMA DirectUp ==
  ASSUME NEW d \in Directories
  PROVE  Walk(d, Up.path) = Parent[d]
<1>1. d \in Spots /\ ".." \in Segments /\ <<>> \in Seq(Segments) /\ Up.path = Append(<<>>, "..")
  BY DEF Spots, Segments, Up
<1>2. Walk(d, Append(<<>>, "..")) = Enter(Walk(d, <<>>), "..") /\ Walk(d, <<>>) = d
  BY <1>1, WalkOn
<1>3. QED
  BY <1>1, <1>2, EnterDots

\* The tree is kept by what leaves it alone and moves the shell nowhere, or to
\* a directory that is there, or to one that was.
LEMMA TreeSame ==
  ASSUME TreeInv, disk' = disk, disk[cwd'] # "absent"
  PROVE  TreeInv'
  BY DEF TreeInv, There

\* A walk from the shell's own directory leads to one that was made.
LEMMA WalkMade ==
  ASSUME CdInv, NEW t \in Seq(Segments), Walk(cwd, t) # None
  PROVE  Walk(cwd, t) \in Directories /\ disk[Walk(cwd, t)] # "absent"
<1> DEFINE Made(d) == d = None \/ (d \in Directories /\ disk[d] # "absent")
           G == {s \in Seq(Segments) : Made(Walk(cwd, s))}
<1>0. cwd \in Spots /\ Made(cwd) /\ TreeInv /\ cwd \in Directories
  BY DEF Spots, CdInv, CdTypes, TreeInv
<1>1. ASSUME NEW d, Made(d), NEW n PROVE Made(EnterDir(d, n))
  <2>1. CASE d = None
    BY <2>1, EnterDots, DirsAssumption
  <2>2. CASE d # None /\ n = "."
    BY <1>1, <2>2, EnterDots
  <2>3. CASE d # None /\ n = ".."
    <3>1. EnterDir(d, n) = Parent[d] /\ Parent[d] \in Directories
      BY <1>1, <2>3, EnterDots
    <3>2. QED
      BY <1>0, <1>1, <2>3, <3>1 DEF TreeInv
  <2>4. CASE d # None /\ n # "." /\ n # ".."
    <3>1. EnterDir(d, n) = None \/ \E e \in Directories \ {Root} : EnterDir(d, n) = e /\ There(e)
      BY <1>0, <1>1, <2>4, EnterName
    <3>2. QED
      BY <3>1 DEF There
  <2>5. QED
    BY <2>1, <2>2, <2>3, <2>4
<1>2. ASSUME NEW u \in Seq(Segments) PROVE Made(Follow(u))
  <2>1. Follow(u) = None \/ (Follow(u) \in Directories /\ There(Follow(u)))
    BY <1>0, FollowThere
  <2>2. QED
    BY <2>1 DEF There
<1> HIDE DEF Made
<1>3. ASSUME NEW d, Made(d), NEW n PROVE Made(Enter(d, n))
  <2>1. CASE d = Root /\ n \in DOMAIN Links
    <3>1. Links[n] \in Seq(Segments)
      BY <2>1, DirsAssumption DEF Path
    <3>2. Enter(d, n) = Follow(Links[n])
      BY <2>1 DEF Enter
    <3>3. QED
      BY <1>2, <3>1, <3>2
  <2>2. CASE ~(d = Root /\ n \in DOMAIN Links)
    <3>1. Enter(d, n) = EnterDir(d, n)
      BY <2>2 DEF Enter
    <3>2. QED
      BY <1>1, <1>3, <3>1
  <2>3. QED
    BY <2>1, <2>2
<1>4. <<>> \in G
  BY <1>0, WalkOn, EmptySeq
<1>5. ASSUME NEW s \in G, NEW c \in Segments PROVE Append(s, c) \in G
  <2>1. Walk(cwd, Append(s, c)) = Enter(Walk(cwd, s), c) /\ Append(s, c) \in Seq(Segments)
    BY <1>0, WalkOn
  <2>2. QED
    BY <1>3, <2>1
<1>6. G = Seq(Segments)
  <2>1. G \in SUBSET Seq(Segments)
    OBVIOUS
  <2> HIDE DEF G
  <2>2. QED
    BY <1>4, <1>5, <2>1, LongerSequences
<1>7. Made(Walk(cwd, t))
  BY <1>6
<1>8. QED
  BY <1>7 DEF Made

\* The tree at the start.
LEMMA CdInvInit == CdInit => CdInv
<1> SUFFICES ASSUME CdInit PROVE CdInv
  OBVIOUS
<1>1. \A d \in Directories : (There(d) <=> d \in Initial) /\ (disk[d] # "absent" <=> d \in Initial)
  BY DEF CdInit, There
<1>2. Initial \subseteq Directories /\ Root \in Initial /\ Root \in Directories /\ cwd = Root
      /\ Parent \in [Directories -> Directories]
  BY InitialAssumption, DirsAssumption DEF CdInit
<1>3. TreeInv
  <2>1. There(Root) /\ disk[cwd] # "absent"
    BY <1>1, <1>2
  <2>2. \A d \in Directories : There(d) => There(Parent[d])
    BY <1>1, <1>2, InitialAssumption
  <2>3. \A d \in Directories : disk[d] # "absent" => disk[Parent[d]] # "absent"
    BY <1>1, <1>2, InitialAssumption
  <2>4. \A d, e \in Directories \ {Root} :
          There(d) /\ There(e) /\ Parent[d] = Parent[e] /\ Name[d] = Name[e] => d = e
    BY <1>1, InitialAssumption
  <2>5. QED
    BY <2>1, <2>2, <2>3, <2>4 DEF TreeInv
<1>4. CdTypes
  <2>1. <<>> \in Path
    BY DEF Path
  <2>2. disk \in [Directories -> {"absent", "there", "removed"}]
    BY DEF CdInit
  <2>3. QED
    BY <1>2, <2>1, <2>2 DEF CdInit, CdTypes
<1>5. ArgInv
  BY DEF CdInit, ArgInv
<1>6. QED
  BY <1>3, <1>4, <1>5 DEF CdInv

\* What the steps of other processes leave of the shell.
LEMMA OthersLeave ==
  ASSUME CdInv, UNCHANGED <<cwd, pwd, pc, arg, old, status>>,
         disk' \in [Directories -> {"absent", "there", "removed"}], TreeInv'
  PROVE  CdInv'
  BY DEF CdInv, CdTypes, ArgInv

\* mkdir of another process.
LEMMA MkdirKeeps == ASSUME CdInv, NEW d \in Directories, Mkdir(d) PROVE CdInv'
<1>1. /\ disk \in [Directories -> {"absent", "there", "removed"}] /\ disk[d] = "absent" /\ There(Parent[d])
      /\ Parent \in [Directories -> Directories] /\ Root \in Directories /\ cwd \in Directories
      /\ \A e \in Directories : There(e) /\ Parent[e] = Parent[d] => Name[e] # Name[d]
      /\ disk' = [disk EXCEPT ![d] = "there"] /\ UNCHANGED <<cwd, pwd, pc, arg, old, status>>
  BY DirsAssumption DEF CdInv, CdTypes, Mkdir
<1>2. TreeInv
  BY DEF CdInv
<1>3. /\ disk' \in [Directories -> {"absent", "there", "removed"}] /\ disk'[d] = "there"
      /\ \A e \in Directories : e # d => disk'[e] = disk[e]
  BY <1>1
<1>4. (There(Root))' /\ (disk[cwd] # "absent")'
  BY <1>1, <1>2, <1>3 DEF TreeInv, There
<1>5. \A e \in Directories : disk'[e] = "there" => disk'[Parent[e]] = "there"
  BY <1>1, <1>2, <1>3 DEF TreeInv, There
<1>6. \A e \in Directories : disk'[e] # "absent" => disk'[Parent[e]] # "absent"
  BY <1>1, <1>2, <1>3 DEF TreeInv, There
<1>7. \A e, f \in Directories \ {Root} :
        disk'[e] = "there" /\ disk'[f] = "there" /\ Parent[e] = Parent[f] /\ Name[e] = Name[f] => e = f
  BY <1>1, <1>2, <1>3 DEF TreeInv, There
<1>8. TreeInv'
  BY <1>4, <1>5, <1>6, <1>7 DEF TreeInv, There
<1>9. QED
  BY <1>1, <1>3, <1>8, OthersLeave

\* rmdir of another process.
LEMMA RmdirKeeps == ASSUME CdInv, NEW d \in Directories, Rmdir(d) PROVE CdInv'
<1>1. /\ disk \in [Directories -> {"absent", "there", "removed"}] /\ disk[d] = "there" /\ d # Root
      /\ Parent \in [Directories -> Directories] /\ Root \in Directories /\ cwd \in Directories
      /\ \A e \in Directories : Parent[e] = d => disk[e] # "there"
      /\ disk' = [disk EXCEPT ![d] = "removed"] /\ UNCHANGED <<cwd, pwd, pc, arg, old, status>>
  BY DirsAssumption DEF CdInv, CdTypes, Rmdir, There
<1>2. TreeInv
  BY DEF CdInv
<1>3. /\ disk' \in [Directories -> {"absent", "there", "removed"}] /\ disk'[d] = "removed"
      /\ \A e \in Directories : e # d => disk'[e] = disk[e]
  BY <1>1
<1>4. (There(Root))' /\ (disk[cwd] # "absent")'
  BY <1>1, <1>2, <1>3 DEF TreeInv, There
<1>5. \A e \in Directories : disk'[e] = "there" => disk'[Parent[e]] = "there"
  BY <1>1, <1>2, <1>3 DEF TreeInv, There
<1>6. \A e \in Directories : disk'[e] # "absent" => disk'[Parent[e]] # "absent"
  BY <1>1, <1>2, <1>3 DEF TreeInv, There
<1>7. \A e, f \in Directories \ {Root} :
        disk'[e] = "there" /\ disk'[f] = "there" /\ Parent[e] = Parent[f] /\ Name[e] = Name[f] => e = f
  BY <1>1, <1>2, <1>3 DEF TreeInv, There
<1>8. TreeInv'
  BY <1>4, <1>5, <1>6, <1>7 DEF TreeInv, There
<1>9. QED
  BY <1>1, <1>3, <1>8, OthersLeave

\* Every step keeps the tree and the types.
LEMMA CdInvNext == CdInv /\ [CdNext]_cdVars => CdInv'
<1> SUFFICES ASSUME CdInv, [CdNext]_cdVars PROVE CdInv'
  OBVIOUS
<1>1. /\ TreeInv /\ ArgInv /\ cwd \in Directories /\ disk[cwd] # "absent" /\ Root \in Directories
      /\ pwd \in Path \union {Unset} /\ old \in Path /\ arg \in Args \union Homes /\ status \in {0, 1}
      /\ disk \in [Directories -> {"absent", "there", "removed"}]
      /\ pc \in {"prompt", "save", "logical", "direct", "getcwd"}
  BY DirsAssumption DEF CdInv, CdTypes, TreeInv
<1>2. ASSUME NEW a \in Args, NEW home \in Homes, Call(a, home) PROVE CdInv'
  <2>1. UNCHANGED <<disk, cwd, pwd, old>> /\ (arg' = a \/ arg' = home)
    BY <1>2 DEF Call
  <2>2. TreeInv'
    BY <1>1, <2>1, TreeSame
  <2>3. CASE pc' = "prompt" /\ status' = 1
    BY <1>1, <2>1, <2>2, <2>3 DEF CdInv, CdTypes, ArgInv
  <2>4. CASE (a = NoArg => home # Unset) /\ arg' = (IF a = NoArg THEN home ELSE a)
             /\ pc' = "save" /\ UNCHANGED status
    <3>1. arg' \in Arguments
      BY <2>4, ArgsAssumption
    <3>2. QED
      BY <1>1, <2>1, <2>2, <2>4, <3>1 DEF CdInv, CdTypes, ArgInv
  <2>5. QED
    BY <1>2, <2>3, <2>4 DEF Call, Return
<1>3. ASSUME SaveCurrentPwd PROVE CdInv'
  <2>1. pc = "save" /\ UNCHANGED <<disk, cwd, pwd, arg>>
    BY <1>3 DEF SaveCurrentPwd
  <2>2. TreeInv'
    BY <1>1, <2>1, TreeSame
  <2>3. arg \in Arguments
    BY <1>1, <2>1 DEF ArgInv
  <2>4. Getcwd \in Path \union {None}
    BY <1>1, PathTyped DEF Getcwd
  <2>5. \/ pc' = "prompt" /\ status' = 1 /\ UNCHANGED old
        \/ old' \in Path /\ pc' = "logical" /\ UNCHANGED status
    BY <1>1, <1>3, <2>4 DEF SaveCurrentPwd, Return
  <2>6. QED
    BY <1>1, <2>1, <2>2, <2>3, <2>5 DEF CdInv, CdTypes, ArgInv
<1>4. ASSUME TryLogicalCd PROVE CdInv'
  <2> DEFINE target == MakeAbsolutePath(old, arg)
             dir == Walk(Root, target)
  <2>1. pc = "logical" /\ UNCHANGED <<disk, arg, old>>
        /\ \/ pc' = "direct" /\ UNCHANGED <<cwd, pwd, status>>
           \/ dir # None /\ cwd' = dir /\ pwd' = UpdatePwd(Normalize(target)) /\ pc' = "prompt" /\ status' = 0
    BY <1>4 DEF TryLogicalCd, Return
  <2>2. Normalize(target) \in Path /\ (dir # None => dir \in Directories /\ There(dir))
    BY <2>1, LogicalThere DEF Path
  <2> HIDE DEF target, dir
  <2>3. cwd' \in Directories /\ disk[cwd'] # "absent"
    BY <1>1, <2>1, <2>2 DEF There
  <2>4. TreeInv'
    BY <1>1, <2>1, <2>3, TreeSame
  <2>5. pwd' \in Path \union {Unset}
    BY <1>1, <2>1, <2>2 DEF UpdatePwd
  <2>6. arg \in Arguments
    BY <1>1, <2>1 DEF ArgInv
  <2>7. QED
    BY <1>1, <2>1, <2>3, <2>4, <2>5, <2>6 DEF CdInv, CdTypes, ArgInv
<1>5. ASSUME ExecuteCd PROVE CdInv'
  <2> DEFINE from == IF arg.absolute THEN Root ELSE cwd
             dir == Walk(from, arg.path)
  <2>1. /\ pc = "direct" /\ UNCHANGED <<disk, pwd, arg, old>>
        /\ \/ pc' = "prompt" /\ status' = 1 /\ UNCHANGED cwd
           \/ dir # None /\ cwd' = dir /\ pc' = "getcwd" /\ UNCHANGED status
    BY <1>5 DEF ExecuteCd, Return
  <2>2. arg.path \in Seq(Segments)
    BY <1>1, <2>1, TargetTyped DEF ArgInv
  <2>3. dir # None => dir \in Directories /\ disk[dir] # "absent"
    <3>1. CASE arg.absolute
      <4>1. dir = Walk(Root, arg.path)
        BY <3>1
      <4> HIDE DEF dir
      <4>2. There(Root)
        BY <1>1 DEF TreeInv
      <4>3. QED
        BY <1>1, <2>2, <4>1, <4>2, WalkThere DEF There
    <3>2. CASE ~arg.absolute
      <4>1. dir = Walk(cwd, arg.path)
        BY <3>2
      <4> HIDE DEF dir
      <4>2. QED
        BY <1>1, <2>2, <4>1, WalkMade
    <3>3. QED
      BY <3>1, <3>2
  <2> HIDE DEF dir
  <2>4. cwd' \in Directories /\ disk[cwd'] # "absent"
    BY <1>1, <2>1, <2>3
  <2>5. TreeInv'
    BY <1>1, <2>1, <2>4, TreeSame
  <2>6. QED
    BY <1>1, <2>1, <2>4, <2>5 DEF CdInv, CdTypes, ArgInv
<1>6. ASSUME UpdatePwdAfterCd PROVE CdInv'
  <2>1. UNCHANGED <<disk, cwd, arg, old>> /\ pc' = "prompt" /\ status' = 0
        /\ pwd' = IF Getcwd = None THEN pwd ELSE UpdatePwd(Getcwd)
    BY <1>6 DEF UpdatePwdAfterCd, Return
  <2>2. TreeInv'
    BY <1>1, <2>1, TreeSame
  <2>3. Getcwd \in Path \union {None}
    BY <1>1, PathTyped DEF Getcwd
  <2>4. pwd' \in Path \union {Unset}
    BY <1>1, <2>1, <2>3 DEF UpdatePwd
  <2>5. QED
    BY <1>1, <2>1, <2>2, <2>4 DEF CdInv, CdTypes, ArgInv
<1>7. ASSUME UnsetPwd PROVE CdInv'
  <2>1. TreeInv'
    BY <1>1, <1>7, TreeSame DEF UnsetPwd
  <2>2. QED
    BY <1>1, <1>7, <2>1 DEF CdInv, CdTypes, ArgInv, UnsetPwd
<1>8. ASSUME UNCHANGED cdVars PROVE CdInv'
  <2>1. TreeInv'
    BY <1>1, <1>8, TreeSame DEF cdVars
  <2>2. QED
    BY <1>1, <1>8, <2>1 DEF CdInv, CdTypes, ArgInv, cdVars
<1>9. QED
  BY <1>2, <1>3, <1>4, <1>5, <1>6, <1>7, <1>8, MkdirKeeps, RmdirKeeps DEF CdNext

\* The invariant of cd and of the tree.
LEMMA CdInvAlways == CdSpec => []CdInv
<1>1. QED
  BY CdInvInit, CdInvNext, PTL DEF CdSpec

\* cd .. never leaves the shell in a directory that was removed under it: PWD's
\* parent is there, or the system goes up, which no removed directory prevents.
THEOREM CdUpLeaves == CdSpec => CdUpMoves
<1>1. ASSUME CdInv, [CdNext]_cdVars, Done, arg = Up, ~There(cwd), pwd # Unset PROVE cwd' # cwd
  <2>1. /\ TreeInv /\ ArgInv /\ cwd \in Directories /\ There(Root) /\ pwd \in Path
        /\ pc \in {"save", "logical", "direct"} /\ pc' \in {"prompt", "getcwd"} /\ ~arg.absolute
    BY <1>1 DEF CdInv, CdTypes, TreeInv, Done, Up
  <2>2. pwd # None
    BY <2>1, ArgsAssumption
  <2>3. CASE SaveCurrentPwd
    BY <1>1, <2>1, <2>2, <2>3 DEF SaveCurrentPwd, Return
  <2>4. CASE TryLogicalCd
    <3> DEFINE dir == Walk(Root, MakeAbsolutePath(old, arg))
    <3>1. pc = "logical" /\ (pc' = "direct" \/ (dir # None /\ cwd' = dir))
      BY <2>4 DEF TryLogicalCd
    <3>2. dir # None => There(dir)
      BY <1>1, <3>1, LogicalThere
    <3> HIDE DEF dir
    <3>3. QED
      BY <1>1, <2>1, <3>1, <3>2
  <2>5. CASE ExecuteCd
    <3> DEFINE dir == Walk(IF arg.absolute THEN Root ELSE cwd, arg.path)
    <3>1. dir = None \/ cwd' = dir
      BY <2>5 DEF ExecuteCd
    <3>2. dir = Parent[cwd]
      BY <1>1, <2>1, DirectUp
    <3> HIDE DEF dir
    <3>3. Parent[cwd] # None /\ Parent[cwd] # cwd
      BY <1>1, <2>1, DirsAssumption, ParentElse
    <3>4. QED
      BY <3>1, <3>2, <3>3
  <2>6. CASE ~(SaveCurrentPwd \/ TryLogicalCd \/ ExecuteCd)
    BY <1>1, <2>1, <2>6 DEF CdNext, Call, UpdatePwdAfterCd, UnsetPwd, Mkdir, Rmdir, cdVars
  <2>7. QED
    BY <2>3, <2>4, <2>5, <2>6
<1>2. CdInv /\ [CdNext]_cdVars => [Done /\ arg = Up /\ ~There(cwd) /\ pwd # Unset => cwd' # cwd]_cdVars
  BY <1>1
<1>3. QED
  BY <1>2, CdInvAlways, PTL DEF CdSpec, CdUpMoves

----------------------------------------------------------------------------
(* PWD and links.                                                          *)

\* A segment added to the path that the system knows a directory by.
Resolve(p, n) == IF p = <<>> /\ n \in DOMAIN Links THEN Links[n] ELSE Append(p, n)

\* A path with the links in it replaced by what they lead to, as text.
Resolved(text) ==
  LET p[k \in 0 .. Len(text)] == IF k = 0 THEN <<>> ELSE Resolve(p[k - 1], text[k])
  IN  p[Len(text)]

\* No link leads up, or through "." or a link.
PlainLinks == \A l \in DOMAIN Links : Links[l] \in Seq(Names)

\* PWD has no dots, and is, but for links, the system's path of the directory.
PwdInv ==
  /\ CdInv
  /\ pwd # Unset => pwd \in Seq(Names)
  /\ pc = "logical" => old \in Seq(Names)
  /\ pwd # Unset /\ There(cwd) /\ pc # "getcwd" => Resolved(pwd) = PathTo[cwd]


\* A segment resolved.
LEMMA ResolveTypes == ASSUME NEW p \in Seq(Segments), NEW c \in Segments PROVE Resolve(p, c) \in Seq(Segments)
<1>1. c \in DOMAIN Links => Links[c] \in Seq(Segments)
  BY DirsAssumption DEF Path
<1>2. QED
  BY <1>1 DEF Resolve

\* Resolved, one segment after the other.
LEMMA ResolvedOn ==
  /\ Resolved(<<>>) = <<>>
  /\ \A t \in Seq(Segments) : Resolved(t) \in Seq(Segments)
  /\ \A t \in Seq(Segments), n \in Segments : Resolved(Append(t, n)) = Resolve(Resolved(t), n)
<1> DEFINE step == [v \in Seq(Segments) |-> [c \in Segments |-> Resolve(v, c)]]
<1>1. step \in [Seq(Segments) -> [Segments -> Seq(Segments)]] /\ <<>> \in Seq(Segments)
  BY ResolveTypes
<1>2. \A v \in Seq(Segments), c \in Segments : step[v][c] = Resolve(v, c)
  OBVIOUS
<1> HIDE DEF step
<1>3. PICK F : LoopOver(Seq(Segments), Segments, <<>>, step, F)
  BY <1>1, Loops
<1>4. ASSUME NEW t \in Seq(Segments) PROVE Resolved(t) = F[t]
  <2> DEFINE n == Len(t)
             Is(g) == g = [k \in 0 .. n |-> IF k = 0 THEN <<>> ELSE Resolve(g[k - 1], t[k])]
             p == CHOOSE g : Is(g)
  <2>1. n \in Nat /\ \A k \in 1 .. n : t[k] \in Segments /\ k - 1 \in 0 .. n
    OBVIOUS
  <2>2. PICK f \in [0 .. n -> Seq(Segments)] : f[0] = <<>> /\ \A k \in 1 .. n : f[k] = step[f[k - 1]][t[k]]
    BY <1>3 DEF LoopOver
  <2>3. Is(f)
    <3>1. ASSUME NEW k \in 0 .. n PROVE f[k] = IF k = 0 THEN <<>> ELSE Resolve(f[k - 1], t[k])
      <4>1. CASE k = 0
        BY <2>2, <4>1
      <4>2. CASE k # 0
        <5>1. k \in 1 .. n
          BY <2>1, <4>2
        <5>2. QED
          BY <1>2, <2>1, <2>2, <4>2, <5>1
      <4>3. QED
        BY <4>1, <4>2
    <3>2. QED
      BY <3>1
  <2>4. Is(p)
    <3> HIDE DEF Is
    <3>1. QED
      BY <2>3
  <2>5. Resolved(t) = p[n]
    BY DEF Resolved
  <2> HIDE DEF p
  <2>6. p[0] = <<>>
    BY <2>1, <2>4
  <2>7. \A k \in 1 .. n : p[k - 1] \in Seq(Segments) => p[k] = step[p[k - 1]][t[k]]
    <3> SUFFICES ASSUME NEW k \in 1 .. n, p[k - 1] \in Seq(Segments) PROVE p[k] = step[p[k - 1]][t[k]]
      OBVIOUS
    <3>1. k \in 0 .. n /\ k # 0
      BY <2>1
    <3>2. p[k] = Resolve(p[k - 1], t[k])
      BY <2>4, <3>1
    <3>3. QED
      BY <1>2, <2>1, <3>2
  <2>8. p[n] = F[t]
    BY <1>3, <2>6, <2>7 DEF LoopOver
  <2>9. QED
    BY <2>5, <2>8
<1>5. <<>> \in Seq(Segments) /\ \A t \in Seq(Segments), n \in Segments : Append(t, n) \in Seq(Segments)
  OBVIOUS
<1>6. Resolved(<<>>) = <<>>
  BY <1>3, <1>4, <1>5 DEF LoopOver
<1>7. ASSUME NEW t \in Seq(Segments) PROVE Resolved(t) \in Seq(Segments)
  BY <1>3, <1>4 DEF LoopOver
<1>8. ASSUME NEW t \in Seq(Segments), NEW n \in Segments PROVE Resolved(Append(t, n)) = Resolve(Resolved(t), n)
  <2>1. F[Append(t, n)] = step[F[t]][n] /\ F[t] \in Seq(Segments)
    BY <1>3 DEF LoopOver
  <2>2. QED
    BY <1>2, <1>4, <1>5, <2>1
<1>9. QED
  BY <1>6, <1>7, <1>8

\* The path of a directory is that of its parent, and its name; only Root has none.
LEMMA PathOf ==
  ASSUME NEW d \in Directories
  PROVE  /\ PathTo[d] \in Seq(Segments)
         /\ PathTo[d] = <<>> <=> d = Root
         /\ d # Root => /\ Parent[d] \in Directories /\ Name[d] \in Segments /\ Name[d] \notin DOMAIN Links
                        /\ PathTo[Parent[d]] \in Seq(Segments)
                        /\ PathTo[d] = Append(PathTo[Parent[d]], Name[d])
<1>1. Parent[d] \in Directories /\ Name[d] \in Segments /\ Name[d] \notin DOMAIN Links
  BY DirsAssumption DEF Names, Segments
<1>2. PathTo[d] \in Seq(Segments) /\ PathTo[Parent[d]] \in Seq(Segments)
  BY <1>1, PathTyped DEF Path
<1>3. PathTo[d] = IF d = Root THEN <<>> ELSE Append(PathTo[Parent[d]], Name[d])
  <2>1. PathTo = [e \in Directories |-> IF e = Root THEN <<>> ELSE Append(PathTo[Parent[e]], Name[e])]
    BY HasPath
  <2> DEFINE f == PathTo
  <2>2. f = [e \in Directories |-> IF e = Root THEN <<>> ELSE Append(f[Parent[e]], Name[e])]
    BY <2>1
  <2> HIDE DEF f
  <2>3. f[d] = IF d = Root THEN <<>> ELSE Append(f[Parent[d]], Name[d])
    BY <2>2
  <2>4. QED
    BY <2>3 DEF f
<1>4. Append(PathTo[Parent[d]], Name[d]) # <<>>
  BY <1>1, <1>2, AppendedSame
<1>5. QED
  BY <1>1, <1>2, <1>3, <1>4

\* Where a link without dots leads is the directory that has its text as path.
LEMMA FollowPath ==
  ASSUME TreeInv, NEW t \in Seq(Names), Follow(t) # None
  PROVE  Follow(t) \in Directories /\ PathTo[Follow(t)] = t
<1> DEFINE Good(s) == Follow(s) # None => Follow(s) \in Directories /\ PathTo[Follow(s)] = s
           G == {s \in Seq(Names) : Good(s)}
<1>0. Names \subseteq Segments /\ "." \notin Names /\ ".." \notin Names
  BY DirsAssumption DEF Segments
<1>1. Seq(Names) \subseteq Seq(Segments)
  BY <1>0
<1>2. <<>> \in G
  BY FollowOn, PathOf, DirsAssumption, EmptySeq
<1>3. ASSUME NEW s \in G, NEW c \in Names PROVE Append(s, c) \in G
  <2>1. Append(s, c) \in Seq(Names) /\ Follow(Append(s, c)) = EnterDir(Follow(s), c)
    BY <1>0, <1>1, FollowOn
  <2>2. SUFFICES ASSUME Follow(Append(s, c)) # None
                 PROVE  Follow(Append(s, c)) \in Directories /\ PathTo[Follow(Append(s, c))] = Append(s, c)
    BY <2>1
  <2>3. Follow(s) # None
    BY <2>1, <2>2, EnterDots, DirsAssumption
  <2>4. Follow(s) \in Directories /\ PathTo[Follow(s)] = s
    BY <2>3
  <2>5. PICK e \in Directories \ {Root} : EnterDir(Follow(s), c) = e /\ Parent[e] = Follow(s) /\ Name[e] = c
    BY <1>0, <2>1, <2>2, <2>4, EnterName
  <2>6. PathTo[e] = Append(PathTo[Parent[e]], Name[e])
    BY PathOf
  <2>7. QED
    BY <2>1, <2>4, <2>5, <2>6
<1>4. G = Seq(Names)
  <2>1. G \in SUBSET Seq(Names)
    OBVIOUS
  <2> HIDE DEF G
  <2>2. QED
    BY <1>2, <1>3, <2>1, LongerSequences
<1>5. Good(t)
  BY <1>4
<1>6. QED
  BY <1>5

\* The path of a directory that is there leads to it.
LEMMA PathFollowed == ASSUME TreeInv, NEW d \in Directories, There(d) PROVE Follow(PathTo[d]) = d
<1> DEFINE S == {e \in Directories : There(e) => Follow(PathTo[e]) = e}
<1>1. Root \in S
  BY FollowOn, PathOf, DirsAssumption
<1>2. ASSUME NEW e \in Directories, Parent[e] \in S PROVE e \in S
  <2>1. SUFFICES ASSUME There(e), e # Root PROVE Follow(PathTo[e]) = e
    BY <1>1
  <2>2. There(Parent[e])
    BY <2>1 DEF TreeInv
  <2>3. Follow(PathTo[Parent[e]]) = Parent[e]
    BY <1>2, <2>2
  <2>4. PathTo[e] = Append(PathTo[Parent[e]], Name[e]) /\ PathTo[Parent[e]] \in Seq(Segments) /\ Name[e] \in Segments
    BY <2>1, PathOf
  <2>5. Follow(PathTo[e]) = EnterDir(Parent[e], Name[e])
    BY <2>3, <2>4, FollowOn
  <2>6. QED
    BY <2>1, <2>5, EnterChild
<1>3. S = Directories
  <2>1. S \in SUBSET Directories
    OBVIOUS
  <2> HIDE DEF S
  <2>2. QED
    BY <1>1, <1>2, <2>1, BelowRoot
<1>4. QED
  BY <1>3

\* The system's own path of a directory has no link in it.
LEMMA PathResolved == ASSUME NEW d \in Directories PROVE Resolved(PathTo[d]) = PathTo[d]
<1> DEFINE S == {e \in Directories : Resolved(PathTo[e]) = PathTo[e]}
<1>1. Root \in S
  BY ResolvedOn, PathOf, DirsAssumption
<1>2. ASSUME NEW e \in Directories, Parent[e] \in S PROVE e \in S
  <2>1. SUFFICES ASSUME e # Root PROVE Resolved(PathTo[e]) = PathTo[e]
    BY <1>1
  <2>2. PathTo[e] = Append(PathTo[Parent[e]], Name[e]) /\ PathTo[Parent[e]] \in Seq(Segments)
        /\ Name[e] \in Segments /\ Name[e] \notin DOMAIN Links
    BY <2>1, PathOf
  <2>3. Resolved(PathTo[Parent[e]]) = PathTo[Parent[e]]
    BY <1>2
  <2>4. Resolved(PathTo[e]) = Resolve(PathTo[Parent[e]], Name[e])
    BY <2>2, <2>3, ResolvedOn
  <2>5. QED
    BY <2>2, <2>4 DEF Resolve
<1>3. S = Directories
  <2>1. S \in SUBSET Directories
    OBVIOUS
  <2> HIDE DEF S
  <2>2. QED
    BY <1>1, <1>2, <2>1, BelowRoot
<1>4. QED
  BY <1>3

\* Normalize leaves no dots.
LEMMA NormalizeNoDots == ASSUME NEW t \in Seq(Segments) PROVE Normalize(t) \in Seq(Names)
<1> DEFINE G == {s \in Seq(Segments) : Normalize(s) \in Seq(Names)}
<1>1. <<>> \in G
  BY NormalizeOn, EmptySeq
<1>2. ASSUME NEW s \in G, NEW c \in Segments PROVE Append(s, c) \in G
  <2>1. Append(s, c) \in Seq(Segments) /\ Normalize(Append(s, c)) = Push(Normalize(s), c)
    BY NormalizeOn
  <2> DEFINE p == Normalize(s)
  <2>2. p \in Seq(Names)
    OBVIOUS
  <2> HIDE DEF p
  <2>3. Push(p, c) \in Seq(Names)
    <3>1. CASE c = ".."
      BY <2>2, <3>1, FrontAndLast DEF Push
    <3>2. CASE c = "."
      BY <2>2, <3>2 DEF Push
    <3>3. CASE c # "." /\ c # ".."
      <4>1. c \in Names
        BY <3>3 DEF Segments
      <4>2. Push(p, c) = Append(p, c)
        BY <3>3 DEF Push
      <4>3. QED
        BY <2>2, <4>1, <4>2
    <3>4. QED
      BY <3>1, <3>2, <3>3
  <2>4. QED
    BY <2>1, <2>3 DEF p
<1>3. G = Seq(Segments)
  <2>1. G \in SUBSET Seq(Segments)
    OBVIOUS
  <2> HIDE DEF G
  <2>2. QED
    BY <1>1, <1>2, <2>1, LongerSequences
<1>4. QED
  BY <1>3


\* One segment of the text and one step of the system stay together, but for ".."
\* after a link.
LEMMA StepTogether ==
  ASSUME TreeInv, PlainLinks, NEW d \in Directories, NEW p \in Seq(Segments), NEW c \in Segments,
         Resolved(p) = PathTo[d], Enter(d, c) # None,
         c = ".." => p = <<>> \/ Last(p) \notin DOMAIN Links
  PROVE  Enter(d, c) \in Directories /\ Resolved(Push(p, c)) = PathTo[Enter(d, c)]
<1>1. CASE c = "."
  <2>1. Enter(d, c) = d /\ Push(p, c) = p
    BY <1>1, EnterDots DEF Push
  <2>2. QED
    BY <2>1
<1>2. CASE c = ".." /\ p = <<>>
  <2>1. d = Root
    <3>1. PathTo[d] = <<>>
      BY <1>2, ResolvedOn
    <3>2. QED
      BY <3>1, PathOf
  <2>2. Enter(d, c) = d /\ Push(p, c) = p
    <3>1. Enter(d, "..") = Parent[d] /\ Parent[Root] = Root
      BY EnterDots, DirsAssumption
    <3>2. Push(<<>>, "..") = <<>>
      BY DEF Push
    <3>3. QED
      BY <1>2, <2>1, <3>1, <3>2
  <2>3. QED
    BY <2>2
<1>3. CASE c = ".." /\ p # <<>>
  <2>1. Front(p) \in Seq(Segments) /\ Last(p) \in Segments /\ p = Append(Front(p), Last(p))
    BY <1>3, FrontAndLast
  <2>2. Resolved(p) = Resolve(Resolved(Front(p)), Last(p)) /\ Resolved(Front(p)) \in Seq(Segments)
    BY <2>1, ResolvedOn
  <2>3. Resolved(p) = Append(Resolved(Front(p)), Last(p))
    BY <1>3, <2>2 DEF Resolve
  <2> DEFINE r == Resolved(Front(p))
  <2>4. PathTo[d] = Append(r, Last(p)) /\ Append(r, Last(p)) # <<>>
    BY <2>1, <2>2, <2>3, AppendedSame
  <2>5. d # Root
    BY <2>4, PathOf
  <2> DEFINE q == PathTo[Parent[d]]
  <2>6. PathTo[d] = Append(q, Name[d]) /\ q \in Seq(Segments) /\ Name[d] \in Segments
    BY <2>5, PathOf
  <2>7. r = q
    <3>1. Append(r, Last(p)) = Append(q, Name[d]) /\ r \in Seq(Segments)
      BY <2>2, <2>4, <2>6
    <3> HIDE DEF r, q
    <3>2. QED
      BY <2>1, <2>6, <3>1, AppendedSame
  <2>8. Enter(d, c) = Parent[d] /\ Parent[d] \in Directories /\ Push(p, c) = Front(p)
    BY <1>3, EnterDots DEF Push
  <2>9. QED
    BY <2>7, <2>8
<1>4. CASE c # "." /\ c # ".."
  <2>1. Push(p, c) = Append(p, c) /\ Resolved(Append(p, c)) = Resolve(PathTo[d], c)
    BY <1>4, ResolvedOn DEF Push
  <2>2. CASE d = Root /\ c \in DOMAIN Links
    <3>1. Enter(d, c) = Follow(Links[c]) /\ Links[c] \in Seq(Names)
      BY <2>2 DEF Enter, PlainLinks
    <3>2. Follow(Links[c]) \in Directories /\ PathTo[Follow(Links[c])] = Links[c]
      BY <3>1, FollowPath
    <3>3. Resolve(PathTo[d], c) = Links[c]
      BY <2>2, PathOf DEF Resolve
    <3>4. QED
      BY <2>1, <3>1, <3>2, <3>3
  <2>3. CASE ~(d = Root /\ c \in DOMAIN Links)
    <3>1. Enter(d, c) = EnterDir(d, c)
      BY <2>3 DEF Enter
    <3>2. PICK e \in Directories \ {Root} : EnterDir(d, c) = e /\ Parent[e] = d /\ Name[e] = c
      BY <1>4, <3>1, EnterName
    <3>3. PathTo[e] = Append(PathTo[d], c)
      BY <3>2, PathOf
    <3>4. Resolve(PathTo[d], c) = Append(PathTo[d], c)
      BY <2>3, PathOf DEF Resolve
    <3>5. QED
      BY <2>1, <3>1, <3>2, <3>3, <3>4
  <2>4. QED
    BY <2>2, <2>3
<1>5. QED
  BY <1>1, <1>2, <1>3, <1>4

\* Where chdir leads along a string that goes up through no link, the string,
\* normalised, leads as text.
LEMMA WalkTogether ==
  ASSUME TreeInv, PlainLinks, NEW t \in Seq(Segments), Walk(Root, t) # None,
         \A k \in 1 .. Len(t) : t[k] = ".." =>
           \/ Normalize(SubSeq(t, 1, k - 1)) = <<>>
           \/ Last(Normalize(SubSeq(t, 1, k - 1))) \notin DOMAIN Links
  PROVE  Resolved(Normalize(t)) = PathTo[Walk(Root, t)]
<1> DEFINE n == Len(t)
           Fine(s) == Walk(Root, s) # None =>
                        Walk(Root, s) \in Directories /\ Resolved(Normalize(s)) = PathTo[Walk(Root, s)]
           Good == {k \in 0 .. n : Fine(SubSeq(t, 1, k))}
<1>1. n \in Nat /\ Root \in Spots /\ Root \in Directories /\ There(Root)
  BY DirsAssumption DEF Spots, TreeInv
<1>2. 0 \in Good
  <2>1. SubSeq(t, 1, 0) = <<>>
    BY Starts
  <2>2. Walk(Root, <<>>) = Root /\ Resolved(Normalize(<<>>)) = <<>> /\ PathTo[Root] = <<>>
    BY <1>1, WalkOn, NormalizeOn, ResolvedOn, PathOf
  <2>3. Fine(<<>>)
    BY <1>1, <2>2
  <2>4. 0 \in 0 .. n
    BY <1>1
  <2> HIDE DEF Fine
  <2>5. Fine(SubSeq(t, 1, 0))
    BY <2>1, <2>3
  <2>6. QED
    BY <2>4, <2>5
<1>3. ASSUME NEW k \in 1 .. n, k - 1 \in Good PROVE k \in Good
  <2> DEFINE s == SubSeq(t, 1, k - 1)
             c == t[k]
             d == Walk(Root, s)
             p == Normalize(s)
  <2>1. s \in Seq(Segments) /\ c \in Segments /\ SubSeq(t, 1, k) = Append(s, c) /\ k \in 0 .. n
    BY Starts
  <2>2. c = ".." => p = <<>> \/ Last(p) \notin DOMAIN Links
    OBVIOUS
  <2>3. Fine(s)
    BY <1>3
  <2> HIDE DEF s, c
  <2>4. Walk(Root, Append(s, c)) = Enter(d, c) /\ Normalize(Append(s, c)) = Push(p, c) /\ p \in Seq(Segments)
    BY <1>1, <2>1, WalkOn, NormalizeOn
  <2>5. Enter(d, c) # None => d # None
    BY EnterDots, DirsAssumption
  <2>6. d # None => d \in Directories /\ Resolved(p) = PathTo[d]
    BY <2>3
  <2> HIDE DEF d, p
  <2>7. Enter(d, c) # None => Enter(d, c) \in Directories /\ Resolved(Push(p, c)) = PathTo[Enter(d, c)]
    BY <2>1, <2>2, <2>4, <2>5, <2>6, StepTogether
  <2>8. Fine(Append(s, c))
    BY <2>4, <2>7
  <2> HIDE DEF Fine
  <2>9. QED
    BY <2>1, <2>8
<1>4. Good = 0 .. n
  <2> HIDE DEF Good
  <2>1. Good \in SUBSET (0 .. n)
    BY DEF Good
  <2>2. QED
    BY <1>1, <1>2, <1>3, <2>1, UpTo
<1>5. Fine(t)
  <2>1. n \in 0 .. n /\ SubSeq(t, 1, n) = t
    BY <1>1, Starts
  <2> HIDE DEF Fine
  <2>2. QED
    BY <1>4, <2>1
<1>6. QED
  BY <1>5

\* A path without dots that is, as text, that of a directory leads there.
LEMMA TextLeads ==
  ASSUME TreeInv, NEW text \in Seq(Names), NEW dir \in Directories, There(dir),
         Resolved(text) = PathTo[dir]
  PROVE  Walk(Root, text) = dir
<1> DEFINE Leads(p) == \A d \in Directories : There(d) /\ Resolved(p) = PathTo[d] => Walk(Root, p) = d
           G == {p \in Seq(Names) : Leads(p)}
<1>0. Names \subseteq Segments /\ Root \in Spots /\ Root \in Directories /\ There(Root)
  BY DirsAssumption DEF Segments, Spots, TreeInv
<1>1. Seq(Names) \subseteq Seq(Segments)
  BY <1>0
<1>2. <<>> \in G
  <2>1. Walk(Root, <<>>) = Root /\ Resolved(<<>>) = <<>> /\ <<>> \in Seq(Names)
    BY <1>0, WalkOn, ResolvedOn
  <2>2. QED
    BY <2>1, PathOf
<1>3. ASSUME NEW p \in G, NEW c \in Names PROVE Append(p, c) \in G
  <2>1. SUFFICES ASSUME NEW d \in Directories, There(d), Resolved(Append(p, c)) = PathTo[d]
                 PROVE  Walk(Root, Append(p, c)) = d
    <3>1. Append(p, c) \in Seq(Names)
      OBVIOUS
    <3>2. QED
      BY <3>1
  <2>2. p \in Seq(Segments) /\ c \in Segments /\ Leads(p)
    BY <1>0, <1>1
  <2> DEFINE r == Resolved(p)
  <2>3. r \in Seq(Segments) /\ PathTo[d] = Resolve(r, c) /\ Walk(Root, Append(p, c)) = Enter(Walk(Root, p), c)
    BY <1>0, <2>1, <2>2, WalkOn, ResolvedOn
  <2>4. CASE r = <<>> /\ c \in DOMAIN Links
    <3>1. Walk(Root, p) = Root
      BY <1>0, <2>2, <2>4, PathOf
    <3>2. Enter(Root, c) = Follow(Links[c])
      BY <2>4 DEF Enter
    <3>3. Links[c] = PathTo[d]
      BY <2>3, <2>4 DEF Resolve
    <3>4. Follow(PathTo[d]) = d
      BY <2>1, PathFollowed
    <3>5. QED
      BY <2>3, <3>1, <3>2, <3>3, <3>4
  <2>5. CASE ~(r = <<>> /\ c \in DOMAIN Links)
    <3>1. PathTo[d] = Append(r, c)
      BY <2>3, <2>5 DEF Resolve
    <3>2. d # Root
      BY <2>2, <2>3, <3>1, PathOf, AppendedSame
    <3>3. PathTo[d] = Append(PathTo[Parent[d]], Name[d]) /\ PathTo[Parent[d]] \in Seq(Segments)
          /\ Name[d] \in Segments /\ Parent[d] \in Directories
      BY <3>2, PathOf
    <3> DEFINE q == PathTo[Parent[d]]
    <3>4. r = q /\ c = Name[d]
      <4>1. Append(r, c) = Append(q, Name[d]) /\ r \in Seq(Segments) /\ q \in Seq(Segments)
        BY <2>3, <3>1, <3>3
      <4> HIDE DEF r, q
      <4>2. QED
        BY <2>2, <3>3, <4>1, AppendedSame
    <3>5. There(Parent[d])
      BY <2>1 DEF TreeInv
    <3>6. Walk(Root, p) = Parent[d]
      BY <2>2, <3>3, <3>4, <3>5
    <3>7. Enter(Parent[d], Name[d]) = d
      BY <2>1, <3>2, EnterChild
    <3>8. QED
      BY <2>3, <3>4, <3>6, <3>7
  <2>6. QED
    BY <2>4, <2>5
<1>4. G = Seq(Names)
  <2>1. G \in SUBSET Seq(Names)
    OBVIOUS
  <2> HIDE DEF G
  <2>2. QED
    BY <1>2, <1>3, <2>1, LongerSequences
<1>5. Leads(text)
  BY <1>4
<1>6. QED
  BY <1>5


\* The text PWD starts with, and the argument of a step whose shell is unmoved.
LEMMA PwdInvInit == CdInit => PwdInv
<1> SUFFICES ASSUME CdInit PROVE PwdInv
  OBVIOUS
<1>1. pwd = <<>> /\ cwd = Root /\ pc = "prompt" /\ <<>> \in Seq(Names) /\ Root \in Directories
  BY DirsAssumption DEF CdInit
<1>2. Resolved(<<>>) = <<>> /\ PathTo[Root] = <<>>
  BY <1>1, ResolvedOn, PathOf
<1>3. CdInv
  BY CdInvInit
<1>4. QED
  BY <1>1, <1>2, <1>3 DEF PwdInv

\* What the logical cd leaves in PWD is the text of where it leads.
LEMMA LogicalTogether ==
  ASSUME PwdInv, PlainLinks, ~UpThroughLink, pc = "logical", ~arg.absolute,
         NEW t, t = MakeAbsolutePath(old, arg), Walk(Root, t) # None
  PROVE  Normalize(t) \in Seq(Names) /\ Resolved(Normalize(t)) = PathTo[Walk(Root, t)]
<1>1. CdInv /\ TreeInv
  BY DEF PwdInv, CdInv
<1>2. t \in Seq(Segments)
  BY <1>1, LogicalThere
<1>3. \A k \in DOMAIN t : t[k] = ".." =>
        \/ Normalize(SubSeq(t, 1, k - 1)) = <<>>
        \/ Last(Normalize(SubSeq(t, 1, k - 1))) \notin DOMAIN Links
  BY DEF UpThroughLink
<1>4. DOMAIN t = 1 .. Len(t)
  BY <1>2
<1>5. Normalize(t) \in Seq(Names)
  BY <1>2, NormalizeNoDots
<1>6. Resolved(Normalize(t)) = PathTo[Walk(Root, t)]
  BY <1>1, <1>2, <1>3, <1>4, WalkTogether
<1>7. QED
  BY <1>5, <1>6

\* Every step that goes up through no link keeps PWD the text of the shell's place.
LEMMA PwdInvNext == ASSUME PlainLinks PROVE PwdInv /\ ~UpThroughLink /\ [CdNext]_cdVars => PwdInv'
<1> SUFFICES ASSUME PwdInv, ~UpThroughLink, [CdNext]_cdVars PROVE PwdInv'
  OBVIOUS
<1>1. /\ CdInv /\ TreeInv /\ cwd \in Directories /\ disk[cwd] # "absent" /\ pwd \in Path \union {Unset}
      /\ pwd # Unset => pwd \in Seq(Names)
      /\ pc = "logical" => old \in Seq(Names)
      /\ pwd # Unset /\ There(cwd) /\ pc # "getcwd" => Resolved(pwd) = PathTo[cwd]
      /\ disk \in [Directories -> {"absent", "there", "removed"}]
  BY DEF PwdInv, CdInv, CdTypes, TreeInv
<1>2. CdInv'
  BY <1>1, CdInvNext
<1> DEFINE Kept == /\ pwd' # Unset => pwd' \in Seq(Names)
                   /\ pc' = "logical" => old' \in Seq(Names)
                   /\ pwd' # Unset /\ There(cwd)' /\ pc' # "getcwd" => Resolved(pwd') = PathTo[cwd']
<1>3. SUFFICES Kept
  BY <1>2 DEF PwdInv, Resolved, Resolve
<1>4. ASSUME NEW a \in Args, NEW home \in Homes, Call(a, home) PROVE Kept
  BY <1>1, <1>4 DEF Call, Return, There
<1>5. ASSUME SaveCurrentPwd PROVE Kept
  <2>1. pc = "save" /\ UNCHANGED <<disk, cwd, pwd, arg>>
        /\ \/ pc' = "prompt"
           \/ pc' = "logical" /\ old' # None /\ old' = IF pwd = Unset THEN Getcwd ELSE pwd
    BY <1>5 DEF SaveCurrentPwd, Return
  <2>2. Getcwd # None => Getcwd \in Seq(Names)
    BY <1>1, PathTyped DEF Getcwd
  <2>3. pc' = "logical" => old' \in Seq(Names)
    BY <1>1, <2>1, <2>2
  <2>4. QED
    BY <1>1, <2>1, <2>3 DEF There
<1>6. ASSUME TryLogicalCd PROVE Kept
  <2> DEFINE t == MakeAbsolutePath(old, arg)
             dir == Walk(Root, t)
  <2>1. pc = "logical" /\ UNCHANGED <<disk, arg, old>>
        /\ \/ pc' = "direct" /\ UNCHANGED <<cwd, pwd, status>>
           \/ ~arg.absolute /\ dir # None /\ cwd' = dir /\ pwd' = UpdatePwd(Normalize(t)) /\ pc' = "prompt"
    BY <1>6 DEF TryLogicalCd, Return
  <2>2. ~arg.absolute /\ dir # None => Normalize(t) \in Seq(Names) /\ Resolved(Normalize(t)) = PathTo[dir]
    BY <2>1, LogicalTogether
  <2> HIDE DEF t, dir
  <2>3. QED
    BY <1>1, <2>1, <2>2 DEF There, UpdatePwd
<1>7. ASSUME ExecuteCd PROVE Kept
  <2>1. pc = "direct" /\ UNCHANGED <<disk, pwd, arg, old>>
        /\ (pc' = "getcwd" \/ (pc' = "prompt" /\ UNCHANGED cwd))
    BY <1>7 DEF ExecuteCd, Return
  <2>2. QED
    BY <1>1, <2>1 DEF There
<1>8. ASSUME UpdatePwdAfterCd PROVE Kept
  <2>1. UNCHANGED <<disk, cwd, arg, old>> /\ pc' = "prompt"
        /\ pwd' = IF Getcwd = None THEN pwd ELSE UpdatePwd(Getcwd)
    BY <1>8 DEF UpdatePwdAfterCd, Return
  <2>2. CASE There(cwd)
    <3>1. Getcwd = PathTo[cwd] /\ PathTo[cwd] # None /\ PathTo[cwd] \in Seq(Names)
      BY <1>1, <2>2, PathTyped DEF Getcwd
    <3>2. pwd' = Unset \/ pwd' = PathTo[cwd]
      BY <2>1, <3>1 DEF UpdatePwd
    <3>3. Resolved(PathTo[cwd]) = PathTo[cwd]
      BY <1>1, PathResolved
    <3>4. QED
      BY <2>1, <3>1, <3>2, <3>3
  <2>3. CASE ~There(cwd)
    BY <1>1, <2>1, <2>3 DEF There, Getcwd
  <2>4. QED
    BY <2>2, <2>3
<1>9. ASSUME UnsetPwd PROVE Kept
  BY <1>1, <1>9 DEF UnsetPwd
<1>10. ASSUME NEW d \in Directories, Mkdir(d) PROVE Kept
  <2>1. disk[d] = "absent" /\ disk' = [disk EXCEPT ![d] = "there"] /\ UNCHANGED <<cwd, pwd, pc, arg, old, status>>
    BY <1>10 DEF Mkdir
  <2>2. There(cwd)' => There(cwd)
    BY <1>1, <2>1 DEF There
  <2>3. QED
    BY <1>1, <2>1, <2>2
<1>11. ASSUME NEW d \in Directories, Rmdir(d) PROVE Kept
  <2>1. disk' = [disk EXCEPT ![d] = "removed"] /\ UNCHANGED <<cwd, pwd, pc, arg, old, status>>
    BY <1>11 DEF Rmdir
  <2>2. There(cwd)' => There(cwd)
    BY <1>1, <2>1 DEF There
  <2>3. QED
    BY <1>1, <2>1, <2>2
<1>12. ASSUME UNCHANGED cdVars PROVE Kept
  BY <1>1, <1>12 DEF cdVars, There
<1>13. QED
  BY <1>4, <1>5, <1>6, <1>7, <1>8, <1>9, <1>10, <1>11, <1>12 DEF CdNext

\* With links that lead nowhere but down, and no argument that goes up through
\* one, PWD leads to the directory the shell is in whenever cd is over, whatever
\* has been removed and made again in between.
THEOREM PwdFollows == ASSUME PlainLinks PROVE CdSpec /\ []~UpThroughLink => []PwdLeadsToCwd
<1>1. PwdInv => PwdLeadsToCwd
  <2> SUFFICES ASSUME PwdInv PROVE PwdLeadsToCwd
    OBVIOUS
  <2>1. CdTypes /\ TreeInv /\ cwd \in Directories
    BY DEF PwdInv, CdInv, CdTypes
  <2>2. ASSUME pc = "prompt", pwd # Unset, There(cwd) PROVE Walk(Root, pwd) = cwd
    <3>1. pwd \in Seq(Names) /\ Resolved(pwd) = PathTo[cwd]
      BY <2>2 DEF PwdInv
    <3>2. QED
      BY <2>1, <2>2, <3>1, TextLeads
  <2>3. QED
    BY <2>1, <2>2 DEF PwdLeadsToCwd
<1>2. QED
  BY <1>1, PwdInvInit, PwdInvNext, PTL DEF CdSpec
==============================================================================
