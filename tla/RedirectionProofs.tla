-------------------------- MODULE RedirectionProofs --------------------------
(***************************************************************************)
(* What TLAPS proves of the redirections, whatever the command lines, the  *)
(* files, the descriptor limit and the interference of other programs: the *)
(* shell gets its own descriptors back, the input is in place before an    *)
(* output is touched, a program runs with the input and the output written *)
(* last, and the files are left as the line says.                          *)
(***************************************************************************)
EXTENDS Redirection, Integers, SequenceTheorems, WellFoundedInduction, TLAPS

Own == [in |-> "tty", out |-> "tty"]

\* Program points between the end of setup_fd_backup and restore_fd.
Covered == {"validate", "input", "outputs", "run", "failed", "restore"}

\* The backup is whole exactly while a builtin may have replaced the shell's
\* descriptors, and then holds what they were; half of it may be there in
\* setup_fd_backup.
BackupInv ==
  /\ saved = [in |-> saved.in, out |-> saved.out]
  /\ kind = "builtin" /\ pc \in Covered =>
       NULL \notin {saved.in, saved.out} /\ (~stuck => saved = Own)
  /\ ~(kind = "builtin" /\ pc \in Covered) =>
       saved.out = NULL /\ (pc # "backupOut" => saved.in = NULL)
  /\ pc = "backupOut" /\ ~stuck => saved.in \in {"tty", NULL}

\* Elsewhere they are the shell's own, unless the shell itself is applying
\* an exit's redirections, or has applied them.
FdInv ==
  /\ ~stuck /\ (me = "child" \/ pc \in {"prompt", "backup", "backupOut"}) =>
       fd["shell"] = Own
  /\ fd = [p \in {"shell", "child"} |-> fd[p]]
  /\ me = IF kind \in InShell THEN "shell" ELSE "child"
  /\ pc \in {"backup", "backupOut", "restore"} => kind = "builtin"

BoolInv == stuck \in BOOLEAN /\ kind \in Kinds

IInv == BackupInv /\ FdInv /\ BoolInv

\* What a process does to its own descriptors leaves the shell's alone, or is
\* the doing of a builtin or an exit.
LEMMA ApplyInv ==
  ASSUME IInv, UNCHANGED <<kind, me, saved, stuck>>,
         pc \in Covered \ {"restore"}, pc' \in Covered \ {"restore"},
         \/ UNCHANGED fd
         \/ \E f : fd' = [fd EXCEPT ![me].in = f]
         \/ \E f : fd' = [fd EXCEPT ![me].out = f]
  PROVE  IInv'
<1>1. BackupInv'
  BY DEF IInv, BackupInv, Covered
<1>2. fd' = [p \in {"shell", "child"} |-> fd'[p]]
  BY DEF IInv, FdInv
<1>3. me = "child" => fd'["shell"] = fd["shell"]
  BY DEF IInv, FdInv
<1>4. FdInv'
  BY <1>2, <1>3 DEF IInv, FdInv, Covered, InShell
<1> QED
  BY <1>1, <1>4 DEF IInv, BoolInv

\* Every step keeps the backup and the shell's own descriptors.
LEMMA StepIInv == IInv /\ [Next]_vars => IInv'
<1> SUFFICES ASSUME IInv, [Next]_vars PROVE IInv'
  OBVIOUS
<1> USE DEF fixed, disk
<1>1. CASE NewLine
  <2>1. fd' = [p \in {"shell", "child"} |-> fd'[p]] /\ fd'["shell"] = fd["shell"]
    BY <1>1 DEF NewLine, IInv, FdInv
  <2>2. saved = NoBackup
    BY <1>1 DEF NewLine, IInv, BackupInv, NoBackup, Covered
  <2>3. BackupInv'
    BY <1>1, <2>2 DEF NewLine, BackupInv, NoBackup, Covered, IInv, BoolInv
  <2> QED
    BY <1>1, <2>1, <2>3 DEF NewLine, IInv, FdInv, BoolInv, Kinds, InShell
<1>2. CASE DupStdin
  <2>1. saved = NoBackup /\ kind = "builtin" /\ (~stuck => fd["shell"] = Own)
    BY <1>2 DEF DupStdin, IInv, BackupInv, FdInv, NoBackup, Covered
  <2>2. BackupInv'
    BY <1>2, <2>1 DEF DupStdin, BackupInv, NoBackup, Own, Covered
  <2> QED
    BY <1>2, <2>1, <2>2 DEF DupStdin, IInv, FdInv, BoolInv
<1>3. CASE DupStdout
  <2>1. /\ saved = [in |-> saved.in, out |-> NULL] /\ kind = "builtin"
        /\ ~stuck => saved.in \in {"tty", NULL} /\ fd["shell"] = Own
    BY <1>3 DEF DupStdout, IInv, BackupInv, FdInv, Covered
  <2>2. DupOfStdout = saved \/ DupOfStdout = [in |-> saved.in, out |-> fd["shell"].out]
    BY <2>1 DEF DupOfStdout
  <2>3. BackupInv'
    BY <1>3, <2>1, <2>2 DEF DupStdout, BackupInv, NoBackup, Own, Covered
  <2> QED
    BY <1>3, <2>1, <2>3 DEF DupStdout, IInv, FdInv, BoolInv, Kinds, InShell
<1>4. CASE ValidateInput
  BY <1>4, ApplyInv DEF ValidateInput, Covered
<1>5. CASE HandleInputRedirections
  BY <1>5, ApplyInv DEF HandleInputRedirections, Covered
<1>6. CASE HandleOutputRedirection
  BY <1>6, ApplyInv DEF HandleOutputRedirection, Covered
<1>7. CASE HandleOutputRedirectionFails
  BY <1>7, ApplyInv DEF HandleOutputRedirectionFails, Covered
<1>8. CASE RedirectionsDone
  BY <1>8, ApplyInv DEF RedirectionsDone, Covered
<1>9. CASE Run
  BY <1>9 DEF Run, After, IInv, BackupInv, FdInv, BoolInv, Covered, Kinds, InShell
<1>10. CASE RunExit
  BY <1>10 DEF RunExit, IInv, BackupInv, FdInv, BoolInv, Covered, InShell
<1>11. CASE Failed
  BY <1>11 DEF Failed, After, IInv, BackupInv, FdInv, BoolInv, Covered, Kinds, InShell
<1>12. CASE RestoreFd
  <2>1. kind = "builtin" /\ (~stuck => saved = Own)
    BY <1>12 DEF RestoreFd, IInv, BackupInv, FdInv, Covered
  <2>2. fd' = [p \in {"shell", "child"} |-> fd'[p]] /\ fd'["shell"] = saved
    BY <1>12 DEF RestoreFd, IInv, FdInv
  <2> QED
    BY <1>12, <2>1, <2>2
       DEF RestoreFd, IInv, BackupInv, FdInv, BoolInv, NoBackup, Covered, InShell
<1>13. ASSUME NEW f \in Files, Outside(f) PROVE IInv'
  BY <1>13 DEF Outside, IInv, BackupInv, FdInv, BoolInv
<1>14. CASE UNCHANGED vars
  BY <1>14 DEF vars, IInv, BackupInv, FdInv, BoolInv
<1> QED
  BY <1>1, <1>2, <1>3, <1>4, <1>5, <1>6, <1>7, <1>8, <1>9, <1>10, <1>11,
     <1>12, <1>13, <1>14 DEF Next

\* No line has been typed: no backup, and the shell's own descriptors.
LEMMA InitIInv == Init => IInv
<1>1. Init => BackupInv
  BY DEF Init, BackupInv, NoBackup, Covered
<1>2. Init => FdInv /\ BoolInv
  BY DEF Init, FdInv, BoolInv, Own, Kinds, InShell
<1> QED
  BY <1>1, <1>2 DEF IInv

\* Back at the prompt the shell holds no backup, whichever dup failed, and has
\* its own input and output, unless an exit did not exit.
THEOREM DescriptorsRestored == Spec => []ShellDescriptors
<1>1. IInv => ShellDescriptors
  BY DEF IInv, BackupInv, FdInv, ShellDescriptors, NoBackup, Covered, Own
<1> QED
  BY <1>1, InitIInv, StepIInv, PTL DEF Spec

-----------------------------------------------------------------------------
(* The input comes first.                                                  *)

\* Both descriptors of both processes are there.
ShapeInv ==
  /\ me \in {"shell", "child"}
  /\ fd = [p \in {"shell", "child"} |-> [in |-> fd[p].in, out |-> fd[p].out]]

\* No file has been touched before the outputs are reached, and from there on
\* the input written last is in place.
InputInPlace == LastInput # <<>> => fd[me].in = LastInput[1]
InputInv ==
  /\ pc \in {"prompt", "backup", "backupOut", "exited"} \union Covered
  /\ pc \in {"validate", "input", "backup", "backupOut"} => touched = {}
  /\ pc \in {"outputs", "run"} => InputInPlace
  /\ pc \in {"failed", "exited"} => touched = {} \/ InputInPlace

OrderInv == IInv /\ ShapeInv /\ InputInv

\* The input written last depends on the line alone.
LEMMA LastInputKept == line' = line => LastInput' = LastInput
BY DEF LastInput

\* Descriptor 0 of a process is not what an output redirection replaces.
LEMMA OutputKeepsInput ==
  ASSUME ShapeInv, NEW f, UNCHANGED me, fd' = [fd EXCEPT ![me].out = f]
  PROVE  ShapeInv' /\ fd'[me].in = fd[me].in
<1>1. fd' = [p \in {"shell", "child"} |-> fd'[p]] /\ me \in DOMAIN fd
  BY DEF ShapeInv
<1>2. fd[me] = [in |-> fd[me].in, out |-> fd[me].out]
  BY DEF ShapeInv
<1>3. fd'[me] = [fd[me] EXCEPT !.out = f]
  BY <1>1
<1>4. [fd[me] EXCEPT !.out = f] = [in |-> fd[me].in, out |-> f]
  BY <1>2
<1>5. fd'[me] = [in |-> fd'[me].in, out |-> fd'[me].out] /\ fd'[me].in = fd[me].in
  BY <1>3, <1>4
<1>6. \A p \in {"shell", "child"} \ {me} : fd'[p] = fd[p]
  BY <1>1
<1>7. \A p \in {"shell", "child"} : fd'[p] = [in |-> fd'[p].in, out |-> fd'[p].out]
  BY <1>5, <1>6 DEF ShapeInv
<1>8. fd' = [p \in {"shell", "child"} |-> [in |-> fd'[p].in, out |-> fd'[p].out]]
  BY <1>1, <1>7
<1> QED
  BY <1>5, <1>8 DEF ShapeInv

\* Every step keeps the input in place before an output is touched.
LEMMA StepOrderInv == OrderInv /\ [Next]_vars => OrderInv'
<1> SUFFICES ASSUME OrderInv, [Next]_vars PROVE ShapeInv' /\ InputInv'
  BY StepIInv DEF OrderInv
<1> USE DEF fixed, disk, Covered
<1>1. CASE NewLine
  <2>1. me' \in {"shell", "child"} /\ fd' = [fd EXCEPT !["child"] = fd["shell"]]
    BY <1>1 DEF NewLine
  <2>2. ShapeInv'
    <3>1. /\ fd' = [p \in {"shell", "child"} |-> fd'[p]]
          /\ \A p \in {"shell", "child"} : fd'[p] = fd["shell"]
      BY <1>1, <2>1 DEF NewLine, OrderInv, ShapeInv
    <3>2. fd["shell"] = [in |-> fd["shell"].in, out |-> fd["shell"].out]
      BY DEF OrderInv, ShapeInv
    <3>3. \A p \in {"shell", "child"} : fd'[p] = [in |-> fd'[p].in, out |-> fd'[p].out]
      BY <3>1, <3>2
    <3> QED
      BY <2>1, <3>1, <3>3 DEF OrderInv, ShapeInv
  <2> QED
    BY <1>1, <2>2 DEF NewLine, InputInv
<1>2. CASE DupStdin \/ DupStdout
  BY <1>2 DEF DupStdin, DupStdout, OrderInv, ShapeInv, InputInv
<1>3. CASE ValidateInput \/ HandleOutputRedirectionFails \/ RedirectionsDone \/ Run
           \/ RunExit \/ Failed
  <2>1. ShapeInv' /\ UNCHANGED <<fd, me, touched, line>>
    BY <1>3 DEF ValidateInput, HandleOutputRedirectionFails,
                RedirectionsDone, Run, RunExit, Failed, OrderInv, ShapeInv
  <2>2. InputInPlace' <=> InputInPlace
    BY <2>1, LastInputKept DEF InputInPlace
  <2>3. CASE ValidateInput
    BY <2>1, <2>2, <2>3 DEF ValidateInput, OrderInv, InputInv, InputInPlace
  <2>4. CASE Run \/ Failed
    BY <2>1, <2>2, <2>4 DEF Run, Failed, After, OrderInv, InputInv
  <2> QED
    BY <1>3, <2>1, <2>2, <2>3, <2>4
       DEF HandleOutputRedirectionFails, RedirectionsDone, RunExit, OrderInv, InputInv
<1>4. CASE HandleInputRedirections
  <2>1. ShapeInv' /\ UNCHANGED <<me, touched, line>>
    BY <1>4 DEF HandleInputRedirections, OrderInv, ShapeInv
  <2>2. pc' = "outputs" => fd'[me].in = LastInput[1]
    BY <1>4 DEF HandleInputRedirections, OrderInv, ShapeInv
  <2>3. pc' = "outputs" => InputInPlace'
    BY <2>1, <2>2, LastInputKept DEF InputInPlace
  <2> QED
    BY <1>4, <2>1, <2>3 DEF HandleInputRedirections, OrderInv, InputInv
<1>5. CASE HandleOutputRedirection
  <2>1. UNCHANGED <<pc, me, line>> /\ pc = "outputs"
        /\ \E f : fd' = [fd EXCEPT ![me].out = f]
    BY <1>5 DEF HandleOutputRedirection
  <2>2. ShapeInv' /\ fd'[me].in = fd[me].in
    BY <2>1, OutputKeepsInput DEF OrderInv
  <2>3. InputInPlace'
    BY <2>1, <2>2, LastInputKept DEF InputInPlace, OrderInv, InputInv
  <2> QED
    BY <2>1, <2>2, <2>3 DEF InputInv
<1>6. CASE RestoreFd
  <2>1. saved = [in |-> saved.in, out |-> saved.out]
    BY DEF OrderInv, IInv, BackupInv
  <2> QED
    BY <1>6, <2>1 DEF RestoreFd, OrderInv, ShapeInv, InputInv
<1>7. CASE UNCHANGED vars \/ \E f \in Files : Outside(f)
  <2>1. UNCHANGED <<pc, me, fd, touched, line>>
    BY <1>7 DEF vars, Outside
  <2>2. InputInPlace' <=> InputInPlace
    BY <2>1, LastInputKept DEF InputInPlace
  <2> QED
    BY <2>1, <2>2 DEF OrderInv, ShapeInv, InputInv
<1> QED
  BY <1>1, <1>2, <1>3, <1>4, <1>5, <1>6, <1>7 DEF Next

\* Whatever the line, and whatever other programs do between access and open,
\* no output file is touched before the last input is descriptor 0
\* (handle_redirections).
THEOREM InputComesFirst == Spec => []InputBeforeOutputs
<1>1. Init => OrderInv
  BY InitIInv DEF Init, OrderInv, ShapeInv, InputInv
<1>2. OrderInv => InputBeforeOutputs
  <2> SUFFICES ASSUME OrderInv, pc # "prompt", me = "child", touched # {}, LastInput # <<>>
               PROVE  fd["child"].in = LastInput[1]
    BY DEF InputBeforeOutputs
  <2>1. pc \in {"outputs", "run", "failed", "exited"}
    BY DEF OrderInv, IInv, BackupInv, FdInv, BoolInv, InputInv, InShell, Kinds, Covered
  <2> QED
    BY <2>1 DEF OrderInv, InputInv, InputInPlace
<1> QED
  BY <1>1, <1>2, StepOrderInv, PTL DEF Spec
-----------------------------------------------------------------------------
(* Numbers, and functions defined by recursion.                            *)

\* A set of natural numbers that is not empty has a least one.
LEMMA LeastNat ==
  ASSUME NEW S \in SUBSET Nat, S # {}
  PROVE  \E m \in S : \A n \in S : m <= n
<1> DEFINE R == {p \in Nat \X Nat : p[1] < p[2]}
<1>1. R = OpToRel(<, Nat)
  BY DEF OpToRel
<1>2. IsWellFoundedOn(R, Nat)
  BY <1>1, NatLessThanWellFounded, Zenon
<1>3. PICK m \in S : \A n \in S : ~(<<n, m>> \in R)
  <2> HIDE DEF R
  <2> QED
    BY <1>2, WFMin, Zenon
<1>4. \A n \in S : ~(n < m)
  BY <1>3
<1>5. QED
  BY <1>4

\* What holds at 0, and at each number if at the one before it, holds up to n.
LEMMA UpTo ==
  ASSUME NEW n \in Nat, NEW Good \in SUBSET (0 .. n), 0 \in Good,
         \A j \in 1 .. n : j - 1 \in Good => j \in Good
  PROVE  Good = 0 .. n
<1> DEFINE Bad == (0 .. n) \ Good
<1> SUFFICES ASSUME Bad # {} PROVE FALSE
  OBVIOUS
<1>1. Bad \in SUBSET Nat
  OBVIOUS
<1>2. PICK m \in Bad : \A l \in Bad : m <= l
  BY <1>1, LeastNat
<1>3. m \in 1 .. n /\ m - 1 \in 0 .. n /\ ~(m <= m - 1)
  BY <1>2
<1>4. m - 1 \in Good
  BY <1>2, <1>3
<1>5. QED
  BY <1>2, <1>3, <1>4

\* f[j] is made by the j-th step of f[j - 1].
Folds(n, base, step, f) == f = [j \in 0 .. n |-> IF j = 0 THEN base ELSE step[j][f[j - 1]]]

\* Such a function exists, and stays in S if every step does.
LEMMA Folding ==
  ASSUME NEW n \in Nat, NEW S, NEW base \in S, NEW step, \A j \in 1 .. n : step[j] \in [S -> S]
  PROVE  /\ \E f : Folds(n, base, step, f)
         /\ \A f : Folds(n, base, step, f) => \A j \in 0 .. n : f[j] \in S
<1> DEFINE Up(m, f) == f[0] = base /\ \A j \in 1 .. m : f[j] = step[j][f[j - 1]]
           Good == {m \in 0 .. n : \E f \in [0 .. n -> S] : Up(m, f)}
<1>1. 0 \in Good
  <2>1. [j \in 0 .. n |-> base] \in [0 .. n -> S] /\ Up(0, [j \in 0 .. n |-> base])
    OBVIOUS
  <2>2. 0 \in 0 .. n
    OBVIOUS
  <2> HIDE DEF Up
  <2>3. QED
    BY <2>1, <2>2
<1>2. ASSUME NEW m \in 1 .. n, m - 1 \in Good PROVE m \in Good
  <2>1. PICK g \in [0 .. n -> S] : Up(m - 1, g)
    BY <1>2
  <2> DEFINE f == [g EXCEPT ![m] = step[m][g[m - 1]]]
  <2>2. m \in 0 .. n /\ m - 1 \in 0 .. n
    OBVIOUS
  <2>3. step[m][g[m - 1]] \in S
    <3>1. g[m - 1] \in S
      BY <2>2
    <3>2. step[m] \in [S -> S]
      OBVIOUS
    <3>3. QED
      BY <3>1, <3>2
  <2>4. f \in [0 .. n -> S]
    BY <2>3
  <2>5. f[m] = step[m][g[m - 1]] /\ \A j \in 0 .. n : j # m => f[j] = g[j]
    BY <2>2
  <2> HIDE DEF f
  <2>6. f[0] = base
    BY <2>1, <2>5
  <2>7. ASSUME NEW j \in 1 .. m PROVE f[j] = step[j][f[j - 1]]
    <3>1. f[j - 1] = g[j - 1]
      BY <2>5
    <3>2. CASE j = m
      BY <2>5, <3>1, <3>2
    <3>3. CASE j # m
      <4>1. j \in 1 .. m - 1 /\ j \in 0 .. n
        BY <3>3
      <4>2. QED
        BY <2>1, <2>5, <3>1, <3>3, <4>1
    <3>4. QED
      BY <3>2, <3>3
  <2>8. QED
    BY <2>2, <2>4, <2>6, <2>7
<1>3. Good = 0 .. n
  <2> HIDE DEF Good
  <2>1. Good \in SUBSET (0 .. n)
    BY DEF Good
  <2>2. QED
    BY <1>1, <1>2, <2>1, UpTo
<1>4. \E f : Folds(n, base, step, f)
  <2>1. PICK f \in [0 .. n -> S] : Up(n, f)
    <3>1. n \in 0 .. n
      OBVIOUS
    <3> HIDE DEF Up
    <3>2. QED
      BY <1>3, <3>1
  <2>2. \A j \in 0 .. n : f[j] = IF j = 0 THEN base ELSE step[j][f[j - 1]]
    BY <2>1
  <2>3. f = [j \in 0 .. n |-> IF j = 0 THEN base ELSE step[j][f[j - 1]]]
    BY <2>2
  <2>4. QED
    BY <2>3 DEF Folds
<1>5. ASSUME NEW f, Folds(n, base, step, f) PROVE \A j \in 0 .. n : f[j] \in S
  <2> DEFINE Typed == {j \in 0 .. n : f[j] \in S}
  <2>1. \A j \in 0 .. n : f[j] = IF j = 0 THEN base ELSE step[j][f[j - 1]]
    BY <1>5 DEF Folds
  <2>2. 0 \in Typed
    <3>1. 0 \in 0 .. n
      OBVIOUS
    <3>2. f[0] = base
      BY <2>1, <3>1
    <3>3. QED
      BY <3>1, <3>2
  <2>3. ASSUME NEW j \in 1 .. n, j - 1 \in Typed PROVE j \in Typed
    <3>1. j \in 0 .. n /\ j # 0
      OBVIOUS
    <3>2. f[j] = step[j][f[j - 1]]
      BY <2>1, <3>1
    <3>3. step[j] \in [S -> S] /\ f[j - 1] \in S
      BY <2>3
    <3>4. QED
      BY <3>1, <3>2, <3>3
  <2>4. Typed = 0 .. n
    <3> HIDE DEF Typed
    <3>1. Typed \in SUBSET (0 .. n)
      BY DEF Typed
    <3>2. QED
      BY <2>2, <2>3, <3>1, UpTo
  <2>5. QED
    BY <2>4
<1>6. QED
  BY <1>4, <1>5


-----------------------------------------------------------------------------
(* The lists parse_redir makes.                                            *)

Redir == [op : Op, file : Files \union {NULL}]
Written == Seq(Redir)
Node == [file : Files \union {NULL}, append : BOOLEAN, index : Nat]
NodeOf(r, i) == [file |-> r[i].file, append |-> r[i].op = ">>", index |-> i]

\* l is the list of the redirections up to n whose operator is one of ops: a
\* node for each of them, in the order they were written.
Made(r, ops, l, n) ==
  /\ l \in Seq(Node)
  /\ \A m \in 1 .. Len(l) : /\ l[m].index \in 1 .. n /\ r[l[m].index].op \in ops
                            /\ l[m] = NodeOf(r, l[m].index)
  /\ \A m, p \in 1 .. Len(l) : m < p => l[m].index < l[p].index
  /\ \A i \in 1 .. n : r[i].op \in ops => \E m \in 1 .. Len(l) : l[m].index = i

\* The next redirection adds its node, if it belongs in the list.
LEMMA MadeNext ==
  ASSUME NEW r \in Written, NEW ops, NEW n \in 1 .. Len(r), NEW l, Made(r, ops, l, n - 1)
  PROVE  IF r[n].op \in ops THEN Made(r, ops, Append(l, NodeOf(r, n)), n)
                            ELSE Made(r, ops, l, n)
<1>1. n \in Nat /\ n - 1 \in Nat /\ r[n] \in Redir
  BY DEF Written
<1>2. NodeOf(r, n) \in Node /\ NodeOf(r, n).index = n
  BY <1>1 DEF NodeOf, Node, Redir
<1>3. CASE r[n].op \notin ops
  <2>1. \A i \in 1 .. n - 1 : i \in 1 .. n
    BY <1>1
  <2>2. \A i \in 1 .. n : r[i].op \in ops => i \in 1 .. n - 1
    BY <1>1, <1>3
  <2>3. Made(r, ops, l, n)
    BY <2>1, <2>2 DEF Made
  <2> QED
    BY <1>3, <2>3
<1>4. CASE r[n].op \in ops
  <2> DEFINE e == NodeOf(r, n)
             t == Append(l, e)
             N == Len(l)
  <2>1. l \in Seq(Node) /\ N \in Nat
    BY DEF Made
  <2>2. /\ t \in Seq(Node) /\ Len(t) = N + 1 /\ t[N + 1] = e
        /\ \A m \in 1 .. N : t[m] = l[m]
    <3> HIDE DEF e
    <3>1. e \in Node
      BY <1>2 DEF e
    <3> QED
      BY <2>1, <3>1, AppendProperties
  <2>3. e = NodeOf(r, n) /\ e.index = n
    BY <1>2
  <2> HIDE DEF e, t, N
  <2>4. ASSUME NEW m \in 1 .. N
        PROVE  t[m].index \in 1 .. n - 1 /\ r[t[m].index].op \in ops /\ t[m] = NodeOf(r, t[m].index)
    BY <2>2 DEF Made, N
  <2>5. \A m \in 1 .. Len(t) : m \in 1 .. N \/ m = N + 1
    BY <2>1, <2>2
  <2>6. ASSUME NEW m \in 1 .. Len(t)
        PROVE  t[m].index \in 1 .. n /\ r[t[m].index].op \in ops /\ t[m] = NodeOf(r, t[m].index)
    <3>1. CASE m \in 1 .. N
      <4>1. t[m].index \in 1 .. n - 1 /\ r[t[m].index].op \in ops /\ t[m] = NodeOf(r, t[m].index)
        BY <2>4, <3>1
      <4>2. t[m].index \in 1 .. n
        BY <1>1, <4>1
      <4> QED
        BY <4>1, <4>2
    <3>2. CASE m = N + 1
      <4>1. t[m] = e
        BY <2>2, <3>2
      <4>2. n \in 1 .. n
        BY <1>1
      <4> QED
        BY <1>4, <2>3, <4>1, <4>2
    <3> QED
      BY <2>5, <3>1, <3>2
  <2>7. ASSUME NEW m \in 1 .. Len(t), NEW p \in 1 .. Len(t), m < p
        PROVE  t[m].index < t[p].index
    <3>1. m \in 1 .. N
      BY <2>1, <2>2, <2>7
    <3>2. CASE p \in 1 .. N
      <4>1. l[m].index < l[p].index
        BY <2>7, <3>1, <3>2 DEF Made, N
      <4> QED
        BY <2>2, <3>1, <3>2, <4>1
    <3>3. CASE p = N + 1
      <4>1. t[p].index = n
        BY <2>2, <2>3, <3>3
      <4>2. t[m].index \in 1 .. n - 1
        BY <2>4, <3>1
      <4> QED
        BY <1>1, <4>1, <4>2
    <3> QED
      BY <2>5, <3>2, <3>3
  <2>8. ASSUME NEW i \in 1 .. n, r[i].op \in ops
        PROVE  \E m \in 1 .. Len(t) : t[m].index = i
    <3>1. CASE i \in 1 .. n - 1
      <4>1. PICK m \in 1 .. N : l[m].index = i
        BY <2>8, <3>1 DEF Made, N
      <4>2. m \in 1 .. Len(t) /\ t[m] = l[m]
        BY <2>1, <2>2, <4>1
      <4> QED
        BY <4>1, <4>2
    <3>2. CASE i = n
      <4>1. N + 1 \in 1 .. Len(t)
        BY <2>1, <2>2
      <4>2. t[N + 1].index = i
        BY <2>2, <2>3, <3>2
      <4> QED
        BY <4>1, <4>2
    <3> QED
      BY <1>1, <3>1, <3>2
  <2>9. Made(r, ops, t, n)
    BY <2>2, <2>6, <2>7, <2>8 DEF Made
  <2> QED
    BY <1>4, <2>9 DEF e, t
<1> QED
  BY <1>3, <1>4

\* Each list of a command is made of its redirections with that operator.
LEMMA ListMade ==
  ASSUME NEW r \in Written, NEW ops
  PROVE  Made(r, ops, ListOf(r, ops), Len(r))
<1> DEFINE N == Len(r)
           S == Seq(Node)
           step == [i \in 1 .. N |->
                      [l \in S |-> IF r[i].op \in ops THEN Append(l, NodeOf(r, i)) ELSE l]]
           Is(f) == f = [i \in 0 .. N |->
                           IF i = 0 THEN <<>>
                           ELSE IF r[i].op \in ops THEN Append(f[i - 1], NodeOf(r, i))
                           ELSE f[i - 1]]
           list == CHOOSE f : Is(f)
<1>1. N \in Nat /\ <<>> \in S
  BY DEF Written
<1>2. ASSUME NEW i \in 1 .. N PROVE step[i] \in [S -> S]
  <2>1. r[i] \in Redir
    BY DEF Written
  <2>2. NodeOf(r, i) \in Node
    BY <1>1, <2>1 DEF NodeOf, Node, Redir
  <2> QED
    BY <2>2
<1>3. PICK f : Folds(N, <<>>, step, f) /\ \A i \in 0 .. N : f[i] \in S
  <2> HIDE DEF step, S, N
  <2> QED
    BY <1>1, <1>2, Folding
<1>4. Is(f)
  <2>1. ASSUME NEW i \in 1 .. N
        PROVE  step[i][f[i - 1]] = IF r[i].op \in ops THEN Append(f[i - 1], NodeOf(r, i))
                                   ELSE f[i - 1]
    <3>1. i - 1 \in 0 .. N
      BY <1>1
    <3>2. f[i - 1] \in S
      BY <1>3, <3>1
    <3> QED
      BY <3>2
  <2>2. \A i \in 0 .. N : i = 0 \/ i \in 1 .. N
    BY <1>1
  <2> HIDE DEF step, S, N
  <2>3. f = [i \in 0 .. N |-> IF i = 0 THEN <<>> ELSE step[i][f[i - 1]]]
    BY <1>3 DEF Folds
  <2>4. [i \in 0 .. N |-> IF i = 0 THEN <<>> ELSE step[i][f[i - 1]]]
        = [i \in 0 .. N |->
             IF i = 0 THEN <<>>
             ELSE IF r[i].op \in ops THEN Append(f[i - 1], NodeOf(r, i)) ELSE f[i - 1]]
    BY <2>1, <2>2
  <2> QED
    BY <2>3, <2>4
<1>5. Is(list)
  <2> HIDE DEF Is
  <2> QED
    BY <1>4
<1>6. ListOf(r, ops) = list[N]
  BY DEF ListOf, NodeOf
<1> DEFINE Good == {i \in 0 .. N : Made(r, ops, list[i], i)}
<1>7. 0 \in Good
  <2>1. list[0] = <<>> /\ 0 \in 0 .. N
    <3> HIDE DEF list
    <3> QED
      BY <1>1, <1>5
  <2>2. Made(r, ops, <<>>, 0)
    BY DEF Made
  <2> HIDE DEF list
  <2> QED
    BY <2>1, <2>2
<1>8. ASSUME NEW i \in 1 .. N, i - 1 \in Good PROVE i \in Good
  <2>1. list[i] = IF r[i].op \in ops THEN Append(list[i - 1], NodeOf(r, i)) ELSE list[i - 1]
    <3>1. i \in 0 .. N /\ i # 0
      BY <1>1
    <3> HIDE DEF list
    <3> QED
      BY <1>5, <3>1
  <2>2. Made(r, ops, list[i - 1], i - 1)
    BY <1>8
  <2>3. i \in 0 .. N /\ i \in 1 .. Len(r)
    BY <1>1
  <2> DEFINE l == list[i - 1]
  <2> HIDE DEF l
  <2>4. IF r[i].op \in ops THEN Made(r, ops, Append(l, NodeOf(r, i)), i) ELSE Made(r, ops, l, i)
    BY <2>2, <2>3, MadeNext DEF l
  <2>5. Made(r, ops, list[i], i)
    <3> HIDE DEF list
    <3> QED
      BY <2>1, <2>4 DEF l
  <2> QED
    BY <2>3, <2>5
<1>9. Good = 0 .. N
  <2>1. Good \in SUBSET (0 .. N)
    OBVIOUS
  <2> HIDE DEF Good, N
  <2> QED
    BY <1>1, <1>7, <1>8, <2>1, UpTo
<1> QED
  <2>1. N \in 0 .. N
    BY <1>1
  <2> HIDE DEF list
  <2> QED
    BY <1>6, <1>9, <2>1

\* Where the redirections with those operators were written.
Places(r, ops) == {i \in 1 .. Len(r) : r[i].op \in ops}

\* The last node of a list is that of the redirection written last.
LEMMA LastOfList ==
  ASSUME NEW r \in Written, NEW ops
  PROVE  LET l == ListOf(r, ops) IN
         /\ l \in Seq(Node) /\ (l = <<>> <=> Places(r, ops) = {})
         /\ l # <<>> => /\ Last(l).index \in Places(r, ops)
                        /\ Last(l).file = r[Last(l).index].file
                        /\ \A i \in Places(r, ops) : i <= Last(l).index
<1> DEFINE l == ListOf(r, ops)
           N == Len(l)
           S == Places(r, ops)
<1>1. Made(r, ops, l, Len(r))
  BY ListMade
<1> HIDE DEF l
<1>2. l \in Seq(Node) /\ N \in Nat /\ (l = <<>> <=> N = 0)
  BY <1>1 DEF Made
<1>3. ASSUME NEW i \in S PROVE \E m \in 1 .. N : l[m].index = i
  BY <1>1 DEF Made, Places
<1>4. ASSUME NEW m \in 1 .. N PROVE l[m].index \in S /\ l[m].file = r[l[m].index].file
  <2> DEFINE i == l[m].index
  <2>1. i \in 1 .. Len(r) /\ r[i].op \in ops /\ l[m] = NodeOf(r, i)
    BY <1>1 DEF Made
  <2> HIDE DEF i
  <2>2. NodeOf(r, i).file = r[i].file
    BY DEF NodeOf
  <2> QED
    BY <2>1, <2>2 DEF i, Places
<1>5. l = <<>> <=> S = {}
  <2>1. l = <<>> => S = {}
    BY <1>2, <1>3
  <2>2. ASSUME l # <<>> PROVE S # {}
    <3>1. 1 \in 1 .. N
      BY <1>2, <2>2
    <3> QED
      BY <1>4, <3>1
  <2> QED
    BY <2>1, <2>2
<1>6. ASSUME l # <<>>
      PROVE  /\ Last(l).index \in S /\ Last(l).file = r[Last(l).index].file
             /\ \A i \in S : i <= Last(l).index
  <2>1. Last(l) = l[N] /\ N \in 1 .. N
    BY <1>2, <1>6 DEF Last
  <2>2. ASSUME NEW i \in S PROVE i <= l[N].index
    <3>1. PICK m \in 1 .. N : l[m].index = i
      BY <1>3
    <3>2. CASE m = N
      <4>1. i \in Nat
        BY DEF Places
      <4> QED
        BY <3>1, <3>2, <4>1
    <3>3. CASE m # N
      <4>1. m < N
        BY <1>2, <3>3
      <4>2. l[m].index < l[N].index
        BY <1>1, <2>1, <4>1 DEF Made
      <4>3. i \in Nat /\ l[N].index \in Nat
        BY <1>4, <2>1 DEF Places
      <4> QED
        BY <3>1, <4>2, <4>3
    <3> QED
      BY <3>2, <3>3
  <2> QED
    BY <1>4, <2>1, <2>2
<1> QED
  BY <1>2, <1>5, <1>6 DEF l

\* check_redir looks at the redirection written last of those that feed
\* standard input, whichever of the two lists it is in.
LEMMA LastInputIs ==
  ASSUME line \in Written
  PROVE  LET S == Places(line, InputOps \union HeredocOps) IN
         /\ LastInput = <<>> <=> S = {}
         /\ S # {} => \E i \in S : /\ \A j \in S : j <= i
                                   /\ LastInput = <<line[i].file>>
<1> DEFINE hd == ListOf(line, HeredocOps)
           in == ListOf(line, InputOps)
           H == Places(line, HeredocOps)
           I == Places(line, InputOps)
           S == Places(line, InputOps \union HeredocOps)
           h == Last(hd).index
           i == Last(in).index
<1>1. S = H \union I /\ S \in SUBSET Nat
  BY DEF Places
<1>2. /\ hd = <<>> <=> H = {}
      /\ hd # <<>> => h \in H /\ Last(hd).file = line[h].file /\ \A j \in H : j <= h
  BY LastOfList
<1>3. /\ in = <<>> <=> I = {}
      /\ in # <<>> => i \in I /\ Last(in).file = line[i].file /\ \A j \in I : j <= i
  BY LastOfList
<1>4. LastInput = IF hd = <<>> /\ in = <<>> THEN <<>>
                  ELSE IF in = <<>> \/ (hd # <<>> /\ h > i) THEN <<Last(hd).file>>
                  ELSE <<Last(in).file>>
  BY DEF LastInput
<1> HIDE DEF hd, in, H, I, S, h, i
<1>5. ASSUME S = {} PROVE LastInput = <<>>
  BY <1>1, <1>2, <1>3, <1>4, <1>5
<1> DEFINE OfLast == LastInput # <<>> /\ \E m \in S : /\ \A j \in S : j <= m
                                                  /\ LastInput = <<line[m].file>>
<1>6. ASSUME S # {}, in = <<>> \/ (hd # <<>> /\ h > i) PROVE OfLast
  <2>1. hd # <<>>
    BY <1>1, <1>2, <1>3, <1>6
  <2>2. \A j \in S : j <= h
    <3> SUFFICES ASSUME NEW j \in S PROVE j <= h
      OBVIOUS
    <3>1. CASE j \in H
      BY <1>2, <2>1, <3>1
    <3>2. CASE j \in I
      <4>1. j <= i /\ i \in I /\ h > i
        BY <1>3, <1>6, <3>2
      <4>2. j \in Nat /\ i \in Nat /\ h \in Nat
        BY <1>1, <1>2, <2>1, <4>1
      <4> QED
        BY <4>1, <4>2
    <3> QED
      BY <1>1, <3>1, <3>2
  <2>3. LastInput = <<line[h].file>> /\ h \in S
    BY <1>1, <1>2, <1>4, <1>6, <2>1
  <2>4. LastInput # <<>>
    BY <2>3
  <2> QED
    BY <2>2, <2>3, <2>4
<1>7. ASSUME S # {}, ~(in = <<>> \/ (hd # <<>> /\ h > i)) PROVE OfLast
  <2>1. \A j \in S : j <= i
    <3> SUFFICES ASSUME NEW j \in S PROVE j <= i
      OBVIOUS
    <3>1. CASE j \in I
      BY <1>3, <1>7, <3>1
    <3>2. CASE j \in H
      <4>1. j <= h /\ i \in I /\ ~(h > i) /\ h \in H
        BY <1>2, <1>3, <1>7, <3>2
      <4>2. j \in Nat /\ i \in Nat /\ h \in Nat
        BY <1>1, <4>1
      <4> QED
        BY <4>1, <4>2
    <3> QED
      BY <1>1, <3>1, <3>2
  <2>2. LastInput = <<line[i].file>> /\ i \in S
    BY <1>1, <1>3, <1>4, <1>7
  <2>3. LastInput # <<>>
    BY <2>2
  <2> QED
    BY <2>1, <2>2, <2>3
<1>8. QED
  BY <1>5, <1>6, <1>7 DEF S

-----------------------------------------------------------------------------
(* Where the descriptors of the command go.                                *)

\* Program points between the fork, or the backup, and the command.
Applying == {"validate", "input", "outputs", "run", "failed"}

\* Descriptor 1, which was own when the line was typed: only the output
\* written last replaces it.
OutFrom(own) == IF k > Len(Outputs) /\ Outputs # <<>> THEN Last(Outputs).file ELSE own

TypeInv == /\ TypeOK /\ text = [f \in Files |-> text[f]]
           /\ pc = "input" => LastInput # <<>> /\ LastInput[1] # NULL

\* What the process has in place at each point of handle_redirections.
AppliedInv ==
  /\ pc \in {"backup", "backupOut", "validate", "input"} => k = 1
  /\ pc \in Applying => k \in 1 .. Len(Outputs) + 1
  /\ pc = "run" => k = Len(Outputs) + 1
  /\ pc \in Applying /\ me = "child" =>
       /\ fd["child"].out = OutFrom(fd["shell"].out)
       /\ pc \in {"validate", "input"} \/ LastInput = <<>> => fd["child"].in = fd["shell"].in
  /\ pc \in Applying /\ kind = "builtin" /\ ~stuck => fd["shell"].out = OutFrom("tty")

\* The line is a sequence of redirections.
LEMMA LineWritten == TypeInv => line \in Written
<1>1. Lines \subseteq Written
  BY LinesAssumption DEF Written, Redir
<1>2. <<>> \in Written
  BY DEF Written
<1> QED
  BY <1>1, <1>2 DEF TypeInv, TypeOK

\* So do the outputs depend on the line alone.
LEMMA OutputsKept == line' = line => Outputs' = Outputs
BY DEF Outputs

\* The files of the lists are those of the line.
LEMMA OutputsTyped ==
  ASSUME TypeInv
  PROVE  /\ Outputs \in Seq(Node) /\ Len(Outputs) \in Nat
         /\ \A m \in 1 .. Len(Outputs) : Outputs[m].file \in Files \union {NULL}
         /\ LastInput # <<>> => LastInput[1] \in Files \union {NULL}
<1>1. line \in Written
  BY LineWritten
<1>2. Outputs \in Seq(Node)
  BY <1>1, ListMade DEF Made, Outputs
<1>3. \A m \in 1 .. Len(Outputs) : Outputs[m] \in Node
  BY <1>2
<1>4. ASSUME LastInput # <<>> PROVE LastInput[1] \in Files \union {NULL}
  <2>1. PICK i \in 1 .. Len(line) : LastInput = <<line[i].file>>
    BY <1>1, <1>4, LastInputIs DEF Places
  <2>2. line[i] \in Redir
    BY <1>1 DEF Written
  <2> QED
    BY <2>1, <2>2 DEF Redir
<1> QED
  BY <1>2, <1>3, <1>4 DEF Node

\* What a process opens is a file, so its descriptors stay what they may be.
LEMMA RedirectTyped ==
  ASSUME TypeInv, NEW f \in Files
  PROVE  /\ [fd EXCEPT ![me].in = f] \in [{"shell", "child"} -> Descriptors]
         /\ [fd EXCEPT ![me].out = f] \in [{"shell", "child"} -> Descriptors]
<1>1. fd \in [{"shell", "child"} -> Descriptors] /\ me \in {"shell", "child"}
  BY DEF TypeInv, TypeOK
<1>2. fd[me] \in Descriptors
  BY <1>1
<1>3. [fd[me] EXCEPT !.in = f] \in Descriptors /\ [fd[me] EXCEPT !.out = f] \in Descriptors
  BY <1>2 DEF Descriptors
<1>4. /\ [fd EXCEPT ![me].in = f] = [fd EXCEPT ![me] = [fd[me] EXCEPT !.in = f]]
      /\ [fd EXCEPT ![me].out = f] = [fd EXCEPT ![me] = [fd[me] EXCEPT !.out = f]]
  OBVIOUS
<1> HIDE DEF Descriptors
<1>5. \A d \in Descriptors : [fd EXCEPT ![me] = d] \in [{"shell", "child"} -> Descriptors]
  BY <1>1
<1> QED
  BY <1>3, <1>4, <1>5

\* Every step keeps each variable to its values.
LEMMA StepTypeInv == TypeInv /\ OrderInv /\ AppliedInv /\ [Next]_vars => TypeInv'
<1> SUFFICES ASSUME TypeInv, OrderInv, AppliedInv, [Next]_vars PROVE TypeInv'
  OBVIOUS
<1> USE DEF fixed, disk
<1> DEFINE FdOK == fd \in [{"shell", "child"} -> Descriptors]
           SavedOK == saved \in Backups
           DiskOK == /\ fs \in [Files -> FileKinds] /\ text = [f \in Files |-> text[f]]
                     /\ \A f \in Files : fs[f] # "plain" => text[f] = <<>>
           PcOK == pc \in {"prompt", "backup", "backupOut", "validate", "input",
                           "outputs", "run", "failed", "restore", "exited"}
           InputOK == pc = "input" => LastInput # <<>> /\ LastInput[1] # NULL
           RestOK == /\ kind \in Kinds /\ line \in Lines \union {<<>>}
                     /\ me \in {"shell", "child"} /\ k \in Nat
                     /\ status \in {0, 1} /\ touched \subseteq Files /\ stuck \in BOOLEAN
                     /\ limit \in Limits /\ lines \in 0 .. MaxLines
                     /\ outside \in 0 .. MaxOutside
<1>1. TypeInv <=> FdOK /\ SavedOK /\ DiskOK /\ PcOK /\ InputOK /\ RestOK
  BY DEF TypeInv, TypeOK
<1>2. FdOK' /\ SavedOK' /\ DiskOK' /\ PcOK' /\ InputOK' /\ RestOK' => TypeInv'
  BY DEF TypeInv, TypeOK
<1>3. FdOK /\ SavedOK /\ DiskOK /\ PcOK /\ InputOK /\ RestOK
  BY <1>1
<1>4. UNCHANGED fd => FdOK'
  BY <1>3
<1>5. UNCHANGED saved => SavedOK'
  BY <1>3
<1>6. UNCHANGED disk => DiskOK'
  BY <1>3
<1>7. UNCHANGED <<line, pc>> => InputOK'
  BY <1>3, LastInputKept
<1>8. pc' # "input" => InputOK'
  OBVIOUS
<1> HIDE DEF FdOK, SavedOK, DiskOK, InputOK
<1>9. CASE NewLine
  <2>1. FdOK'
    <3>1. fd' = [fd EXCEPT !["child"] = fd["shell"]]
      BY <1>9 DEF NewLine
    <3> QED
      BY <1>3, <3>1 DEF FdOK
  <2>2. RestOK'
    <3>1. kind' \in Kinds /\ line' \in Lines /\ me' \in {"shell", "child"} /\ k' = 1
      BY <1>9 DEF NewLine
    <3>2. lines' \in 0 .. MaxLines
      BY <1>3, <1>9, BoundsAssumption DEF NewLine
    <3> QED
      BY <1>3, <1>9, <3>1, <3>2 DEF NewLine
  <2>3. pc' \in {"backup", "validate"} /\ UNCHANGED <<saved, disk>>
    BY <1>9 DEF NewLine
  <2> QED
    BY <1>2, <1>5, <1>6, <1>8, <2>1, <2>2, <2>3
<1>10. CASE DupStdin \/ DupStdout
  <2>1. SavedOK'
    <3>1. fd["shell"] \in Descriptors
      BY <1>3 DEF FdOK
    <3>2. \/ saved' \in {saved, NoBackup, [saved EXCEPT !.in = fd["shell"].in]}
          \/ saved' = [saved EXCEPT !.out = fd["shell"].out]
      BY <1>10 DEF DupStdin, DupStdout, DupOfStdout
    <3> QED
      BY <1>3, <3>1, <3>2 DEF SavedOK, Backups, NoBackup, Descriptors
  <2>2. RestOK' /\ pc' \in {"backupOut", "validate", "prompt"} /\ UNCHANGED <<fd, disk>>
    BY <1>3, <1>10 DEF DupStdin, DupStdout
  <2> QED
    BY <1>2, <1>4, <1>6, <1>8, <2>1, <2>2
<1>11. CASE ValidateInput
  <2>1. RestOK' /\ PcOK' /\ UNCHANGED <<fd, saved, disk, line>>
    BY <1>3, <1>11 DEF ValidateInput
  <2>2. InputOK'
    BY <1>11, <2>1, LastInputKept DEF ValidateInput, InputOK
  <2> QED
    BY <1>2, <1>4, <1>5, <1>6, <2>1, <2>2
<1>12. CASE HandleInputRedirections
  <2>1. RestOK' /\ pc' \in {"outputs", "failed"} /\ UNCHANGED <<saved, disk>>
    BY <1>3, <1>12 DEF HandleInputRedirections
  <2>2. LastInput[1] \in Files
    BY <1>3, <1>12, OutputsTyped DEF HandleInputRedirections, InputOK
  <2>3. fd' = fd \/ fd' = [fd EXCEPT ![me].in = LastInput[1]]
    BY <1>12 DEF HandleInputRedirections
  <2>4. FdOK'
    BY <1>4, <2>2, <2>3, RedirectTyped DEF FdOK
  <2> QED
    BY <1>2, <1>5, <1>6, <1>8, <2>1, <2>4
<1>13. CASE HandleOutputRedirection
  <2> DEFINE f == Outputs[k].file
  <2>1. f \in Files
    <3>1. k \in 1 .. Len(Outputs)
      BY <1>13, OutputsTyped DEF HandleOutputRedirection, AppliedInv, Applying
    <3> QED
      BY <1>13, <3>1, OutputsTyped DEF HandleOutputRedirection, CanOpenOutput
  <2>2. /\ fs' = [fs EXCEPT ![f] = "plain"]
        /\ text' = [text EXCEPT ![f] = text'[f]]
    <3>1. \E t : text' = [text EXCEPT ![f] = t]
      BY <1>13 DEF HandleOutputRedirection
    <3>2. text = [x \in Files |-> text[x]]
      BY <1>3 DEF DiskOK
    <3> HIDE DEF f
    <3>3. text' = [text EXCEPT ![f] = text'[f]]
      BY <2>1, <3>1, <3>2
    <3> QED
      BY <1>13, <3>3 DEF HandleOutputRedirection, f
  <2>3. fd' = fd \/ fd' = [fd EXCEPT ![me].out = f]
    <3>1. fd' = [fd EXCEPT ![me].out = IF k = Len(Outputs) THEN f ELSE @]
      BY <1>13 DEF HandleOutputRedirection
    <3>2. [fd EXCEPT ![me].out = @] = fd
      <4>1. fd \in [{"shell", "child"} -> Descriptors]
        BY <1>3 DEF FdOK
      <4>2. fd[me] \in Descriptors
        BY <1>3, <4>1
      <4>3. [fd[me] EXCEPT !.out = @] = fd[me]
        BY <4>2 DEF Descriptors
      <4> HIDE DEF Descriptors
      <4>4. [fd EXCEPT ![me].out = @] = [fd EXCEPT ![me] = [fd[me] EXCEPT !.out = @]]
        OBVIOUS
      <4> QED
        BY <4>1, <4>3, <4>4
    <3> HIDE DEF f
    <3> QED
      BY <3>1, <3>2
  <2>4. RestOK'
    <3>1. touched' = touched \union {f} /\ k' = k + 1
      BY <1>13 DEF HandleOutputRedirection
    <3> HIDE DEF f
    <3> QED
      BY <1>3, <1>13, <2>1, <3>1 DEF HandleOutputRedirection
  <2>5. pc' = "outputs" /\ UNCHANGED saved
    BY <1>13 DEF HandleOutputRedirection
  <2> HIDE DEF f
  <2>6. FdOK'
    BY <1>4, <2>1, <2>3, RedirectTyped DEF FdOK
  <2>7. DiskOK'
    BY <1>3, <2>1, <2>2 DEF DiskOK, FileKinds
  <2> QED
    BY <1>2, <1>5, <1>8, <2>4, <2>5, <2>6, <2>7
<1>14. CASE HandleOutputRedirectionFails \/ RedirectionsDone \/ RunExit \/ Failed
  <2>1. RestOK' /\ PcOK' /\ pc' # "input" /\ UNCHANGED <<fd, saved, disk>>
    BY <1>3, <1>14 DEF HandleOutputRedirectionFails, RedirectionsDone, RunExit, Failed, After
  <2> QED
    BY <1>2, <1>4, <1>5, <1>6, <1>8, <2>1
<1>15. CASE Run
  <2>1. RestOK' /\ PcOK' /\ pc' # "input" /\ UNCHANGED <<fd, saved, fs>>
    BY <1>3, <1>15 DEF Run, After
  <2>2. text' = text \/ \E out, t : fs[out] = "plain" /\ text' = [text EXCEPT ![out] = t]
    BY <1>15 DEF Run, Output
  <2>3. DiskOK'
    BY <1>3, <2>1, <2>2 DEF DiskOK
  <2> QED
    BY <1>2, <1>4, <1>5, <1>8, <2>1, <2>3
<1>16. CASE RestoreFd
  <2>1. RestOK' /\ pc' = "prompt" /\ UNCHANGED disk /\ saved' = NoBackup
    BY <1>3, <1>16 DEF RestoreFd
  <2>2. saved \in Descriptors
    <3>1. NULL \notin {saved.in, saved.out}
      BY <1>16 DEF RestoreFd, OrderInv, IInv, BackupInv, FdInv, Covered
    <3> QED
      BY <1>3, <3>1 DEF SavedOK, Backups, Descriptors
  <2>3. FdOK'
    <3>1. fd' = [fd EXCEPT !["shell"] = saved]
      BY <1>16 DEF RestoreFd
    <3> QED
      BY <1>3, <2>2, <3>1 DEF FdOK
  <2>4. SavedOK'
    BY <2>1 DEF SavedOK, Backups, NoBackup
  <2> QED
    BY <1>2, <1>6, <1>8, <2>1, <2>3, <2>4
<1>17. ASSUME NEW f \in Files, Outside(f) PROVE TypeInv'
  <2>1. RestOK' /\ PcOK' /\ UNCHANGED <<fd, saved, line, pc>>
    BY <1>3, <1>17, BoundsAssumption DEF Outside
  <2>2. PICK s \in FileKinds \ {fs[f]} :
          /\ fs' = [fs EXCEPT ![f] = s]
          /\ text' = [text EXCEPT ![f] = IF s = "plain" THEN <<"new">> ELSE <<>>]
    BY <1>17 DEF Outside
  <2>3. DiskOK'
    BY <1>3, <2>2 DEF DiskOK
  <2> QED
    BY <1>2, <1>4, <1>5, <1>7, <2>1, <2>3
<1>18. CASE UNCHANGED vars
  <2>1. RestOK' /\ PcOK' /\ UNCHANGED <<fd, saved, disk, line, pc>>
    BY <1>3, <1>18 DEF vars
  <2> QED
    BY <1>2, <1>4, <1>5, <1>6, <1>7, <2>1
<1> QED
  BY <1>9, <1>10, <1>11, <1>12, <1>13, <1>14, <1>15, <1>16, <1>17, <1>18 DEF Next

\* Opening the next file, the input or an output, leaves in place what
\* should be.
LEMMA StepAppliedInv == TypeInv /\ OrderInv /\ AppliedInv /\ [Next]_vars => AppliedInv'
<1> SUFFICES ASSUME TypeInv, OrderInv, AppliedInv, [Next]_vars PROVE AppliedInv'
  OBVIOUS
<1> USE DEF fixed, disk
<1>1. /\ Outputs \in Seq(Node) /\ Len(Outputs) \in Nat
      /\ Outputs = <<>> <=> Len(Outputs) = 0
  BY OutputsTyped
<1>2. /\ UNCHANGED line => Outputs' = Outputs /\ LastInput' = LastInput
      /\ UNCHANGED <<line, k>> => \A own : OutFrom(own)' = OutFrom(own)
  BY OutputsKept, LastInputKept DEF OutFrom
<1>3. /\ fd = [p \in {"shell", "child"} |-> fd[p]] /\ me \in {"shell", "child"}
      /\ kind = "builtin" => me = "shell"
      /\ \A p \in {"shell", "child"} : fd[p] = [in |-> fd[p].in, out |-> fd[p].out]
  BY DEF OrderInv, IInv, FdInv, ShapeInv, InShell
<1>4. CASE NewLine
  <2>1. Outputs' \in Seq(Node)
    <3>1. line' \in Written
      <4>1. Lines \subseteq Written
        BY LinesAssumption DEF Written, Redir
      <4> QED
        BY <1>4, <4>1 DEF NewLine
    <3>2. Outputs' = ListOf(line', OutputOps)
      BY DEF Outputs
    <3> QED
      BY <3>1, <3>2, ListMade DEF Made
  <2>2. k' = 1 /\ k' \in 1 .. Len(Outputs') + 1
    BY <1>4, <2>1 DEF NewLine
  <2>3. \A own : OutFrom(own)' = own
    <3>1. k' > Len(Outputs') => Outputs' = <<>>
      BY <2>1, <2>2
    <3> QED
      BY <3>1 DEF OutFrom
  <2>4. fd' = [fd EXCEPT !["child"] = fd["shell"]]
    BY <1>4 DEF NewLine
  <2>5. fd'["child"] = fd["shell"] /\ fd'["shell"] = fd["shell"]
    BY <1>3, <2>4
  <2>6. pc' \in {"backup", "validate"} /\ (pc' = "validate" => kind' # "builtin")
    BY <1>4 DEF NewLine
  <2> QED
    BY <2>2, <2>3, <2>5, <2>6 DEF AppliedInv, Applying
<1>5. CASE DupStdin \/ DupStdout
  <2>1. me = "shell" /\ (~stuck => fd["shell"].out = "tty") /\ k = 1
    BY <1>5 DEF DupStdin, DupStdout, OrderInv, IInv, FdInv, InShell, Own, AppliedInv
  <2>2. \A own : OutFrom(own) = own
    BY <1>1, <2>1 DEF OutFrom
  <2>3. /\ UNCHANGED <<line, k, fd, me, stuck, kind>>
        /\ pc' \in {"backupOut", "validate", "prompt"}
    BY <1>5 DEF DupStdin, DupStdout
  <2> HIDE DEF fixed, disk
  <2> QED
    BY <1>1, <1>2, <2>1, <2>2, <2>3 DEF AppliedInv, Applying
<1>6. CASE ValidateInput
  <2>1. UNCHANGED <<line, k, fd, me, stuck, kind>> /\ pc = "validate"
    BY <1>6 DEF ValidateInput
  <2>2. /\ pc' \in {"outputs", "input", "failed"}
        /\ pc' = "outputs" => LastInput = <<>>
        /\ pc' = "failed" => LastInput # <<>>
    BY <1>6 DEF ValidateInput
  <2> QED
    BY <1>2, <2>1, <2>2 DEF AppliedInv, Applying
<1>7. CASE HandleInputRedirections
  <2>1. UNCHANGED <<line, k, me, stuck, kind>> /\ pc = "input" /\ pc' \in {"outputs", "failed"}
    BY <1>7 DEF HandleInputRedirections
  <2>2. LastInput # <<>>
    BY <2>1 DEF TypeInv
  <2>3. fd' = fd \/ \E f : fd' = [fd EXCEPT ![me].in = f]
    BY <1>7 DEF HandleInputRedirections
  <2>4. /\ fd'["shell"].out = fd["shell"].out /\ fd'["child"].out = fd["child"].out
    BY <1>3, <2>3
  <2> QED
    BY <1>2, <2>1, <2>2, <2>4 DEF AppliedInv, Applying
<1>8. CASE HandleOutputRedirection
  <2> DEFINE f == Outputs[k].file
  <2>1. /\ UNCHANGED <<line, me, stuck, kind, pc>> /\ pc = "outputs" /\ k <= Len(Outputs)
        /\ k' = k + 1
        /\ fd' = [fd EXCEPT ![me].out = IF k = Len(Outputs) THEN f ELSE @]
    BY <1>8 DEF HandleOutputRedirection
  <2>2. k \in 1 .. Len(Outputs) /\ k' \in 1 .. Len(Outputs) + 1
    BY <1>1, <2>1 DEF AppliedInv, Applying
  <2>3. fd'["shell"].in = fd["shell"].in /\ fd'["child"].in = fd["child"].in
    BY <1>3, <2>1
  <2>4. fd'[me].out = IF k = Len(Outputs) THEN f ELSE fd[me].out
    BY <1>3, <2>1
  <2>5. me = "child" => fd'["shell"] = fd["shell"]
    BY <1>3, <2>1
  <2>6. f = Last(Outputs) .file \/ k # Len(Outputs)
    BY DEF Last
  <2>7. ASSUME NEW own, fd[me].out = OutFrom(own) PROVE fd'[me].out = OutFrom(own)'
    <3> HIDE DEF f
    <3>1. Outputs' = Outputs /\ Outputs # <<>> /\ ~(k > Len(Outputs))
      BY <1>1, <1>2, <2>1, <2>2
    <3>2. fd[me].out = own
      BY <2>7, <3>1 DEF OutFrom
    <3>3. k' > Len(Outputs) <=> k = Len(Outputs)
      BY <1>1, <2>1, <2>2
    <3> QED
      BY <2>4, <2>6, <3>1, <3>2, <3>3 DEF OutFrom
  <2> HIDE DEF f
  <2>8. CASE me = "child"
    <3>1. fd'["child"].out = OutFrom(fd["shell"].out)'
      BY <2>1, <2>7, <2>8 DEF AppliedInv, Applying
    <3>2. kind # "builtin"
      BY <1>3, <2>8
    <3> QED
      BY <1>2, <2>1, <2>2, <2>3, <2>5, <2>8, <3>1, <3>2 DEF AppliedInv, Applying
  <2>9. CASE me = "shell"
    <3>1. kind = "builtin" /\ ~stuck => fd'["shell"].out = OutFrom("tty")'
      BY <2>1, <2>7, <2>9 DEF AppliedInv, Applying
    <3> QED
      BY <1>2, <2>1, <2>2, <2>9, <3>1 DEF AppliedInv, Applying
  <2> QED
    BY <1>3, <2>8, <2>9
<1>9. CASE HandleOutputRedirectionFails
  <2>1. UNCHANGED <<line, k, fd, me, stuck, kind>> /\ pc = "outputs" /\ pc' = "failed"
    BY <1>9 DEF HandleOutputRedirectionFails
  <2> QED
    BY <1>2, <2>1 DEF AppliedInv, Applying
<1>10. CASE RedirectionsDone
  <2>1. /\ UNCHANGED <<line, k, fd, me, stuck, kind>> /\ pc = "outputs" /\ pc' = "run"
        /\ k > Len(Outputs)
    BY <1>10 DEF RedirectionsDone
  <2>2. k = Len(Outputs) + 1
    BY <1>1, <2>1 DEF AppliedInv, Applying
  <2> QED
    BY <1>2, <2>1, <2>2 DEF AppliedInv, Applying
<1>11. CASE Run \/ RunExit \/ Failed \/ RestoreFd
  <2>1. pc' \in {"prompt", "restore", "exited"}
    BY <1>11 DEF Run, RunExit, Failed, RestoreFd, After
  <2> QED
    BY <2>1 DEF AppliedInv, Applying
<1>12. CASE UNCHANGED vars \/ \E f \in Files : Outside(f)
  <2>1. UNCHANGED <<line, k, fd, me, stuck, kind, pc>>
    BY <1>12 DEF vars, Outside
  <2> QED
    BY <1>2, <2>1 DEF AppliedInv, Applying
<1> QED
  BY <1>4, <1>5, <1>6, <1>7, <1>8, <1>9, <1>10, <1>11, <1>12 DEF Next

\* The shell starts with nothing opened.
LEMMA AppliedAtStart == Init => OrderInv /\ TypeInv /\ AppliedInv
<1>1. Init => OrderInv
  BY InitIInv DEF Init, OrderInv, ShapeInv, InputInv
<1>2. Init => TypeInv
  <2> SUFFICES ASSUME Init PROVE TypeInv
    OBVIOUS
  <2>1. /\ fs \in [Files -> FileKinds] /\ text = Content(fs) /\ pc = "prompt"
        /\ fd = [p \in {"shell", "child"} |-> [in |-> "tty", out |-> "tty"]]
    BY DEF Init
  <2>2. text = [f \in Files |-> text[f]] /\ \A f \in Files : fs[f] # "plain" => text[f] = <<>>
    BY <2>1 DEF Content
  <2>3. fd \in [{"shell", "child"} -> Descriptors]
    BY <2>1 DEF Descriptors
  <2>4. /\ kind \in Kinds /\ line \in Lines \union {<<>>} /\ me \in {"shell", "child"}
        /\ saved \in Backups /\ k \in Nat /\ status \in {0, 1} /\ touched \subseteq Files
        /\ stuck \in BOOLEAN /\ limit \in Limits
    BY DEF Init, Kinds, Backups, NoBackup
  <2>5. lines \in 0 .. MaxLines /\ outside \in 0 .. MaxOutside
    BY BoundsAssumption DEF Init
  <2> QED
    BY <2>1, <2>2, <2>3, <2>4, <2>5 DEF TypeInv, TypeOK
<1>3. Init => AppliedInv
  BY DEF Init, AppliedInv, Applying
<1> QED
  BY <1>1, <1>2, <1>3

\* Whatever the line and whatever happens to the files meanwhile, a program
\* runs with the input and the output written last, and with the shell's own
\* where none was written (handle_redirections in a child).
THEOREM RedirectedAsWritten == Spec => []RunsAsWritten
<1>1. TypeInv /\ OrderInv /\ AppliedInv => RunsAsWritten
  <2> SUFFICES ASSUME TypeInv, OrderInv, AppliedInv, pc = "run", me = "child"
               PROVE  fd["child"] = [in |-> LastFile(InputOps \union HeredocOps),
                                     out |-> LastFile(OutputOps)]
    BY DEF RunsAsWritten, TypeInv
  <2> DEFINE I == Places(line, InputOps \union HeredocOps)
             O == Places(line, OutputOps)
  <2>1. line \in Written /\ Len(line) \in Nat /\ DOMAIN line = 1 .. Len(line)
    <3>1. line \in Written
      BY LineWritten
    <3> QED
      BY <3>1 DEF Written
  <2>2. fd["child"] = [in |-> fd["child"].in, out |-> fd["child"].out]
    BY DEF OrderInv, ShapeInv
  <2>3. fd["child"].in = LastFile(InputOps \union HeredocOps)
    <3>1. InputOps \union HeredocOps # OutputOps
      BY DEF InputOps, HeredocOps, OutputOps
    <3>2. LastFile(InputOps \union HeredocOps) =
            IF I = {} THEN fd["shell"].in
            ELSE line[CHOOSE i \in I : \A j \in I : j <= i].file
      BY <2>1, <3>1 DEF LastFile, Places
    <3>3. CASE I = {}
      <4>1. LastInput = <<>>
        BY <2>1, <3>3, LastInputIs
      <4> QED
        BY <3>2, <3>3, <4>1 DEF AppliedInv, Applying
    <3>4. CASE I # {}
      <4>1. PICK i \in I : (\A j \in I : j <= i) /\ LastInput = <<line[i].file>>
        BY <2>1, <3>4, LastInputIs
      <4>2. fd["child"].in = line[i].file
        <5>1. LastInput # <<>> /\ LastInput[1] = line[i].file
          BY <4>1
        <5> QED
          BY <5>1 DEF OrderInv, InputInv, InputInPlace
      <4>3. \A j \in I : (\A q \in I : q <= j) => j = i
        BY <4>1 DEF Places
      <4> HIDE DEF I
      <4>4. (CHOOSE j \in I : \A q \in I : q <= j) = i
        BY <4>1, <4>3
      <4> QED
        BY <3>2, <3>4, <4>2, <4>4
    <3> QED
      BY <3>3, <3>4
  <2>4. fd["child"].out = LastFile(OutputOps)
    <3>1. LastFile(OutputOps) =
            IF O = {} THEN fd["shell"].out
            ELSE line[CHOOSE i \in O : \A j \in O : j <= i].file
      BY <2>1 DEF LastFile, Places
    <3>2. fd["child"].out = IF Outputs # <<>> THEN Last(Outputs).file ELSE fd["shell"].out
      <4>1. k > Len(Outputs)
        BY OutputsTyped DEF AppliedInv
      <4> QED
        BY <4>1 DEF AppliedInv, Applying, OutFrom
    <3>3. /\ Outputs = <<>> <=> O = {}
          /\ Outputs # <<>> => /\ Last(Outputs).index \in O
                               /\ Last(Outputs).file = line[Last(Outputs).index].file
                               /\ \A i \in O : i <= Last(Outputs).index
      BY <2>1, LastOfList DEF Outputs
    <3>4. CASE O = {}
      BY <3>1, <3>2, <3>3, <3>4
    <3>5. CASE O # {}
      <4> DEFINE i == Last(Outputs).index
      <4>1. i \in O /\ \A j \in O : j <= i
        BY <3>3, <3>5
      <4>2. \A j \in O : (\A q \in O : q <= j) => j = i
        BY <4>1 DEF Places
      <4> HIDE DEF O, i
      <4>3. (CHOOSE j \in O : \A q \in O : q <= j) = i
        BY <4>1, <4>2
      <4> QED
        BY <3>1, <3>2, <3>3, <3>5, <4>3 DEF i
    <3> QED
      BY <3>4, <3>5
  <2> QED
    BY <2>2, <2>3, <2>4
<1>2. (OrderInv /\ TypeInv /\ AppliedInv) /\ [Next]_vars => (OrderInv /\ TypeInv /\ AppliedInv)'
  BY StepOrderInv, StepTypeInv, StepAppliedInv
<1> QED
  BY <1>1, <1>2, AppliedAtStart, PTL DEF Spec

-----------------------------------------------------------------------------
(* What a line leaves behind, if nobody interferes.                        *)

\* Whether an output file, or the input, could be opened when the line was
\* typed.
GoodOutput(m) == Outputs[m].file # NULL /\ before[1][Outputs[m].file] \in Writable
GoodInput == LastInput # <<>> =>
               LastInput[1] # NULL /\ before[1][LastInput[1]] \in Readable

\* The redirections that have opened f, and what is left of its contents.
Openings(f) == {m \in 1 .. k - 1 : Outputs[m].file = f}
Kept(f) == IF \E m \in Openings(f) : ~Outputs[m].append THEN <<>> ELSE before[2][f]

\* The files are what the outputs opened so far made of them; those were the
\* ones written first and could all be opened; and where there are
\* descriptors to spare, only what cannot be opened stops the line.
DiskInv ==
  outside = 0 /\ pc \in Applying \union {"backup", "backupOut"} =>
    /\ fs = [f \in Files |-> IF Openings(f) # {} THEN "plain" ELSE before[1][f]]
    /\ text = [f \in Files |-> Kept(f)]
    /\ \A m \in 1 .. k - 1 : GoodOutput(m)
    /\ pc \in {"input", "outputs", "run"} => GoodInput
    /\ pc = "failed" /\ limit >= 6 =>
         IF GoodInput THEN k \in 1 .. Len(Outputs) /\ ~GoodOutput(k) ELSE k = 1

\* What has been opened depends on the line, and on how far it is.
LEMMA DiskKept ==
  UNCHANGED <<line, k, before>> =>
    /\ \A f : Openings(f)' = Openings(f) /\ Kept(f)' = Kept(f)
    /\ \A m : GoodOutput(m)' <=> GoodOutput(m)
    /\ GoodInput' <=> GoodInput
BY OutputsKept, LastInputKept DEF Openings, Kept, GoodOutput, GoodInput

\* Nothing is opened yet.
LEMMA NothingOpened ==
  ASSUME k = 1
  PROVE  \A f : Openings(f) = {} /\ Kept(f) = before[2][f]
BY DEF Openings, Kept

\* With six descriptors there is one to spare, even beside the backup.
LEMMA RoomToOpen == TypeInv /\ limit >= 6 => CanOpen
<1> SUFFICES ASSUME TypeInv, limit >= 6 PROVE CanOpen
  OBVIOUS
<1>1. limit \in Nat
  BY BoundsAssumption DEF TypeInv, TypeOK
<1>2. Held(saved.in) \in {0, 1} /\ Held(saved.out) \in {0, 1}
  BY DEF Held
<1> QED
  BY <1>1, <1>2 DEF CanOpen, InUse

\* A file this line has opened is plain, and could be opened; another is what
\* it was.
LEMMA StillOpenable ==
  ASSUME TypeInv, DiskInv, outside = 0, pc \in Applying, NEW f \in Files
  PROVE  fs[f] \in Writable <=> before[1][f] \in Writable
<1>1. fs[f] = IF Openings(f) # {} THEN "plain" ELSE before[1][f]
  BY DEF DiskInv
<1>2. ASSUME Openings(f) # {} PROVE before[1][f] \in Writable
  <2>1. PICK m \in 1 .. k - 1 : Outputs[m].file = f
    BY <1>2 DEF Openings
  <2>2. GoodOutput(m)
    BY DEF DiskInv
  <2> QED
    BY <2>1, <2>2 DEF GoodOutput
<1> QED
  BY <1>1, <1>2 DEF Writable

\* Every step that is not another program's keeps the files to what the line
\* has made of them.
LEMMA StepDiskInv ==
  TypeInv /\ AppliedInv /\ DiskInv /\ [Next]_vars => DiskInv'
<1> SUFFICES ASSUME TypeInv, AppliedInv, DiskInv, [Next]_vars,
                    outside' = 0, pc' \in Applying \union {"backup", "backupOut"}
             PROVE  /\ fs' = [f \in Files |-> IF Openings(f)' # {} THEN "plain"
                                              ELSE before'[1][f]]
                    /\ text' = [f \in Files |-> Kept(f)']
                    /\ \A m \in 1 .. k' - 1 : GoodOutput(m)'
                    /\ pc' \in {"input", "outputs", "run"} => GoodInput'
                    /\ pc' = "failed" /\ limit' >= 6 =>
                         IF GoodInput' THEN k' \in 1 .. Len(Outputs') /\ ~GoodOutput(k)'
                         ELSE k' = 1
  BY DEF DiskInv
<1> USE DEF fixed, disk
<1>0. outside \in Nat /\ ~(outside + 1 = 0)
  BY BoundsAssumption DEF TypeInv, TypeOK
<1>1. CASE NewLine
  <2>1. /\ k' = 1 /\ before' = <<fs, text>> /\ UNCHANGED <<fs, text>>
        /\ pc' \in {"backup", "validate"}
    BY <1>1 DEF NewLine
  <2>2. \A f : Openings(f)' = {} /\ Kept(f)' = text[f]
    BY <2>1 DEF Openings, Kept
  <2>3. fs = [f \in Files |-> fs[f]] /\ text = [f \in Files |-> text[f]]
    BY DEF TypeInv, TypeOK
  <2>4. before'[1] = fs
    BY <2>1
  <2>5. fs' = [f \in Files |-> IF Openings(f)' # {} THEN "plain" ELSE before'[1][f]]
    BY <2>1, <2>2, <2>3, <2>4
  <2>6. text' = [f \in Files |-> Kept(f)']
    BY <2>1, <2>2, <2>3
  <2>7. 1 .. k' - 1 = {}
    BY <2>1
  <2> QED
    BY <2>1, <2>5, <2>6, <2>7
<1>2. ASSUME UNCHANGED <<line, k, before, disk, limit, outside>>,
             pc \in Applying \union {"backup", "backupOut"},
             pc' \in {"input", "outputs", "run"} => GoodInput,
             pc' = "failed" /\ limit >= 6 =>
               IF GoodInput THEN k \in 1 .. Len(Outputs) /\ ~GoodOutput(k) ELSE k = 1
      PROVE  DiskInv'
  <2>1. /\ \A f : Openings(f)' = Openings(f) /\ Kept(f)' = Kept(f)
        /\ \A m : GoodOutput(m)' <=> GoodOutput(m)
        /\ GoodInput' <=> GoodInput
        /\ Outputs' = Outputs
    BY <1>2, DiskKept, OutputsKept
  <2>2. /\ fs = [f \in Files |-> IF Openings(f) # {} THEN "plain" ELSE before[1][f]]
        /\ text = [f \in Files |-> Kept(f)] /\ \A m \in 1 .. k - 1 : GoodOutput(m)
    BY <1>2 DEF DiskInv
  <2>3. GoodOutput(k)' <=> GoodOutput(k)
    BY <1>2, OutputsKept DEF GoodOutput
  <2> QED
    BY <1>2, <2>1, <2>2, <2>3 DEF DiskInv
<1>3. CASE DupStdin \/ DupStdout
  <2>1. /\ UNCHANGED <<line, k, before, disk, limit, outside>>
        /\ pc \in {"backup", "backupOut"} /\ pc' \in {"backupOut", "validate", "prompt"}
    BY <1>3 DEF DupStdin, DupStdout
  <2> QED
    BY <1>2, <2>1 DEF DiskInv
<1>4. CASE ValidateInput
  <2>1. /\ UNCHANGED <<line, k, before, disk, limit, outside>> /\ pc = "validate" /\ k = 1
        /\ pc' = IF LastInput = <<>> THEN "outputs"
                 ELSE IF LastInput[1] # NULL /\ fs[LastInput[1]] \in Readable THEN "input"
                 ELSE "failed"
    BY <1>4 DEF ValidateInput, AppliedInv
  <2>2. \A f \in Files : fs[f] = before[1][f]
    BY <2>1, NothingOpened DEF DiskInv, Applying
  <2>3. IF pc' = "failed" THEN ~GoodInput ELSE GoodInput
    BY <2>1, <2>2, OutputsTyped DEF GoodInput
  <2> QED
    BY <1>2, <2>1, <2>3 DEF DiskInv, Applying
<1>5. CASE HandleInputRedirections
  <2>1. /\ UNCHANGED <<line, k, before, disk, limit, outside>> /\ pc = "input" /\ k = 1
        /\ pc' \in {"outputs", "failed"}
        /\ pc' = "failed" => ~(fs[LastInput[1]] \in Readable /\ CanOpen)
    BY <1>5 DEF HandleInputRedirections, AppliedInv
  <2>2. \A f \in Files : fs[f] = before[1][f]
    BY <2>1, NothingOpened DEF DiskInv, Applying
  <2>3. GoodInput /\ LastInput # <<>> /\ LastInput[1] \in Files
    BY <2>1, OutputsTyped DEF DiskInv, Applying, TypeInv
  <2>4. ~(pc' = "failed" /\ limit >= 6)
    BY <2>1, <2>2, <2>3, RoomToOpen DEF GoodInput
  <2> QED
    BY <1>2, <2>1, <2>3, <2>4 DEF DiskInv, Applying
<1>6. CASE HandleOutputRedirectionFails
  <2>1. /\ UNCHANGED <<line, k, before, disk, limit, outside>> /\ pc = "outputs"
        /\ pc' = "failed" /\ k <= Len(Outputs) /\ ~CanOpenOutput
    BY <1>6 DEF HandleOutputRedirectionFails
  <2>2. k \in 1 .. Len(Outputs)
    BY <2>1, OutputsTyped DEF AppliedInv, Applying
  <2>3. limit >= 6 => ~GoodOutput(k)
    <3> SUFFICES ASSUME limit >= 6, GoodOutput(k) PROVE CanOpenOutput
      BY <2>1
    <3>1. Outputs[k].file \in Files
      BY <2>2, OutputsTyped DEF GoodOutput
    <3>2. fs[Outputs[k].file] \in Writable
      BY <2>1, <3>1, StillOpenable DEF GoodOutput, Applying
    <3> QED
      BY <3>2, RoomToOpen DEF CanOpenOutput, GoodOutput
  <2>4. GoodInput
    BY <2>1 DEF DiskInv, Applying
  <2> QED
    BY <1>2, <2>1, <2>2, <2>3, <2>4 DEF DiskInv, Applying
<1>7. CASE RedirectionsDone
  <2>1. /\ UNCHANGED <<line, k, before, disk, limit, outside>> /\ pc = "outputs"
        /\ pc' = "run"
    BY <1>7 DEF RedirectionsDone
  <2> QED
    BY <1>2, <2>1 DEF DiskInv, Applying
<1>8. CASE HandleOutputRedirection
  <2> DEFINE g == Outputs[k].file
  <2>1. /\ UNCHANGED <<line, before, limit, outside, pc>> /\ pc = "outputs" /\ k' = k + 1
        /\ k <= Len(Outputs) /\ CanOpenOutput
        /\ fs' = [fs EXCEPT ![g] = "plain"]
        /\ text' = [text EXCEPT ![g] = IF Outputs[k].append THEN @ ELSE <<>>]
    BY <1>8 DEF HandleOutputRedirection
  <2>2. k \in 1 .. Len(Outputs) /\ k \in Nat /\ 1 .. k' - 1 = (1 .. k - 1) \union {k}
    BY <2>1, OutputsTyped DEF AppliedInv, Applying
  <2>3. g \in Files
    BY <2>1, <2>2, OutputsTyped DEF CanOpenOutput
  <2>4. GoodOutput(k)
    BY <2>1, <2>3, StillOpenable DEF CanOpenOutput, GoodOutput, Applying
  <2>5. Outputs' = Outputs /\ (GoodInput' <=> GoodInput)
    BY <2>1, OutputsKept, LastInputKept DEF GoodInput
  <2>6. \A m : GoodOutput(m)' <=> GoodOutput(m)
    BY <2>1, <2>5 DEF GoodOutput
  <2>7. /\ fs = [f \in Files |-> IF Openings(f) # {} THEN "plain" ELSE before[1][f]]
        /\ text = [f \in Files |-> Kept(f)] /\ \A m \in 1 .. k - 1 : GoodOutput(m)
        /\ GoodInput
    BY <2>1 DEF DiskInv, Applying
  <2> HIDE DEF g
  <2>8. \A f : Openings(f)' = IF f = g THEN Openings(f) \union {k} ELSE Openings(f)
    BY <2>2, <2>5 DEF Openings, g
  <2>9. \A f : Kept(f)' = IF f = g /\ ~Outputs[k].append THEN <<>> ELSE Kept(f)
    <3> SUFFICES ASSUME NEW f
                 PROVE  Kept(f)' = IF f = g /\ ~Outputs[k].append THEN <<>> ELSE Kept(f)
      OBVIOUS
    <3>1. Kept(f)' = IF \E m \in Openings(f)' : ~Outputs[m].append THEN <<>> ELSE before[2][f]
      BY <2>1, <2>5 DEF Kept
    <3> QED
      BY <2>8, <3>1 DEF Kept
  <2>10. fs' = [f \in Files |-> IF Openings(f)' # {} THEN "plain" ELSE before'[1][f]]
    BY <2>1, <2>3, <2>7, <2>8
  <2>11. text' = [f \in Files |-> Kept(f)']
    BY <2>1, <2>3, <2>7, <2>9
  <2>12. \A m \in 1 .. k' - 1 : GoodOutput(m)'
    BY <2>2, <2>4, <2>6, <2>7
  <2> QED
    BY <2>1, <2>5, <2>7, <2>10, <2>11, <2>12
<1>9. CASE Run \/ RunExit \/ Failed \/ RestoreFd
  BY <1>9 DEF Run, RunExit, Failed, RestoreFd, After, Applying
<1>10. ASSUME NEW f \in Files, Outside(f) PROVE FALSE
  BY <1>0, <1>10 DEF Outside
<1>11. CASE UNCHANGED vars
  <2>1. UNCHANGED <<line, k, before, disk, limit, outside, pc>>
    BY <1>11 DEF vars
  <2> QED
    BY <1>2, <2>1 DEF DiskInv
<1> QED
  BY <1>1, <1>3, <1>4, <1>5, <1>6, <1>7, <1>8, <1>9, <1>10, <1>11 DEF Next, DiskInv

\* The nodes of the output list are the output redirections, in their order.
LEMMA OutputsWritten ==
  ASSUME TypeInv
  PROVE  LET n == Len(Outputs)
             outs == {i \in DOMAIN line : line[i].op \in OutputOps} IN
         /\ \A m \in 1 .. n : /\ Outputs[m].index \in outs
                              /\ Outputs[m].file = line[Outputs[m].index].file
                              /\ ~Outputs[m].append <=> line[Outputs[m].index].op = ">"
         /\ \A m, p \in 1 .. n : Outputs[m].index <= Outputs[p].index <=> m <= p
         /\ \A i \in outs : \E m \in 1 .. n : Outputs[m].index = i
<1> DEFINE n == Len(Outputs)
           outs == {i \in DOMAIN line : line[i].op \in OutputOps}
<1>1. Made(line, OutputOps, Outputs, Len(line)) /\ n \in Nat
  BY LineWritten, ListMade, OutputsTyped DEF Outputs
<1>2. DOMAIN line = 1 .. Len(line) /\ Len(line) \in Nat
  <2>1. line \in Written
    BY LineWritten
  <2> QED
    BY <2>1 DEF Written
<1>3. ASSUME NEW m \in 1 .. n
      PROVE  /\ Outputs[m].index \in outs
             /\ Outputs[m].file = line[Outputs[m].index].file
             /\ ~Outputs[m].append <=> line[Outputs[m].index].op = ">"
  <2> DEFINE i == Outputs[m].index
  <2>1. i \in outs /\ Outputs[m] = NodeOf(line, i)
    BY <1>1, <1>2 DEF Made
  <2> HIDE DEF i
  <2>2. NodeOf(line, i).file = line[i].file /\ NodeOf(line, i).append = (line[i].op = ">>")
    BY DEF NodeOf
  <2>3. line[i].op \in {">", ">>"}
    BY <2>1 DEF OutputOps
  <2> QED
    BY <2>1, <2>2, <2>3 DEF i
<1>4. ASSUME NEW m \in 1 .. n, NEW p \in 1 .. n
      PROVE  Outputs[m].index <= Outputs[p].index <=> m <= p
  <2>1. Outputs[m].index \in Nat /\ Outputs[p].index \in Nat
    BY <1>2, <1>3
  <2>2. /\ m < p => Outputs[m].index < Outputs[p].index
        /\ p < m => Outputs[p].index < Outputs[m].index
    BY <1>1 DEF Made
  <2>3. m \in Nat /\ p \in Nat
    BY <1>1
  <2> QED
    BY <2>1, <2>2, <2>3
<1>5. \A i \in outs : \E m \in 1 .. n : Outputs[m].index = i
  BY <1>1, <1>2 DEF Made
<1> QED
  BY <1>3, <1>4, <1>5

\* What is expected of a line is what the files are when its redirections are
\* done, or have failed, and what the command adds to the last of them.
LEMMA ExpectedIs ==
  ASSUME TypeInv, AppliedInv, DiskInv,
         pc \in {"run", "failed"}, outside = 0, limit >= 6
  PROVE  LET writes == pc = "run" /\ kind \in {"program", "builtin"} /\ Outputs # <<>> IN
         Expected =
           [fs |-> fs,
            text |-> [f \in Files |-> IF writes /\ f = Last(Outputs).file
                                      THEN Append(text[f], "out") ELSE text[f]],
            status |-> IF kind = "nothing" THEN 0
                       ELSE IF pc = "run" /\ kind # "exitTooMany" THEN 0 ELSE 1]
<1> DEFINE
      writes == pc = "run" /\ kind \in {"program", "builtin"} /\ Outputs # <<>>
      f0 == before[1]
      ins == {i \in DOMAIN line : line[i].op \in InputOps \union HeredocOps}
      outs == {i \in DOMAIN line : line[i].op \in OutputOps}
      Good(i, kinds) == line[i].file # NULL /\ f0[line[i].file] \in kinds
      inputOk == \A i \in ins : (\A j \in ins : j <= i) => Good(i, Readable)
      opened == {i \in outs : inputOk /\ \A j \in outs : j <= i => Good(j, Writable)}
      runs == inputOk /\ opened = outs
      On(f) == {i \in opened : line[i].file = f}
      kept(f) == IF \E i \in On(f) : line[i].op = ">" THEN <<>> ELSE before[2][f]
      written(f) == /\ runs /\ kind \in {"program", "builtin"}
                    /\ \E i \in On(f) : \A j \in outs : j <= i
      n == Len(Outputs)
      pos(m) == Outputs[m].index
<1>1. Expected =
        [fs |-> [f \in Files |-> IF On(f) # {} THEN "plain" ELSE f0[f]],
         text |-> [f \in Files |-> IF written(f) THEN Append(kept(f), "out") ELSE kept(f)],
         status |-> IF kind = "nothing" THEN 0
                    ELSE IF runs /\ kind # "exitTooMany" THEN 0 ELSE 1]
  BY DEF Expected
<1>2. /\ \A m \in 1 .. n : /\ pos(m) \in outs
                           /\ Outputs[m].file = line[pos(m)].file
                           /\ ~Outputs[m].append <=> line[pos(m)].op = ">"
      /\ \A m, p \in 1 .. n : pos(m) <= pos(p) <=> m <= p
      /\ \A i \in outs : \E m \in 1 .. n : pos(m) = i
  BY OutputsWritten
<1>3. /\ k \in 1 .. n + 1 /\ n \in Nat /\ k \in Nat
      /\ pc = "run" => k = n + 1
  BY OutputsTyped DEF AppliedInv, Applying
<1>4. /\ fs = [f \in Files |-> IF Openings(f) # {} THEN "plain" ELSE f0[f]]
      /\ text = [f \in Files |-> Kept(f)] /\ \A m \in 1 .. k - 1 : GoodOutput(m)
      /\ pc = "run" => GoodInput
      /\ pc = "failed" => IF GoodInput THEN k \in 1 .. n /\ ~GoodOutput(k) ELSE k = 1
  BY DEF DiskInv, Applying
<1>5. inputOk <=> GoodInput
  <2>1. ins = Places(line, InputOps \union HeredocOps) /\ line \in Written /\ ins \in SUBSET Nat
    <3>1. line \in Written
      BY LineWritten
    <3>2. DOMAIN line = 1 .. Len(line)
      BY <3>1 DEF Written
    <3> QED
      BY <3>1, <3>2 DEF Places
  <2>2. /\ LastInput = <<>> <=> ins = {}
        /\ ins # {} => \E i \in ins : (\A j \in ins : j <= i) /\ LastInput = <<line[i].file>>
    BY <2>1, LastInputIs
  <2> HIDE DEF ins
  <2>3. CASE ins = {}
    BY <2>2, <2>3 DEF GoodInput
  <2>4. CASE ins # {}
    <3>1. PICK i \in ins : (\A j \in ins : j <= i) /\ LastInput = <<line[i].file>>
      BY <2>2, <2>4
    <3>2. inputOk <=> Good(i, Readable)
      <4>1. \A q \in ins : (\A j \in ins : j <= q) => q = i
        BY <2>1, <3>1
      <4> HIDE DEF Good
      <4> QED
        BY <3>1, <4>1
    <3>3. LastInput # <<>> /\ LastInput[1] = line[i].file
      BY <3>1
    <3> QED
      BY <3>2, <3>3 DEF GoodInput
  <2> QED
    BY <2>3, <2>4
<1>6. \A m \in 1 .. n : Good(pos(m), Writable) <=> GoodOutput(m)
  BY <1>2 DEF GoodOutput
<1>7. ASSUME NEW m \in 1 .. n PROVE pos(m) \in opened <=> m \in 1 .. k - 1
  <2>1. CASE m \in 1 .. k - 1
    <3>1. GoodInput
      BY <1>3, <1>4, <2>1
    <3>2. ASSUME NEW j \in outs, j <= pos(m) PROVE Good(j, Writable)
      <4>1. PICK p \in 1 .. n : pos(p) = j
        BY <1>2
      <4>2. p \in 1 .. k - 1
        BY <1>2, <1>3, <2>1, <3>2, <4>1
      <4> HIDE DEF Good
      <4> QED
        BY <1>4, <1>6, <4>1, <4>2
    <3> HIDE DEF inputOk, Good, outs, pos
    <3> QED
      BY <1>2, <1>5, <2>1, <3>1, <3>2
  <2>2. CASE m \notin 1 .. k - 1
    <3>1. k <= m /\ k \in 1 .. n /\ pc = "failed"
      BY <1>3, <2>2
    <3>2. ASSUME GoodInput PROVE pos(m) \notin opened
      <4>1. ~Good(pos(k), Writable) /\ pos(k) \in outs /\ pos(k) <= pos(m)
        BY <1>2, <1>4, <1>6, <3>1, <3>2
      <4> HIDE DEF Good, outs, pos, inputOk
      <4> QED
        BY <4>1
    <3>3. ASSUME ~GoodInput PROVE pos(m) \notin opened
      BY <1>5, <3>3
    <3> QED
      BY <2>2, <3>2, <3>3
  <2> QED
    BY <2>1, <2>2
<1>8. opened \in SUBSET outs
  OBVIOUS
<1> HIDE DEF inputOk, opened, outs, pos, n, f0
<1>9. runs <=> pc = "run"
  <2>1. ASSUME pc = "run" PROVE runs
    <3>1. \A m \in 1 .. n : m \in 1 .. k - 1
      BY <1>3, <2>1
    <3>2. \A i \in outs : i \in opened
      BY <1>2, <1>7, <3>1
    <3> QED
      BY <1>4, <1>5, <1>8, <2>1, <3>2
  <2>2. ASSUME pc = "failed" PROVE ~runs
    <3>1. CASE GoodInput
      <4>1. k \in 1 .. n /\ k \notin 1 .. k - 1
        BY <1>3, <1>4, <2>2, <3>1
      <4> QED
        BY <1>2, <1>7, <4>1
    <3>2. CASE ~GoodInput
      BY <1>5, <3>2
    <3> QED
      BY <3>1, <3>2
  <2> QED
    BY <2>1, <2>2
<1>10. ASSUME NEW f PROVE (On(f) # {} <=> Openings(f) # {}) /\ kept(f) = Kept(f)
  <2>1. \A m \in Openings(f) : m \in 1 .. n /\ pos(m) \in On(f)
    BY <1>2, <1>3, <1>7 DEF Openings
  <2>2. \A i \in On(f) : \E m \in Openings(f) : pos(m) = i
    <3> SUFFICES ASSUME NEW i \in On(f) PROVE \E m \in Openings(f) : pos(m) = i
      OBVIOUS
    <3>1. PICK m \in 1 .. n : pos(m) = i
      BY <1>2, <1>8
    <3> QED
      BY <1>2, <1>7, <3>1 DEF Openings
  <2>3. (\E i \in On(f) : line[i].op = ">") <=> \E m \in Openings(f) : ~Outputs[m].append
    BY <1>2, <2>1, <2>2
  <2> QED
    BY <2>1, <2>2, <2>3 DEF Kept
<1>11. ASSUME NEW f \in Files PROVE written(f) <=> writes /\ f = Last(Outputs).file
  <2>1. CASE ~(pc = "run" /\ kind \in {"program", "builtin"})
    BY <1>9, <2>1
  <2>2. CASE pc = "run" /\ kind \in {"program", "builtin"}
    <3>1. Outputs = <<>> <=> n = 0
      BY OutputsTyped DEF n
    <3>2. CASE n = 0
      <4>1. outs = {}
        BY <1>2, <3>2
      <4> QED
        BY <1>8, <3>1, <3>2, <4>1
    <3>3. CASE n # 0
      <4>1. n \in 1 .. n /\ \A m \in 1 .. n : m <= n /\ (n <= m => m = n)
        BY <1>3, <3>3
      <4>2. Last(Outputs) = Outputs[n]
        BY DEF Last, n
      <4>3. pos(n) \in outs /\ \A j \in outs : j <= pos(n)
        BY <1>2, <4>1
      <4>4. \A i \in outs : (\A j \in outs : j <= i) => i = pos(n)
        BY <1>2, <4>1
      <4>5. pos(n) \in opened /\ line[pos(n)].file = Outputs[n].file
        BY <1>2, <1>3, <1>7, <2>2, <4>1
      <4>6. (\E i \in On(f) : \A j \in outs : j <= i) <=> f = Outputs[n].file
        BY <1>8, <4>3, <4>4, <4>5
      <4> QED
        BY <1>9, <2>2, <3>1, <3>3, <4>2, <4>6
    <3> QED
      BY <3>2, <3>3
  <2> QED
    BY <2>1, <2>2
<1> HIDE DEF runs, On, kept, written, writes
<1>12. [f \in Files |-> IF On(f) # {} THEN "plain" ELSE f0[f]] = fs
  BY <1>4, <1>10
<1>13. \A f \in Files : text[f] = kept(f)
  BY <1>4, <1>10
<1>14. [f \in Files |-> IF written(f) THEN Append(kept(f), "out") ELSE kept(f)]
       = [f \in Files |-> IF writes /\ f = Last(Outputs).file
                          THEN Append(text[f], "out") ELSE text[f]]
  BY <1>11, <1>13
<1> QED
  BY <1>1, <1>9, <1>12, <1>14 DEF writes

\* The files and $? after a line are what it says, whether it runs its
\* command or stops at a file that cannot be opened: handle_redirections and
\* exec_builtin_parent leave the files the line opened before that one made
\* or truncated, and no other, if no other program interferes and there are
\* descriptors to spare.
THEOREM OutcomeIsAsWritten == Spec => OutcomeAsWritten
<1> DEFINE Inv == OrderInv /\ TypeInv /\ AppliedInv /\ DiskInv
<1>1. Init => Inv
  <2>1. Init => pc = "prompt"
    BY DEF Init
  <2>2. Init => DiskInv
    BY <2>1 DEF DiskInv, Applying
  <2> QED
    BY <2>2, AppliedAtStart
<1>2. Inv /\ [Next]_vars => Inv'
  BY StepOrderInv, StepTypeInv, StepAppliedInv, StepDiskInv
<1>3. Inv /\ [Next]_vars =>
        [/\ pc \in {"run", "failed"} /\ pc' \in {"prompt", "restore"}
         /\ outside = 0 /\ ~stuck /\ limit >= 6
         => <<fs', text', status'>> = <<Expected.fs, Expected.text, Expected.status>>]_vars
  <2> SUFFICES ASSUME Inv, Next, pc \in {"run", "failed"}, pc' \in {"prompt", "restore"},
                      outside = 0, ~stuck, limit >= 6
               PROVE  fs' = Expected.fs /\ text' = Expected.text /\ status' = Expected.status
    BY DEF vars
  <2> DEFINE writes == pc = "run" /\ kind \in {"program", "builtin"} /\ Outputs # <<>>
             left == [f \in Files |-> IF writes /\ f = Last(Outputs).file
                                      THEN Append(text[f], "out") ELSE text[f]]
  <2>1. /\ Expected.fs = fs /\ Expected.text = left
        /\ Expected.status = IF kind = "nothing" THEN 0
                             ELSE IF pc = "run" /\ kind # "exitTooMany" THEN 0 ELSE 1
    <3>1. Expected = [fs |-> fs, text |-> left,
                      status |-> IF kind = "nothing" THEN 0
                                 ELSE IF pc = "run" /\ kind # "exitTooMany" THEN 0 ELSE 1]
      BY ExpectedIs
    <3> HIDE DEF left
    <3> QED
      BY <3>1
  <2>2. text = [f \in Files |-> text[f]]
    BY DEF TypeInv
  <2>3. Run \/ Failed
    <3>1. /\ ~NewLine /\ ~DupStdin /\ ~DupStdout
          /\ ~ValidateInput /\ ~HandleInputRedirections /\ ~RestoreFd
      BY DEF NewLine, DupStdin, DupStdout, ValidateInput, HandleInputRedirections, RestoreFd
    <3>2. /\ ~HandleOutputRedirection /\ ~HandleOutputRedirectionFails /\ ~RedirectionsDone
          /\ ~RunExit
      BY DEF HandleOutputRedirection, HandleOutputRedirectionFails, RedirectionsDone, RunExit
    <3>3. \A f \in Files : ~Outside(f)
      BY DEF Outside
    <3> QED
      BY <3>1, <3>2, <3>3 DEF Next
  <2>4. CASE Failed
    <3>1. pc = "failed" /\ UNCHANGED disk /\ status' = IF kind = "nothing" THEN 0 ELSE 1
      BY <2>4 DEF Failed
    <3>2. left = text
      BY <2>2, <3>1
    <3> QED
      BY <2>1, <3>1, <3>2 DEF disk
  <2>5. CASE Run
    <3>1. /\ pc = "run" /\ fs' = fs /\ status' = IF kind = "exitTooMany" THEN 1 ELSE 0
          /\ IF kind \in {"program", "builtin"} THEN Output(fd[me].out) ELSE UNCHANGED text
      BY <2>5 DEF Run
    <3>2. text' = left
      <4>1. CASE kind \notin {"program", "builtin"}
        BY <2>2, <3>1, <4>1
      <4>2. CASE kind \in {"program", "builtin"}
        <5>1. fd[me].out = IF Outputs # <<>> THEN Last(Outputs).file ELSE "tty"
          <6>1. k > Len(Outputs)
            BY <3>1, OutputsTyped DEF AppliedInv
          <6>2. CASE me = "child"
            <7>1. fd["shell"].out = "tty"
              BY <6>2 DEF OrderInv, IInv, FdInv, Own
            <7> QED
              BY <3>1, <6>1, <6>2, <7>1 DEF AppliedInv, Applying, OutFrom
          <6>3. CASE me # "child"
            <7>1. me = "shell" /\ kind = "builtin"
              BY <4>2, <6>3 DEF OrderInv, IInv, FdInv, InShell
            <7> QED
              BY <3>1, <6>1, <7>1 DEF AppliedInv, Applying, OutFrom
          <6> QED
            BY <6>2, <6>3
        <5>2. CASE Outputs = <<>>
          BY <2>2, <3>1, <4>2, <5>1, <5>2 DEF Output
        <5>3. CASE Outputs # <<>>
          <6> DEFINE f == Last(Outputs).file
          <6>1. f \in Files /\ fs[f] = "plain" /\ f # "tty"
            <7>1. Len(Outputs) \in 1 .. k - 1 /\ Len(Outputs) \in 1 .. Len(Outputs)
              BY <3>1, <5>3, OutputsTyped DEF AppliedInv
            <7>2. GoodOutput(Len(Outputs)) /\ f = Outputs[Len(Outputs)].file
              BY <3>1, <7>1 DEF DiskInv, Applying, Last
            <7>3. f \in Files
              BY <7>1, <7>2, OutputsTyped DEF GoodOutput
            <7>4. Openings(f) # {}
              BY <7>1, <7>2 DEF Openings
            <7> QED
              BY <3>1, <7>3, <7>4, BoundsAssumption DEF DiskInv, Applying
          <6> HIDE DEF f
          <6>2. text' = [text EXCEPT ![f] = Append(text[f], "out")]
            BY <3>1, <4>2, <5>1, <5>3, <6>1 DEF Output, f
          <6>3. left = [g \in Files |-> IF g = f THEN Append(text[g], "out") ELSE text[g]]
            BY <3>1, <4>2, <5>3 DEF f
          <6> QED
            BY <2>2, <6>1, <6>2, <6>3
        <5> QED
          BY <5>2, <5>3
      <4> QED
        BY <4>1, <4>2
    <3>3. kind = "nothing" => kind # "exitTooMany"
      OBVIOUS
    <3> HIDE DEF left
    <3> QED
      BY <2>1, <3>1, <3>2, <3>3
  <2> QED
    BY <2>3, <2>4, <2>5
<1> QED
  BY <1>1, <1>2, <1>3, PTL DEF Spec, OutcomeAsWritten
=============================================================================
