---------------------------- MODULE HeredocProofs ----------------------------
(***************************************************************************)
(* What TLAPS proves of the here-documents, for any command line and any   *)
(* number of signals, failures and typed lines: an interrupted heredoc     *)
(* keeps the commands from running; a command that runs finds its bodies,  *)
(* less what calls that failed while they were read have cost; and which   *)
(* temporary files a line leaves.                                          *)
(***************************************************************************)
EXTENDS Heredoc, WellFoundedInduction, TLAPS

-----------------------------------------------------------------------------
(* Ctrl-C.                                                                 *)

\* Where the shell and the child can stand once Ctrl-C reached the heredoc
\* prompt: the flag is still to be seen, or was, or the line was given up.
Aborting ==
  \/ pc = "wait" /\ child \in Reading /\ g
  \/ pc = "wait" /\ child \in {"exit130", "killed"}
  \/ pc = "prompt" /\ status \in {130, 137}

\* The child exists only while the shell waits for it, and a child in
\* heredoc_loop has its own handler.
ChildInv ==
  /\ child # "none" <=> pc = "wait"
  /\ child \in Reading \union {"armed"} => childSig = "heredoc"

IInv == ChildInv /\ (ctrlC => Aborting) /\ ctrlC \in BOOLEAN /\ g \in BOOLEAN

\* A step of the shell, or its failing fork, keeps IInv.
LEMMA ShellStepInv == IInv /\ (NewLine \/ ShellStep \/ ForkHeredocFails) => IInv'
<1> SUFFICES ASSUME IInv, NewLine \/ ShellStep \/ ForkHeredocFails PROVE IInv'
  OBVIOUS
<1> USE DEF IInv, ChildInv, Aborting, shell, proc
<1>1. CASE NewLine
  BY <1>1 DEF NewLine, Reading
<1>2. CASE HeredocMax
  BY <1>2 DEF HeredocMax, AtNode
<1>3. CASE ForkHeredoc
  BY <1>3 DEF ForkHeredoc, AtNode, Reading
<1>4. CASE NextCommand
  BY <1>4 DEF NextCommand
<1>5. CASE ParentWaitHeredoc
  BY <1>5 DEF ParentWaitHeredoc, Reading, Ended, Code
<1>6. CASE StartCommands
  BY <1>6 DEF StartCommands
<1>7. CASE CleanupHeredocs
  BY <1>7 DEF CleanupHeredocs
<1>8. CASE ForkHeredocFails
  BY <1>8 DEF ForkHeredocFails, AtNode
<1> QED
  BY <1>1, <1>2, <1>3, <1>4, <1>5, <1>6, <1>7, <1>8 DEF ShellStep

\* A step of the child that leaves the flag alone keeps an interrupted child
\* on its way to exit 130.
LEMMA ChildGoesOn ==
  ASSUME IInv, UNCHANGED <<shell, ctrlC, g>>, child # "none", child' # "none",
         g \in BOOLEAN,
         child' \in Reading \union {"armed"} => childSig' = "heredoc",
         \/ child' \in {"exit130", "killed"}
         \/ child \in Reading /\ child' \in Reading
         \/ child \notin Reading \union {"exit130", "killed"}
         \/ child \in Reading /\ ~g
  PROVE  IInv'
BY DEF IInv, ChildInv, Aborting, shell, Reading

\* So does a step of the child, one in which calls fail, and what the user types.
LEMMA ChildStepInv ==
  ASSUME IInv,
         \/ ChildStep \/ OpenTmpFileFails \/ Silent \/ Kill
         \/ \E what \in {"body", "delimiter", "eof"} : UserTypes(what)
  PROVE  IInv'
<1> USE DEF NotShell, Goto
<1>1. CASE OpenTmpFile \/ OpenTmpFileFails
  BY <1>1, ChildGoesOn DEF OpenTmpFile, OpenTmpFileFails, IInv, Reading
<1>2. CASE SetupHeredocSignals
  BY <1>2, ChildGoesOn DEF SetupHeredocSignals, IInv, Reading
<1>3. CASE ResetReceivedSignal
  BY <1>3 DEF ResetReceivedSignal, IInv, ChildInv, Aborting, shell, Reading
<1>4. CASE HeredocLoopTop
  BY <1>4, ChildGoesOn DEF HeredocLoopTop, Interrupted, IInv, ChildInv, Reading
<1>5. CASE ReadlineClosed \/ \E what \in {"body", "delimiter", "eof"} : UserTypes(what)
  BY <1>5, ChildGoesOn DEF ReadlineClosed, UserTypes, IInv, ChildInv, Reading
<1>6. CASE CheckHeredocLine
  <2>1. AfterBody \notin Reading \union {"none", "armed"}
    BY DEF AfterBody, Reading
  <2> QED
    BY <1>6, <2>1, ChildGoesOn
       DEF CheckHeredocLine, Interrupted, IInv, ChildInv, Reading
<1>7. CASE WriteLine \/ WriteLineFails
  BY <1>7, ChildGoesOn DEF WriteLine, WriteLineFails, IInv, ChildInv, Reading
<1>8. CASE \/ ExpandToFinal \/ ExpandToFinalCut \/ ExpandFails
           \/ ReplaceHeredocFile \/ ReplaceHeredocFileFails
           \/ CopyExpandedFile \/ CopyExpandedFileCut
  BY <1>8, ChildGoesOn
     DEF ExpandToFinal, ExpandToFinalCut, ExpandFails, ReplaceHeredocFile,
         ReplaceHeredocFileFails, CopyExpandedFile, CopyExpandedFileCut, IInv, Reading
<1>9. CASE Kill
  BY <1>9, ChildGoesOn DEF Kill, IInv, Busy, Reading
<1> QED
  BY <1>1, <1>2, <1>3, <1>4, <1>5, <1>6, <1>7, <1>8, <1>9 DEF ChildStep, Silent

\* The handler of a child in heredoc_loop sets the flag it then looks at.
LEMMA CtrlCInv == IInv /\ CtrlC => IInv'
<1> SUFFICES ASSUME IInv, CtrlC PROVE IInv'
  OBVIOUS
<1>1. child \in Reading => g'
  BY DEF IInv, ChildInv, CtrlC, SigHandlerHeredoc, Busy
<1>2. g => g'
  BY DEF CtrlC, SigHandlerHeredoc
<1>3. g' \in BOOLEAN /\ ctrlC' \in BOOLEAN
  BY DEF CtrlC, SigHandlerHeredoc
<1>4. ctrlC' => Aborting'
  BY <1>1, <1>2 DEF IInv, ChildInv, Aborting, CtrlC, shell, Reading
<1> QED
  BY <1>3, <1>4 DEF IInv, ChildInv, CtrlC, shell

\* So does every step.
LEMMA StepIInv == IInv /\ [Next]_vars => IInv'
<1>1. ASSUME IInv, UNCHANGED vars PROVE IInv'
  BY <1>1 DEF vars, shell, proc, IInv, ChildInv, Aborting
<1> QED
  BY <1>1, ShellStepInv, ChildStepInv, CtrlCInv DEF Next, Failure

\* A Ctrl-C typed at the heredoc prompt keeps the commands of the line from
\* running and leaves 130 (or 137) in $?.
THEOREM InterruptedLineAborts == Spec => []InterruptAborts
<1>1. Init => IInv
  BY DEF Init, IInv, ChildInv, Aborting, Reading
<1>2. IInv => InterruptAborts
  BY DEF IInv, Aborting, InterruptAborts
<1> QED
  BY <1>1, <1>2, StepIInv, PTL DEF Spec

-----------------------------------------------------------------------------
(* The bodies.                                                             *)

\* In order, of the k lines typed into node n, and no more than there are.
SubBody(s, n, k, form) == Part(s, n, k, form) /\ Len(s) <= k

\* The node at position i of command c, and where the loop stands to it.
Before(c, i) == c < cmd \/ (c = cmd /\ i < idx)
At(c, i) == pc = "wait" /\ c = cmd /\ i = idx

\* A later command has a node of the same name that has been read, or is being
\* read: their file is its file.
Shadowed(c, i) ==
  \E d \in DOMAIN input : /\ c < d /\ i <= Len(input[d]) /\ input[d][i] = input[c][i]
                          /\ Before(d, i) \/ At(d, i)

\* The file of a node that was read: what the calls that failed in its child
\* left of its body.
Holds(c, i) ==
  LET n == <<c, i>>
      name == TmpName(c, i)
  IN /\ name \in DOMAIN fs
     /\ SubBody(fs[name], n, count[n], Form(n))
     /\ Intact(n) => fs[name] = Whole(n, count[n], Form(n))
     /\ "read" \in faults[n] => fs[name] = <<>>

DoneInv ==
  pc \in {"next", "wait", "run"} =>
    \A c \in DOMAIN input : \A i \in 1 .. Len(input[c]) :
      Before(c, i) /\ ~Shadowed(c, i) => Holds(c, i)

\* The cursor, and the lines typed so far.
CursorInv ==
  /\ pc \in {"prompt", "next", "wait", "run", "exited"}
  /\ cmd \in Nat \ {0} /\ idx \in Nat \ {0} /\ failures \in Nat
  /\ input \in Lines \union {<<>>}
  /\ pc = "wait" => cmd \in DOMAIN input /\ idx \in 1 .. Len(input[cmd])
  /\ pc = "run" => cmd > Len(input)
  /\ DOMAIN count = NodesOf(input) /\ DOMAIN faults = NodesOf(input)
  /\ \A c \in DOMAIN input : \A i \in 1 .. Len(input[c]) :
       /\ count[<<c, i>>] \in 0 .. MaxBody /\ faults[<<c, i>>] \subseteq Calls
       /\ pc \in {"next", "wait"} /\ ~Before(c, i) /\ ~At(c, i) =>
            count[<<c, i>>] = 0 /\ faults[<<c, i>>] = {}

\* What the child has written, by where it stands.  A line that was typed and
\* not yet written is the last one counted.
Typed == count[ThisNode]
Failed == faults[ThisNode]
Pending == child \in {"check", "write"} /\ typed = "body"

\* File x of the child holds lines 1 .. k, in that form, or when calls failed a
\* part of them.
Kept(x, k, form, spared) ==
  /\ x \in DOMAIN fs /\ SubBody(fs[x], ThisNode, k, form)
  /\ Failed \subseteq spared => fs[x] = Whole(ThisNode, k, form)

BodyInv ==
  pc = "wait" =>
    /\ child \in {"forked", "opened", "armed"} => Typed = 0
    /\ child \in {"forked", "opened", "armed"} => Failed = {}
    /\ child \in Reading \union {"expand"} => Failed \subseteq {"write"}
    /\ child \in {"replace", "copy"} => Failed \subseteq {"write", "lines"}
    /\ child = "write" => typed = "body"
    /\ child \in {"opened", "armed", "expand"} \union Reading /\ ~Pending =>
         Kept(Current, Typed, "typed", {})
    /\ Pending => Typed > 0 /\ Kept(Current, Typed - 1, "typed", {})
    /\ child \in {"expand", "replace", "copy"} => ~input[cmd][idx].quoted
    /\ child = "replace" => Kept(Current, Typed, "typed", {"lines"})
    /\ child = "copy" => Current \in DOMAIN fs
    /\ child \in {"replace", "copy"} => Kept(Final(Current), Typed, "expanded", {})
    /\ child = "exit0" => Holds(cmd, idx)

FileInv == CursorInv /\ DoneInv /\ BodyInv

\* Holds and BodyInv after a step.
KeptNext(x, k, form, spared) ==
  /\ x \in DOMAIN fs' /\ SubBody(fs'[x], ThisNode', k, form)
  /\ Failed' \subseteq spared => fs'[x] = Whole(ThisNode', k, form)

\* Holds after a step, its definition expanded.
LEMMA HoldsNext ==
  ASSUME NEW c, NEW i
  PROVE  Holds(c, i)' <=>
           /\ TmpName(c, i)' \in DOMAIN fs'
           /\ SubBody(fs'[TmpName(c, i)'], <<c, i>>, count'[<<c, i>>], Form(<<c, i>>)')
           /\ Intact(<<c, i>>)' =>
                fs'[TmpName(c, i)'] = Whole(<<c, i>>, count'[<<c, i>>], Form(<<c, i>>)')
           /\ "read" \in faults'[<<c, i>>] => fs'[TmpName(c, i)'] = <<>>
BY DEF Holds, SubBody, Part, LinesOf, Whole, Written

\* What is to be shown for BodyInv after a step.
LEMMA BodyInvNext ==
  ASSUME pc' = "wait",
         child' \in {"forked", "opened", "armed"} => Typed' = 0 /\ Failed' = {},
         child' \in Reading \union {"expand"} => Failed' \subseteq {"write"},
         child' \in {"replace", "copy"} => Failed' \subseteq {"write", "lines"},
         child' = "write" => typed' = "body",
         child' \in {"opened", "armed", "expand"} \union Reading
           /\ ~(child' \in {"check", "write"} /\ typed' = "body") =>
             KeptNext(Current', Typed', "typed", {}),
         child' \in {"check", "write"} /\ typed' = "body" =>
           Typed' > 0 /\ KeptNext(Current', Typed' - 1, "typed", {}),
         child' \in {"expand", "replace", "copy"} => ~input'[cmd'][idx'].quoted,
         child' = "replace" => KeptNext(Current', Typed', "typed", {"lines"}),
         child' = "copy" => Current' \in DOMAIN fs',
         child' \in {"replace", "copy"} => KeptNext(Final(Current)', Typed', "expanded", {}),
         child' = "exit0" => Holds(cmd, idx)'
  PROVE  BodyInv'
<1>1. /\ Kept(Current, Typed, "typed", {})' <=> KeptNext(Current', Typed', "typed", {})
      /\ Kept(Current, Typed - 1, "typed", {})' <=> KeptNext(Current', Typed' - 1, "typed", {})
      /\ Kept(Current, Typed, "typed", {"lines"})' <=>
           KeptNext(Current', Typed', "typed", {"lines"})
      /\ Kept(Final(Current), Typed, "expanded", {})' <=>
           KeptNext(Final(Current)', Typed', "expanded", {})
  BY DEF Kept, KeptNext, SubBody, Part, LinesOf, Whole, Written
<1> QED
  BY <1>1 DEF BodyInv, Pending, Reading

\* NodesOf in terms of positions in the line.
LEMMA NodesHere ==
  ASSUME NEW l
  PROVE  /\ \A c, i : <<c, i>> \in NodesOf(l) <=> c \in DOMAIN l /\ i \in 1 .. Len(l[c])
         /\ \A n \in NodesOf(l) : n = <<n[1], n[2]>>
BY DEF NodesOf

\* A ".final" name is no temporary file's; two nodes share a name exactly when
\* their delimiters and indices are the same.
LEMMA NamesApart ==
  ASSUME NEW c, NEW i, NEW d, NEW j
  PROVE  /\ Final(TmpName(c, i)) # TmpName(d, j)
         /\ TmpName(c, i) = TmpName(d, j) <=> input[c][i] = input[d][j] /\ i = j
<1>1. Len(Append(<<input[c][i], i>>, "final")) = 3 /\ Len(<<input[d][j], j>>) = 2
  OBVIOUS
<1> QED
  BY <1>1 DEF Final, TmpName

-----------------------------------------------------------------------------
(* Lines in files.                                                         *)

\* SubBody over positions rather than DOMAINs.
LEMMA SubBodyIs ==
  ASSUME NEW s, NEW n, NEW k, NEW form
  PROVE  SubBody(s, n, k, form) <=>
           /\ s \in Seq(LinesOf(n, k, form)) /\ Len(s) <= k
           /\ \A i, j \in 1 .. Len(s) : i < j => s[i].line < s[j].line
<1>1. s \in Seq(LinesOf(n, k, form)) => DOMAIN s = 1 .. Len(s)
  OBVIOUS
<1> QED
  BY <1>1 DEF SubBody, Part

\* A function given by its values on 1 .. l is a sequence of that length.
LEMMA IsSeq ==
  ASSUME NEW S, NEW l \in Nat, NEW t, t = [j \in 1 .. l |-> t[j]],
         \A j \in 1 .. l : t[j] \in S
  PROVE  t \in Seq(S) /\ Len(t) = l
<1>1. t \in [1 .. l -> S]
  OBVIOUS
<1> QED
  BY <1>1

\* A whole body, and an empty file, are parts of the body.
LEMMA WholeIsPart ==
  ASSUME NEW n, NEW k \in Nat, NEW form
  PROVE  SubBody(Whole(n, k, form), n, k, form) /\ Len(Whole(n, k, form)) = k
<1>1. \A j \in 1 .. k : Written(n, j, form) \in LinesOf(n, k, form)
  BY DEF Written, LinesOf
<1>2. Whole(n, k, form) \in Seq(LinesOf(n, k, form)) /\ Len(Whole(n, k, form)) = k
  BY <1>1, IsSeq DEF Whole
<1>3. \A i, j \in 1 .. k : i < j => Whole(n, k, form)[i].line < Whole(n, k, form)[j].line
  BY DEF Whole, Written
<1> QED
  BY <1>2, <1>3, SubBodyIs

\* An empty file is a part of every body, and the whole of one without lines.
LEMMA NothingIsPart ==
  ASSUME NEW n, NEW k \in Nat, NEW form
  PROVE  SubBody(<<>>, n, k, form) /\ Whole(n, 0, form) = <<>>
<1>1. Whole(n, 0, form) = <<>>
  BY DEF Whole
<1>2. <<>> \in Seq(LinesOf(n, k, form)) /\ Len(<<>>) = 0
  OBVIOUS
<1>3. SubBody(<<>>, n, k, form)
  BY <1>2 DEF SubBody, Part
<1> QED
  BY <1>1, <1>3

\* heredoc_loop appends a line, damages it or loses it.
LEMMA PartGrows ==
  ASSUME NEW n, NEW k \in Nat, NEW form, NEW s, SubBody(s, n, k, form)
  PROVE  /\ SubBody(s, n, k + 1, form)
         /\ \A f \in {form, "damaged"} :
              SubBody(Append(s, Written(n, k + 1, f)), n, k + 1, form)
         /\ Append(Whole(n, k, form), Written(n, k + 1, form)) = Whole(n, k + 1, form)
<1>1. LinesOf(n, k, form) \subseteq LinesOf(n, k + 1, form)
  BY DEF LinesOf
<1>2. s \in Seq(LinesOf(n, k, form)) /\ s \in Seq(LinesOf(n, k + 1, form)) /\ Len(s) <= k
  <2>1. s \in Seq(LinesOf(n, k, form)) /\ Len(s) <= k
    BY SubBodyIs
  <2>2. \A j \in 1 .. Len(s) : s[j] \in LinesOf(n, k + 1, form)
    BY <1>1, <2>1
  <2> QED
    BY <2>1, <2>2
<1>3. \A j \in 1 .. Len(s) : s[j].line \in 1 .. k
  <2>1. \A j \in 1 .. Len(s) : s[j] \in LinesOf(n, k, form)
    BY <1>2
  <2> QED
    BY <2>1 DEF LinesOf
<1>4. \A i, j \in 1 .. Len(s) : i < j => s[i].line < s[j].line
  BY <1>2, SubBodyIs
<1>5. ASSUME NEW f \in {form, "damaged"}
      PROVE  SubBody(Append(s, Written(n, k + 1, f)), n, k + 1, form)
  <2> DEFINE t == Append(s, Written(n, k + 1, f))
  <2>1. Written(n, k + 1, f) \in LinesOf(n, k + 1, form) /\ Written(n, k + 1, f).line = k + 1
    BY DEF Written, LinesOf
  <2>2. /\ t \in Seq(LinesOf(n, k + 1, form)) /\ Len(t) = Len(s) + 1
        /\ \A j \in 1 .. Len(s) : t[j] = s[j]
        /\ t[Len(s) + 1] = Written(n, k + 1, f)
    BY <1>2, <2>1
  <2>3. \A i, j \in 1 .. Len(s) + 1 : i < j => t[i].line < t[j].line
    <3> SUFFICES ASSUME NEW i \in 1 .. Len(s) + 1, NEW j \in 1 .. Len(s) + 1, i < j
                 PROVE  t[i].line < t[j].line
      OBVIOUS
    <3>1. Len(s) \in Nat /\ i \in 1 .. Len(s) /\ t[i] = s[i] /\ s[i].line \in 1 .. k
      BY <1>2, <1>3, <2>2
    <3>2. CASE j = Len(s) + 1
      BY <2>1, <2>2, <3>1, <3>2
    <3>3. CASE j # Len(s) + 1
      <4>1. j \in 1 .. Len(s) /\ t[j] = s[j]
        BY <2>2, <3>1, <3>3
      <4> QED
        BY <1>4, <3>1, <4>1
    <3> QED
      BY <3>2, <3>3
  <2>4. DOMAIN t = 1 .. Len(s) + 1 /\ Len(t) <= k + 1
    BY <1>2, <2>2
  <2> QED
    BY <2>2, <2>3, <2>4, SubBodyIs
<1>6. Append(Whole(n, k, form), Written(n, k + 1, form)) = Whole(n, k + 1, form)
  <2>1. /\ Whole(n, k, form) \in Seq(LinesOf(n, k, form)) /\ Len(Whole(n, k, form)) = k
        /\ Whole(n, k + 1, form) \in Seq(LinesOf(n, k + 1, form))
        /\ Len(Whole(n, k + 1, form)) = k + 1
    BY WholeIsPart, SubBodyIs
  <2>2. \A j \in 1 .. k + 1 :
          Append(Whole(n, k, form), Written(n, k + 1, form))[j] = Whole(n, k + 1, form)[j]
    BY <2>1 DEF Whole
  <2>3. /\ Append(Whole(n, k, form), Written(n, k + 1, form)) \in Seq(LinesOf(n, k + 1, form))
        /\ Len(Append(Whole(n, k, form), Written(n, k + 1, form))) = k + 1
    <3>1. Written(n, k + 1, form) \in LinesOf(n, k + 1, form)
      BY DEF Written, LinesOf
    <3>2. Whole(n, k, form) \in Seq(LinesOf(n, k + 1, form))
      <4>1. \A j \in 1 .. k : Whole(n, k, form)[j] \in LinesOf(n, k + 1, form)
        BY <1>1, <2>1
      <4> QED
        BY <2>1, <4>1
    <3> QED
      BY <2>1, <3>1, <3>2
  <2> QED
    BY <2>1, <2>2, <2>3
<1> QED
  BY <1>2, <1>4, <1>5, <1>6, SubBodyIs

\* What failing calls leave of a part is a part.
LEMMA PartLeft ==
  ASSUME NEW n, NEW k \in Nat, NEW form, NEW s, SubBody(s, n, k, form), NEW t \in LeftOf(s)
  PROVE  SubBody(t, n, k, form)
<1>1. s \in Seq(LinesOf(n, k, form)) /\ Len(s) \in Nat /\ Len(s) <= k
  BY SubBodyIs
<1>2. PICK m \in Picks(Len(s)), damaged \in SUBSET DOMAIN s :
        t = [j \in DOMAIN m |-> IF j \in damaged THEN [s[m[j]] EXCEPT !.form = "damaged"]
                                                  ELSE s[m[j]]]
  BY DEF LeftOf
<1>3. PICK l \in 0 .. Len(s) :
        m \in [1 .. l -> 1 .. Len(s)] /\ \A i, j \in 1 .. l : i < j => m[i] < m[j]
  BY DEF Picks
<1>4. \A j \in 1 .. l : s[m[j]] \in LinesOf(n, k, form)
  BY <1>1, <1>3
<1>5. \A j \in 1 .. l : t[j] \in LinesOf(n, k, form) /\ t[j].line = s[m[j]].line
  BY <1>2, <1>3, <1>4 DEF LinesOf
<1>6. t \in Seq(LinesOf(n, k, form)) /\ Len(t) = l
  <2>1. t = [j \in 1 .. l |-> t[j]]
    BY <1>2, <1>3
  <2> QED
    BY <1>5, <2>1, IsSeq
<1>7. \A i, j \in 1 .. l : i < j => t[i].line < t[j].line
  <2>1. \A i, j \in 1 .. Len(s) : i < j => s[i].line < s[j].line
    BY <1>1, SubBodyIs
  <2> QED
    BY <1>3, <1>5, <2>1
<1> QED
  BY <1>1, <1>3, <1>6, <1>7, SubBodyIs

\* A part expands to a part, a whole body to a whole one.
LEMMA PartExpands ==
  ASSUME NEW n, NEW k \in Nat, NEW s, SubBody(s, n, k, "typed"), NEW t \in Expansions(s)
  PROVE  /\ SubBody(t, n, k, "expanded")
         /\ s = Whole(n, k, "typed") => t = Whole(n, k, "expanded")
<1>1. /\ s \in Seq(LinesOf(n, k, "typed")) /\ DOMAIN s = 1 .. Len(s)
      /\ Len(s) \in Nat /\ Len(s) <= k
  BY SubBodyIs
<1>2. PICK joined \in SUBSET {j \in DOMAIN s : j > 1 /\ s[j - 1].form = "damaged"} :
        t = [j \in DOMAIN s |->
               IF s[j].form = "damaged" \/ j \in joined THEN [s[j] EXCEPT !.form = "damaged"]
                                                     ELSE [s[j] EXCEPT !.form = "expanded"]]
  BY DEF Expansions
<1>3. \A j \in 1 .. Len(s) : s[j] \in LinesOf(n, k, "typed")
  BY <1>1
<1>4. \A j \in 1 .. Len(s) : t[j] \in LinesOf(n, k, "expanded") /\ t[j].line = s[j].line
  BY <1>1, <1>2, <1>3 DEF LinesOf
<1>5. t \in Seq(LinesOf(n, k, "expanded")) /\ Len(t) = Len(s) /\ DOMAIN t = 1 .. Len(s)
  <2>1. t = [j \in 1 .. Len(s) |-> t[j]]
    BY <1>1, <1>2
  <2> QED
    BY <1>1, <1>4, <2>1, IsSeq
<1>6. \A i, j \in 1 .. Len(s) : i < j => t[i].line < t[j].line
  BY <1>1, <1>4, SubBodyIs
<1>7. ASSUME s = Whole(n, k, "typed") PROVE t = Whole(n, k, "expanded")
  <2>1. Len(s) = k /\ \A j \in 1 .. k : s[j] = [node |-> n, line |-> j, form |-> "typed"]
    BY <1>7, WholeIsPart DEF Whole, Written
  <2>2. joined = {}
    <3>1. \A j \in 1 .. k : j > 1 => j - 1 \in 1 .. k /\ s[j - 1].form = "typed"
      BY <2>1
    <3>2. \A j \in joined : j \in 1 .. k /\ j > 1 /\ s[j - 1].form = "damaged"
      BY <1>1, <2>1
    <3> QED
      BY <3>1, <3>2
  <2>3. \A j \in 1 .. k : t[j] = [node |-> n, line |-> j, form |-> "expanded"]
    <3>1. \A j \in 1 .. k : t[j] = [s[j] EXCEPT !.form = "expanded"]
      BY <1>1, <1>2, <2>1, <2>2
    <3> QED
      BY <2>1, <3>1
  <2>4. /\ Len(Whole(n, k, "expanded")) = k
        /\ Whole(n, k, "expanded") \in Seq(LinesOf(n, k, "expanded"))
    BY WholeIsPart, SubBodyIs
  <2> QED
    BY <1>5, <2>1, <2>3, <2>4 DEF Whole, Written
<1> QED
  BY <1>1, <1>5, <1>6, <1>7, SubBodyIs

\* Among the nodes of a line there is one of the last command.
LEMMA LastNode ==
  ASSUME NEW l \in Seq(Seq(Node)), NEW S \in SUBSET NodesOf(l), S # {}
  PROVE  \E m \in S : \A o \in S : o[1] <= m[1]
<1> DEFINE R == OpToRel(<, Nat)
           T == {Len(l) - o[1] : o \in S}
<1>1. \A o \in S : o[1] \in 1 .. Len(l)
  BY NodesHere
<1>2. T \subseteq Nat /\ T # {}
  BY <1>1
<1>3. PICK x \in T : \A y \in T : ~(<<y, x>> \in R)
  BY <1>2, NatLessThanWellFounded, WFMin
<1>4. \A y \in T : ~(y < x)
  BY <1>2, <1>3 DEF OpToRel
<1>5. PICK m \in S : x = Len(l) - m[1]
  OBVIOUS
<1>6. \A o \in S : ~(Len(l) - o[1] < Len(l) - m[1])
  BY <1>4, <1>5
<1>7. Len(l) \in Nat /\ \A o \in S : o[1] \in Nat
  BY <1>1
<1>8. \A o \in S : o[1] <= m[1]
  BY <1>6, <1>7
<1> QED
  BY <1>8

\* A line is a sequence of sequences of nodes.
LEMMA InputIsLine == CursorInv => input \in Seq(Seq(Node))
<1>1. <<>> \in Seq(Seq(Node))
  OBVIOUS
<1> QED
  BY <1>1, LinesAssumption DEF CursorInv

\* A step of the child changes no body but the one it reads: files of the other
\* nodes stay, except those its own file stands for.
LEMMA OthersKept ==
  ASSUME CursorInv, DoneInv, pc = "wait", UNCHANGED shell,
         \A n \in NodesOf(input) \ {ThisNode} :
           count'[n] = count[n] /\ faults'[n] = faults[n],
         \A x \in DOMAIN fs \ {Current, Final(Current)} :
           x \in DOMAIN fs' /\ fs'[x] = fs[x]
  PROVE  DoneInv'
<1> SUFFICES ASSUME NEW c \in DOMAIN input, NEW i \in 1 .. Len(input[c]),
                    Before(c, i), ~Shadowed(c, i)
             PROVE  Holds(c, i)'
  <2>1. \A c, i : /\ Before(c, i)' <=> Before(c, i)
                  /\ Shadowed(c, i)' <=> Shadowed(c, i)
    BY DEF shell, Before, At, Shadowed
  <2> QED
    BY <2>1 DEF DoneInv, shell
<1>1. Holds(c, i)
  BY DEF DoneInv
<1>2. <<c, i>> # ThisNode
  BY DEF Before, CursorInv, ThisNode
<1>3. TmpName(c, i) # Current
  <2> SUFFICES ASSUME TmpName(c, i) = Current PROVE FALSE
    OBVIOUS
  <2>1. input[cmd][idx] = input[c][i] /\ i = idx
    BY NamesApart DEF Current
  <2>2. c < cmd
    BY <2>1 DEF Before, CursorInv
  <2>3. Shadowed(c, i)
    BY <2>1, <2>2 DEF Shadowed, At, CursorInv
  <2> QED
    BY <2>3
<1>4. TmpName(c, i) # Final(Current)
  BY NamesApart DEF Current
<1>5. /\ count'[<<c, i>>] = count[<<c, i>>] /\ faults'[<<c, i>>] = faults[<<c, i>>]
      /\ Form(<<c, i>>)' = Form(<<c, i>>) /\ (Intact(<<c, i>>)' <=> Intact(<<c, i>>))
  BY <1>2, NodesHere DEF Form, Intact, shell
<1>6. TmpName(c, i) \in DOMAIN fs' /\ fs'[TmpName(c, i)] = fs[TmpName(c, i)]
  BY <1>1, <1>3, <1>4 DEF Holds
<1>7. TmpName(c, i)' = TmpName(c, i)
  BY DEF TmpName, shell
<1> QED
  BY <1>1, <1>5, <1>6, <1>7, HoldsNext DEF Holds

\* The steps of the shell alone.
LEMMA NewLineFiles == FileInv /\ NewLine => FileInv'
<1> SUFFICES ASSUME FileInv, NewLine PROVE FileInv'
  OBVIOUS
<1>1. input' \in Lines /\ input' \in Seq(Seq(Node))
  BY LinesAssumption DEF NewLine
<1>2. \A c \in DOMAIN input' : \A i \in 1 .. Len(input'[c]) :
        count'[<<c, i>>] = 0 /\ faults'[<<c, i>>] = {} /\ ~Before(c, i)'
  <2> SUFFICES ASSUME NEW c \in DOMAIN input', NEW i \in 1 .. Len(input'[c])
               PROVE  count'[<<c, i>>] = 0 /\ faults'[<<c, i>>] = {} /\ ~Before(c, i)'
    OBVIOUS
  <2>1. <<c, i>> \in NodesOf(input')
    BY NodesHere
  <2>2. c \in Nat /\ c >= 1
    BY <1>1
  <2> QED
    BY <2>1, <2>2 DEF NewLine, Before
<1>3. CursorInv'
  <2>1. /\ pc' = "next" /\ cmd' = 1 /\ idx' = 1 /\ failures' \in Nat
        /\ DOMAIN count' = NodesOf(input') /\ DOMAIN faults' = NodesOf(input')
    BY DEF NewLine, FileInv, CursorInv
  <2>2. \A c \in DOMAIN input' : \A i \in 1 .. Len(input'[c]) :
          /\ count'[<<c, i>>] \in 0 .. MaxBody /\ count'[<<c, i>>] = 0
          /\ faults'[<<c, i>>] \subseteq Calls /\ faults'[<<c, i>>] = {}
    <3>1. 0 \in 0 .. MaxBody
      BY BoundsAssumption
    <3> QED
      BY <1>2, <3>1
  <2> QED
    BY <1>1, <2>1, <2>2 DEF CursorInv
<1> QED
  BY <1>2, <1>3 DEF NewLine, FileInv, DoneInv, BodyInv

\* The child's place in the loop: nothing of what was read changes.
LEMMA ShellStepFiles ==
  ASSUME FileInv, ChildInv, ShellStep \/ ForkHeredocFails
  PROVE  FileInv'
<1> USE DEF FileInv, hist
<1>0. /\ input \in Seq(Seq(Node)) /\ cmd \in Nat \ {0} /\ idx \in Nat \ {0}
      /\ DOMAIN input = 1 .. Len(input) /\ Len(input) \in Nat
      /\ \A c \in DOMAIN input : Len(input[c]) \in Nat
  BY InputIsLine DEF CursorInv
<1>1. CASE HeredocMax \/ ForkHeredocFails
  <2>1. UNCHANGED <<input, cmd, idx, count, faults>> /\ pc' \in {"prompt", "exited"}
    BY <1>1 DEF HeredocMax, ForkHeredocFails
  <2>2. failures' \in Nat
    BY <1>1 DEF HeredocMax, ForkHeredocFails, Fail, CursorInv
  <2> QED
    BY <2>1, <2>2 DEF CursorInv, DoneInv, BodyInv
<1>2. CASE ForkHeredoc
  <2>1. UNCHANGED <<input, cmd, idx, count, faults, fs, failures>>
        /\ pc = "next" /\ pc' = "wait"
        /\ child' = "forked" /\ typed' = "nothing"
        /\ cmd \in DOMAIN input /\ idx \in 1 .. Len(input[cmd])
    BY <1>0, <1>2 DEF ForkHeredoc, AtNode
  <2>2. \A c, i : /\ Before(c, i)' <=> Before(c, i)
                  /\ Shadowed(c, i) => Shadowed(c, i)'
                  /\ Holds(c, i)' <=> Holds(c, i)
    BY <2>1 DEF Before, At, Shadowed, Holds, Form, Intact, TmpName
  <2>3. DoneInv'
    BY <2>1, <2>2 DEF DoneInv
  <2>4. CursorInv'
    BY <2>1, <2>2 DEF CursorInv, At
  <2>5. ~Before(cmd, idx) /\ ~At(cmd, idx)
    BY <1>0, <2>1 DEF Before, At
  <2>6. Typed' = 0 /\ Failed' = {}
    BY <2>1, <2>5 DEF CursorInv, Typed, Failed, ThisNode
  <2>7. BodyInv'
    BY <2>1, <2>6, BodyInvNext DEF Reading
  <2> QED
    BY <2>3, <2>4, <2>7
<1>3. CASE NextCommand
  <2>1. UNCHANGED <<input, count, faults, faults, fs, failures>> /\ pc = "next" /\ pc' = "next"
        /\ cmd' = cmd + 1 /\ idx' = 1 /\ cmd <= Len(input) /\ idx > Len(input[cmd])
    BY <1>3 DEF NextCommand
  <2>2. \A c \in DOMAIN input : \A i \in 1 .. Len(input[c]) : Before(c, i)' <=> Before(c, i)
    BY <1>0, <2>1 DEF Before
  <2>3. \A c, i : Holds(c, i)' <=> Holds(c, i)
    BY <2>1 DEF Holds, Form, Intact, TmpName
  <2>4. \A c \in DOMAIN input : \A i \in 1 .. Len(input[c]) :
          Shadowed(c, i) => Shadowed(c, i)'
    BY <1>0, <2>1, <2>2 DEF Shadowed, At
  <2> QED
    BY <1>0, <2>1, <2>2, <2>3, <2>4 DEF CursorInv, DoneInv, BodyInv, At
<1>4. CASE ParentWaitHeredoc
  <2>1. CASE child # "exit0"
    BY <1>4, <2>1 DEF ParentWaitHeredoc, CursorInv, DoneInv, BodyInv, Ended
  <2>2. CASE child = "exit0"
    <3>1. UNCHANGED <<input, cmd, count, faults, fs, failures>> /\ pc = "wait" /\ pc' = "next"
          /\ idx' = idx + 1
      BY <1>4, <2>2 DEF ParentWaitHeredoc
    <3>2. \A c \in DOMAIN input : \A i \in 1 .. Len(input[c]) :
            Before(c, i)' <=> Before(c, i) \/ At(c, i)
      BY <1>0, <3>1 DEF Before, At
    <3>3. \A c, i : Holds(c, i)' <=> Holds(c, i)
      BY <3>1 DEF Holds, Form, Intact, TmpName
    <3>4. \A c \in DOMAIN input : \A i \in 1 .. Len(input[c]) :
            Shadowed(c, i) => Shadowed(c, i)'
      BY <1>0, <3>1, <3>2 DEF Shadowed
    <3>5. \A c, i : At(c, i) => Holds(c, i)
      BY <2>2, <3>1 DEF BodyInv, At
    <3>6. DoneInv'
      BY <3>1, <3>2, <3>3, <3>4, <3>5 DEF DoneInv
    <3>7. \A c \in DOMAIN input : \A i \in 1 .. Len(input[c]) :
            /\ count[<<c, i>>] \in 0 .. MaxBody /\ faults[<<c, i>>] \subseteq Calls
            /\ ~Before(c, i)' => count[<<c, i>>] = 0 /\ faults[<<c, i>>] = {}
      BY <3>1, <3>2 DEF CursorInv
    <3>8. /\ cmd' \in Nat \ {0} /\ idx' \in Nat \ {0} /\ failures' \in Nat
          /\ input' \in Lines \union {<<>>} /\ DOMAIN count' = NodesOf(input')
          /\ DOMAIN faults' = NodesOf(input')
      BY <1>0, <3>1 DEF CursorInv
    <3>9. CursorInv'
      BY <3>1, <3>7, <3>8 DEF CursorInv
    <3> QED
      BY <3>1, <3>6, <3>9 DEF BodyInv
  <2> QED
    BY <2>1, <2>2
<1>5. CASE StartCommands
  <2>1. UNCHANGED <<input, cmd, idx, count, faults, fs, failures>> /\ pc = "next" /\ pc' = "run"
        /\ cmd > Len(input)
    BY <1>5 DEF StartCommands
  <2>2. \A c, i : /\ Before(c, i)' <=> Before(c, i)
                  /\ Shadowed(c, i) => Shadowed(c, i)'
                  /\ Holds(c, i)' <=> Holds(c, i)
    BY <2>1 DEF Before, At, Shadowed, Holds, Form, Intact, TmpName
  <2> QED
    BY <2>1, <2>2 DEF CursorInv, DoneInv, BodyInv
<1>6. CASE CleanupHeredocs
  BY <1>6 DEF CleanupHeredocs, CursorInv, DoneInv, BodyInv
<1> QED
  BY <1>1, <1>2, <1>3, <1>4, <1>5, <1>6 DEF ShellStep

-----------------------------------------------------------------------------
(* The steps of the child, the keyboard and the kill.                      *)

\* A step that types nothing, leaves the flow of the shell alone and fails at
\* most one call keeps CursorInv.
LEMMA CursorKept ==
  ASSUME CursorInv, UNCHANGED <<shell, count>>, failures' \in Nat,
         \/ UNCHANGED faults
         \/ /\ pc = "wait"
            /\ \E call \in Calls :
                 faults' = [faults EXCEPT ![ThisNode] = @ \union {call}]
  PROVE  CursorInv'
<1>1. \A c, i : (Before(c, i)' <=> Before(c, i)) /\ (At(c, i)' <=> At(c, i))
  BY DEF shell, Before, At
<1>2. \A c \in DOMAIN input : \A i \in 1 .. Len(input[c]) :
        /\ faults'[<<c, i>>] \subseteq Calls
        /\ <<c, i>> # ThisNode \/ pc # "wait" => faults'[<<c, i>>] = faults[<<c, i>>]
  <2> SUFFICES ASSUME NEW c \in DOMAIN input, NEW i \in 1 .. Len(input[c])
               PROVE  /\ faults'[<<c, i>>] \subseteq Calls
                      /\ <<c, i>> # ThisNode \/ pc # "wait" =>
                           faults'[<<c, i>>] = faults[<<c, i>>]
    OBVIOUS
  <2>1. <<c, i>> \in DOMAIN faults /\ faults[<<c, i>>] \subseteq Calls
    BY NodesHere DEF CursorInv
  <2>2. \/ faults'[<<c, i>>] = faults[<<c, i>>]
        \/ pc = "wait" /\ <<c, i>> = ThisNode
           /\ \E call \in Calls : faults'[<<c, i>>] = faults[<<c, i>>] \union {call}
    BY <2>1
  <2> QED
    BY <2>1, <2>2
<1>3. DOMAIN faults' = DOMAIN faults
  OBVIOUS
<1>4. \A c, i : pc = "wait" /\ ~At(c, i) => <<c, i>> # ThisNode
  BY DEF At, ThisNode
<1> QED
  BY <1>1, <1>2, <1>3, <1>4 DEF CursorInv, shell

\* What holds before and after every step of the child in FileInv.
ChildAt == FileInv /\ pc = "wait" /\ ThisNode \in DOMAIN faults /\ Typed \in Nat
           /\ Final(Current) # Current /\ input[cmd][idx].quoted \in BOOLEAN
Alongside ==
  /\ UNCHANGED <<shell, count>> /\ UNCHANGED <<pc, input, cmd, idx>>
  /\ Current' = Current /\ ThisNode' = ThisNode /\ Typed' = Typed
  /\ Final(Current)' = Final(Current)
  /\ CursorInv'
  /\ (\A x \in DOMAIN fs \ {Current, Final(Current)} : x \in DOMAIN fs' /\ fs'[x] = fs[x])
     => DoneInv'

\* While the shell waits, the child is at a node of the line.
LEMMA ChildIsAt == FileInv /\ pc = "wait" => ChildAt
<1> SUFFICES ASSUME FileInv, pc = "wait" PROVE ChildAt
  OBVIOUS
<1>1. input \in Seq(Seq(Node)) /\ cmd \in DOMAIN input /\ idx \in 1 .. Len(input[cmd])
  BY InputIsLine DEF FileInv, CursorInv
<1>2. input[cmd][idx].quoted \in BOOLEAN
  <2>1. input[cmd] \in Seq(Node)
    BY <1>1
  <2>2. input[cmd][idx] \in Node
    BY <1>1, <2>1
  <2> QED
    BY <2>2 DEF Node
<1>3. ThisNode \in DOMAIN faults /\ Typed \in Nat
  BY <1>1, NodesHere DEF FileInv, CursorInv, ThisNode, Typed
<1>4. Final(Current) # Current
  BY NamesApart DEF Current
<1> QED
  BY <1>2, <1>3, <1>4 DEF ChildAt

\* A step of the child that records at most a failure of its own leaves the shell
\* and the other nodes' histories alone.
LEMMA ChildAlongside ==
  ASSUME ChildAt, UNCHANGED <<shell, count>>, failures' \in Nat,
         \/ UNCHANGED faults
         \/ \E call \in Calls : faults' = [faults EXCEPT ![ThisNode] = @ \union {call}]
  PROVE  Alongside
<1>1. UNCHANGED <<pc, input, cmd, idx>>
  BY DEF shell
<1>2. CursorInv'
  BY CursorKept DEF ChildAt, FileInv
<1>3. \A n \in NodesOf(input) \ {ThisNode} :
        count'[n] = count[n] /\ faults'[n] = faults[n]
  BY DEF ChildAt, FileInv, CursorInv
<1>4. ASSUME \A x \in DOMAIN fs \ {Current, Final(Current)} :
               x \in DOMAIN fs' /\ fs'[x] = fs[x]
      PROVE  DoneInv'
  BY <1>3, <1>4, OthersKept DEF ChildAt, FileInv
<1>5. /\ Current' = Current /\ ThisNode' = ThisNode /\ Typed' = Typed
      /\ Final(Current)' = Final(Current)
  BY <1>1 DEF Current, TmpName, ThisNode, Typed, Final
<1> QED
  BY <1>1, <1>2, <1>4, <1>5 DEF Alongside

\* The child of a failing call.
LEMMA FailingCall ==
  ASSUME ChildAt, ChildInv, NEW call \in Calls, FailIn(call), NotShell
  PROVE  Alongside /\ Failed' = Failed \union {call}
<1>1. /\ UNCHANGED <<shell, count>> /\ failures' \in Nat
      /\ faults' = [faults EXCEPT ![ThisNode] = @ \union {call}]
  BY DEF FailIn, Fail, NotShell, ChildAt, FileInv, CursorInv
<1>2. Alongside
  BY <1>1, ChildAlongside
<1>3. Failed' = Failed \union {call}
  BY <1>1, <1>2 DEF Failed, ChildAt, Alongside
<1> QED
  BY <1>2, <1>3

\* The child of a step that fails nothing, or nothing that Failed counts.
LEMMA NoFailingCall ==
  ASSUME ChildAt, UNCHANGED <<shell, hist>>, UNCHANGED failures \/ Fail
  PROVE  Alongside /\ Failed' = Failed
<1>1. UNCHANGED <<shell, count>> /\ failures' \in Nat /\ UNCHANGED faults
  BY DEF hist, Fail, ChildAt, FileInv, CursorInv
<1>2. Alongside
  BY <1>1, ChildAlongside
<1> QED
  BY <1>1, <1>2 DEF Failed, Alongside

\* The body of a child that has ended well: what Holds says, by its form.
LEMMA EndsHolding ==
  ASSUME ChildAt, Alongside, Current \in DOMAIN fs', "read" \notin Failed',
         \/ /\ input[cmd][idx].quoted \/ Failed' \intersect {"expand", "truncate"} # {}
            /\ SubBody(fs'[Current], ThisNode, Typed, "typed")
            /\ "write" \notin Failed' => fs'[Current] = Whole(ThisNode, Typed, "typed")
         \/ /\ ~(input[cmd][idx].quoted \/ Failed' \intersect {"expand", "truncate"} # {})
            /\ SubBody(fs'[Current], ThisNode, Typed, "expanded")
            /\ Failed' = {} => fs'[Current] = Whole(ThisNode, Typed, "expanded")
  PROVE  Holds(cmd, idx)'
<1>1. /\ TmpName(cmd, idx)' = Current /\ <<cmd, idx>>' = ThisNode
      /\ count'[ThisNode] = Typed /\ faults'[ThisNode] = Failed'
  BY DEF Alongside, Current, ThisNode, Typed, Failed
<1>2. Form(ThisNode)' = IF input[cmd][idx].quoted
                           \/ Failed' \intersect {"expand", "truncate"} # {}
                        THEN "typed" ELSE "expanded"
  BY <1>1 DEF Form, Alongside, ThisNode
<1>3. Intact(ThisNode)' <=> IF Form(ThisNode)' = "typed" THEN "write" \notin Failed'
                                                        ELSE Failed' = {}
  BY <1>1 DEF Intact, Alongside
<1>4. /\ SubBody(fs'[Current], ThisNode, Typed, Form(ThisNode)')
      /\ Intact(ThisNode)' => fs'[Current] = Whole(ThisNode, Typed, Form(ThisNode)')
  BY <1>2, <1>3
<1>5. cmd' = cmd /\ idx' = idx /\ Current' = Current
  BY DEF Alongside
<1> QED
  BY <1>1, <1>4, <1>5, HoldsNext DEF ThisNode, Current

\* A step of the child before the body is expanded.
LEMMA ReadingFiles ==
  ASSUME FileInv, ChildInv, pc = "wait",
         \/ OpenTmpFile \/ OpenTmpFileFails \/ SetupHeredocSignals \/ ResetReceivedSignal
         \/ ReadlineClosed \/ HeredocLoopTop \/ CheckHeredocLine \/ Kill
  PROVE  FileInv'
<1> USE DEF NotShell, Goto
<1>0. ChildAt
  BY ChildIsAt
<1>1. Alongside /\ Failed' = Failed
  <2>1. UNCHANGED <<shell, hist>> /\ (UNCHANGED failures \/ Fail)
    BY DEF OpenTmpFile, OpenTmpFileFails, SetupHeredocSignals, ResetReceivedSignal,
           ReadlineClosed, HeredocLoopTop, CheckHeredocLine, Kill
  <2> QED
    BY <1>0, <2>1, NoFailingCall
<1>2. /\ CursorInv' /\ BodyInv /\ pc' = "wait" /\ pc = "wait"
      /\ input' = input /\ cmd' = cmd /\ idx' = idx
      /\ Current' = Current /\ Typed' = Typed /\ ThisNode' = ThisNode
      /\ Typed \in Nat
  BY <1>0, <1>1 DEF Alongside, FileInv, ChildAt
<1>3. CASE OpenTmpFile
  <2>1. /\ fs' = CreateFile(fs, Current, <<>>)
        /\ child = "forked" /\ child' = "opened" /\ Typed = 0 /\ Failed = {}
    BY <1>2, <1>3 DEF OpenTmpFile, BodyInv
  <2>2. DoneInv'
    BY <1>1, <2>1 DEF CreateFile, Alongside
  <2>3. Current \in DOMAIN fs' /\ fs'[Current] = <<>>
    BY <2>1 DEF CreateFile
  <2>4. KeptNext(Current', Typed', "typed", {})
    BY <1>2, <2>1, <2>3, NothingIsPart DEF KeptNext
  <2>5. BodyInv'
    BY <1>1, <1>2, <2>1, <2>4, BodyInvNext DEF Reading
  <2> QED
    BY <1>2, <2>2, <2>5 DEF FileInv
<1>4. CASE OpenTmpFileFails \/ Kill
  <2>1. UNCHANGED fs /\ child' \in {"exit130", "killed"}
    BY <1>4 DEF OpenTmpFileFails, Kill
  <2>2. DoneInv'
    BY <1>1, <2>1 DEF Alongside
  <2>3. BodyInv'
    BY <1>2, <2>1, BodyInvNext DEF Reading
  <2> QED
    BY <1>2, <2>2, <2>3 DEF FileInv
<1>5. CASE (HeredocLoopTop \/ CheckHeredocLine) /\ Interrupted
  <2>1. fs' = Unlink(fs, {Current}) /\ child' = "exit130"
    BY <1>5 DEF Interrupted
  <2>2. DoneInv'
    BY <1>1, <2>1 DEF Unlink, Alongside
  <2>3. BodyInv'
    BY <1>2, <2>1, BodyInvNext DEF Reading
  <2> QED
    BY <1>2, <2>2, <2>3 DEF FileInv
<1>6. CASE \/ SetupHeredocSignals \/ ResetReceivedSignal \/ ReadlineClosed
           \/ (HeredocLoopTop \/ CheckHeredocLine) /\ ~Interrupted
  <2>1. /\ UNCHANGED fs
        /\ \/ child = "opened" /\ child' = "armed"
           \/ child = "armed" /\ child' = "top"
           \/ child = "top" /\ child' = "readline"
           \/ child = "readline" /\ child' = "check" /\ typed' = "eof"
           \/ child = "check" /\ typed' = typed /\ typed = "body" /\ child' = "write"
           \/ child = "check" /\ typed' = typed /\ typed # "body" /\ child' = AfterBody
    BY <1>6 DEF SetupHeredocSignals, ResetReceivedSignal, ReadlineClosed, HeredocLoopTop,
                CheckHeredocLine
  <2>2. DoneInv'
    BY <1>1, <2>1 DEF Alongside
  <2>3. \A k, spared :
          Kept(Current, k, "typed", spared) => KeptNext(Current', k, "typed", spared)
    BY <1>1, <1>2, <2>1 DEF Kept, KeptNext
  <2>4. CASE child = "check" /\ typed # "body"
    <3>1. Kept(Current, Typed, "typed", {}) /\ Failed \subseteq {"write"}
          /\ child' = AfterBody /\ typed' = typed
      BY <1>2, <2>1, <2>4 DEF BodyInv, Pending, Reading
    <3>2. CASE input[cmd][idx].quoted
      <4>1. child' = "exit0"
        BY <3>1, <3>2 DEF AfterBody
      <4>2. Holds(cmd, idx)'
        <5>1. /\ Current \in DOMAIN fs' /\ "read" \notin Failed'
              /\ SubBody(fs'[Current], ThisNode, Typed, "typed")
              /\ "write" \notin Failed' => fs'[Current] = Whole(ThisNode, Typed, "typed")
          BY <1>1, <2>1, <3>1 DEF Kept
        <5> QED
          BY <1>0, <1>1, <3>2, <5>1, EndsHolding
      <4> QED
        BY <1>1, <1>2, <2>2, <4>1, <4>2, BodyInvNext DEF FileInv, Reading
    <3>3. CASE ~input[cmd][idx].quoted
      <4>1. child' = "expand"
        BY <3>1, <3>3 DEF AfterBody
      <4> QED
        BY <1>1, <1>2, <2>2, <2>3, <3>1, <3>3, <4>1, BodyInvNext DEF FileInv, Reading
    <3> QED
      BY <1>0, <3>2, <3>3 DEF ChildAt
  <2>5. CASE ~(child = "check" /\ typed # "body")
    <3>1. /\ child' \in {"armed", "top", "readline"} \/ (child' = "check" /\ typed' = "eof") =>
               Kept(Current, Typed, "typed", {})
          /\ child' = "write" =>
               typed' = "body" /\ Typed > 0 /\ Kept(Current, Typed - 1, "typed", {})
          /\ child' \in {"armed", "top", "readline", "check", "write"}
          /\ child' = "armed" => Typed = 0 /\ Failed = {}
          /\ Failed \subseteq {"write"}
      BY <1>2, <2>1, <2>5 DEF BodyInv, Pending, Reading
    <3> QED
      BY <1>1, <1>2, <2>1, <2>2, <2>3, <2>5, <3>1, BodyInvNext DEF FileInv, Reading
  <2> QED
    BY <2>4, <2>5
<1> QED
  BY <1>3, <1>4, <1>5, <1>6

\* A line is written, or lost.
LEMMA WriteFiles ==
  ASSUME FileInv, ChildInv, pc = "wait", WriteLine \/ WriteLineFails
  PROVE  FileInv'
<1> USE DEF NotShell, Goto
<1>0. ChildAt
  BY ChildIsAt
<1>1. /\ child = "write" /\ child' = "top" /\ Typed > 0 /\ Typed \in Nat
      /\ Kept(Current, Typed - 1, "typed", {}) /\ Failed \subseteq {"write"}
  BY <1>0 DEF WriteLine, WriteLineFails, BodyInv, Pending, ChildAt, FileInv, Reading
<1>2. /\ Typed - 1 \in Nat /\ (Typed - 1) + 1 = Typed /\ count[ThisNode] = Typed
      /\ Current \in DOMAIN fs /\ SubBody(fs[Current], ThisNode, Typed - 1, "typed")
  BY <1>1 DEF Typed, Kept
<1>3. /\ SubBody(fs[Current], ThisNode, Typed, "typed")
      /\ \A f \in {"typed", "damaged"} :
           SubBody(Append(fs[Current], Written(ThisNode, Typed, f)), ThisNode, Typed, "typed")
      /\ Append(Whole(ThisNode, Typed - 1, "typed"), Written(ThisNode, Typed, "typed"))
           = Whole(ThisNode, Typed, "typed")
  BY <1>2, PartGrows
<1>4. CASE WriteLine
  <2>1. Alongside /\ Failed' = Failed
    BY <1>0, <1>4, NoFailingCall DEF WriteLine
  <2>2. fs' = [fs EXCEPT ![Current] = Append(@, Written(ThisNode, Typed, "typed"))]
    BY <1>2, <1>4 DEF WriteLine
  <2>3. KeptNext(Current', Typed', "typed", {})
    BY <1>1, <1>2, <1>3, <2>1, <2>2 DEF KeptNext, Kept, Alongside
  <2>4. DoneInv'
    BY <2>1, <2>2 DEF Alongside
  <2> QED
    BY <1>1, <2>1, <2>3, <2>4, BodyInvNext DEF FileInv, Reading, Alongside
<1>5. CASE WriteLineFails
  <2>1. Alongside /\ Failed' = Failed \union {"write"}
    BY <1>0, <1>5, FailingCall DEF WriteLineFails, Calls
  <2>2. \/ UNCHANGED fs
        \/ fs' = [fs EXCEPT ![Current] = Append(@, Written(ThisNode, Typed, "damaged"))]
    BY <1>2, <1>5 DEF WriteLineFails
  <2>3. KeptNext(Current', Typed', "typed", {})
    BY <1>2, <1>3, <2>1, <2>2 DEF KeptNext, Alongside
  <2>4. DoneInv'
    BY <2>1, <2>2 DEF Alongside
  <2> QED
    BY <1>1, <2>1, <2>3, <2>4, BodyInvNext DEF FileInv, Reading, Alongside
<1> QED
  BY <1>4, <1>5

\* The body is expanded to ".final", in whole or part, or stays as typed.
LEMMA ExpandFiles ==
  ASSUME FileInv, ChildInv, pc = "wait", ExpandToFinal \/ ExpandToFinalCut \/ ExpandFails
  PROVE  FileInv'
<1> USE DEF NotShell, Goto
<1>0. ChildAt /\ Final(Current) # Current
  BY ChildIsAt DEF ChildAt
<1>1. /\ child = "expand" /\ Typed \in Nat /\ ~input[cmd][idx].quoted
      /\ Kept(Current, Typed, "typed", {}) /\ Failed \subseteq {"write"}
  BY <1>0 DEF ExpandToFinal, ExpandToFinalCut, ExpandFails, BodyInv, Pending, ChildAt,
              FileInv, Reading
<1>2. /\ Current \in DOMAIN fs /\ SubBody(fs[Current], ThisNode, Typed, "typed")
      /\ Failed = {} => fs[Current] = Whole(ThisNode, Typed, "typed")
  BY <1>1 DEF Kept
<1>3. ASSUME NEW text, fs' = CreateFile(fs, Final(Current), text)
      PROVE  /\ \A x \in DOMAIN fs \ {Final(Current)} : x \in DOMAIN fs' /\ fs'[x] = fs[x]
             /\ Final(Current) \in DOMAIN fs' /\ fs'[Final(Current)] = text
  BY <1>3 DEF CreateFile
<1>4. CASE ExpandToFinal
  <2>1. Alongside /\ Failed' = Failed /\ child' = "replace"
    BY <1>0, <1>4, NoFailingCall DEF ExpandToFinal
  <2>2. PICK text \in Expansions(fs[Current]) : fs' = CreateFile(fs, Final(Current), text)
    BY <1>4 DEF ExpandToFinal
  <2>3. /\ SubBody(text, ThisNode, Typed, "expanded")
        /\ fs[Current] = Whole(ThisNode, Typed, "typed") =>
             text = Whole(ThisNode, Typed, "expanded")
    BY <1>1, <1>2, PartExpands
  <2>4. /\ KeptNext(Final(Current)', Typed', "expanded", {})
        /\ KeptNext(Current', Typed', "typed", {"lines"})
    BY <1>0, <1>1, <1>2, <1>3, <2>1, <2>2, <2>3 DEF KeptNext, Alongside
  <2>5. DoneInv'
    BY <1>3, <2>1, <2>2 DEF Alongside
  <2> QED
    BY <1>1, <2>1, <2>4, <2>5, BodyInvNext DEF FileInv, Reading, Alongside
<1>5. CASE ExpandToFinalCut
  <2>1. Alongside /\ Failed' = Failed \union {"lines"} /\ child' = "replace"
    BY <1>0, <1>5, FailingCall DEF ExpandToFinalCut, Calls
  <2>2. PICK text \in Expansions(fs[Current]) :
          \E left \in LeftOf(text) : fs' = CreateFile(fs, Final(Current), left)
    BY <1>5 DEF ExpandToFinalCut
  <2>3. PICK left \in LeftOf(text) : fs' = CreateFile(fs, Final(Current), left)
    BY <2>2
  <2>4. SubBody(left, ThisNode, Typed, "expanded")
    <3>1. SubBody(text, ThisNode, Typed, "expanded")
      BY <1>1, <1>2, PartExpands
    <3> QED
      BY <1>1, <3>1, PartLeft
  <2>5. /\ KeptNext(Final(Current)', Typed', "expanded", {})
        /\ KeptNext(Current', Typed', "typed", {"lines"})
    BY <1>0, <1>1, <1>2, <1>3, <2>1, <2>3, <2>4 DEF KeptNext, Alongside
  <2>6. DoneInv'
    BY <1>3, <2>1, <2>3 DEF Alongside
  <2> QED
    BY <1>1, <2>1, <2>5, <2>6, BodyInvNext DEF FileInv, Reading, Alongside
<1>6. CASE ExpandFails
  <2>1. Alongside /\ Failed' = Failed \union {"expand"} /\ child' = "exit0"
    BY <1>0, <1>6, FailingCall DEF ExpandFails, Calls
  <2>2. \A x \in DOMAIN fs \ {Final(Current)} : x \in DOMAIN fs' /\ fs'[x] = fs[x]
    BY <1>3, <1>6 DEF ExpandFails
  <2>3. /\ Current \in DOMAIN fs' /\ "read" \notin Failed'
        /\ Failed' \intersect {"expand", "truncate"} # {}
        /\ SubBody(fs'[Current], ThisNode, Typed, "typed")
        /\ "write" \notin Failed' => fs'[Current] = Whole(ThisNode, Typed, "typed")
    BY <1>0, <1>1, <1>2, <2>1, <2>2
  <2>4. Holds(cmd, idx)'
    BY <1>0, <2>1, <2>3, EndsHolding
  <2>5. DoneInv'
    BY <2>1, <2>2 DEF Alongside
  <2> QED
    BY <2>1, <2>4, <2>5, BodyInvNext DEF FileInv, Reading, Alongside
<1> QED
  BY <1>4, <1>5, <1>6

\* The temporary file is truncated, and refilled with what the copy brings back.
LEMMA ReplaceFiles ==
  ASSUME FileInv, ChildInv, pc = "wait",
         \/ ReplaceHeredocFile \/ ReplaceHeredocFileFails
         \/ CopyExpandedFile \/ CopyExpandedFileCut
  PROVE  FileInv'
<1> USE DEF NotShell, Goto
<1>0. ChildAt /\ Final(Current) # Current
  BY ChildIsAt DEF ChildAt
<1>1. /\ Typed \in Nat /\ ~input[cmd][idx].quoted
      /\ Kept(Final(Current), Typed, "expanded", {}) /\ Failed \subseteq {"write", "lines"}
      /\ Current \in DOMAIN fs
      /\ child = "replace" => Kept(Current, Typed, "typed", {"lines"})
  BY <1>0 DEF ReplaceHeredocFile, ReplaceHeredocFileFails, CopyExpandedFile,
              CopyExpandedFileCut, BodyInv, Kept, ChildAt, FileInv
<1>2. /\ Final(Current) \in DOMAIN fs
      /\ SubBody(fs[Final(Current)], ThisNode, Typed, "expanded")
      /\ Failed = {} => fs[Final(Current)] = Whole(ThisNode, Typed, "expanded")
  BY <1>1 DEF Kept
<1>3. ASSUME NEW f, fs' = Unlink(f, {Final(Current)}), DOMAIN f = DOMAIN fs,
             \A x \in DOMAIN fs \ {Current} : f[x] = fs[x], Alongside
      PROVE  /\ Current \in DOMAIN fs' /\ fs'[Current] = f[Current]
             /\ DoneInv'
  <2>1. /\ DOMAIN fs' = DOMAIN fs \ {Final(Current)}
        /\ \A x \in DOMAIN fs \ {Final(Current)} : fs'[x] = f[x]
    BY <1>3 DEF Unlink
  <2>2. \A x \in DOMAIN fs \ {Current, Final(Current)} : x \in DOMAIN fs' /\ fs'[x] = fs[x]
    BY <1>3, <2>1
  <2> QED
    BY <1>0, <1>1, <1>3, <2>1, <2>2 DEF Alongside
<1>4. ASSUME Current \in DOMAIN fs', DoneInv', Alongside, child' = "exit0",
             "read" \notin Failed',
             Failed' \intersect {"expand", "truncate"} = {},
             SubBody(fs'[Current], ThisNode, Typed, "expanded"),
             Failed' = {} => fs'[Current] = Whole(ThisNode, Typed, "expanded")
      PROVE  FileInv'
  <2>1. Holds(cmd, idx)'
    BY <1>0, <1>1, <1>4, EndsHolding
  <2> QED
    BY <1>4, <2>1, BodyInvNext DEF FileInv, Reading, Alongside
<1>5. CASE ReplaceHeredocFile
  <2>1. Alongside /\ Failed' = Failed /\ child' = "copy"
    BY <1>0, <1>5, NoFailingCall DEF ReplaceHeredocFile
  <2>2. fs' = [fs EXCEPT ![Current] = <<>>]
    BY <1>5 DEF ReplaceHeredocFile
  <2>3. KeptNext(Final(Current)', Typed', "expanded", {}) /\ Current \in DOMAIN fs'
    BY <1>0, <1>1, <1>2, <2>1, <2>2 DEF KeptNext, Alongside
  <2>4. DoneInv'
    BY <2>1, <2>2 DEF Alongside
  <2> QED
    BY <1>1, <2>1, <2>3, <2>4, BodyInvNext DEF FileInv, Reading, Alongside
<1>6. CASE CopyExpandedFile
  <2> DEFINE f == [fs EXCEPT ![Current] = fs[Final(Current)]]
  <2>1. Alongside /\ Failed' = Failed /\ child' = "exit0"
    BY <1>0, <1>6, NoFailingCall DEF CopyExpandedFile
  <2>2. /\ fs' = Unlink(f, {Final(Current)}) /\ DOMAIN f = DOMAIN fs
        /\ f[Current] = fs[Final(Current)] /\ \A x \in DOMAIN fs \ {Current} : f[x] = fs[x]
    BY <1>1, <1>6 DEF CopyExpandedFile
  <2> HIDE DEF f
  <2>3. Current \in DOMAIN fs' /\ fs'[Current] = fs[Final(Current)] /\ DoneInv'
    BY <1>3, <2>1, <2>2
  <2> QED
    BY <1>1, <1>2, <1>4, <2>1, <2>3
<1>7. CASE CopyExpandedFileCut
  <2>1. Alongside /\ Failed' = Failed \union {"copy"} /\ child' = "exit0"
    BY <1>0, <1>7, FailingCall DEF CopyExpandedFileCut, Calls
  <2>2. PICK left \in LeftOf(fs[Final(Current)]) :
          fs' = Unlink([fs EXCEPT ![Current] = left], {Final(Current)})
    BY <1>7 DEF CopyExpandedFileCut
  <2> DEFINE f == [fs EXCEPT ![Current] = left]
  <2>3. /\ fs' = Unlink(f, {Final(Current)}) /\ DOMAIN f = DOMAIN fs
        /\ f[Current] = left /\ \A x \in DOMAIN fs \ {Current} : f[x] = fs[x]
    BY <1>1, <2>2
  <2> HIDE DEF f
  <2>4. Current \in DOMAIN fs' /\ fs'[Current] = left /\ DoneInv'
    BY <1>3, <2>1, <2>3
  <2>5. SubBody(left, ThisNode, Typed, "expanded")
    BY <1>1, <1>2, PartLeft
  <2> QED
    BY <1>1, <1>4, <2>1, <2>4, <2>5
<1>8. CASE ReplaceHeredocFileFails
  <2>0. child = "replace" /\ child' = "exit0"
    BY <1>8 DEF ReplaceHeredocFileFails
  <2>1. CASE FailIn("truncate") /\ fs' = Unlink(fs, {Final(Current)})
    <3>1. Alongside /\ Failed' = Failed \union {"truncate"}
      BY <1>0, <1>8, <2>1, FailingCall DEF ReplaceHeredocFileFails, Calls
    <3>2. Current \in DOMAIN fs' /\ fs'[Current] = fs[Current] /\ DoneInv'
      BY <1>3, <2>1, <3>1
    <3>3. /\ "read" \notin Failed' /\ Failed' \intersect {"expand", "truncate"} # {}
          /\ SubBody(fs'[Current], ThisNode, Typed, "typed")
          /\ "write" \notin Failed' => fs'[Current] = Whole(ThisNode, Typed, "typed")
      <4>1. /\ SubBody(fs[Current], ThisNode, Typed, "typed")
            /\ Failed \subseteq {"lines"} => fs[Current] = Whole(ThisNode, Typed, "typed")
        BY <1>1, <2>0 DEF Kept
      <4> QED
        BY <1>1, <3>1, <3>2, <4>1
    <3>4. Holds(cmd, idx)'
      BY <1>0, <3>1, <3>2, <3>3, EndsHolding
    <3> QED
      BY <2>0, <3>1, <3>2, <3>4, BodyInvNext DEF FileInv, Reading, Alongside
  <2>2. CASE FailIn("read") /\ fs' = Unlink([fs EXCEPT ![Current] = <<>>], {Final(Current)})
    <3> DEFINE f == [fs EXCEPT ![Current] = <<>>]
    <3>1. Alongside /\ Failed' = Failed \union {"read"}
      BY <1>0, <1>8, <2>2, FailingCall DEF ReplaceHeredocFileFails, Calls
    <3>2. /\ fs' = Unlink(f, {Final(Current)}) /\ DOMAIN f = DOMAIN fs
          /\ f[Current] = <<>> /\ \A x \in DOMAIN fs \ {Current} : f[x] = fs[x]
      BY <1>1, <2>2
    <3> HIDE DEF f
    <3>3. Current \in DOMAIN fs' /\ fs'[Current] = <<>> /\ DoneInv'
      BY <1>3, <3>1, <3>2
    <3>4. Holds(cmd, idx)'
      <4>1. /\ TmpName(cmd, idx)' = Current /\ <<cmd, idx>>' = ThisNode
            /\ count'[ThisNode] = Typed /\ cmd' = cmd /\ idx' = idx
            /\ faults'[ThisNode] = Failed' /\ input' = input
        BY <3>1 DEF Alongside, Current, ThisNode, Typed, Failed
      <4>2. SubBody(<<>>, ThisNode, Typed, Form(ThisNode)')
        BY <1>1, NothingIsPart
      <4>3. ~Intact(ThisNode)'
        <5>1. Form(ThisNode)' = "expanded"
          BY <1>1, <3>1, <4>1 DEF Form, ThisNode
        <5> QED
          BY <3>1, <4>1, <5>1 DEF Intact, Alongside
      <4> QED
        BY <3>3, <4>1, <4>2, <4>3, HoldsNext DEF ThisNode, Current
    <3> QED
      BY <2>0, <3>1, <3>3, <3>4, BodyInvNext DEF FileInv, Reading, Alongside
  <2> QED
    BY <1>8, <2>1, <2>2 DEF ReplaceHeredocFileFails
<1> QED
  BY <1>5, <1>6, <1>7, <1>8

\* Every step of the child keeps FileInv.
LEMMA ChildStepFiles ==
  ASSUME FileInv, ChildInv, ChildStep \/ OpenTmpFileFails \/ Silent \/ Kill
  PROVE  FileInv'
<1>1. pc = "wait"
  BY DEF ChildInv, Busy, Reading, ChildStep, Silent, OpenTmpFile, OpenTmpFileFails,
         SetupHeredocSignals, ResetReceivedSignal, HeredocLoopTop, ReadlineClosed,
         CheckHeredocLine, WriteLine, WriteLineFails, ExpandToFinal, ExpandToFinalCut,
         ExpandFails, ReplaceHeredocFile, ReplaceHeredocFileFails, CopyExpandedFile,
         CopyExpandedFileCut, Kill
<1> QED
  BY <1>1, ReadingFiles, WriteFiles, ExpandFiles, ReplaceFiles DEF ChildStep, Silent

\* What the user types is counted, and pending until it is written.
LEMMA UserTypesFiles ==
  ASSUME FileInv, ChildInv, NEW what \in {"body", "delimiter", "eof"}, UserTypes(what)
  PROVE  FileInv'
<1> USE DEF FileInv, NotShell
<1>1. /\ UNCHANGED <<shell, fs, failures, faults>> /\ UNCHANGED <<pc, input, cmd, idx>>
      /\ pc = "wait" /\ child = "readline" /\ child' = "check" /\ typed' = what
      /\ ThisNode \in DOMAIN count /\ Typed \in 0 .. MaxBody
      /\ what = "body" => Typed < MaxBody
      /\ count' = [count EXCEPT ![ThisNode] = IF what = "body" THEN @ + 1 ELSE @]
      /\ ThisNode' = ThisNode /\ Current' = Current /\ Failed' = Failed
  BY NodesHere
     DEF UserTypes, ChildInv, CursorInv, Typed, shell, ThisNode, Current, TmpName, Failed
<1>2. /\ DOMAIN count' = DOMAIN count
      /\ \A n \in DOMAIN count \ {ThisNode} : count'[n] = count[n]
      /\ Typed' = IF what = "body" THEN Typed + 1 ELSE Typed
  BY <1>1 DEF Typed
<1>3. \A c, i : (Before(c, i)' <=> Before(c, i)) /\ (At(c, i)' <=> At(c, i))
  BY <1>1 DEF Before, At
<1>4. CursorInv'
  <2>1. \A c \in DOMAIN input : \A i \in 1 .. Len(input[c]) :
          /\ count'[<<c, i>>] \in 0 .. MaxBody
          /\ ~Before(c, i) /\ ~At(c, i) => count'[<<c, i>>] = 0
    <3> SUFFICES ASSUME NEW c \in DOMAIN input, NEW i \in 1 .. Len(input[c])
                 PROVE  /\ count'[<<c, i>>] \in 0 .. MaxBody
                        /\ ~Before(c, i) /\ ~At(c, i) => count'[<<c, i>>] = 0
      OBVIOUS
    <3>1. CASE <<c, i>> = ThisNode
      BY <1>1, <1>2, <3>1, BoundsAssumption DEF At, Typed, ThisNode
    <3>2. CASE <<c, i>> # ThisNode
      <4>1. count'[<<c, i>>] = count[<<c, i>>]
        BY <1>2, <3>2, NodesHere DEF CursorInv
      <4> QED
        BY <1>1, <4>1 DEF CursorInv
    <3> QED
      BY <3>1, <3>2
  <2> QED
    BY <1>1, <1>2, <1>3, <2>1 DEF CursorInv
<1>5. DoneInv'
  BY <1>1, <1>2, OthersKept DEF CursorInv
<1>6. BodyInv'
  <2>1. Kept(Current, Typed, "typed", {}) /\ Failed \subseteq {"write"}
    BY <1>1 DEF BodyInv, Pending, Reading
  <2>2. KeptNext(Current', Typed, "typed", {})
    BY <1>1, <2>1 DEF Kept, KeptNext
  <2>3. CASE what = "body"
    <3>1. Typed' > 0 /\ Typed' - 1 = Typed
      BY <1>1, <1>2, <2>3
    <3> QED
      BY <1>1, <2>1, <2>2, <2>3, <3>1, BodyInvNext DEF Reading
  <2>4. CASE what # "body"
    BY <1>1, <1>2, <2>1, <2>2, <2>4, BodyInvNext DEF Reading
  <2> QED
    BY <2>3, <2>4
<1> QED
  BY <1>4, <1>5, <1>6

\* A step that leaves the files and the child where they are keeps FileInv.
LEMMA FilesKept ==
  ASSUME FileInv, UNCHANGED <<shell, child, typed, fs, failures, hist>>
  PROVE  FileInv'
<1>1. UNCHANGED <<pc, input, cmd, idx, count, faults>>
  BY DEF shell, hist
<1>2. /\ \A c, i : /\ Before(c, i)' <=> Before(c, i)
                   /\ Shadowed(c, i)' <=> Shadowed(c, i)
                   /\ Holds(c, i)' <=> Holds(c, i)
      /\ Typed' = Typed /\ Failed' = Failed /\ Current' = Current /\ ThisNode' = ThisNode
      /\ Final(Current)' = Final(Current)
      /\ Holds(cmd, idx)' <=> Holds(cmd, idx)
  BY <1>1 DEF Before, At, Shadowed, Holds, Form, Intact, TmpName, Typed, Failed, Current,
              ThisNode, Final
<1>3. CursorInv' /\ DoneInv'
  BY <1>1, <1>2, CursorKept DEF FileInv, DoneInv, CursorInv
<1>4. BodyInv'
  <2>1. CASE pc = "wait"
    <3>1. \A x, k, form, spared : Kept(x, k, form, spared) => KeptNext(x, k, form, spared)
      BY <1>1, <1>2 DEF Kept, KeptNext
    <3> QED
      BY <1>1, <1>2, <2>1, <3>1, BodyInvNext DEF FileInv, BodyInv, Pending
  <2>2. CASE pc # "wait"
    BY <1>1, <2>2 DEF BodyInv
  <2> QED
    BY <2>1, <2>2
<1> QED
  BY <1>3, <1>4 DEF FileInv

\* Before the first line there is nothing to hold.
LEMMA InitBodies == Init => IInv /\ FileInv
<1> SUFFICES ASSUME Init PROVE IInv /\ FileInv
  OBVIOUS
<1>1. IInv
  BY DEF Init, IInv, ChildInv, Aborting, Reading
<1>2. NodesOf(<<>>) = {} /\ DOMAIN <<>> = {}
  BY DEF NodesOf
<1>3. /\ DOMAIN count = NodesOf(input) /\ DOMAIN faults = NodesOf(input)
      /\ DOMAIN input = {} /\ input = <<>> /\ pc = "prompt"
  BY <1>2 DEF Init
<1>4. CursorInv
  BY <1>3 DEF Init, CursorInv
<1> QED
  BY <1>1, <1>3, <1>4 DEF FileInv, DoneInv, BodyInv

\* FileInv is inductive, given where the child can stand.
LEMMA StepFile == IInv /\ FileInv /\ [Next]_vars => FileInv'
<1> SUFFICES ASSUME FileInv, ChildInv, [Next]_vars PROVE FileInv'
  BY DEF IInv
<1>1. CASE CtrlC \/ UNCHANGED vars
  BY <1>1, FilesKept DEF CtrlC, vars, proc
<1> QED
  BY <1>1, NewLineFiles, ShellStepFiles, ChildStepFiles, UserTypesFiles DEF Next, Failure

\* Once all is read, the last node of a name has its body in the file.
LEMMA LastHolds ==
  ASSUME FileInv, pc = "run", NEW c \in DOMAIN input, NEW i \in 1 .. Len(input[c]),
         \A d \in DOMAIN input :
           i <= Len(input[d]) /\ input[d][i] = input[c][i] => d <= c
  PROVE  Holds(c, i)
<1>1. input \in Seq(Seq(Node)) /\ cmd \in Nat /\ cmd > Len(input)
  BY InputIsLine DEF FileInv, CursorInv
<1>2. Before(c, i)
  BY <1>1 DEF Before
<1>3. ~Shadowed(c, i)
  BY <1>1 DEF Shadowed
<1> QED
  BY <1>2, <1>3 DEF FileInv, DoneInv

\* When the commands of a line run, the file of each node holds what was typed
\* into the last node of that name: every line, expanded as its delimiter says,
\* when no call of that node's child failed; when one did, a part of that body
\* and of nothing else, in the form the failed call leaves (process_heredocs,
\* heredoc_loop, expand_heredoc_content, replace_heredoc_file,
\* copy_expanded_file).
THEOREM BodiesReachCommands == Spec => []BodyReachesCommand
<1>1. FileInv => BodyReachesCommand
  <2> SUFFICES ASSUME FileInv, pc = "run", NEW n \in NodesOf(input)
               PROVE  LET name == TmpName(n[1], n[2])
                          same == {m \in NodesOf(input) : TmpName(m[1], m[2]) = name}
                          l == CHOOSE m \in same : \A o \in same : o[1] <= m[1]
                      IN /\ name \in DOMAIN fs
                         /\ Part(fs[name], l, count[l], Form(l))
                         /\ Intact(l) => fs[name] = Whole(l, count[l], Form(l))
                         /\ "read" \in faults[l] => fs[name] = <<>>
    BY DEF BodyReachesCommand
  <2> DEFINE name == TmpName(n[1], n[2])
             same == {m \in NodesOf(input) : TmpName(m[1], m[2]) = name}
             l == CHOOSE m \in same : \A o \in same : o[1] <= m[1]
  <2>1. l \in same /\ \A o \in same : o[1] <= l[1]
    <3>1. input \in Seq(Seq(Node)) /\ n \in same
      BY InputIsLine DEF FileInv
    <3>2. \E m \in same : \A o \in same : o[1] <= m[1]
      BY <3>1, LastNode
    <3> QED
      BY <3>2
  <2> HIDE DEF l
  <2>2. PICK c \in DOMAIN input : \E i \in 1 .. Len(input[c]) :
          l = <<c, i>> /\ TmpName(c, i) = name
    <3>1. l \in NodesOf(input) /\ TmpName(l[1], l[2]) = name
      BY <2>1
    <3>2. l = <<l[1], l[2]>>
      BY <3>1, NodesHere
    <3>3. l[1] \in DOMAIN input /\ l[2] \in 1 .. Len(input[l[1]])
      BY <3>1, <3>2, NodesHere
    <3> QED
      BY <3>1, <3>2, <3>3
  <2>3. PICK i \in 1 .. Len(input[c]) : l = <<c, i>> /\ TmpName(c, i) = name
    BY <2>2
  <2>4. \A d \in DOMAIN input :
          i <= Len(input[d]) /\ input[d][i] = input[c][i] => d <= c
    <3> SUFFICES ASSUME NEW d \in DOMAIN input, i <= Len(input[d]),
                        input[d][i] = input[c][i]
                 PROVE  d <= c
      OBVIOUS
    <3>1. input \in Seq(Seq(Node))
      BY InputIsLine DEF FileInv
    <3>2. <<d, i>> \in NodesOf(input)
      BY <3>1, NodesHere
    <3>3. <<d, i>> \in same
      BY <2>3, <3>2 DEF TmpName
    <3> QED
      BY <2>1, <2>3, <3>3
  <2>5. Holds(c, i)
    BY <2>4, LastHolds
  <2>6. /\ name \in DOMAIN fs
        /\ Part(fs[name], l, count[l], Form(l))
        /\ Intact(l) => fs[name] = Whole(l, count[l], Form(l))
        /\ "read" \in faults[l] => fs[name] = <<>>
    BY <2>3, <2>5 DEF Holds, SubBody
  <2> QED
    BY <2>6 DEF l
<1> QED
  BY InitBodies, StepIInv, StepFile, <1>1, PTL DEF Spec

-----------------------------------------------------------------------------
(* The types, and the files a line leaves.                                 *)

\* Which files there are while nothing has failed: those from before the line,
\* those of the nodes read so far, and the child's.
FinalThere == pc = "wait" /\ child \in {"replace", "copy"}
DirInv ==
  failures = 0 =>
    /\ \A x \in DOMAIN fs : Len(x) = 2 \/ (FinalThere /\ x = Final(Current))
    /\ \A x \in stale : Len(x) = 2
    /\ pc \in {"next", "run"} => DOMAIN fs = stale \union Done
    /\ pc = "wait" =>
         /\ child # "killed"
         /\ child = "forked" => DOMAIN fs = stale \union Done
         /\ child \in {"opened", "armed", "exit0"} \union Reading \union {"expand"} =>
              DOMAIN fs = stale \union Done \union {Current}
         /\ FinalThere => DOMAIN fs = stale \union Done \union {Current, Final(Current)}
         /\ child = "exit130" => DOMAIN fs = (stale \union Done) \ {Current}

\* What has been read, as the loop goes on.
LEMMA DoneGrows ==
  ASSUME CursorInv, UNCHANGED input
  PROVE  /\ cmd' = cmd /\ idx' = idx + 1 /\ pc = "wait" => Done' = Done \union {Current}
         /\ cmd' = cmd + 1 /\ idx' = 1 /\ cmd <= Len(input) /\ idx > Len(input[cmd]) =>
              Done' = Done
         /\ UNCHANGED <<cmd, idx>> => Done' = Done
<1>0. /\ input \in Seq(Seq(Node)) /\ cmd \in Nat \ {0} /\ idx \in Nat \ {0}
      /\ \A c \in DOMAIN input : Len(input[c]) \in Nat
  BY InputIsLine DEF CursorInv
<1>1. ASSUME cmd' = cmd, idx' = idx + 1, pc = "wait"
      PROVE  Done' = Done \union {Current}
  <2>1. <<cmd, idx>> \in NodesOf(input) /\ <<cmd, idx>>[1] = cmd /\ <<cmd, idx>>[2] = idx
    BY <1>1, NodesHere DEF CursorInv
  <2>2. \A m \in NodesOf(input) :
          (m[1] < cmd' \/ (m[1] = cmd' /\ m[2] < idx'))
          <=> (m[1] < cmd \/ (m[1] = cmd /\ m[2] < idx)) \/ m = <<cmd, idx>>
    BY <1>0, <1>1, NodesHere
  <2>3. \A c, i : TmpName(c, i)' = TmpName(c, i)
    BY DEF TmpName
  <2> QED
    BY <2>1, <2>2, <2>3 DEF Done, Current
<1>2. ASSUME cmd' = cmd + 1, idx' = 1, cmd <= Len(input), idx > Len(input[cmd])
      PROVE  Done' = Done
  <2>1. \A m \in NodesOf(input) :
          (m[1] < cmd' \/ (m[1] = cmd' /\ m[2] < idx'))
          <=> (m[1] < cmd \/ (m[1] = cmd /\ m[2] < idx))
    BY <1>0, <1>2, NodesHere
  <2>2. \A c, i : TmpName(c, i)' = TmpName(c, i)
    BY DEF TmpName
  <2> QED
    BY <2>1, <2>2 DEF Done
<1>3. UNCHANGED <<cmd, idx>> => Done' = Done
  BY DEF Done, TmpName
<1> QED
  BY <1>1, <1>2, <1>3

\* The ".final" names are the longer ones.
LEMMA NamesLength ==
  ASSUME NEW c, NEW i
  PROVE  Len(TmpName(c, i)) = 2 /\ Len(Final(TmpName(c, i))) = 3
BY DEF TmpName, Final

\* No ".final" file is among those of the nodes read.
LEMMA DoneLength == \A x \in Done : Len(x) = 2
BY NamesLength DEF Done

\* DirInv is inductive, given the two other invariants.
LEMMA StepDir ==
  ASSUME IInv, FileInv, DirInv, [Next]_vars
  PROVE  DirInv'
<1> SUFFICES ASSUME failures' = 0 PROVE DirInv'
  BY DEF DirInv
<1> USE DEF FileInv
<1>0. ~Fail /\ failures = 0
  <2>1. failures \in Nat /\ (failures' = failures \/ failures' = failures + 1)
    BY DEF CursorInv, Next, ShellStep, ChildStep, Failure, vars, NewLine, HeredocMax,
           ForkHeredoc, ForkHeredocFails, NextCommand, ParentWaitHeredoc, StartCommands,
           CleanupHeredocs, OpenTmpFile, OpenTmpFileFails, SetupHeredocSignals,
           ResetReceivedSignal, HeredocLoopTop, ReadlineClosed, CheckHeredocLine,
           WriteLine, ExpandToFinal, ReplaceHeredocFile, CopyExpandedFile, Silent,
           WriteLineFails, ExpandToFinalCut, ExpandFails, ReplaceHeredocFileFails,
           CopyExpandedFileCut, FailIn, CtrlC, Kill, UserTypes, Fail
  <2> QED
    BY <2>1 DEF Fail
<1>a. /\ \A x \in DOMAIN fs : Len(x) = 2 \/ (FinalThere /\ x = Final(Current))
      /\ \A x \in stale : Len(x) = 2
      /\ pc # "wait" => ~FinalThere
      /\ Len(Current) = 2 /\ Len(Final(Current)) = 3 /\ \A x \in Done : Len(x) = 2
  BY <1>0, NamesLength, DoneLength DEF DirInv, FinalThere, Current
<1>1. CASE NewLine
  <2>1. Done' = {}
    <3>1. input' \in Seq(Seq(Node)) /\ cmd' = 1 /\ idx' = 1
      BY <1>1, LinesAssumption DEF NewLine
    <3>2. \A m \in NodesOf(input') : ~(m[1] < cmd' \/ (m[1] = cmd' /\ m[2] < idx'))
      BY <3>1, NodesHere
    <3> QED
      BY <3>2 DEF Done
  <2>2. pc' = "next" /\ stale' = DOMAIN fs /\ fs' = fs /\ pc = "prompt"
    BY <1>1 DEF NewLine
  <2> QED
    BY <1>a, <2>1, <2>2 DEF DirInv, FinalThere
<1>2. CASE HeredocMax
  BY <1>2, <1>a DEF HeredocMax, AtNode, DirInv, FinalThere
<1>3. CASE ForkHeredoc
  <2>1. UNCHANGED <<input, cmd, idx, fs, stale>> /\ pc = "next" /\ pc' = "wait"
        /\ child' = "forked"
    BY <1>3 DEF ForkHeredoc, AtNode
  <2>2. Done' = Done
    BY <2>1, DoneGrows
  <2> QED
    BY <1>0, <1>a, <2>1, <2>2 DEF DirInv, FinalThere, Reading
<1>4. CASE NextCommand
  <2>1. UNCHANGED <<input, fs, stale>> /\ pc = "next" /\ pc' = "next" /\ Done' = Done
    BY <1>4, DoneGrows DEF NextCommand
  <2> QED
    BY <1>0, <1>a, <2>1 DEF DirInv, FinalThere
<1>5. CASE ParentWaitHeredoc
  <2>1. UNCHANGED <<input, cmd, fs, stale>> /\ pc = "wait" /\ child \in Ended
    BY <1>5 DEF ParentWaitHeredoc
  <2>2. CASE child = "exit0"
    <3>1. pc' = "next" /\ Done' = Done \union {Current}
      BY <1>5, <2>1, <2>2, DoneGrows DEF ParentWaitHeredoc
    <3> QED
      BY <1>0, <1>a, <2>1, <2>2, <3>1 DEF DirInv, FinalThere
  <2>3. CASE child # "exit0"
    BY <1>5, <1>a, <2>1, <2>3 DEF ParentWaitHeredoc, DirInv, FinalThere, Ended
  <2> QED
    BY <2>2, <2>3
<1>6. CASE StartCommands
  <2>1. UNCHANGED <<input, cmd, idx, fs, stale>> /\ pc = "next" /\ pc' = "run" /\ Done' = Done
    BY <1>6, DoneGrows DEF StartCommands
  <2> QED
    BY <1>0, <1>a, <2>1 DEF DirInv, FinalThere
<1>7. CASE CleanupHeredocs
  <2>1. pc = "run" /\ pc' = "prompt" /\ stale' = stale /\ fs' = Unlink(fs, Names(input))
    BY <1>7 DEF CleanupHeredocs
  <2>2. \A x \in DOMAIN fs' : x \in DOMAIN fs
    BY <2>1 DEF Unlink
  <2> QED
    BY <1>a, <2>1, <2>2 DEF DirInv, FinalThere
<1>8. ASSUME UNCHANGED <<pc, input, cmd, idx, stale>>, pc = "wait",
             \/ UNCHANGED <<fs, child>>
             \/ UNCHANGED fs /\ child \in {"opened"} \union Reading \union {"armed"}
                /\ child' \in {"armed", "exit0"} \union Reading \union {"expand"}
             \/ child = "forked" /\ child' = "opened" /\ DOMAIN fs' = DOMAIN fs \union {Current}
             \/ child \in Reading /\ child' = "exit130" /\ DOMAIN fs' = DOMAIN fs \ {Current}
             \/ child \in Reading /\ child' \in Reading /\ DOMAIN fs' = DOMAIN fs
             \/ /\ child = "expand" /\ child' = "replace"
                /\ DOMAIN fs' = DOMAIN fs \union {Final(Current)}
             \/ child = "replace" /\ child' = "copy" /\ DOMAIN fs' = DOMAIN fs
             \/ child = "copy" /\ child' = "exit0" /\ DOMAIN fs' = DOMAIN fs \ {Final(Current)}
      PROVE  DirInv'
  <2>1. Done' = Done /\ Current' = Current /\ Final(Current)' = Final(Current)
    BY <1>8, DoneGrows DEF Current, TmpName, Final
  <2>2. Final(Current) \notin stale \union Done \union {Current}
    BY <1>a
  <2> QED
    BY <1>0, <1>8, <1>a, <2>1, <2>2 DEF DirInv, FinalThere, Reading
<1>9. CASE ChildStep \/ \E what \in {"body", "delimiter", "eof"} : UserTypes(what)
  <2> USE DEF NotShell, Goto, shell
  <2>0. pc = "wait" /\ UNCHANGED <<pc, input, cmd, idx, stale>>
    BY <1>9 DEF IInv, ChildInv, UserTypes, ChildStep, OpenTmpFile, SetupHeredocSignals,
                ResetReceivedSignal, HeredocLoopTop, ReadlineClosed, CheckHeredocLine,
                WriteLine, ExpandToFinal, ReplaceHeredocFile, CopyExpandedFile
  <2>1. CASE OpenTmpFile
    BY <2>0, <2>1, <1>8 DEF OpenTmpFile, CreateFile
  <2>2. CASE SetupHeredocSignals \/ ResetReceivedSignal \/ ReadlineClosed
             \/ \E what \in {"body", "delimiter", "eof"} : UserTypes(what)
    BY <2>0, <2>2, <1>8
       DEF SetupHeredocSignals, ResetReceivedSignal, ReadlineClosed, UserTypes, Reading
  <2>3. CASE HeredocLoopTop \/ CheckHeredocLine
    <3>1. CASE Interrupted
      <4>1. child' = "exit130" /\ DOMAIN fs' = DOMAIN fs \ {Current}
        BY <3>1 DEF Interrupted, Unlink
      <4> QED
        BY <2>0, <2>3, <4>1, <1>8 DEF HeredocLoopTop, CheckHeredocLine, Reading
    <3>2. CASE ~Interrupted
      BY <2>0, <2>3, <3>2, <1>8 DEF HeredocLoopTop, CheckHeredocLine, AfterBody, Reading
    <3> QED
      BY <3>1, <3>2
  <2>4. CASE WriteLine
    BY <2>0, <2>4, <1>8 DEF WriteLine, Reading
  <2>5. CASE ExpandToFinal
    BY <2>0, <2>5, <1>8 DEF ExpandToFinal, CreateFile
  <2>6. CASE ReplaceHeredocFile
    BY <2>0, <2>6, <1>8 DEF ReplaceHeredocFile
  <2>7. CASE CopyExpandedFile
    <3>1. DOMAIN fs' = DOMAIN fs \ {Final(Current)}
      BY <2>7 DEF CopyExpandedFile, Unlink
    <3> QED
      BY <2>0, <2>7, <3>1, <1>8 DEF CopyExpandedFile
  <2> QED
    BY <1>9, <2>1, <2>2, <2>3, <2>4, <2>5, <2>6, <2>7 DEF ChildStep
<1>10. CASE CtrlC \/ UNCHANGED vars
  <2>1. UNCHANGED <<pc, input, cmd, idx, stale, fs, child>>
    BY <1>10 DEF CtrlC, vars, shell, proc
  <2>2. Done' = Done /\ Current' = Current /\ Final(Current)' = Final(Current)
    BY <2>1, DoneGrows DEF Current, TmpName, Final
  <2> QED
    BY <1>0, <2>1, <2>2 DEF DirInv, FinalThere
<1> QED
  BY <1>0, <1>1, <1>2, <1>3, <1>4, <1>5, <1>6, <1>7, <1>9, <1>10
     DEF Next, ShellStep, Failure, ForkHeredocFails, OpenTmpFileFails, Silent,
         WriteLineFails, ExpandToFinalCut, ExpandFails, ReplaceHeredocFileFails,
         CopyExpandedFileCut, FailIn, Kill

\* A line whose commands ran leaves no file of its own; one that was given up
\* leaves those of the nodes it had read (executor's early returns), as long as
\* no system call fails.
THEOREM LeftByLines == Spec => FilesLeftBehind
<1>1. Init => DirInv
  BY NamesLength DEF Init, DirInv, FinalThere
<1>2. IInv /\ FileInv /\ DirInv /\ [Next]_vars => [LeftoverFiles]_vars
  <2> SUFFICES ASSUME IInv, FileInv, DirInv, Next PROVE LeftoverFiles
    OBVIOUS
  <2>1. ASSUME pc' = "prompt", pc = "run", failures = 0
        PROVE  DOMAIN fs' = stale \ Names(input)
    <3>1. fs' = Unlink(fs, Names(input))
      BY <2>1 DEF IInv, ChildInv, Next, ShellStep, ChildStep, Failure, NewLine, HeredocMax,
           ForkHeredoc, ForkHeredocFails, NextCommand, ParentWaitHeredoc, StartCommands,
           CleanupHeredocs, OpenTmpFile, OpenTmpFileFails, SetupHeredocSignals,
           ResetReceivedSignal, HeredocLoopTop, ReadlineClosed, CheckHeredocLine,
           WriteLine, ExpandToFinal, ReplaceHeredocFile, CopyExpandedFile, Silent,
           WriteLineFails, ExpandToFinalCut, ExpandFails, ReplaceHeredocFileFails,
           CopyExpandedFileCut, FailIn, CtrlC, Kill, UserTypes, NotShell, shell, AtNode
    <3>2. Done \subseteq Names(input)
      BY DEF Done, Names, TmpName
    <3>3. DOMAIN fs = stale \union Done
      BY <2>1 DEF DirInv
    <3> QED
      BY <3>1, <3>2, <3>3 DEF Unlink
  <2>2. ASSUME pc' \in {"prompt", "exited"}, pc \in {"next", "wait"}, failures' = 0
        PROVE  DOMAIN fs' = (stale \union Done) \ (IF pc = "wait" THEN {Current} ELSE {})
    <3>1. HeredocMax \/ ForkHeredocFails \/ (ParentWaitHeredoc /\ child # "exit0")
      BY <2>2 DEF IInv, ChildInv, Next, ShellStep, ChildStep, Failure, NewLine,
           ForkHeredoc, NextCommand, ParentWaitHeredoc, StartCommands,
           CleanupHeredocs, OpenTmpFile, OpenTmpFileFails, SetupHeredocSignals,
           ResetReceivedSignal, HeredocLoopTop, ReadlineClosed, CheckHeredocLine,
           WriteLine, ExpandToFinal, ReplaceHeredocFile, CopyExpandedFile, Silent,
           WriteLineFails, ExpandToFinalCut, ExpandFails, ReplaceHeredocFileFails,
           CopyExpandedFileCut, FailIn, CtrlC, Kill, UserTypes, NotShell, shell, AtNode
    <3>2. CASE HeredocMax
      BY <2>2, <3>2 DEF HeredocMax, AtNode, DirInv
    <3>3. CASE ForkHeredocFails
      BY <2>2, <3>3 DEF ForkHeredocFails, Fail, FileInv, CursorInv
    <3>4. CASE ParentWaitHeredoc /\ child # "exit0"
      BY <2>2, <3>4 DEF ParentWaitHeredoc, DirInv, Ended
    <3> QED
      BY <3>1, <3>2, <3>3, <3>4
  <2> QED
    BY <2>1, <2>2 DEF LeftoverFiles
<1>3. IInv /\ FileInv /\ [Next]_vars => FileInv'
  BY StepFile
<1> QED
  BY InitBodies, <1>1, <1>2, <1>3, StepDir, StepIInv, PTL DEF Spec, FilesLeftBehind

Types ==
  /\ status \in {0, 1, 2, 130, 137} /\ sigint \in {"ignore", "prompt"}
  /\ child \in {"none"} \union Busy \union Ended
  /\ childSig \in {"ignore", "prompt", "heredoc"}
  /\ typed \in {"nothing", "body", "delimiter", "eof"}
  /\ signals \in 0 .. MaxSignals /\ failures \in 0 .. MaxFailures
  /\ lines \in 0 .. MaxLines
StdinType == stdin \in BOOLEAN
Short == \A name \in DOMAIN fs : Len(fs[name]) <= MaxBody

\* Every step keeps the types.
LEMMA StepTypes == Types /\ [Next]_vars => Types'
<1> SUFFICES ASSUME Types, [Next]_vars PROVE Types'
  OBVIOUS
<1> USE BoundsAssumption DEF Types, Busy, Reading, Ended, shell, proc, NotShell, Goto
<1>1. CASE NewLine
  BY <1>1 DEF NewLine
<1>2. CASE ShellStep
  BY <1>2 DEF ShellStep, HeredocMax, ForkHeredoc, NextCommand, ParentWaitHeredoc,
              StartCommands, CleanupHeredocs, Code
<1>3. CASE Failure
  BY <1>3 DEF Failure, ForkHeredocFails, OpenTmpFileFails, Silent, WriteLineFails,
              ExpandToFinalCut, ExpandFails, ReplaceHeredocFileFails, CopyExpandedFileCut,
              FailIn, Kill, Fail
<1>4. CASE ChildStep
  <2>1. CASE HeredocLoopTop \/ CheckHeredocLine
    <3>1. AfterBody \in {"exit0", "expand"}
      BY DEF AfterBody
    <3> QED
      BY <2>1, <3>1 DEF HeredocLoopTop, CheckHeredocLine, Interrupted
  <2>2. CASE ~(HeredocLoopTop \/ CheckHeredocLine)
    <3>1. UNCHANGED <<status, sigint, signals, failures, lines>>
      BY <1>4 DEF ChildStep, OpenTmpFile, SetupHeredocSignals, ResetReceivedSignal,
                  HeredocLoopTop, ReadlineClosed, CheckHeredocLine, WriteLine,
                  ExpandToFinal, ReplaceHeredocFile, CopyExpandedFile
    <3>2. child' \in {"opened", "armed", "top", "check", "replace", "copy", "exit0"}
      BY <1>4, <2>2
         DEF ChildStep, OpenTmpFile, SetupHeredocSignals, ResetReceivedSignal,
             ReadlineClosed, WriteLine, ExpandToFinal, ReplaceHeredocFile, CopyExpandedFile
    <3>3. childSig' \in {childSig, "heredoc"} /\ typed' \in {typed, "eof"}
      BY <1>4, <2>2
         DEF ChildStep, OpenTmpFile, SetupHeredocSignals, ResetReceivedSignal,
             ReadlineClosed, WriteLine, ExpandToFinal, ReplaceHeredocFile, CopyExpandedFile
    <3> QED
      BY <3>1, <3>2, <3>3
  <2> QED
    BY <2>1, <2>2
<1>5. CASE CtrlC
  BY <1>5 DEF CtrlC
<1>6. CASE \E what \in {"body", "delimiter", "eof"} : UserTypes(what)
  BY <1>6 DEF UserTypes
<1>7. CASE UNCHANGED vars
  BY <1>7 DEF vars
<1> QED
  BY <1>1, <1>2, <1>3, <1>4, <1>5, <1>6, <1>7 DEF Next

\* Descriptor 0 is open or not.
LEMMA StepStdin == StdinType /\ [Next]_vars => StdinType'
<1> SUFFICES ASSUME stdin \in BOOLEAN, [Next]_vars PROVE stdin' \in BOOLEAN
  BY DEF StdinType
<1>1. \/ stdin' = stdin \/ stdin' = TRUE
      \/ stdin' = (stdin /\ ~(child \in Busy /\ childSig = "heredoc"))
  BY DEF Next, ShellStep, ChildStep, Failure, NewLine, HeredocMax, ForkHeredoc,
         ForkHeredocFails, NextCommand, ParentWaitHeredoc, StartCommands, CleanupHeredocs,
         OpenTmpFile, OpenTmpFileFails, SetupHeredocSignals, ResetReceivedSignal,
         HeredocLoopTop, ReadlineClosed, CheckHeredocLine, Interrupted, WriteLine,
         ExpandToFinal, ReplaceHeredocFile, CopyExpandedFile, Silent, WriteLineFails,
         ExpandToFinalCut, ExpandFails, ReplaceHeredocFileFails, CopyExpandedFileCut, CtrlC,
         SigHandlerHeredoc, Kill, UserTypes, vars, proc, Goto
<1> QED
  BY <1>1

\* What the child writes is no longer than what was typed.
LEMMA StepShort ==
  ASSUME IInv, FileInv, Short, [Next]_vars
  PROVE  Short'
<1> USE DEF NotShell, Goto
<1>0. MaxBody \in Nat /\ \A k \in 0 .. MaxBody : k <= MaxBody
  BY BoundsAssumption
<1>1. CASE UNCHANGED fs
  BY <1>1 DEF Short
<1>2. CASE CleanupHeredocs \/ Interrupted
  BY <1>2 DEF CleanupHeredocs, Interrupted, Unlink, Short
<1>3. CASE OpenTmpFile \/ ExpandFails
  BY <1>0, <1>3 DEF OpenTmpFile, ExpandFails, CreateFile, Short
<1>4. ASSUME pc = "wait"
      PROVE  Typed \in 0 .. MaxBody /\ count[ThisNode] = Typed
  BY <1>4, NodesHere DEF FileInv, CursorInv, Typed, ThisNode
<1>5. ASSUME NEW s, NEW k \in 0 .. MaxBody, NEW form, SubBody(s, ThisNode, k, form)
      PROVE  Len(s) \in Nat /\ Len(s) <= MaxBody
  BY <1>0, <1>5, SubBodyIs
<1>6. CASE WriteLine \/ WriteLineFails
  <2>1. pc = "wait" /\ child = "write"
    BY <1>6 DEF WriteLine, WriteLineFails, IInv, ChildInv
  <2>2. Typed > 0 /\ Current \in DOMAIN fs /\ SubBody(fs[Current], ThisNode, Typed - 1, "typed")
    BY <2>1 DEF FileInv, BodyInv, Pending, Kept
  <2>3. Typed \in Nat /\ Typed - 1 \in Nat /\ (Typed - 1) + 1 = Typed
    BY <1>4, <2>1, <2>2
  <2>4. \A f \in {"typed", "damaged"} :
          SubBody(Append(fs[Current], Written(ThisNode, Typed, f)), ThisNode, Typed, "typed")
    BY <2>2, <2>3, PartGrows
  <2>5. \A f \in {"typed", "damaged"} :
          Len(Append(fs[Current], Written(ThisNode, Typed, f))) <= MaxBody
    BY <1>4, <1>5, <2>1, <2>4
  <2> QED
    BY <1>4, <1>6, <2>1, <2>2, <2>5 DEF WriteLine, WriteLineFails, Short
<1>7. CASE ExpandToFinal \/ ExpandToFinalCut
  <2>1. pc = "wait" /\ child = "expand"
    BY <1>7 DEF ExpandToFinal, ExpandToFinalCut, IInv, ChildInv
  <2>2. Typed \in Nat /\ SubBody(fs[Current], ThisNode, Typed, "typed")
    BY <1>4, <2>1 DEF FileInv, BodyInv, Pending, Kept
  <2>3. PICK text \in Expansions(fs[Current]) :
          \/ fs' = CreateFile(fs, Final(Current), text)
          \/ \E left \in LeftOf(text) : fs' = CreateFile(fs, Final(Current), left)
    BY <1>7 DEF ExpandToFinal, ExpandToFinalCut
  <2>4. SubBody(text, ThisNode, Typed, "expanded")
    BY <2>2, PartExpands
  <2>5. \A left \in LeftOf(text) : SubBody(left, ThisNode, Typed, "expanded")
    BY <2>2, <2>4, PartLeft
  <2>6. PICK new : fs' = CreateFile(fs, Final(Current), new) /\ Len(new) <= MaxBody
    BY <1>4, <1>5, <2>1, <2>3, <2>4, <2>5
  <2> QED
    BY <2>6 DEF CreateFile, Short
<1>8. CASE ReplaceHeredocFile \/ ReplaceHeredocFileFails
  BY <1>0, <1>8 DEF ReplaceHeredocFile, ReplaceHeredocFileFails, Unlink, Short
<1>9. CASE CopyExpandedFile \/ CopyExpandedFileCut
  <2>1. pc = "wait" /\ child = "copy"
    BY <1>9 DEF CopyExpandedFile, CopyExpandedFileCut, IInv, ChildInv
  <2>2. /\ Typed \in Nat /\ Final(Current) \in DOMAIN fs
        /\ SubBody(fs[Final(Current)], ThisNode, Typed, "expanded")
    BY <1>4, <2>1 DEF FileInv, BodyInv, Kept
  <2>3. \A left \in LeftOf(fs[Final(Current)]) : Len(left) <= MaxBody
    BY <1>4, <1>5, <2>1, <2>2, PartLeft
  <2>4. Len(fs[Final(Current)]) <= MaxBody
    BY <2>2 DEF Short
  <2>5. PICK new : /\ fs' = Unlink([fs EXCEPT ![Current] = new], {Final(Current)})
                   /\ Len(new) <= MaxBody
    BY <1>9, <2>3, <2>4 DEF CopyExpandedFile, CopyExpandedFileCut
  <2> QED
    BY <2>5 DEF Unlink, Short
<1> QED
  BY <1>1, <1>2, <1>3, <1>6, <1>7, <1>8, <1>9
     DEF Next, ShellStep, ChildStep, Failure, Silent, NewLine, HeredocMax, ForkHeredoc,
         ForkHeredocFails, NextCommand, ParentWaitHeredoc, StartCommands, OpenTmpFileFails,
         SetupHeredocSignals, ResetReceivedSignal, HeredocLoopTop, ReadlineClosed,
         CheckHeredocLine, CtrlC, Kill, UserTypes, vars

\* The shell, the child, the counters and the files keep their types, and no
\* file is longer than what can be typed into one node.
THEOREM TypeCorrect == Spec => []TypeOK
<1>1. Init => Types /\ Short /\ StdinType
  <2> SUFFICES ASSUME Init PROVE Types /\ Short /\ StdinType
    OBVIOUS
  <2>1. Short
    BY DEF Init, Short
  <2> QED
    BY <2>1, BoundsAssumption DEF Init, Types, StdinType
<1>2. IInv /\ FileInv /\ Types /\ Short /\ StdinType => TypeOK
  <2>1. FileInv => \A n \in DOMAIN faults : faults[n] \subseteq Calls
    BY NodesHere DEF FileInv, CursorInv
  <2> QED
    BY <2>1 DEF IInv, FileInv, CursorInv, Types, Short, StdinType, TypeOK
<1> QED
  <2>1. IInv /\ FileInv /\ Short /\ [Next]_vars => Short'
    BY StepShort
  <2> QED
    BY InitBodies, StepIInv, StepFile, StepTypes, StepStdin, <1>1, <1>2, <2>1, PTL DEF Spec
=============================================================================
