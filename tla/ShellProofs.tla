----------------------------- MODULE ShellProofs -----------------------------
(***************************************************************************)
(* The main loop's properties for every set of statuses, from one          *)
(* inductive invariant: which objects are live at each point of the loop,  *)
(* that the handlers stay in place once they are, and that at the prompt   *)
(* g_received_signal says exactly whether Ctrl-C was pressed there.        *)
(***************************************************************************)
EXTENDS Shell, Stdio, Integers, FiniteSetTheorems, TLAPS

\* What is still null at each point, and what has been freed.
HeapInv ==
  /\ lost = {} /\ pc # "aborted"
  /\ pc # "exited" => \A p \in Pointers : heap[p] # "dangling"
  /\ pc = "exited" => \A p \in Pointers : heap[p] # "live"
  /\ pc = "start" => heap["env"] = "null"
  /\ pc \in {"start", "arm", "clear", "readline"} => heap["input"] = "null"
  /\ pc \in {"start", "arm", "clear", "readline", "check", "line", "ignore", "lexer"} =>
       heap["tokens"] = "null"
  /\ pc \in {"start", "arm", "clear", "readline", "check", "line", "ignore", "lexer",
             "parser"} => heap["commands"] = "null"

\* The handlers are in place.
Armed == sigint # "default" /\ sigquit # "default" /\ pc \notin {"start", "killed"}
SignalInv ==
  /\ pc \notin {"start", "arm", "killed"} => Armed
  /\ pc = "start" => sigint = "default" /\ sigquit = "default"

\* Ctrl-C at this prompt.
PromptInv ==
  /\ pc \in {"readline", "check"} => g = hit /\ status = before
  /\ pc = "line" => status = before \/ (hit /\ status = 130)

IInv == TypeOK /\ HeapInv /\ SignalInv /\ PromptInv

LEMMA InitIInv == Init => IInv
BY DEF Init, IInv, TypeOK, Status, HeapInv, SignalInv, Armed, PromptInv, Pointers

\* Types: the actions that touch the heap one by one, the others together.
LEMMA StepType == IInv /\ [Next]_vars => TypeOK'
<1> SUFFICES ASSUME TypeOK, HeapInv, [Next]_vars PROVE TypeOK'
  BY DEF IInv
<1> USE DEF TypeOK, signals, memory, Status
<1>1. ASSUME NEW p \in Pointers, Allocate(p)
      PROVE  heap' \in [Pointers -> {"null", "live", "dangling"}] /\ lost' \subseteq Pointers
  BY <1>1 DEF Allocate
<1>2. CASE InitShell
  BY <1>1, <1>2 DEF InitShell, Pointers
<1>3. CASE Readline
  <2>1. CASE Allocate("input")
    BY <1>1, <1>3, <2>1 DEF Readline, Pointers
  <2>2. CASE heap' = [heap EXCEPT !["input"] = "null"] /\ UNCHANGED lost
    BY <1>3, <2>2 DEF Readline, Pointers
  <2> QED
    BY <1>3, <2>1, <2>2 DEF Readline
<1>4. CASE Lexer
  <2>1. CASE Allocate("tokens")
    BY <1>1, <1>4, <2>1 DEF Lexer, Pointers
  <2>2. CASE heap' = [heap EXCEPT !["tokens"] = "null"] /\ UNCHANGED lost
    BY <1>4, <2>2 DEF Lexer, Pointers
  <2> QED
    BY <1>4, <2>1, <2>2 DEF Lexer
<1>5. CASE Parser
  <2>1. CASE Allocate("commands")
    BY <1>1, <1>5, <2>1 DEF Parser, Pointers
  <2>2. CASE heap' = [heap EXCEPT !["commands"] = "null"] /\ UNCHANGED lost
    BY <1>5, <2>2 DEF Parser, Pointers
  <2> QED
    BY <1>5, <2>1, <2>2 DEF Parser
<1>6. CASE ExitCommand \/ HeredocMax \/ BuiltinExit \/ ResetLoop \/ CleanupExit
  <2>1. heap' \in [Pointers -> {"null", "live", "dangling"}]
    BY <1>6 DEF ExitCommand, HeredocMax, BuiltinExit, ResetLoop, CleanupExit, Free
  <2> QED
    BY <1>6, <2>1 DEF ExitCommand, HeredocMax, BuiltinExit, ResetLoop, CleanupExit, Free
<1>7. CASE SetupPromptSignal
  BY <1>7 DEF SetupPromptSignal
<1>8. CASE Clear
  <2>1. g' \in BOOLEAN /\ hit' \in BOOLEAN /\ before' \in Status
    BY <1>8 DEF Clear
  <2> QED
    BY <1>8, <2>1 DEF Clear
<1>9. CASE CheckInterruptedSignal
  <2>1. g' \in BOOLEAN /\ status' \in Status
    BY <1>9 DEF CheckInterruptedSignal
  <2> QED
    BY <1>9, <2>1 DEF CheckInterruptedSignal
<1>10. CASE Line \/ IgnoreInterrupt
  BY <1>10 DEF Line, IgnoreInterrupt
<1>11. CASE Expander \/ ForkHeredoc \/ ParentWaitHeredoc \/ ExecLoop \/ WaitAllChildren
            \/ UpdateExitStatus \/ ExecBuiltinParent
  BY <1>11 DEF Expander, ForkHeredoc, ParentWaitHeredoc, ExecLoop, WaitAllChildren,
               UpdateExitStatus, ExecBuiltinParent
<1>12. CASE SigInt
  <2>1. CASE sigint = "prompt"
    BY <1>12, <2>1 DEF SigInt
  <2>2. CASE sigint = "default"
    BY <1>12, <2>2 DEF SigInt
  <2> QED
    BY <1>12, <2>1, <2>2 DEF SigInt
<1>13. CASE SigQuit
  BY <1>13 DEF SigQuit
<1>14. CASE UNCHANGED vars
  BY <1>14 DEF vars
<1> QED
  BY <1>2, <1>3, <1>4, <1>5, <1>6, <1>7, <1>8, <1>9, <1>10, <1>11, <1>12, <1>13, <1>14 DEF Next

\* No action allocates over a live object or frees one that is gone.
LEMMA StepHeap == IInv /\ [Next]_vars => HeapInv'
<1> SUFFICES ASSUME IInv, [Next]_vars PROVE HeapInv'
  OBVIOUS
<1>0. heap \in [Pointers -> {"null", "live", "dangling"}] /\ HeapInv
  BY DEF IInv, TypeOK
<1>1. CASE InitShell
  BY <1>0, <1>1 DEF InitShell, Allocate, HeapInv, Pointers
<1>2. CASE Readline
  BY <1>0, <1>2 DEF Readline, Allocate, HeapInv, Pointers
<1>3. CASE Lexer
  BY <1>0, <1>3 DEF Lexer, Allocate, HeapInv, Pointers
<1>4. CASE Parser
  BY <1>0, <1>4 DEF Parser, Allocate, HeapInv, Pointers
<1>5. CASE ExitCommand
  BY <1>0, <1>5 DEF ExitCommand, Free, HeapInv, Pointers
<1>6. CASE HeredocMax \/ BuiltinExit
  BY <1>0, <1>6 DEF HeredocMax, BuiltinExit, Free, HeapInv, Pointers
<1>7. CASE ResetLoop
  BY <1>0, <1>7 DEF ResetLoop, Free, HeapInv, Pointers
<1>8. CASE CleanupExit
  BY <1>0, <1>8 DEF CleanupExit, Free, HeapInv, Pointers
<1>9. CASE SetupPromptSignal \/ Clear \/ CheckInterruptedSignal \/ Line \/ IgnoreInterrupt
  BY <1>0, <1>9 DEF SetupPromptSignal, Clear, CheckInterruptedSignal, Line,
                    IgnoreInterrupt, HeapInv, memory
<1>10. CASE Expander \/ ForkHeredoc \/ ParentWaitHeredoc \/ ExecLoop \/ WaitAllChildren
            \/ UpdateExitStatus \/ ExecBuiltinParent
  BY <1>0, <1>10 DEF Expander, ForkHeredoc, ParentWaitHeredoc, ExecLoop, WaitAllChildren,
                     UpdateExitStatus, ExecBuiltinParent, HeapInv, memory
<1>11. CASE SigInt \/ SigQuit
  BY <1>0, <1>11 DEF SigInt, SigQuit, HeapInv, memory, Ended
<1>12. CASE UNCHANGED vars
  BY <1>0, <1>12 DEF vars, HeapInv
<1> QED
  BY <1>1, <1>2, <1>3, <1>4, <1>5, <1>6, <1>7, <1>8, <1>9, <1>10, <1>11, <1>12 DEF Next

LEMMA StepSignals == IInv /\ [Next]_vars => SignalInv' /\ PromptInv'
<1> SUFFICES ASSUME IInv, [Next]_vars PROVE SignalInv' /\ PromptInv'
  OBVIOUS
<1>0. TypeOK /\ HeapInv /\ SignalInv /\ PromptInv
  BY DEF IInv
<1> USE <1>0 DEF SignalInv, PromptInv, Armed, signals
<1>1. CASE InitShell
  BY <1>1 DEF InitShell
<1>10. CASE Readline
  BY <1>10 DEF Readline
<1>11. CASE Lexer \/ Parser
  BY <1>11 DEF Lexer, Parser
<1>2. CASE ExitCommand \/ HeredocMax \/ BuiltinExit \/ ResetLoop \/ CleanupExit
  BY <1>2 DEF ExitCommand, HeredocMax, BuiltinExit, ResetLoop, CleanupExit, Free
<1>3. CASE SetupPromptSignal
  BY <1>3 DEF SetupPromptSignal, TypeOK
<1>4. CASE Clear
  BY <1>4 DEF Clear
<1>5. CASE CheckInterruptedSignal
  BY <1>5 DEF CheckInterruptedSignal
<1>6. CASE Line \/ IgnoreInterrupt
  BY <1>6 DEF Line, IgnoreInterrupt
<1>7. CASE Expander \/ ForkHeredoc \/ ParentWaitHeredoc \/ ExecLoop \/ WaitAllChildren
           \/ UpdateExitStatus \/ ExecBuiltinParent
  BY <1>7 DEF Expander, ForkHeredoc, ParentWaitHeredoc, ExecLoop, WaitAllChildren,
              UpdateExitStatus, ExecBuiltinParent
<1>8. CASE SigInt
  BY <1>8 DEF SigInt, Ended
<1>12. CASE SigQuit
  BY <1>12 DEF SigQuit, Ended
<1>9. CASE UNCHANGED vars
  BY <1>9 DEF vars
<1> QED
  BY <1>1, <1>2, <1>3, <1>4, <1>5, <1>6, <1>7, <1>8, <1>9, <1>10, <1>11, <1>12 DEF Next

LEMMA Invariance == Spec => []IInv
<1>1. IInv /\ [Next]_vars => IInv'
  BY StepType, StepHeap, StepSignals DEF IInv
<1> QED
  BY InitIInv, <1>1, PTL DEF Spec

\* The handlers, pointers, flag and $? keep their types, whatever the lines and
\* the signals.
THEOREM TypeCorrect == Spec => []TypeOK
<1>1. IInv => TypeOK
  BY DEF IInv
<1> QED
  BY Invariance, <1>1, PTL

\* Every line's objects are freed exactly once, however the line ends.
THEOREM LinesFreeOnce == Spec => []FreedExactlyOnce
<1>1. IInv => FreedExactlyOnce
  BY DEF IInv, HeapInv, FreedExactlyOnce
<1> QED
  BY Invariance, <1>1, PTL

\* Only a Ctrl-C at this prompt changes $? between two lines.
THEOREM StatusKept == Spec => []PromptKeepsStatus
<1>1. IInv => PromptKeepsStatus
  BY DEF IInv, PromptInv, PromptKeepsStatus
<1> QED
  BY Invariance, <1>1, PTL

\* Ctrl-C at the prompt gives 130.
THEOREM InterruptSeen == Spec => InterruptGives130
<1>1. IInv /\ [Next]_vars =>
        [pc = "check" /\ pc' = "line" /\ hit /\ before # 131 => status' = 130]_vars
  <2> SUFFICES ASSUME IInv, Next, pc = "check", pc' = "line", hit, before # 131
               PROVE status' = 130
    BY DEF vars
  <2>1. g = hit /\ status = before
    BY DEF IInv, PromptInv
  <2>2. CheckInterruptedSignal
    BY DEF Next, InitShell, SetupPromptSignal, Clear, Readline, ExitCommand, Line,
           IgnoreInterrupt, Lexer, Parser, Expander, ForkHeredoc, HeredocMax,
           ParentWaitHeredoc, ExecLoop, WaitAllChildren, UpdateExitStatus,
           ExecBuiltinParent, BuiltinExit, ResetLoop, CleanupExit, SigInt, SigQuit
  <2> QED
    BY <2>1, <2>2 DEF CheckInterruptedSignal
<1> QED
  BY Invariance, <1>1, PTL DEF Spec, InterruptGives130

\* No signal ends the shell once it has prompted.
THEOREM NeverKilled == Spec => ShellSurvives
<1>1. IInv /\ Armed /\ [Next]_vars => Armed'
  <2> SUFFICES ASSUME IInv, Armed, [Next]_vars PROVE Armed'
    OBVIOUS
  <2> USE DEF Armed, signals
  <2>1. CASE InitShell \/ Readline \/ Lexer \/ Parser \/ ExitCommand \/ HeredocMax
             \/ BuiltinExit \/ ResetLoop \/ CleanupExit
    BY <2>1 DEF InitShell, Readline, Lexer, Parser, ExitCommand, HeredocMax,
                BuiltinExit, ResetLoop, CleanupExit, Free
  <2>2. CASE SetupPromptSignal \/ Clear \/ CheckInterruptedSignal \/ Line \/ IgnoreInterrupt
             \/ Expander \/ ForkHeredoc \/ ParentWaitHeredoc \/ ExecLoop \/ WaitAllChildren
             \/ UpdateExitStatus \/ ExecBuiltinParent
    BY <2>2 DEF SetupPromptSignal, Clear, CheckInterruptedSignal, Line, IgnoreInterrupt,
                Expander, ForkHeredoc, ParentWaitHeredoc, ExecLoop, WaitAllChildren,
                UpdateExitStatus, ExecBuiltinParent
  <2>3. CASE SigInt \/ SigQuit \/ UNCHANGED vars
    BY <2>3 DEF SigInt, SigQuit, vars
  <2> QED
    BY <2>1, <2>2, <2>3 DEF Next
<1>2. IInv /\ pc = "readline" => Armed
  BY DEF IInv, SignalInv
<1>3. Armed => pc # "killed"
  BY DEF Armed
<1> QED
  BY Invariance, <1>1, <1>2, <1>3, PTL DEF Spec, ShellSurvives

----------------------------------------------------------------------------
(* The buffer of the shell's stdout: Stdio, beside the loop.               *)

BeforeForks == {"expander", "heredocs"}
AfterFlush == {"prompt", "exited"}

\* The ambiguous redirects the expander has come to.
Reported == {m \in bad : linePc = "expander" => m < i}

\* Processes forked for the commands of the line.
Forked == IF linePc \in BeforeForks THEN 0 ELSE i - 1

Positions ==
  /\ linePc # "prompt" => n > 0
  /\ linePc = "heredocs" => i = 1
  /\ linePc = "exec" => i <= n
  /\ DOMAIN copies \subseteq 1 .. i - 1
  /\ linePc \in BeforeForks \union AfterFlush => DOMAIN copies = {}

BufferFlushed == linePc \in AfterFlush => buf = {} /\ \A m \in bad : told[m] > 0

OnTerminal ==
  tty => /\ buf = {} /\ \A c \in DOMAIN copies : copies[c] = {}
         /\ told = [m \in Commands |-> IF m \in Reported THEN 1 ELSE 0]

InFile ==
  ~tty => /\ linePc \notin AfterFlush => buf = Reported
          /\ \A m \in Commands :
               told[m] + Cardinality(DOMAIN copies)
                 <= heredocs + Forked + (IF linePc \in AfterFlush THEN 1 ELSE 0)

\* TypeOK, with no limit on told.
Types ==
  /\ linePc \in {"prompt", "expander", "heredocs", "exec", "wait", "exited"}
  /\ tty \in BOOLEAN /\ n \in 0 .. MaxCommands /\ i \in 1 .. n + 1
  /\ bad \subseteq 1 .. n /\ buf \subseteq bad
  /\ DOMAIN copies \subseteq 1 .. n /\ \A c \in DOMAIN copies : copies[c] \subseteq bad
  /\ heredocs \in 0 .. MaxHeredocs
  /\ told \in [Commands -> Nat]

BufferInv == Types /\ Positions /\ BufferFlushed /\ OnTerminal /\ InFile

\* The processes of the line that are not over are as many as their set says.
LEMMA ProcessCount ==
  ASSUME Types
  PROVE  IsFiniteSet(DOMAIN copies) /\ Cardinality(DOMAIN copies) \in Nat
<1>1. IsFiniteSet(1 .. n) /\ DOMAIN copies \subseteq 1 .. n
  BY FS_Interval DEF Types
<1>2. QED
  BY <1>1, FS_Subset, FS_CardinalityType

\* At first the buffer is empty.
LEMMA BufferInit == StdoutInit => BufferInv
<1> SUFFICES ASSUME StdoutInit PROVE BufferInv
  OBVIOUS
<1>1. DOMAIN copies = {} /\ Cardinality(DOMAIN copies) = 0
  BY FS_EmptySet DEF StdoutInit
<1>2. Types
  BY BoundsAssumption, <1>1 DEF StdoutInit, Types, Commands
<1>3. QED
  BY <1>1, <1>2 DEF StdoutInit, BufferInv, Positions, BufferFlushed, OnTerminal, InFile, Reported, Forked,
                    BeforeForks, AfterFlush

\* Every step keeps it.
LEMMA BufferNext == BufferInv /\ [StdoutNext]_stdoutVars => BufferInv'
<1> SUFFICES ASSUME BufferInv, [StdoutNext]_stdoutVars PROVE BufferInv'
  OBVIOUS
<1> USE BoundsAssumption DEF BufferInv, BeforeForks, AfterFlush
<1>a. Types /\ IsFiniteSet(DOMAIN copies) /\ Cardinality(DOMAIN copies) \in Nat
  BY ProcessCount
<1>b. /\ n \in Nat /\ i \in Nat /\ heredocs \in Nat /\ bad \subseteq 1 .. n
      /\ 1 .. n \subseteq Commands /\ bad \subseteq Commands /\ buf \subseteq bad
      /\ told \in [Commands -> Nat]
  BY <1>a DEF Types, Commands
<1>c. Written({}) = told
  BY <1>b DEF Written
<1>1. CASE NextLine
  <2>1. DOMAIN copies = {} /\ Cardinality(DOMAIN copies) = 0
    BY <1>1, FS_EmptySet DEF NextLine, Positions
  <2>2. Types'
    <3>1. n' \in 1 .. MaxCommands /\ bad' \subseteq 1 .. n' /\ told' \in [Commands -> Nat]
      BY <1>1 DEF NextLine, Commands
    <3>2. /\ linePc' = "expander" /\ i' = 1 /\ heredocs' = 0 /\ buf' = {} /\ copies' = copies
          /\ tty' = tty
      BY <1>1 DEF NextLine, BufferFlushed
    <3>3. n' \in 0 .. MaxCommands /\ i' \in 1 .. n' + 1 /\ heredocs' \in 0 .. MaxHeredocs
      <4>1. ASSUME NEW k \in 1 .. MaxCommands PROVE k \in 0 .. MaxCommands /\ 1 \in 1 .. k + 1
        OBVIOUS
      <4>2. 0 \in 0 .. MaxHeredocs
        OBVIOUS
      <4>3. n' \in 0 .. MaxCommands /\ 1 \in 1 .. n' + 1
        BY <3>1, <4>1
      <4>4. QED
        BY <3>2, <4>2, <4>3, Zenon
    <3>4. DOMAIN copies' = {} /\ tty' \in BOOLEAN
      BY <1>a, <2>1, <3>2 DEF Types
    <3>5. QED
      BY <3>1, <3>2, <3>3, <3>4 DEF Types
  <2>3. (Positions /\ BufferFlushed)'
    BY <1>1, <2>1, <2>2 DEF NextLine, Positions, BufferFlushed
  <2>4. Reported' = {} /\ buf = {}
    <3>1. \A m \in bad' : ~(m < i')
      BY <1>1 DEF NextLine, Commands
    <3>2. linePc' = "expander" /\ buf = {}
      BY <1>1 DEF NextLine, BufferFlushed
    <3>3. QED
      BY <3>1, <3>2 DEF Reported
  <2>5. (OnTerminal /\ InFile)'
    BY <1>1, <2>1, <2>4 DEF NextLine, OnTerminal, InFile, Forked, Commands
  <2>6. QED
    BY <2>2, <2>3, <2>5
<1>2. CASE Expand
  <2>1. DOMAIN copies = {} /\ Cardinality(DOMAIN copies) = 0
    BY <1>2, FS_EmptySet DEF Expand, Positions
  <2>2. /\ \A m : m \in Reported' <=> m \in Reported \/ (m = i /\ i \in bad)
        /\ i \notin Reported
    <3>1. \A m \in bad : (m < i' <=> m < i \/ m = i) /\ ~(i < i)
      BY <1>b, <1>2 DEF Expand
    <3>2. QED
      BY <1>2, <3>1 DEF Expand, Reported
  <2>3. CASE tty
    <3>1. told' = [m \in Commands |-> IF m \in Reported' THEN 1 ELSE 0] /\ buf' = {}
      <4>1. told = [m \in Commands |-> IF m \in Reported THEN 1 ELSE 0] /\ buf = {}
        BY <2>3 DEF OnTerminal
      <4>2. CASE i \in bad
        <5>1. told' = [m \in Commands |-> told[m] + (IF m = i THEN 1 ELSE 0)] /\ buf' = {}
          BY <1>2, <2>3, <4>1, <4>2 DEF Expand, PrintfAmbiguous, Written
        <5>2. \A m \in Commands : told[m] + (IF m = i THEN 1 ELSE 0) = IF m \in Reported' THEN 1 ELSE 0
          BY <2>2, <4>1, <4>2
        <5>3. QED
          BY <5>1, <5>2
      <4>3. CASE i \notin bad
        BY <1>2, <2>2, <4>1, <4>3 DEF Expand
      <4>4. QED
        BY <4>2, <4>3
    <3>2. Types'
      BY <1>a, <1>b, <1>2, <2>1, <3>1 DEF Expand, Types, Commands
    <3>3. QED
      BY <1>2, <2>1, <2>3, <3>1, <3>2
      DEF Expand, Positions, BufferFlushed, OnTerminal, InFile, Types
  <2>4. CASE ~tty
    <3>1. told' = told /\ buf' = Reported'
      BY <1>a, <1>b, <1>2, <2>2, <2>4 DEF Expand, PrintfAmbiguous, InFile
    <3>2. Types'
      BY <1>a, <1>b, <1>2, <2>1, <3>1 DEF Expand, Types, Reported
    <3>3. QED
      BY <1>2, <2>1, <2>4, <3>1, <3>2
      DEF Expand, Positions, BufferFlushed, OnTerminal, InFile, Types, Forked
  <2>5. QED
    BY <2>3, <2>4
<1>3. CASE Expanded
  <2>1. Reported' = Reported
    <3>1. \A m \in bad : m < i
      BY <1>b, <1>3 DEF Expanded
    <3>2. QED
      BY <1>3, <3>1 DEF Expanded, Reported
  <2>2. Types'
    BY <1>a, <1>b, <1>3 DEF Expanded, Types
  <2>3. QED
    BY <1>3, <2>1, <2>2 DEF Expanded, Positions, BufferFlushed, OnTerminal, InFile, Forked
<1>4. CASE ChildHeredoc
  <2>1. Reported' = Reported /\ Types'
    BY <1>a, <1>b, <1>4 DEF ChildHeredoc, Reported, Types, Written
  <2>2. CASE tty
    <3>1. told' = told
      BY <1>c, <1>4, <2>2 DEF ChildHeredoc, OnTerminal
    <3>2. QED
      BY <1>4, <2>1, <2>2, <3>1 DEF ChildHeredoc, Positions, BufferFlushed, OnTerminal, InFile
  <2>3. CASE ~tty
    <3>1. \A m \in Commands : told'[m] \in {told[m], told[m] + 1}
      BY <1>a, <1>b, <1>4 DEF ChildHeredoc, Types, Written
    <3>2. InFile'
      BY <1>a, <1>b, <1>4, <2>1, <2>3, <3>1 DEF ChildHeredoc, InFile, Forked, Types
    <3>3. QED
      BY <1>4, <2>1, <2>3, <3>2 DEF ChildHeredoc, Positions, BufferFlushed, OnTerminal
  <2>4. QED
    BY <2>2, <2>3
<1>5. CASE Executor
  <2>1. Reported' = Reported /\ Types'
    BY <1>a, <1>b, <1>5 DEF Executor, Reported, Types
  <2>2. i = 1 /\ n \in Nat /\ (linePc' = "exec" => i <= n)
    BY <1>a, <1>b, <1>5 DEF Executor, Positions, Types
  <2>3. QED
    BY <1>a, <1>b, <1>5, <2>1, <2>2 DEF Executor, Positions, BufferFlushed, OnTerminal, InFile, Forked, Types
<1>6. CASE ForkHandler
  <2>1. /\ DOMAIN copies' = DOMAIN copies \union {i} /\ i \in 1 .. n /\ i \notin DOMAIN copies
        /\ \A c \in DOMAIN copies' : copies'[c] = IF c = i THEN buf ELSE copies[c]
    BY <1>a, <1>b, <1>6 DEF ForkHandler, Positions, Types
  <2>2. Cardinality(DOMAIN copies') = Cardinality(DOMAIN copies) + 1
    BY <1>a, <1>b, <2>1, FS_AddElement
  <2>3. Reported' = Reported
    BY <1>6 DEF ForkHandler, Reported
  <2>4. Types'
    <3>1. i' = i + 1 /\ linePc' \in {"exec", "wait"} /\ UNCHANGED <<tty, n, bad, buf, heredocs, told>>
      BY <1>6 DEF ForkHandler
    <3>2. DOMAIN copies' \subseteq 1 .. n /\ \A c \in DOMAIN copies' : copies'[c] \subseteq bad
      BY <1>a, <2>1 DEF Types
    <3>3. QED
      BY <1>a, <2>1, <3>1, <3>2 DEF Types
  <2>5. (Positions /\ BufferFlushed)'
    BY <1>a, <1>b, <1>6, <2>1 DEF ForkHandler, Positions, BufferFlushed, Types
  <2>6. (OnTerminal /\ InFile)'
    <3>1. /\ linePc = "exec" /\ linePc' \in {"exec", "wait"} /\ i' = i + 1
          /\ UNCHANGED <<tty, buf, heredocs, told>>
      BY <1>6 DEF ForkHandler
    <3>2. OnTerminal'
      BY <2>1, <2>3, <3>1 DEF OnTerminal
    <3>3. InFile'
      BY <1>a, <1>b, <2>2, <2>3, <3>1 DEF InFile, Forked
    <3>4. QED
      BY <3>2, <3>3
  <2>7. QED
    BY <2>4, <2>5, <2>6
<1>7. ASSUME NEW c \in Commands, ChildProcess(c) PROVE BufferInv'
  <2>1. /\ DOMAIN copies' = DOMAIN copies \ {c} /\ c \in DOMAIN copies
        /\ \A d \in DOMAIN copies' : copies'[d] = copies[d]
    BY <1>7 DEF ChildProcess
  <2>2. Cardinality(DOMAIN copies') = Cardinality(DOMAIN copies) - 1
    BY <1>a, <1>b, <2>1, FS_RemoveElement
  <2>3. Reported' = Reported /\ linePc' = linePc /\ linePc \notin BeforeForks \union AfterFlush
    BY <1>7, <2>1 DEF ChildProcess, Reported, Positions
  <2>4. Types' /\ \A m \in Commands : told'[m] \in {told[m], told[m] + 1}
    BY <1>a, <1>b, <1>7, <2>1 DEF ChildProcess, Types, Written
  <2>5. (Positions /\ BufferFlushed)'
    BY <1>a, <1>b, <1>7, <2>1, <2>3 DEF ChildProcess, Positions, BufferFlushed
  <2>6. CASE tty
    <3>1. told' = told
      BY <1>a, <1>b, <1>7, <2>1, <2>6 DEF ChildProcess, OnTerminal, Written, Types
    <3>2. QED
      BY <1>7, <2>1, <2>3, <2>4, <2>5, <2>6, <3>1 DEF ChildProcess, OnTerminal, InFile
  <2>7. CASE ~tty
    <3>1. InFile'
      <4>1. /\ UNCHANGED <<linePc, tty, i, buf, heredocs>> /\ Forked' = Forked /\ Forked \in Nat
        BY <1>a, <1>b, <1>7, <2>3 DEF ChildProcess, Forked, Types
      <4>2. ASSUME NEW m \in Commands
            PROVE  told'[m] + Cardinality(DOMAIN copies') <= heredocs + Forked
        <5>1. told[m] + Cardinality(DOMAIN copies) <= heredocs + Forked
          <6>1. linePc \notin AfterFlush
            BY <2>3
          <6>2. told[m] + Cardinality(DOMAIN copies) <= heredocs + Forked + 0
            BY <2>7, <6>1 DEF InFile
          <6>3. QED
            BY <1>b, <4>1, <6>2
        <5>2. told[m] \in Nat
          BY <1>b
        <5>3. QED
          BY <1>a, <1>b, <2>2, <2>4, <4>1, <5>1, <5>2
      <4>3. buf' = Reported'
        BY <2>3, <2>7, <4>1 DEF InFile
      <4>4. QED
        <5>1. linePc' \notin AfterFlush /\ tty' = tty /\ heredocs' = heredocs /\ Forked' = Forked
          BY <2>3, <4>1
        <5>2. \A m \in Commands : told'[m] + Cardinality(DOMAIN copies') <= heredocs' + Forked' + 0
          BY <1>b, <4>1, <4>2, <5>1
        <5>3. QED
          BY <4>3, <5>1, <5>2 DEF InFile
    <3>2. QED
      BY <1>7, <2>4, <2>5, <2>7, <3>1 DEF ChildProcess, OnTerminal
  <2>8. QED
    BY <2>6, <2>7
<1>8. CASE Flush
  <2>1. /\ DOMAIN copies = {} /\ Cardinality(DOMAIN copies) = 0 /\ copies' = copies
        /\ linePc' \in AfterFlush /\ linePc \notin BeforeForks \union AfterFlush
    BY <1>8, FS_EmptySet DEF Flush
  <2>2. Reported' = bad /\ Reported = bad /\ tty' = tty
    BY <1>8 DEF Flush, Reported
  <2>3. Types' /\ \A m \in Commands : told'[m] = told[m] + (IF m \in buf THEN 1 ELSE 0)
    BY <1>a, <1>b, <1>8, <2>1 DEF Flush, Types, Written
  <2>4. Positions'
    BY <1>8, <2>1 DEF Flush, Positions
  <2>5. CASE tty
    <3>1. told' = told
      BY <1>a, <1>b, <1>8, <2>5 DEF Flush, OnTerminal, Written, Types
    <3>2. \A m \in bad : told[m] > 0
      BY <1>a, <1>b, <2>2, <2>5 DEF OnTerminal, Types, Commands
    <3>3. QED
      BY <1>8, <2>1, <2>2, <2>3, <2>4, <2>5, <3>1, <3>2 DEF Flush, BufferFlushed, OnTerminal, InFile
  <2>6. CASE ~tty
    <3>1. buf = bad
      BY <2>1, <2>2, <2>6 DEF InFile
    <3>2. BufferFlushed'
      BY <1>a, <1>b, <1>8, <2>3, <3>1 DEF Flush, BufferFlushed, Types, Commands
    <3>3. InFile'
      BY <1>a, <1>b, <1>8, <2>1, <2>3, <2>6 DEF Flush, InFile, Forked, Types
    <3>4. QED
      BY <1>8, <2>3, <2>4, <2>6, <3>2, <3>3 DEF Flush, OnTerminal
  <2>7. QED
    BY <2>5, <2>6
<1>9. CASE UNCHANGED stdoutVars
  BY <1>9, <1>a DEF stdoutVars, Types, Positions, BufferFlushed, OnTerminal, InFile, Reported, Forked
<1>10. QED
  BY <1>1, <1>2, <1>3, <1>4, <1>5, <1>6, <1>7, <1>8, <1>9 DEF StdoutNext

\* Every ambiguous redirect of a line of any n is reported by the next prompt,
\* and on a terminal once (expander_process2.c:32-47, pipe_and_fork.c).
THEOREM AmbiguousReported == StdoutSpec => []EachTold
<1>1. BufferInv => EachTold
  <2> SUFFICES ASSUME BufferInv PROVE EachTold
    OBVIOUS
  <2>1. Types /\ Cardinality(DOMAIN copies) \in Nat
    BY ProcessCount DEF BufferInv
  <2>2. \A m \in Commands : told[m] <= MaxHeredocs + MaxCommands + 1
    <3>1. CASE tty
      BY BoundsAssumption, <3>1 DEF BufferInv, OnTerminal
    <3>2. CASE ~tty
      <4>1. heredocs \in 0 .. MaxHeredocs /\ Forked \in 0 .. MaxCommands
        BY BoundsAssumption, <2>1 DEF Types, Forked
      <4>2. QED
        BY BoundsAssumption, <2>1, <3>2, <4>1 DEF BufferInv, InFile, Types
    <3>3. QED
      BY <3>1, <3>2
  <2>3. StdoutTypes
    BY BoundsAssumption, <2>1, <2>2 DEF Types, StdoutTypes
  <2>4. tty => \A m \in Commands : told[m] <= 1
    BY DEF BufferInv, OnTerminal
  <2>5. QED
    BY <2>3, <2>4 DEF EachTold, BufferInv, BufferFlushed, AfterFlush
<1>2. StdoutInit => BufferInv
  BY BufferInit
<1>3. BufferInv /\ [StdoutNext]_stdoutVars => BufferInv'
  BY BufferNext
<1>4. QED
  BY <1>1, <1>2, <1>3, PTL DEF StdoutSpec
=============================================================================
