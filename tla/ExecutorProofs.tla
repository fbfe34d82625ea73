--------------------------- MODULE ExecutorProofs ---------------------------
(***************************************************************************)
(* What TLAPS proves of the executor, for every length of pipeline, every  *)
(* choice of programs and any number of keyboard signals.                  *)
(***************************************************************************)
EXTENDS Executor, TLAPS

Launching == {"pipe", "fork", "close"}

\* The commands launched so far are 1 .. Launched: last_pid lags one behind
\* between fork and handle_parent_pipes.
Launched == IF pc = "close" THEN cur ELSE last

CursorInv ==
  /\ pc \in Launching => cur <= n /\ prev = cur - 1 /\ last = cur - 1
  /\ pc = "prompt" => cur = 1 /\ prev = 0 /\ last = 0
  /\ last <= n
  /\ \A c \in Cmd : st[c] # "none" <=> c <= Launched

\* The pipe command c writes to, if it has a successor.
Own(c) == IF c < n THEN {c} ELSE {}

\* What the shell holds at each of its program points.
ShellFds ==
  /\ pc = "pipe" => rd[Shell] = {prev} \ {0} /\ wr[Shell] = {}
  /\ pc \in {"fork", "close"} =>
       rd[Shell] = ({prev} \ {0}) \union Own(cur) /\ wr[Shell] = Own(cur)
  /\ pc \in {"wait", "prompt"} => rd[Shell] = {} /\ wr[Shell] = {}

\* What a child holds at each stage of its life.
ChildFds(c) ==
  /\ st[c] \in {"none", "zombie", "reaped"} =>
       rd[c] = {} /\ wr[c] = {} /\ in[c] = 0 /\ out[c] = 0
  /\ st[c] \in {"forked", "sigset"} =>
       /\ rd[c] = ({c - 1} \ {0}) \union Own(c) /\ wr[c] = Own(c)
       /\ in[c] = 0 /\ out[c] = 0
  /\ st[c] \in Running =>
       /\ rd[c] = {} /\ wr[c] = {} /\ in[c] = c - 1
       /\ out[c] = IF c < n THEN c ELSE 0

FdInv == ShellFds /\ \A c \in Cmd : ChildFds(c)

\* wait_loop's locals speak of the last launched command, and only once it
\* has been reaped.
WaitInv ==
  /\ pc # "wait" => \A c \in Cmd : st[c] # "reaped"
  /\ IF last # 0 /\ st[last] = "reaped"
     THEN lastStatus = ws[last] /\ (lastSigQuit <=> ws[last] = "SIGQUIT")
     ELSE lastStatus = "exit0" /\ lastSigQuit = FALSE
  /\ \A c \in Cmd : st[c] = "none" => ws[c] = "exit0"

IInv == TypeOK /\ CursorInv /\ FdInv /\ WaitInv

----------------------------------------------------------------------------
(* Type correctness.                                                       *)

LEMMA ProcFacts == Shell \in Proc /\ 0 \in Proc /\ 1 \in Cmd /\ Cmd \subseteq Proc
BY MaxCmdsAssumption DEF Shell, Proc, Cmd

LEMMA CodeType == \A w \in WaitStatus : Code(w) \in {0, 1, 130, 131, 141}
BY DEF WaitStatus, Code

LEMMA FirstStepType ==
  ASSUME TypeOK, NEW c \in Cmd
  PROVE  FirstStep(prog[c]) \in Running
<1>1. prog[c] \in {"source", "yes", "cat", "head", "quit"}
  <2>1. prog[c] \in Programs
    BY DEF TypeOK
  <2> QED
    BY <2>1, ProgramsAssumption, Zenon
<1>2. CASE prog[c] = "quit"
  BY <1>2 DEF FirstStep, Running
<1>3. CASE prog[c] \in {"cat", "head"}
  BY <1>3 DEF FirstStep, Running
<1>4. CASE prog[c] \in {"source", "yes"}
  BY <1>4 DEF FirstStep, Running
<1> QED
  BY <1>1, <1>2, <1>3, <1>4

LEMMA InitType == Init => TypeOK
<1> SUFFICES ASSUME Init PROVE TypeOK
  OBVIOUS
<1> USE MaxCmdsAssumption, MaxSignalsAssumption
<1>1. anySigInt \in BOOLEAN /\ lastSigQuit \in BOOLEAN
  BY DEF Init
<1>2. /\ n \in Cmd /\ cur \in Cmd /\ prev \in Proc /\ last \in Proc
      /\ sigs \in 0 .. MaxSignals /\ 0 \in Proc
  BY DEF Init, Cmd, Proc
<1>3. rd \in [Proc -> SUBSET Cmd] /\ wr \in [Proc -> SUBSET Cmd]
  BY DEF Init
<1>4. /\ in \in [Cmd -> Proc] /\ out \in [Cmd -> Proc]
      /\ buf \in [Cmd -> 0 .. PipeCap]
      /\ st \in [Cmd -> Stages] /\ ws \in [Cmd -> WaitStatus]
  BY <1>2 DEF Init, Stages, WaitStatus, PipeCap
<1> QED
  BY <1>1, <1>2, <1>3, <1>4 DEF Init, TypeOK, WaitStatus

\* Ending some children keeps the kernel's state well typed.
LEMMA EndType ==
  ASSUME TypeOK, NEW D \in SUBSET Cmd, NEW w \in WaitStatus, End(D, w)
  PROVE  /\ st' \in [Cmd -> Stages] /\ ws' \in [Cmd -> WaitStatus]
         /\ rd' \in [Proc -> SUBSET Cmd] /\ wr' \in [Proc -> SUBSET Cmd]
         /\ in' \in [Cmd -> Proc] /\ out' \in [Cmd -> Proc]
BY MaxCmdsAssumption DEF TypeOK, End, Stages, Cmd, Proc

LEMMA GotoType ==
  ASSUME TypeOK, NEW c \in Cmd, NEW s \in Running, Goto(c, s)
  PROVE  /\ st' \in [Cmd -> Stages] /\ ws' \in [Cmd -> WaitStatus]
         /\ rd' \in [Proc -> SUBSET Cmd] /\ wr' \in [Proc -> SUBSET Cmd]
         /\ in' \in [Cmd -> Proc] /\ out' \in [Cmd -> Proc]
BY DEF TypeOK, Goto, Stages, Alive

LEMMA StepType == TypeOK /\ [Next]_vars => TypeOK'
<1> SUFFICES ASSUME TypeOK, [Next]_vars PROVE TypeOK'
  OBVIOUS
<1> USE MaxCmdsAssumption, ProgramsAssumption, MaxSignalsAssumption
<1>1. CASE ExecLoop
  BY <1>1 DEF ExecLoop, TypeOK, kernel, waiting
<1>2. CASE PreparePipe
  <2>1. rd' \in [Proc -> SUBSET Cmd] /\ wr' \in [Proc -> SUBSET Cmd]
    BY <1>2, ProcFacts DEF PreparePipe, TypeOK
  <2>2. buf' \in [Cmd -> 0 .. PipeCap]
    BY <1>2 DEF PreparePipe, TypeOK, PipeCap
  <2> QED
    BY <1>2, <2>1, <2>2 DEF PreparePipe, TypeOK, line, waiting
<1>3. CASE PreparePipeFails
  BY <1>3 DEF PreparePipeFails, Without, TypeOK, line, waiting, Cmd, Proc, Shell
<1>4. CASE ForkHandler
  <2>1. rd' \in [Proc -> SUBSET Cmd] /\ wr' \in [Proc -> SUBSET Cmd]
    BY <1>4, ProcFacts DEF ForkHandler, TypeOK
  <2>2. st' \in [Cmd -> Stages]
    BY <1>4 DEF ForkHandler, TypeOK, Stages, Alive
  <2> QED
    BY <1>4, <2>1, <2>2 DEF ForkHandler, TypeOK, line, waiting
<1>5. CASE ForkHandlerFails
  <2> DEFINE r == Without(IF HasNext THEN Without(rd[Shell], cur) ELSE rd[Shell], prev)
             w == IF HasNext THEN Without(wr[Shell], cur) ELSE wr[Shell]
  <2>1. r \subseteq Cmd /\ w \subseteq Cmd
    BY ProcFacts DEF Without, TypeOK
  <2>2. rd' = [rd EXCEPT ![Shell] = r] /\ wr' = [wr EXCEPT ![Shell] = w]
    BY <1>5 DEF ForkHandlerFails
  <2> HIDE DEF r, w
  <2>3. rd' \in [Proc -> SUBSET Cmd]
    BY <2>1, <2>2 DEF TypeOK
  <2>4. wr' \in [Proc -> SUBSET Cmd]
    BY <2>1, <2>2 DEF TypeOK
  <2> QED
    BY <1>5, <2>3, <2>4 DEF ForkHandlerFails, TypeOK, line, waiting
<1>6. CASE HandleParentPipes
  <2>1. rd' \in [Proc -> SUBSET Cmd] /\ wr' \in [Proc -> SUBSET Cmd]
    BY <1>6, ProcFacts DEF HandleParentPipes, Without, TypeOK
  <2>2. cur' \in Cmd /\ prev' \in Proc /\ last' \in Proc
    <3>1. cur \in Cmd /\ n \in Cmd /\ prev \in Proc
      BY DEF TypeOK
    <3>2. HasNext => cur + 1 \in Cmd
      BY <3>1 DEF HasNext, Cmd
    <3>3. last' = cur /\ (\/ HasNext /\ cur' = cur + 1 /\ prev' = cur
                          \/ cur' = cur /\ prev' = prev)
      BY <1>6 DEF HandleParentPipes
    <3> QED
      BY <3>1, <3>2, <3>3, ProcFacts
  <2> QED
    BY <1>6, <2>1, <2>2 DEF HandleParentPipes, TypeOK, line, waiting
<1>7. CASE UpdateExitStatus
  <2>1. status' \in {0, 1, 130, 131, 141}
    BY <1>7, CodeType DEF UpdateExitStatus, TypeOK
  <2>2. lastStatus' \in WaitStatus /\ anySigInt' \in BOOLEAN /\ lastSigQuit' \in BOOLEAN
    BY <1>7 DEF UpdateExitStatus, WaitStatus
  <2>3. /\ st' \in [Cmd -> Stages] /\ ws' \in [Cmd -> WaitStatus]
        /\ buf' \in [Cmd -> 0 .. PipeCap]
    BY <1>7 DEF UpdateExitStatus, Stages, WaitStatus, PipeCap
  <2> QED
    BY <1>7, <2>1, <2>2, <2>3, ProcFacts DEF UpdateExitStatus, TypeOK, line
<1>8. ASSUME NEW c \in Cmd, WaitLoop(c) PROVE TypeOK'
  BY <1>8 DEF WaitLoop, TypeOK, line, Stages
<1>9. ASSUME NEW c \in Cmd, SetupChildSignals(c) PROVE TypeOK'
  BY <1>9 DEF SetupChildSignals, TypeOK, parent, line, waiting, Stages, Alive
<1>10. ASSUME NEW c \in Cmd, SetupPipes(c) PROVE TypeOK'
  <2>1. FirstStep(prog[c]) \in Stages
    BY <1>10, FirstStepType DEF Stages, Alive
  <2>2. c - 1 \in Proc /\ c \in Proc
    BY ProcFacts DEF Cmd, Proc
  <2>3. in' \in [Cmd -> Proc] /\ out' \in [Cmd -> Proc]
    BY <1>10, <2>2 DEF SetupPipes, TypeOK
  <2>4. rd' \in [Proc -> SUBSET Cmd] /\ wr' \in [Proc -> SUBSET Cmd]
    BY <1>10, <2>2 DEF SetupPipes, Without, TypeOK
  <2>5. st' \in [Cmd -> Stages]
    BY <1>10, <2>1 DEF SetupPipes, TypeOK
  <2> QED
    BY <1>10, <2>3, <2>4, <2>5 DEF SetupPipes, TypeOK, parent, line, waiting
<1>11. ASSUME NEW c \in Cmd, Quit(c) PROVE TypeOK'
  <2>1. PICK w \in {"exit0", "exit1"} : End({c}, w)
    BY <1>11 DEF Quit
  <2> QED
    BY <1>11, <2>1, EndType DEF Quit, TypeOK, parent, line, waiting, WaitStatus
<1>12. ASSUME NEW c \in Cmd, Write(c) PROVE TypeOK'
  <2>1. buf' \in [Cmd -> 0 .. PipeCap]
    BY <1>12 DEF Write, TypeOK, PipeCap
  <2>2. End({c}, "exit0") \/ End({c}, "SIGPIPE") \/ Goto(c, FirstStep(prog[c]))
    BY <1>12 DEF Write, AfterWrite
  <2>3. /\ st' \in [Cmd -> Stages] /\ ws' \in [Cmd -> WaitStatus]
        /\ rd' \in [Proc -> SUBSET Cmd] /\ wr' \in [Proc -> SUBSET Cmd]
        /\ in' \in [Cmd -> Proc] /\ out' \in [Cmd -> Proc]
    <3>1. CASE \E w \in WaitStatus : End({c}, w)
      BY <1>12, <3>1, EndType
    <3>2. CASE Goto(c, FirstStep(prog[c]))
      <4>1. FirstStep(prog[c]) \in Running
        BY <1>12, FirstStepType
      <4> QED
        BY <1>12, <3>2, <4>1, GotoType
    <3> QED
      BY <2>2, <3>1, <3>2 DEF WaitStatus
  <2> QED
    BY <1>12, <2>1, <2>3
       DEF Write, TypeOK, parent, line, waiting, WaitStatus
<1>13. ASSUME NEW c \in Cmd, Read(c) \/ ReadTerminal(c) PROVE TypeOK'
  <2>1. buf' \in [Cmd -> 0 .. PipeCap]
    BY <1>13 DEF Read, ReadTerminal, TypeOK, PipeCap
  <2>2. End({c}, "exit0") \/ Goto(c, "write")
    BY <1>13 DEF Read, ReadTerminal, AfterRead
  <2> QED
    BY <1>13, <2>1, <2>2, EndType, GotoType
       DEF Read, ReadTerminal, TypeOK, parent, line, waiting, WaitStatus, Running
<1>14. ASSUME NEW s \in {"SIGINT", "SIGQUIT"}, Keyboard(s) PROVE TypeOK'
  BY <1>14, EndType DEF Keyboard, TypeOK, line, waiting, WaitStatus
<1>15. CASE UNCHANGED vars
  BY <1>15 DEF vars, TypeOK
<1> QED
  BY <1>1, <1>2, <1>3, <1>4, <1>5, <1>6, <1>7, <1>8, <1>9, <1>10, <1>11,
     <1>12, <1>13, <1>14, <1>15 DEF Next, ParentStep, ChildStep

\* Every variable of the executor stays in its type.
THEOREM TypeCorrect == Spec => []TypeOK
BY InitType, StepType, PTL DEF Spec

----------------------------------------------------------------------------
(* The inductive invariant, one lemma per kind of step.                    *)

LEMMA InitIInv == Init => IInv
<1> SUFFICES ASSUME Init PROVE IInv
  OBVIOUS
<1>1. TypeOK
  BY InitType
<1>2. CursorInv
  BY MaxCmdsAssumption DEF Init, CursorInv, Launched, Launching, Cmd
<1>3. FdInv
  <2>1. ShellFds
    BY ProcFacts DEF Init, ShellFds
  <2>2. ASSUME NEW c \in Cmd PROVE ChildFds(c)
    <3>1. rd[c] = {} /\ wr[c] = {} /\ in[c] = 0 /\ out[c] = 0 /\ st[c] = "none"
      BY ProcFacts DEF Init
    <3> QED
      BY <3>1 DEF ChildFds, Running
  <2> QED
    BY <2>1, <2>2 DEF FdInv
<1>4. WaitInv
  BY DEF Init, WaitInv
<1> QED
  BY <1>1, <1>2, <1>3, <1>4 DEF IInv

LEMMA ExecLoopInv == IInv /\ ExecLoop /\ TypeOK' => IInv'
<1> SUFFICES ASSUME IInv, ExecLoop, TypeOK' PROVE IInv'
  OBVIOUS
<1> USE DEF ExecLoop, kernel, waiting
<1>1. CursorInv'
  BY DEF IInv, CursorInv, Launched, Launching, Cmd, TypeOK
<1>2. \A c \in Cmd : st[c] = "none"
  BY DEF IInv, CursorInv, Launched, Cmd
<1>3. ShellFds'
  BY DEF IInv, FdInv, ShellFds, CursorInv
<1>4. \A c \in Cmd : ChildFds(c)'
  BY <1>2 DEF IInv, FdInv, ChildFds, Running
<1>5. WaitInv'
  BY <1>2 DEF IInv, WaitInv
<1> QED
  BY <1>1, <1>3, <1>4, <1>5 DEF IInv, FdInv

LEMMA PreparePipeInv == IInv /\ PreparePipe /\ TypeOK' => IInv'
<1> SUFFICES ASSUME IInv, PreparePipe, TypeOK' PROVE IInv'
  OBVIOUS
<1> USE DEF PreparePipe, line, waiting
<1>1. CursorInv'
  BY DEF IInv, CursorInv, Launched, Launching
<1>2. ShellFds'
  BY ProcFacts DEF IInv, FdInv, ShellFds, TypeOK, HasNext, Own
<1>3. ASSUME NEW c \in Cmd PROVE ChildFds(c)'
  <2>1. rd'[c] = rd[c] /\ wr'[c] = wr[c]
    BY ProcFacts DEF IInv, TypeOK, Shell, Cmd
  <2> QED
    BY <2>1 DEF IInv, FdInv, ChildFds, Own
<1>4. WaitInv'
  BY DEF IInv, WaitInv
<1> QED
  BY <1>1, <1>2, <1>3, <1>4 DEF IInv, FdInv

LEMMA PreparePipeFailsInv == IInv /\ PreparePipeFails /\ TypeOK' => IInv'
<1> SUFFICES ASSUME IInv, PreparePipeFails, TypeOK' PROVE IInv'
  OBVIOUS
<1> USE DEF PreparePipeFails, line, waiting
<1>1. CursorInv'
  BY DEF IInv, CursorInv, Launched, Launching, TypeOK, Cmd, Proc
<1>2. ShellFds'
  BY ProcFacts DEF IInv, FdInv, ShellFds, TypeOK, Without
<1>3. ASSUME NEW c \in Cmd PROVE ChildFds(c)'
  <2>1. rd'[c] = rd[c]
    BY ProcFacts DEF IInv, TypeOK, Shell, Cmd
  <2> QED
    BY <2>1 DEF IInv, FdInv, ChildFds, Own
<1>4. WaitInv'
  BY DEF IInv, WaitInv
<1> QED
  BY <1>1, <1>2, <1>3, <1>4 DEF IInv, FdInv

LEMMA ForkHandlerInv == IInv /\ ForkHandler /\ TypeOK' => IInv'
<1> SUFFICES ASSUME IInv, ForkHandler, TypeOK' PROVE IInv'
  OBVIOUS
<1> USE DEF ForkHandler, line, waiting
<1>1. /\ cur \in Cmd /\ cur <= n /\ prev = cur - 1 /\ last = cur - 1
      /\ st[cur] = "none"
  BY DEF IInv, CursorInv, Launched, Launching, TypeOK, Cmd
<1>2. CursorInv'
  BY <1>1 DEF IInv, CursorInv, Launched, Launching, TypeOK, Cmd
<1>3. ShellFds'
  <2>1. rd'[Shell] = rd[Shell] /\ wr'[Shell] = wr[Shell]
    BY <1>1, ProcFacts DEF IInv, TypeOK, Shell, Cmd
  <2> QED
    BY <2>1 DEF IInv, FdInv, ShellFds, Own
<1>4. ASSUME NEW c \in Cmd PROVE ChildFds(c)'
  <2>1. CASE c = cur
    <3>1. st'[c] = "forked" /\ rd'[c] = rd[Shell] /\ wr'[c] = wr[Shell]
      BY <2>1, ProcFacts DEF IInv, TypeOK
    <3>2. in'[c] = 0 /\ out'[c] = 0
      BY <1>1, <2>1 DEF IInv, FdInv, ChildFds
    <3> QED
      BY <1>1, <2>1, <3>1, <3>2 DEF IInv, FdInv, ShellFds, ChildFds, Running, Own
  <2>2. CASE c # cur
    <3>1. st'[c] = st[c] /\ rd'[c] = rd[c] /\ wr'[c] = wr[c]
      BY <2>2, ProcFacts DEF IInv, TypeOK
    <3> QED
      BY <3>1 DEF IInv, FdInv, ChildFds, Own
  <2> QED
    BY <2>1, <2>2
<1>5. WaitInv'
  BY <1>1 DEF IInv, WaitInv, TypeOK, Cmd
<1> QED
  BY <1>2, <1>3, <1>4, <1>5 DEF IInv, FdInv

LEMMA ForkHandlerFailsInv == IInv /\ ForkHandlerFails /\ TypeOK' => IInv'
<1> SUFFICES ASSUME IInv, ForkHandlerFails, TypeOK' PROVE IInv'
  OBVIOUS
<1> USE DEF ForkHandlerFails, line, waiting
<1>1. CursorInv'
  BY DEF IInv, CursorInv, Launched, Launching, TypeOK, Cmd, Proc
<1>2. ShellFds'
  BY ProcFacts DEF IInv, FdInv, ShellFds, TypeOK, Without, HasNext, Own
<1>3. ASSUME NEW c \in Cmd PROVE ChildFds(c)'
  <2>1. rd'[c] = rd[c] /\ wr'[c] = wr[c]
    BY ProcFacts DEF IInv, TypeOK, Shell, Cmd
  <2> QED
    BY <2>1 DEF IInv, FdInv, ChildFds, Own
<1>4. WaitInv'
  BY DEF IInv, WaitInv
<1> QED
  BY <1>1, <1>2, <1>3, <1>4 DEF IInv, FdInv

LEMMA HandleParentPipesInv == IInv /\ HandleParentPipes /\ TypeOK' => IInv'
<1> SUFFICES ASSUME IInv, HandleParentPipes, TypeOK' PROVE IInv'
  OBVIOUS
<1> USE DEF HandleParentPipes, line, waiting, HasNext
<1>1. /\ cur \in Cmd /\ cur <= n /\ prev = cur - 1 /\ last = cur - 1 /\ n \in Cmd
  BY DEF IInv, CursorInv, Launched, Launching, TypeOK, Cmd
<1>2. CursorInv'
  <2>1. \A c \in Cmd : st'[c] # "none" <=> c <= cur
    BY DEF IInv, CursorInv, Launched
  <2>2. Launched' = cur
    BY DEF Launched
  <2>3. CASE HasNext
    BY <1>1, <2>1, <2>2, <2>3 DEF CursorInv, Launching, Cmd
  <2>4. CASE ~HasNext
    BY <1>1, <2>1, <2>2, <2>4 DEF CursorInv, Launching, Cmd
  <2> QED
    BY <2>3, <2>4
<1>3. ShellFds'
  BY <1>1, ProcFacts DEF IInv, FdInv, ShellFds, TypeOK, Without, Own, Cmd
<1>4. ASSUME NEW c \in Cmd PROVE ChildFds(c)'
  <2>1. rd'[c] = rd[c] /\ wr'[c] = wr[c]
    <3>1. c # Shell /\ c \in Proc /\ Shell \in Proc
      BY ProcFacts DEF Shell, Cmd
    <3>2. rd'[c] = rd[c]
      BY <3>1 DEF IInv, TypeOK
    <3>3. wr'[c] = wr[c]
      BY <3>1 DEF IInv, TypeOK
    <3> QED
      BY <3>2, <3>3
  <2> QED
    BY <2>1 DEF IInv, FdInv, ChildFds, Own
<1>5. WaitInv'
  <2>1. \A c \in Cmd : st[c] # "reaped"
    BY DEF IInv, WaitInv
  <2> QED
    BY <1>1, <2>1 DEF IInv, WaitInv, TypeOK, Cmd, Proc
<1> QED
  BY <1>2, <1>3, <1>4, <1>5 DEF IInv, FdInv

LEMMA WaitLoopInv ==
  ASSUME IInv, TypeOK', NEW c \in Cmd, WaitLoop(c) PROVE IInv'
<1> USE DEF WaitLoop, line
<1>1. CursorInv'
  BY DEF IInv, CursorInv, Launched, Launching, TypeOK
<1>2. ShellFds'
  BY DEF IInv, FdInv, ShellFds
<1>3. ASSUME NEW d \in Cmd PROVE ChildFds(d)'
  <2>1. CASE d = c
    <3>1. st[d] = "zombie" /\ st'[d] = "reaped"
      BY <2>1 DEF IInv, TypeOK
    <3> QED
      BY <3>1 DEF IInv, FdInv, ChildFds, Running
  <2>2. CASE d # c
    <3>1. st'[d] = st[d]
      BY <2>2 DEF IInv, TypeOK
    <3> QED
      BY <3>1 DEF IInv, FdInv, ChildFds, Own
  <2> QED
    BY <2>1, <2>2
<1>4. WaitInv'
  <2>1. CASE c = last
    <3>1. /\ last # 0 /\ st'[last] = "reaped" /\ st[last] # "reaped"
          /\ lastStatus' = ws'[last]
      BY <2>1 DEF IInv, TypeOK, Cmd
    <3>2. lastSigQuit = FALSE
      BY <3>1 DEF IInv, WaitInv
    <3>3. lastSigQuit' <=> ws'[last] = "SIGQUIT"
      BY <2>1, <3>2
    <3> QED
      BY <3>1, <3>3 DEF IInv, WaitInv, TypeOK
  <2>2. CASE c # last
    BY <2>2 DEF IInv, WaitInv, TypeOK, Cmd
  <2> QED
    BY <2>1, <2>2
<1> QED
  BY <1>1, <1>2, <1>3, <1>4 DEF IInv, FdInv

LEMMA UpdateExitStatusInv == IInv /\ UpdateExitStatus /\ TypeOK' => IInv'
<1> SUFFICES ASSUME IInv, UpdateExitStatus, TypeOK' PROVE IInv'
  OBVIOUS
<1> USE DEF UpdateExitStatus, line
<1>1. CursorInv'
  BY DEF IInv, CursorInv, Launched, Launching, TypeOK, Cmd
<1>2. ShellFds'
  BY DEF IInv, FdInv, ShellFds
<1>3. ASSUME NEW c \in Cmd PROVE ChildFds(c)'
  BY DEF IInv, FdInv, ChildFds, Running
<1>4. WaitInv'
  BY DEF IInv, WaitInv
<1> QED
  BY <1>1, <1>2, <1>3, <1>4 DEF IInv, FdInv

LEMMA SetupChildSignalsInv ==
  ASSUME IInv, TypeOK', NEW c \in Cmd, SetupChildSignals(c) PROVE IInv'
<1> USE DEF SetupChildSignals, parent, line, waiting
<1>1. \A d \in Cmd : st'[d] = st[d] \/ (st[d] = "forked" /\ st'[d] = "sigset")
  BY DEF IInv, TypeOK
<1>2. CursorInv'
  BY <1>1 DEF IInv, CursorInv, Launched, Launching
<1>3. ShellFds'
  BY DEF IInv, FdInv, ShellFds, Own
<1>4. ASSUME NEW d \in Cmd PROVE ChildFds(d)'
  BY <1>1 DEF IInv, FdInv, ChildFds, Own, Running
<1>5. WaitInv'
  BY <1>1 DEF IInv, WaitInv, TypeOK, Cmd, Proc
<1> QED
  BY <1>2, <1>3, <1>4, <1>5 DEF IInv, FdInv

LEMMA SetupPipesInv ==
  ASSUME IInv, TypeOK', NEW c \in Cmd, SetupPipes(c) PROVE IInv'
<1> USE DEF SetupPipes, parent, line, waiting
<1>1. st[c] = "sigset" /\ st'[c] \in Running
  BY FirstStepType DEF IInv, TypeOK
<1>2. \A d \in Cmd : d # c => /\ st'[d] = st[d] /\ rd'[d] = rd[d] /\ wr'[d] = wr[d]
                              /\ in'[d] = in[d] /\ out'[d] = out[d]
  BY ProcFacts DEF IInv, TypeOK
<1>3. CursorInv'
  BY <1>1, <1>2 DEF IInv, CursorInv, Launched, Launching, Running
<1>4. ShellFds'
  <2>1. rd'[Shell] = rd[Shell] /\ wr'[Shell] = wr[Shell]
    BY ProcFacts DEF IInv, TypeOK, Shell, Cmd
  <2> QED
    BY <2>1 DEF IInv, FdInv, ShellFds, Own
<1>5. ASSUME NEW d \in Cmd PROVE ChildFds(d)'
  <2>1. CASE d = c
    <3>1. /\ rd[c] = ({c - 1} \ {0}) \union Own(c) /\ wr[c] = Own(c)
          /\ in[c] = 0 /\ out[c] = 0
      BY <1>1 DEF IInv, FdInv, ChildFds
    <3>2. rd'[c] = {} /\ wr'[c] = {}
      BY <3>1, ProcFacts DEF IInv, TypeOK, Without, Own, Cmd
    <3>3. in'[c] = c - 1 /\ out'[c] = IF c < n THEN c ELSE 0
      BY <3>1 DEF IInv, TypeOK, Cmd
    <3> QED
      BY <1>1, <2>1, <3>2, <3>3 DEF ChildFds, Running
  <2>2. CASE d # c
    BY <1>2, <2>2 DEF IInv, FdInv, ChildFds, Own
  <2> QED
    BY <2>1, <2>2
<1>6. WaitInv'
  BY <1>1, <1>2 DEF IInv, WaitInv, TypeOK, Cmd, Proc, Running
<1> QED
  BY <1>3, <1>4, <1>5, <1>6 DEF IInv, FdInv

\* Any set of children that no longer are, or not yet were, the shell's to
\* wait for is left alone when other children end.
LEMMA EndInv ==
  ASSUME IInv, TypeOK', NEW D \in SUBSET Cmd, NEW w \in WaitStatus,
         \A c \in D : st[c] \in Alive,
         End(D, w), UNCHANGED <<pc, line, cur, prev, last, waiting, status>>
  PROVE  IInv'
<1> USE DEF End, line, waiting
<1>1. \A c \in D : /\ st[c] \notin {"none", "reaped"} /\ st'[c] = "zombie"
                   /\ rd'[c] = {} /\ wr'[c] = {} /\ in'[c] = 0 /\ out'[c] = 0
  BY ProcFacts DEF Alive, Running
<1>2. \A c \in Cmd \ D : /\ st'[c] = st[c] /\ ws'[c] = ws[c]
                         /\ rd'[c] = rd[c] /\ wr'[c] = wr[c]
                         /\ in'[c] = in[c] /\ out'[c] = out[c]
  BY ProcFacts
<1>3. CursorInv'
  <2>1. \A c \in Cmd : st'[c] = "none" <=> st[c] = "none"
    BY <1>1, <1>2
  <2> QED
    BY <2>1 DEF IInv, CursorInv, Launched, Launching
<1>4. ShellFds'
  <2>1. rd'[Shell] = rd[Shell] /\ wr'[Shell] = wr[Shell]
    BY ProcFacts DEF Shell, Cmd
  <2> QED
    BY <2>1 DEF IInv, FdInv, ShellFds, Own
<1>5. ASSUME NEW d \in Cmd PROVE ChildFds(d)'
  <2>1. CASE d \in D
    BY <1>1, <2>1 DEF ChildFds, Running
  <2>2. CASE d \notin D
    BY <1>2, <2>2 DEF IInv, FdInv, ChildFds, Own
  <2> QED
    BY <2>1, <2>2
<1>6. WaitInv'
  <2>1. \A c \in Cmd : st'[c] = "reaped" <=> st[c] = "reaped"
    BY <1>1, <1>2
  <2>2. \A c \in Cmd : st'[c] = "reaped" => ws'[c] = ws[c]
    BY <1>1, <1>2
  <2>3. \A c \in Cmd : st'[c] = "none" => st[c] = "none" /\ ws'[c] = ws[c]
    BY <1>1, <1>2
  <2>4. last = 0 \/ last \in Cmd
    BY DEF IInv, TypeOK, Proc, Cmd
  <2> QED
    BY <2>1, <2>2, <2>3, <2>4 DEF IInv, WaitInv
<1> QED
  BY <1>3, <1>4, <1>5, <1>6 DEF IInv, FdInv

LEMMA GotoInv ==
  ASSUME IInv, TypeOK', NEW c \in Cmd, NEW s \in Running, st[c] \in Running,
         Goto(c, s), UNCHANGED parent
  PROVE  IInv'
<1> USE DEF Goto, parent, line, waiting
<1>1. \A d \in Cmd : st'[d] = st[d] \/ (st[d] \in Running /\ st'[d] \in Running)
  BY DEF IInv, TypeOK
<1>2. CursorInv'
  BY <1>1 DEF IInv, CursorInv, Launched, Launching, Running
<1>3. ShellFds'
  BY DEF IInv, FdInv, ShellFds, Own
<1>4. ASSUME NEW d \in Cmd PROVE ChildFds(d)'
  BY <1>1 DEF IInv, FdInv, ChildFds, Own, Running
<1>5. WaitInv'
  BY <1>1 DEF IInv, WaitInv, TypeOK, Cmd, Proc, Running
<1> QED
  BY <1>2, <1>3, <1>4, <1>5 DEF IInv, FdInv

\* What a program in the pipeline does is an End or a Goto.
LEMMA ProgramStep ==
  ASSUME IInv, NEW c \in Cmd, Quit(c) \/ Write(c) \/ Read(c) \/ ReadTerminal(c)
  PROVE  /\ UNCHANGED parent /\ st[c] \in Running
         /\ \/ \E w \in WaitStatus : End({c}, w)
            \/ \E s \in Running : Goto(c, s)
<1>1. FirstStep(prog[c]) \in Running
  BY FirstStepType DEF IInv
<1>2. CASE Quit(c)
  BY <1>2 DEF Quit, Running, WaitStatus
<1>3. CASE Write(c)
  <2>1. st[c] \in Running /\ UNCHANGED parent
    BY <1>3 DEF Write, Running
  <2>2. End({c}, "exit0") \/ End({c}, "SIGPIPE") \/ Goto(c, FirstStep(prog[c]))
    BY <1>3 DEF Write, AfterWrite
  <2> QED
    BY <1>1, <2>1, <2>2 DEF WaitStatus
<1>4. CASE Read(c) \/ ReadTerminal(c)
  <2>1. st[c] \in Running /\ UNCHANGED parent
    BY <1>4 DEF Read, ReadTerminal, Running
  <2>2. End({c}, "exit0") \/ Goto(c, "write")
    BY <1>4 DEF Read, ReadTerminal, AfterRead
  <2> QED
    BY <2>1, <2>2 DEF WaitStatus, Running
<1> QED
  BY <1>2, <1>3, <1>4

LEMMA ProgramStepInv ==
  ASSUME IInv, TypeOK', NEW c \in Cmd,
         Quit(c) \/ Write(c) \/ Read(c) \/ ReadTerminal(c)
  PROVE  IInv'
<1>1. /\ UNCHANGED parent /\ st[c] \in Running
      /\ \/ \E w \in WaitStatus : End({c}, w)
         \/ \E s \in Running : Goto(c, s)
  BY ProgramStep
<1>2. CASE \E w \in WaitStatus : End({c}, w)
  BY <1>1, <1>2, EndInv DEF parent, Alive
<1>3. CASE \E s \in Running : Goto(c, s)
  BY <1>1, <1>3, GotoInv
<1> QED
  BY <1>1, <1>2, <1>3

LEMMA KeyboardInv ==
  ASSUME IInv, TypeOK', NEW s \in {"SIGINT", "SIGQUIT"}, Keyboard(s)
  PROVE  IInv'
BY EndInv DEF Keyboard, Alive, WaitStatus

LEMMA StepIInv == IInv /\ [Next]_vars => IInv'
<1> SUFFICES ASSUME IInv, [Next]_vars PROVE IInv'
  OBVIOUS
<1>1. TypeOK'
  BY StepType DEF IInv
<1>2. CASE UNCHANGED vars
  <2>1. TypeOK' /\ CursorInv'
    BY <1>2 DEF vars, IInv, TypeOK, CursorInv, Launched, Launching
  <2>2. FdInv'
    BY <1>2 DEF vars, IInv, FdInv, ShellFds, ChildFds, Own
  <2>3. WaitInv'
    BY <1>2 DEF vars, IInv, WaitInv
  <2> QED
    BY <2>1, <2>2, <2>3 DEF IInv
<1>3. CASE Next
  BY <1>1, <1>3, ExecLoopInv, PreparePipeInv, PreparePipeFailsInv,
     ForkHandlerInv, ForkHandlerFailsInv, HandleParentPipesInv, WaitLoopInv,
     UpdateExitStatusInv, SetupChildSignalsInv, SetupPipesInv, ProgramStepInv,
     KeyboardInv DEF Next, ParentStep, ChildStep
<1> QED
  BY <1>2, <1>3

LEMMA IInvariant == Spec => []IInv
BY InitIInv, StepIInv, PTL DEF Spec

----------------------------------------------------------------------------
(* The theorems.                                                           *)

\* A running program holds its own two pipe ends and no stray copy, in a
\* pipeline of any length and whatever pipe() and fork() refused.
THEOREM OnlyItsEnds == Spec => []ProgramHoldsOnlyItsEnds
<1>1. IInv => ProgramHoldsOnlyItsEnds
  BY DEF IInv, FdInv, ChildFds, ProgramHoldsOnlyItsEnds
<1> QED
  BY <1>1, IInvariant, PTL

\* exec_loop leaves no pipe descriptor open in the shell.
THEOREM NoPipeLeft == Spec => []ShellHoldsNoPipe
<1>1. IInv => ShellHoldsNoPipe
  BY DEF IInv, FdInv, ShellFds, ShellHoldsNoPipe
<1> QED
  BY <1>1, IInvariant, PTL

\* When update_exit_status runs, its locals describe the last launched child.
LEMMA StatusComputed ==
  ASSUME IInv, UpdateExitStatus
  PROVE  status' = IF last = 0 THEN 0 ELSE Code(ws[last])
<1>1. CASE last = 0
  BY <1>1 DEF IInv, WaitInv, UpdateExitStatus, Code
<1>2. CASE last # 0
  <2>1. last \in Cmd /\ st[last] = "reaped"
    BY <1>2 DEF IInv, TypeOK, CursorInv, Launched, UpdateExitStatus, Cmd, Proc
  <2>2. lastStatus = ws[last] /\ (lastSigQuit <=> ws[last] = "SIGQUIT")
    BY <1>2, <2>1 DEF IInv, WaitInv
  <2>3. status' = IF lastSigQuit THEN 131 ELSE Code(ws[last])
    BY <2>2 DEF UpdateExitStatus
  <2>4. ws[last] = "SIGQUIT" => Code(ws[last]) = 131
    BY DEF Code
  <2> QED
    BY <1>2, <2>2, <2>3, <2>4
<1> QED
  BY <1>1, <1>2

\* $? after a line is the status of the last launched command, in whatever
\* order the children end and are reaped.
THEOREM LastLaunchedGivesStatus == Spec => StatusOfLastLaunched
<1>1. IInv /\ [Next]_vars =>
        [pc = "wait" /\ pc' = "prompt" =>
           status' = IF last = 0 THEN 0 ELSE Code(ws[last])]_vars
  <2> SUFFICES ASSUME IInv, Next, pc = "wait", pc' = "prompt"
               PROVE  status' = IF last = 0 THEN 0 ELSE Code(ws[last])
    BY DEF vars
  <2>1. UpdateExitStatus
    BY DEF Next, ParentStep, ChildStep, ExecLoop, PreparePipe,
       PreparePipeFails, ForkHandler, ForkHandlerFails, HandleParentPipes,
       WaitLoop, SetupChildSignals, SetupPipes, Quit, Write, Read,
       ReadTerminal, Keyboard, parent
  <2> QED
    BY <2>1, StatusComputed
<1> QED
  BY <1>1, IInvariant, PTL DEF Spec, StatusOfLastLaunched

----------------------------------------------------------------------------
(* The executor implements Job.                                            *)

LEMMA InitImplements == Init => Job!Init
BY DEF Init, Job!Init, Job!Cmd, Cmd

\* Ending children is Job's EndAll.
LEMMA EndImplements ==
  ASSUME NEW D \in SUBSET Cmd, NEW w \in WaitStatus,
         \A c \in D : st[c] \in Alive, End(D, w), UNCHANGED <<pc, status>>
  PROVE  Job!Next
<1>1. Job!EndAll(D, w)
  BY DEF Job!EndAll, Job!Cmd, Cmd, End, Alive, Running
<1> QED
  BY <1>1 DEF Job!Next, Job!Cmd, Cmd

\* A step that moves children only between stages Job does not tell apart.
LEMMA StutterImplements ==
  ASSUME UNCHANGED <<ws, status>>,
         \A c \in Cmd : \/ st'[c] = st[c]
                        \/ st[c] \in Alive /\ st'[c] \in Alive
                        \/ st[c] = "zombie" /\ st'[c] = "reaped",
         \/ pc' = pc
         \/ pc \in Launching /\ pc' \in Launching
  PROVE  UNCHANGED Job!vars
BY DEF Job!vars, Alive, Running, Launching

LEMMA StopImplements ==
  ASSUME pc \in Launching, pc' = "wait", status' \in {status, 1},
         UNCHANGED <<st, ws>>
  PROVE  Job!Next
<1>1. Job!StopLaunching
  BY DEF Job!StopLaunching, Launching
<1> QED
  BY <1>1 DEF Job!Next

LEMMA LaunchImplements == ASSUME IInv, ForkHandler PROVE Job!Next
<1> USE DEF ForkHandler, line, waiting
<1>1. /\ cur \in Cmd /\ st[cur] = "none" /\ st'[cur] = "forked"
      /\ \A d \in Cmd : d < cur => st[d] # "none"
      /\ \A d \in Cmd : d # cur => st'[d] = st[d]
  BY DEF IInv, TypeOK, CursorInv, Launched, Launching, Cmd
<1>2. PICK c \in Cmd : c = cur
  BY <1>1
<1>3. Job!Launch(c)
  BY <1>1, <1>2 DEF Job!Launch, Job!Cmd, Cmd, Alive
<1> QED
  BY <1>3 DEF Job!Next, Job!Cmd, Cmd

LEMMA ReturnImplements == ASSUME IInv, UpdateExitStatus PROVE Job!Next
<1> USE DEF UpdateExitStatus, line
<1>1. \A c \in Cmd : (st[c] # "none" <=> c <= last) /\ st[c] \notin Alive
  BY DEF IInv, CursorInv, Launched, Alive, Running
<1>2. status' = IF last = 0 THEN 0 ELSE Code(ws[last])
  BY StatusComputed
<1>3. \A w : Job!Code(w) = Code(w)
  BY DEF Job!Code, Code
<1>4. \/ (\A c \in Cmd : st[c] = "none") /\ status' = 0
      \/ \E c \in Cmd : /\ st[c] # "none" /\ \A d \in Cmd : d > c => st[d] = "none"
                        /\ status' = Job!Code(ws[c])
  <2>1. CASE last = 0
    BY <1>1, <1>2, <2>1 DEF Cmd
  <2>2. CASE last # 0
    <3>1. last \in Cmd
      BY <2>2 DEF IInv, TypeOK, Proc, Cmd
    <3> QED
      BY <1>1, <1>2, <1>3, <2>2, <3>1 DEF Cmd
  <2> QED
    BY <2>1, <2>2
<1>5. Job!Return
  BY <1>1, <1>4 DEF Job!Return, Job!IsLastLaunched, Job!Cmd, Cmd
<1> QED
  BY <1>5 DEF Job!Next

LEMMA StepImplements == IInv /\ [Next]_vars => [Job!Next]_(Job!vars)
<1> SUFFICES ASSUME IInv, [Next]_vars PROVE Job!Next \/ UNCHANGED Job!vars
  OBVIOUS
<1>0. TypeOK
  BY DEF IInv
<1>1. CASE ExecLoop
  <2>1. Job!Begin
    BY <1>1 DEF ExecLoop, Job!Begin, kernel
  <2> QED
    BY <2>1 DEF Job!Next
<1>2. CASE PreparePipe
  BY <1>2, StutterImplements DEF PreparePipe, Launching
<1>3. CASE PreparePipeFails \/ ForkHandlerFails
  BY <1>3, StopImplements DEF PreparePipeFails, ForkHandlerFails, Launching
<1>4. CASE ForkHandler
  BY <1>4, LaunchImplements
<1>5. CASE HandleParentPipes
  <2>1. CASE HasNext
    BY <1>5, <2>1, StutterImplements DEF HandleParentPipes, Launching
  <2>2. CASE ~HasNext
    BY <1>5, <2>2, StopImplements DEF HandleParentPipes, Launching
  <2> QED
    BY <2>1, <2>2
<1>6. CASE UpdateExitStatus
  BY <1>6, ReturnImplements
<1>7. ASSUME NEW c \in Cmd, WaitLoop(c) PROVE UNCHANGED Job!vars
  BY <1>0, <1>7, StutterImplements DEF WaitLoop, TypeOK
<1>8. ASSUME NEW c \in Cmd, SetupChildSignals(c) PROVE UNCHANGED Job!vars
  BY <1>0, <1>8, StutterImplements DEF SetupChildSignals, parent, TypeOK, Alive
<1>9. ASSUME NEW c \in Cmd, SetupPipes(c) PROVE UNCHANGED Job!vars
  BY <1>0, <1>9, FirstStepType, StutterImplements DEF SetupPipes, parent, TypeOK, Alive
<1>10. ASSUME NEW c \in Cmd, Quit(c) \/ Write(c) \/ Read(c) \/ ReadTerminal(c)
       PROVE  Job!Next \/ UNCHANGED Job!vars
  <2>1. /\ UNCHANGED parent /\ st[c] \in Running
        /\ \/ \E w \in WaitStatus : End({c}, w)
           \/ \E s \in Running : Goto(c, s)
    BY <1>10, ProgramStep
  <2>2. CASE \E w \in WaitStatus : End({c}, w)
    BY <1>10, <2>1, <2>2, EndImplements DEF parent, Alive
  <2>3. CASE \E s \in Running : Goto(c, s)
    BY <1>0, <2>1, <2>3, StutterImplements DEF Goto, parent, TypeOK, Alive
  <2> QED
    BY <2>1, <2>2, <2>3
<1>11. ASSUME NEW s \in {"SIGINT", "SIGQUIT"}, Keyboard(s) PROVE Job!Next
  BY <1>11, EndImplements DEF Keyboard, Alive, WaitStatus
<1>12. CASE UNCHANGED vars
  BY <1>12, StutterImplements DEF vars
<1> QED
  BY <1>1, <1>2, <1>3, <1>4, <1>5, <1>6, <1>7, <1>8, <1>9, <1>10, <1>11, <1>12
     DEF Next, ParentStep, ChildStep

\* The executor implements Job: the pipes, the signals, the order of reaping
\* and the refusals of pipe() and fork() are invisible through it.
THEOREM ImplementsJob == Spec => JobSpec
BY InitImplements, StepImplements, IInvariant, PTL DEF Spec, JobSpec, Job!Spec
=============================================================================
