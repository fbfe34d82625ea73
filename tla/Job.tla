-------------------------------- MODULE Job ---------------------------------
(***************************************************************************)
(* What running a command line promises, whatever the mechanics: commands  *)
(* are launched from left to right, possibly not all of them; each ends    *)
(* once, with an outcome that then never changes; and the prompt comes     *)
(* back only when every launched command has ended, with the outcome of    *)
(* the last launched one as the status of the line.                        *)
(***************************************************************************)
EXTENDS Integers

CONSTANTS MaxCmds, Outcomes

Cmd == 1 .. MaxCmds

VARIABLES phase,    \* "prompt", "launch" or "wait"
          stage,    \* each command: "idle", "running" or "ended"
          outcome,  \* how each ended command ended
          status    \* what $? gives

vars == <<phase, stage, outcome, status>>

Code(w) == CASE w = "exit0"   -> 0
             [] w = "exit1"   -> 1
             [] w = "SIGINT"  -> 130
             [] w = "SIGQUIT" -> 131
             [] w = "SIGPIPE" -> 141

Init ==
  /\ phase = "prompt" /\ stage = [c \in Cmd |-> "idle"]
  /\ outcome = [c \in Cmd |-> "exit0"] /\ status = 0

Begin ==
  /\ phase = "prompt" /\ phase' = "launch"
  /\ UNCHANGED <<stage, outcome, status>>

Launch(c) ==
  /\ phase = "launch"
  /\ stage[c] = "idle" /\ \A d \in Cmd : d < c => stage[d] # "idle"
  /\ stage' = [stage EXCEPT ![c] = "running"]
  /\ UNCHANGED <<phase, outcome, status>>

\* The commands of D end together (one keyboard signal can end several).
EndAll(D, w) ==
  /\ \A c \in D : stage[c] = "running"
  /\ stage' = [c \in Cmd |-> IF c \in D THEN "ended" ELSE stage[c]]
  /\ outcome' = [c \in Cmd |-> IF c \in D THEN w ELSE outcome[c]]
  /\ UNCHANGED <<phase, status>>

\* No further command is launched: all were, or the system refused one, in
\* which case the status is 1 for as long as the line lasts.
StopLaunching ==
  /\ phase = "launch" /\ phase' = "wait"
  /\ status' \in {status, 1}
  /\ UNCHANGED <<stage, outcome>>

IsLastLaunched(c) == stage[c] # "idle" /\ \A d \in Cmd : d > c => stage[d] = "idle"

Return ==
  /\ phase = "wait"
  /\ \A c \in Cmd : stage[c] # "running"
  /\ \/ (\A c \in Cmd : stage[c] = "idle") /\ status' = 0
     \/ \E c \in Cmd : IsLastLaunched(c) /\ status' = Code(outcome[c])
  /\ phase' = "prompt"
  /\ stage' = [c \in Cmd |-> "idle"]
  /\ outcome' = [c \in Cmd |-> "exit0"]

Next ==
  \/ Begin \/ StopLaunching \/ Return
  \/ \E c \in Cmd : Launch(c)
  \/ \E D \in SUBSET Cmd, w \in Outcomes : EndAll(D, w)

Spec == Init /\ [][Next]_vars
=============================================================================
