--------------------------------- MODULE Cd ----------------------------------
(***************************************************************************)
(* cd: the directory the process is in, the path PWD says it is in, and    *)
(* other processes that make and remove directories between its calls.     *)
(* OLDPWD and the list that holds both are in Environment.                 *)
(***************************************************************************)
EXTENDS Naturals, Sequences, SequencesExt

CONSTANTS
  Directories, Root,  \* directories that may exist at some time
  Parent,      \* the directory each is (to be) made in; Root's is Root
  Name,        \* its name there
  Links,       \* symbolic links in Root: name -> absolute path
  Initial,     \* directories there at the start
  Args,        \* what the user gives to cd
  Homes,       \* what HOME may be at a cd: arguments, or Unset
  NoArg,       \* cd alone
  Unset,       \* no such variable
  None         \* no such directory, or getcwd's NULL

Up == [absolute |-> FALSE, path |-> <<"..">>]

Names == {Name[d] : d \in Directories} \union DOMAIN Links

Segments == Names \union {".", ".."}
Path == Seq(Segments)
Arguments == [absolute : BOOLEAN, path : Path]

\* Every directory is below Root.
Tree ==
  \A S \in SUBSET Directories :
    Root \in S /\ (\A d \in Directories : Parent[d] \in S => d \in S) => S = Directories

ASSUME DirsAssumption ==
  /\ Root \in Directories /\ None \notin Directories
  /\ Parent \in [Directories -> Directories] /\ Parent[Root] = Root /\ Tree
  /\ DOMAIN Name = Directories /\ {".", ".."} \cap Names = {}
  /\ \A l \in DOMAIN Links : Links[l] \in Path /\ l \notin {Name[d] : d \in Directories}
ASSUME InitialAssumption ==
  /\ Initial \subseteq Directories /\ Root \in Initial
  /\ \A d \in Initial : Parent[d] \in Initial
  /\ \A d, e \in Initial \ {Root} : Parent[d] = Parent[e] /\ Name[d] = Name[e] => d = e
ASSUME ArgsAssumption ==
  /\ Unset \notin Path /\ None \notin Path
  /\ Args \subseteq Arguments \union {NoArg} /\ Homes \subseteq Arguments \union {Unset}

VARIABLES
  disk,    \* each directory: "absent", "there" or, once deleted, "removed"
  cwd,     \* the directory the process is in, which may be removed
  pwd,     \* PWD's value, an absolute path, or Unset
  pc,      \* "prompt", or the step of builtin_cd
  arg,     \* dir
  old,     \* old_pwd_copy
  status

cdVars == <<disk, cwd, pwd, pc, arg, old, status>>

CdTypes ==
  /\ disk \in [Directories -> {"absent", "there", "removed"}] /\ cwd \in Directories
  /\ pwd \in Path \union {Unset} /\ old \in Path
  /\ pc \in {"prompt", "save", "logical", "direct", "getcwd"}
  /\ arg \in Args \union Homes /\ status \in {0, 1}

----------------------------------------------------------------------------
(* The system: chdir and getcwd.                                           *)

There(d) == disk[d] = "there"

\* A removed directory still has its "." and "..".
EnterDir(d, n) ==
  LET inside == {e \in Directories \ {Root} : There(e) /\ Parent[e] = d /\ Name[e] = n}
  IN  IF d = None THEN None
      ELSE CASE n = "." -> d
             [] n = ".." -> Parent[d]
             [] OTHER -> IF inside = {} THEN None ELSE CHOOSE e \in inside : TRUE

\* Where a link leads, which has no other in its way.
Follow(target) ==
  LET to[k \in 0 .. Len(target)] == IF k = 0 THEN Root ELSE EnterDir(to[k - 1], target[k])
  IN  to[Len(target)]

Enter(d, n) == IF d = Root /\ n \in DOMAIN Links THEN Follow(Links[n]) ELSE EnterDir(d, n)

\* Where chdir(path) leads from directory d.
Walk(d, path) ==
  LET to[k \in 0 .. Len(path)] == IF k = 0 THEN d ELSE Enter(to[k - 1], path[k])
  IN  to[Len(path)]

PathTo[d \in Directories] == IF d = Root THEN <<>> ELSE Append(PathTo[Parent[d]], Name[d])

Getcwd == IF There(cwd) THEN PathTo[cwd] ELSE None

----------------------------------------------------------------------------
(* Paths as strings.                                                       *)

\* Mutant: ".." only drops itself.
PushKeepsParent(stack, segment) ==
  IF segment \in {".", ".."} THEN stack ELSE Append(stack, segment)

\* process_path_segment.
Push(stack, segment) ==
  CASE segment = ".." -> IF stack = <<>> THEN stack ELSE Front(stack)
    [] segment = "." -> stack
    [] OTHER -> Append(stack, segment)

Normalize(path) ==
  LET stack[k \in 0 .. Len(path)] == IF k = 0 THEN <<>> ELSE Push(stack[k - 1], path[k])
  IN  stack[Len(path)]

ResolveDotdotLogical(path) == IF path = <<>> THEN path ELSE Front(path)

\* Mutant: no case of its own for "..".
JoinPath(base, a) == base \o a.path

MakeAbsolutePath(base, a) ==
  IF a = Up THEN ResolveDotdotLogical(base) ELSE base \o a.path

\* update_env_var: PWD is changed only where it is set.
UpdatePwd(path) == IF pwd = Unset THEN Unset ELSE path

----------------------------------------------------------------------------

CdInit ==
  /\ disk = [d \in Directories |-> IF d \in Initial THEN "there" ELSE "absent"]
  /\ cwd = Root /\ pwd = <<>> /\ old = <<>>
  /\ pc = "prompt" /\ status = 0 /\ arg \in Args

Return(s) == pc' = "prompt" /\ status' = s

\* get_target_directory.
Call(a, home) ==
  /\ pc = "prompt"
  /\ \/ /\ a = NoArg /\ home = Unset
        /\ Return(1) /\ arg' = a
     \/ /\ a = NoArg => home # Unset
        /\ arg' = IF a = NoArg THEN home ELSE a
        /\ pc' = "save" /\ UNCHANGED status
  /\ UNCHANGED <<disk, cwd, pwd, old>>

SaveCurrentPwd ==
  /\ pc = "save"
  /\ LET saved == IF pwd = Unset THEN Getcwd ELSE pwd IN
     \/ saved = None /\ Return(1) /\ UNCHANGED old
     \/ saved # None /\ old' = saved /\ pc' = "logical" /\ UNCHANGED status
  /\ UNCHANGED <<disk, cwd, pwd, arg>>

\* chdir to PWD/dir as a string, and PWD becomes that string, normalised.
TryLogicalCd ==
  /\ pc = "logical"
  /\ LET target == MakeAbsolutePath(old, arg)
         dir == Walk(Root, target)
     IN  \/ /\ arg.absolute \/ dir = None
            /\ pc' = "direct" /\ UNCHANGED <<cwd, pwd, status>>
         \/ /\ ~arg.absolute /\ dir # None
            /\ cwd' = dir /\ pwd' = UpdatePwd(Normalize(target))
            /\ Return(0)
  /\ UNCHANGED <<disk, arg, old>>

\* Mutant: no second chdir.
ExecuteCdLogicalOnly ==
  /\ pc = "direct" /\ Return(1)
  /\ UNCHANGED <<disk, cwd, pwd, arg, old>>

\* execute_cd's own chdir, and handle_chdir_failure.
ExecuteCd ==
  /\ pc = "direct"
  /\ LET dir == Walk(IF arg.absolute THEN Root ELSE cwd, arg.path) IN
     \/ dir = None /\ Return(1) /\ UNCHANGED cwd
     \/ dir # None /\ cwd' = dir /\ pc' = "getcwd" /\ UNCHANGED status
  /\ UNCHANGED <<disk, pwd, arg, old>>

\* getcwd failing is reported, and cd still returns 0.
UpdatePwdAfterCd ==
  /\ pc = "getcwd"
  /\ pwd' = IF Getcwd = None THEN pwd ELSE UpdatePwd(Getcwd)
  /\ Return(0)
  /\ UNCHANGED <<disk, cwd, arg, old>>

UnsetPwd == pc = "prompt" /\ pwd' = Unset /\ UNCHANGED <<disk, cwd, pc, arg, old, status>>

\* Other processes, at any time.
Mkdir(d) ==
  /\ disk[d] = "absent" /\ There(Parent[d])
  /\ \A e \in Directories : There(e) /\ Parent[e] = Parent[d] => Name[e] # Name[d]
  /\ disk' = [disk EXCEPT ![d] = "there"]
  /\ UNCHANGED <<cwd, pwd, pc, arg, old, status>>

Rmdir(d) ==
  /\ There(d) /\ d # Root
  /\ \A e \in Directories : Parent[e] = d => ~There(e)
  /\ disk' = [disk EXCEPT ![d] = "removed"]
  /\ UNCHANGED <<cwd, pwd, pc, arg, old, status>>

CdNext ==
  \/ \E a \in Args, home \in Homes : Call(a, home)
  \/ SaveCurrentPwd \/ TryLogicalCd \/ ExecuteCd \/ UpdatePwdAfterCd \/ UnsetPwd
  \/ \E d \in Directories : Mkdir(d) \/ Rmdir(d)

CdSpec == CdInit /\ [][CdNext]_cdVars

----------------------------------------------------------------------------
(* Properties.                                                             *)

\* The string ahead goes up through a link (cd link/.., or cd ../x behind one).
UpThroughLink ==
  /\ pc = "logical" /\ ~arg.absolute
  /\ LET target == MakeAbsolutePath(old, arg) IN
     \E k \in DOMAIN target :
       LET above == Normalize(SubSeq(target, 1, k - 1))
       IN  target[k] = ".." /\ above # <<>> /\ Last(above) \in DOMAIN Links

\* cd works on PWD as text and the system on directories, and they must not
\* drift apart: at the prompt, PWD, where it is set, leads to the directory the
\* shell is in, whatever has been removed and made again in between.  With
\* symbolic links this is only so while no argument goes up through one, as
\* UpThroughLink says: the system goes up from where the link leads.
PwdLeadsToCwd ==
  /\ CdTypes
  /\ pc = "prompt" /\ pwd # Unset /\ There(cwd) => Walk(Root, pwd) = cwd

\* A cd that is over, or has made its second chdir.
Done == pc # "getcwd" /\ pc' \in {"prompt", "getcwd"} /\ pc # "prompt"

\* cd .. leaves a directory removed under the shell, however much of the path
\* above it is gone: it never leaves the shell where it was.  (notes, 6, test 1)
CdUpMoves ==
  [][Done /\ arg = Up /\ ~There(cwd) /\ pwd # Unset => cwd' # cwd]_cdVars

\* The same after unset PWD, as the session in notes, 6, test 2 has it.
CdUpMovesUnset ==
  [][Done /\ arg = Up /\ ~There(cwd) => cwd' # cwd]_cdVars
=============================================================================
