----------------------------- MODULE PathSearch -----------------------------
(***************************************************************************)
(* From the first word of a command to a program, in the child: the search *)
(* along PATH, the checks of handle_exec_error, execve, and the status the *)
(* child leaves when there is nothing to run.  Each access(2) is a step,   *)
(* and other processes change files between any two of them.               *)
(***************************************************************************)
EXTENDS Naturals, Sequences

CONSTANTS NULL,        \* the pointer
          Dirs,        \* directories PATH may name
          Paths,       \* values of PATH: sequences of directories, or NULL
          MaxChanges   \* how often other processes change a file

\* Where the command may be: in a directory, in ./, or where a '/' says.
Places == Dirs \union {"cwd", "slash"}

\* What may be there: nothing, a file that cannot be executed, a program, a
\* script without interpreter, one whose interpreter is missing, a directory
\* that can be entered, or one that cannot.
Kinds == {"none", "plain", "program", "script", "broken", "dir", "closed"}
Executable(kind) == kind \in {"program", "script", "broken", "dir"}

\* args_array[0]: ".", "..", "", a name with a '/', or any other.
Words == {"dot", "dotdot", "empty", "slash", "name"}

ASSUME NullAssumption == NULL \notin Places \union Seq(Dirs) \union Nat
ASSUME PathsAssumption == Paths \subseteq Seq(Dirs) \union {NULL}
ASSUME MaxChangesAssumption == MaxChanges \in Nat

VARIABLES
  word,     \* args_array[0]
  path,     \* PATH, split at ':'
  files,    \* what is at each place
  touched,  \* the places changed since the search began, one for each change
  at,       \* what the child does next
  i,        \* try_paths' index
  denied,   \* its permission_denied
  found,    \* the path get_path returned
  ran,      \* the place of the program that runs, once one does
  code      \* or the status the child exits with

vars == <<word, path, files, touched, at, i, denied, found, ran, code>>
input == <<word, path>>
world == <<files, touched>>
result == <<ran, code>>

Steps == {"special", "get_path", "try", "tryX", "not_found", "exists", "is_dir", "access", "execve",
          "sh", "done"}

TypeOK ==
  /\ word \in Words /\ path \in Paths
  /\ files \in [Places -> Kinds] /\ touched \in Seq(Places) /\ Len(touched) <= MaxChanges
  /\ at \in Steps /\ i \in Nat \ {0}
  /\ denied \in Places \union {NULL} /\ found \in Places \union {NULL}
  /\ ran \in Places \union {NULL} /\ code \in {2, 126, 127, NULL}
  /\ IF at = "done" THEN ran = NULL <=> code # NULL ELSE ran = NULL /\ code = NULL

Init ==
  /\ word \in Words /\ path \in Paths /\ files \in [Places -> Kinds] /\ touched = <<>>
  /\ at = "special" /\ i = 1 /\ denied = NULL /\ found = NULL
  /\ ran = NULL /\ code = NULL

----------------------------------------------------------------------------
Exit(status) == at' = "done" /\ code' = status /\ UNCHANGED ran
GoTo(step) == at' = step /\ UNCHANGED result

\* check_special_cases
CheckSpecialCases ==
  /\ at = "special"
  /\ CASE word = "dot" -> Exit(2)
       [] word = "dotdot" -> Exit(127)
       [] word = "slash" /\ files["slash"] = "none" -> Exit(127)
       [] OTHER -> GoTo("get_path")
  /\ UNCHANGED <<input, world, i, denied, found>>

\* get_path, but for the loop of try_paths; try_cwd_path asks once.
GetPath ==
  /\ at = "get_path"
  /\ LET place == CASE word = "empty" -> NULL
                    [] word = "slash" -> IF files["slash"] = "none" THEN NULL ELSE "slash"
                    [] word = "name" -> IF Executable(files["cwd"]) THEN "cwd" ELSE NULL
     IN  IF word = "name" /\ path # NULL THEN GoTo("try") /\ UNCHANGED found
         ELSE found' = place /\ GoTo(IF place = NULL THEN "not_found" ELSE "exists")
  /\ UNCHANGED <<input, world, i, denied>>

\* check_path_access, F_OK.
TryExists ==
  /\ at = "try" /\ i <= Len(path)
  /\ IF files[path[i]] = "none" THEN i' = i + 1 /\ GoTo("try")
     ELSE GoTo("tryX") /\ UNCHANGED i
  /\ UNCHANGED <<input, world, denied, found>>

\* Mutant: the first file there is, is taken.
TryExecutableFirst ==
  /\ at = "tryX" /\ found' = path[i] /\ GoTo("exists")
  /\ UNCHANGED <<input, world, i, denied>>

\* check_path_access, X_OK.
TryExecutable ==
  /\ at = "tryX"
  /\ IF Executable(files[path[i]])
     THEN found' = path[i] /\ GoTo("exists") /\ UNCHANGED <<i, denied>>
     ELSE /\ denied' = IF denied = NULL THEN path[i] ELSE denied
          /\ i' = i + 1 /\ GoTo("try") /\ UNCHANGED found
  /\ UNCHANGED <<input, world>>

\* Mutant: a file without permission is forgotten.
TryPathsReturnNothing ==
  /\ at = "try" /\ i > Len(path)
  /\ GoTo("not_found")
  /\ UNCHANGED <<input, world, i, denied, found>>

TryPathsReturn ==
  /\ at = "try" /\ i > Len(path)
  /\ found' = denied /\ GoTo(IF denied = NULL THEN "not_found" ELSE "exists")
  /\ UNCHANGED <<input, world, i, denied>>

HandleCommandNotFound ==
  /\ at = "not_found" /\ Exit(127)
  /\ UNCHANGED <<input, world, i, denied, found>>

\* handle_exec_error: F_OK, then stat, then X_OK.
HandleExecErrorExists ==
  /\ at = "exists"
  /\ IF files[found] = "none" THEN Exit(127) ELSE GoTo("is_dir")
  /\ UNCHANGED <<input, world, i, denied, found>>

HandleExecErrorIsDir ==
  /\ at = "is_dir"
  /\ IF files[found] \in {"dir", "closed"} THEN Exit(126) ELSE GoTo("access")
  /\ UNCHANGED <<input, world, i, denied, found>>

HandleExecErrorAccess ==
  /\ at = "access"
  /\ IF ~Executable(files[found]) THEN Exit(126) ELSE GoTo("execve")
  /\ UNCHANGED <<input, world, i, denied, found>>

\* Mutant: after a failed execve the search goes on.
ExecveRetries ==
  /\ at = "execve"
  /\ CASE files[found] = "program" -> at' = "done" /\ ran' = found /\ UNCHANGED code
       [] files[found] = "script" -> GoTo("sh")
       [] OTHER -> GoTo("get_path")
  /\ UNCHANGED <<input, world, i, denied, found>>

\* execve(path); only ENOEXEC leads to try_shell_exec.
Execve ==
  /\ at = "execve"
  /\ CASE files[found] = "program" -> at' = "done" /\ ran' = found /\ UNCHANGED code
       [] files[found] = "script" -> GoTo("sh")
       [] OTHER -> Exit(126)
  /\ UNCHANGED <<input, world, i, denied, found>>

\* try_shell_exec: /bin/sh with the path as its only argument.
TryShellExec ==
  /\ at = "sh" /\ at' = "done" /\ ran' = found
  /\ UNCHANGED <<input, world, i, denied, found, code>>

Search ==
  \/ CheckSpecialCases \/ GetPath
  \/ TryExists \/ TryExecutable \/ TryPathsReturn \/ HandleCommandNotFound
  \/ HandleExecErrorExists \/ HandleExecErrorIsDir \/ HandleExecErrorAccess
  \/ Execve \/ TryShellExec

\* Another process creates, removes or replaces a file, or changes its mode.
Change ==
  /\ at # "done" /\ Len(touched) < MaxChanges
  /\ \E place \in Places : \E kind \in Kinds \ {files[place]} :
       /\ files' = [files EXCEPT ![place] = kind]
       /\ touched' = Append(touched, place)
  /\ UNCHANGED <<input, at, i, denied, found, result>>

Next == Search \/ Change

Spec == Init /\ [][Next]_vars /\ WF_vars(Search)

----------------------------------------------------------------------------
(* Properties.                                                             *)

Steady(place) == \A n \in DOMAIN touched : touched[n] # place
SearchesPath == word = "name" /\ path # NULL

\* A program in PATH that nobody touches is run, whatever happens elsewhere, if
\* all that stands before it in PATH is files without permission, and missing
\* ones; a directory of that name, which passes access(X_OK), does hide it
\* (try_paths.c:28-65, exec_cmd.c:24-44).
SteadyProgramRuns ==
  at = "done" /\ SearchesPath =>
    \A k \in DOMAIN path :
      /\ Steady(path[k]) /\ files[path[k]] = "program"
      /\ \A j \in 1 .. k - 1 : Steady(path[j]) /\ ~Executable(files[path[j]])
      => ran = path[k]

\* What the status says of the files is so.  127: nothing of that name is in
\* PATH, no file that stayed as it is, unless what the search had found was
\* taken away before it could be run.  126: the search found something, and if
\* that stayed as it is, it really cannot be run: a directory, no permission,
\* or no interpreter (exec_helper.c:57-93, exec_cmd.c:24-44, 88-94).
StatusTellsWhy ==
  /\ code = 127 /\ SearchesPath =>
       \/ \A k \in DOMAIN path : Steady(path[k]) => files[path[k]] = "none"
       \/ found # NULL /\ ~Steady(found)
  /\ code = 126 =>
       /\ found # NULL
       /\ Steady(found) => files[found] \in Kinds \ {"none", "program", "script"}
=============================================================================
