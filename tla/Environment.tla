----------------------------- MODULE Environment -----------------------------
(***************************************************************************)
(* The shell's environment: the linked list shell->env, from init_env on,  *)
(* as export, unset and cd change it and as a program receives it.         *)
(***************************************************************************)
EXTENDS Naturals, Sequences, SequencesExt

CONSTANTS Keys,      \* names that occur
          Values,    \* values that occur
          Dirs,      \* values cd gives to PWD and OLDPWD
          Args,      \* arguments of export and unset
          Environs,  \* what main may receive as envp: sequences of [key, value]
          MaxArgs    \* bound: arguments of one export or unset

NULL == "NULL"       \* no value: "A" in envp, a node made by export A
Unset == "unset"     \* only seen through the refinement mapping

\* Values the shell itself gives: the current directory, the next shell level.
Given == {"", "cwd", "level", "/usr/bin/env"}

\* An argument: NAME=value, NAME+=value, NAME, or not an identifier.
Arg == [mode : {"set", "append", "declare", "invalid"}, key : Keys, value : Values]
Binding == [key : Keys, value : Values \union {NULL}]

ASSUME KeysAssumption == {"PWD", "OLDPWD", "SHLVL", "_"} \subseteq Keys
ASSUME ValuesAssumption == Given \union Dirs \subseteq Values /\ {NULL, Unset} \cap Values = {}
ASSUME ArgsAssumption == Args \subseteq Arg
\* A parent that passes a name twice gets only the first binding looked at
\* and both passed on; the promise of EnvMap is not made to it.
ASSUME EnvironsAssumption ==
  \A e \in Environs : /\ e \in Seq(Binding)
                      /\ \A i, j \in DOMAIN e : e[i].key = e[j].key => i = j
ASSUME MaxArgsAssumption == MaxArgs \in Nat

VARIABLES
  pc,      \* "prompt", "export", "unset", or "aborted"
  env,     \* shell->env.  The flag exported is 1 in every node once it is linked
  args,    \* arguments still to be processed
  err,     \* ft_export's has_error, ft_unset's error
  status   \* shell->last_exit_status

vars == <<pc, env, args, err, status>>

\* Types only; err and status stay what has_error and $? may be.
TypeOK ==
  /\ pc \in {"prompt", "export", "unset", "aborted"}
  /\ env \in Seq(Binding) /\ args \in Seq(Args)
  /\ err \in {0, 1} /\ status \in {0, 1}

----------------------------------------------------------------------------
(* The list.                                                               *)

Has(l, k) == \E i \in DOMAIN l : l[i].key = k
\* Where strcmp stops: the first node with this key.
First(l, k) == CHOOSE i \in DOMAIN l :
                 l[i].key = k /\ \A j \in DOMAIN l : l[j].key = k => i <= j

NewNode(k, v) == [key |-> k, value |-> v]
AddNode(l, k, v) == Append(l, NewNode(k, v))

\* update_env_var, update_existing_var: only if the key is there.
UpdateVar(l, k, v) ==
  IF Has(l, k) THEN [l EXCEPT ![First(l, k)] = NewNode(k, v)] ELSE l

\* Mutant: update_or_add_env does not look for the key first.
AddEnv(l, k, v) == AddNode(l, k, v)

UpdateOrAddEnv(l, k, v) ==
  IF Has(l, k) THEN UpdateVar(l, k, v) ELSE AddNode(l, k, v)

\* Mutant: remove_env_node unlinks the node after the one it found.
RemoveNextEnvNode(l, k) ==
  IF Has(l, k) /\ First(l, k) < Len(l) THEN RemoveAt(l, First(l, k) + 1) ELSE l

RemoveEnvNode(l, k) == IF Has(l, k) THEN RemoveAt(l, First(l, k)) ELSE l

\* get_env_value: NULL for no node and for a node without a value.
GetEnvValue(l, k) == IF Has(l, k) THEN l[First(l, k)].value ELSE NULL

\* env_to_tab: what execve passes on.  A node without a value becomes "A=".
EnvToTab(l) ==
  [i \in DOMAIN l |-> NewNode(l[i].key, IF l[i].value = NULL THEN "" ELSE l[i].value)]

\* new_env_node, init_pwd, init_shlvl, init_underscore, init_oldpwd.
FromEnvp(e) ==
  [i \in DOMAIN e |-> NewNode(e[i].key, IF e[i].value = NULL THEN "" ELSE e[i].value)]
InitPwd(l) == IF GetEnvValue(l, "PWD") # NULL THEN l ELSE AddNode(l, "PWD", "cwd")
InitShlvl(l) == UpdateOrAddEnv(l, "SHLVL", "level")
InitUnderscore(l) == UpdateOrAddEnv(l, "_", "/usr/bin/env")
InitOldpwd(l) == IF Has(l, "OLDPWD") THEN l ELSE AddNode(l, "OLDPWD", "")
InitEnv(e) == InitOldpwd(InitUnderscore(InitShlvl(InitPwd(FromEnvp(e)))))

Init ==
  /\ pc = "prompt" /\ args = <<>> /\ err = 0 /\ status = 0
  /\ \E e \in Environs : env = InitEnv(e)

----------------------------------------------------------------------------
(* The builtins.                                                           *)

Builtin(name) ==
  /\ pc = "prompt" /\ pc' = name /\ err' = 0
  /\ args' \in UNION {[1 .. m -> Args] : m \in 0 .. MaxArgs}
  /\ UNCHANGED <<env, status>>

\* handle_append_export: what NAME is bound to, the text it had followed by v.
\* Joined texts are not told apart.
Appended(l, k, v) == IF GetEnvValue(l, k) = NULL THEN {v} ELSE Values

\* One iteration of ft_export.  For NAME+=value, handle_append_export binds the
\* name and frees value; process_export_arg frees it again: free() aborts the
\* shell.
ExportArg ==
  /\ pc = "export" /\ args # <<>>
  /\ LET a == Head(args) IN
     \/ /\ a.mode = "invalid"
        /\ err' = 1 /\ UNCHANGED <<pc, env>>
     \/ /\ a.mode = "declare"
        /\ env' = IF Has(env, a.key) THEN env ELSE UpdateOrAddEnv(env, a.key, NULL)
        /\ UNCHANGED <<pc, err>>
     \/ /\ a.mode = "set"
        /\ env' = UpdateOrAddEnv(env, a.key, a.value)
        /\ UNCHANGED <<pc, err>>
     \/ /\ a.mode = "append"
        /\ \E v \in Appended(env, a.key, a.value) :
             env' = UpdateOrAddEnv(env, a.key, v)
        /\ pc' = "aborted" /\ UNCHANGED err
  /\ args' = Tail(args)
  /\ UNCHANGED status

\* One iteration of ft_unset.  Only a plain NAME is an identifier to it.
UnsetArg ==
  /\ pc = "unset" /\ args # <<>>
  /\ IF Head(args).mode = "declare"
     THEN env' = RemoveEnvNode(env, Head(args).key) /\ UNCHANGED <<err, status>>
     ELSE err' = 1 /\ status' = 1 /\ UNCHANGED env
  /\ args' = Tail(args)
  /\ UNCHANGED pc

Return ==
  /\ pc \in {"export", "unset"} /\ args = <<>>
  /\ pc' = "prompt" /\ status' = err
  /\ UNCHANGED <<env, args, err>>

\* cd to a relative path: update_pwd_vars.  A new OLDPWD node is appended
\* through a copy of the list's head, so an empty list stays empty.
CdRelative(old, new) ==
  /\ pc = "prompt" /\ status' = 0
  /\ env' = IF env = <<>> THEN env
            ELSE UpdateVar(UpdateOrAddEnv(env, "OLDPWD", old), "PWD", new)
  /\ UNCHANGED <<pc, args, err>>

\* cd to an absolute path: update_pwd_after_cd.  PWD is kept when getcwd fails.
CdAbsolute(old, new) ==
  /\ pc = "prompt" /\ status' = 0
  /\ \E e \in {env, UpdateVar(env, "PWD", new)} : env' = UpdateVar(e, "OLDPWD", old)
  /\ UNCHANGED <<pc, args, err>>

\* ./minishell run from this shell: the new shell starts with what execve gives
\* it and is the one followed from here on.
Nested ==
  /\ pc = "prompt" /\ env' = InitEnv(EnvToTab(env))
  /\ args' = <<>> /\ err' = 0 /\ status' = 0
  /\ UNCHANGED pc

Next ==
  \/ Builtin("export") \/ Builtin("unset")
  \/ ExportArg \/ UnsetArg \/ Return \/ Nested
  \/ \E old, new \in Dirs : CdRelative(old, new) \/ CdAbsolute(old, new)

Spec == Init /\ [][Next]_vars

----------------------------------------------------------------------------
(* Properties.                                                             *)

\* However a name is exported, unset, exported again without a value or set
\* by cd, the list never holds it twice: a second node would come back to
\* life after unset, and be passed to programs along with the first.
OneNodePerKey == \A i, j \in DOMAIN env : env[i].key = env[j].key => i = j

\* The list behaves as a map: each argument of export and unset, each cd and each
\* start of a shell within the shell changes the bindings it names, as it says,
\* and no other, in any order and number.
Map == INSTANCE EnvMap WITH
  map <- [k \in Keys |-> IF ~Has(env, k) THEN Unset ELSE env[First(env, k)].value],
  builtin <- pc,
  Declared <- NULL,
  Default <- [k \in {"PWD", "OLDPWD"} |-> IF k = "PWD" THEN "cwd" ELSE ""],
  Replaced <- [k \in {"SHLVL", "_"} |-> IF k = "SHLVL" THEN "level" ELSE "/usr/bin/env"]

MapSpec == Map!Spec
=============================================================================
