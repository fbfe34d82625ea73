------------------------------- MODULE EnvMap --------------------------------
(***************************************************************************)
(* What the environment promises: one binding per name.  A name is unset,  *)
(* declared without a value (export A), or has a value.  A builtin takes   *)
(* its arguments one by one and changes the name of each and no other.     *)
(***************************************************************************)
EXTENDS Sequences

CONSTANTS Keys, Values, Dirs, Unset, Declared,
          Args,    \* arguments of a builtin: [mode, key, value]
          Default  \* what a starting shell binds where its parent did not
CONSTANT Replaced  \* what a starting shell binds whatever its parent did

VARIABLES map, builtin, args

vars == <<map, builtin, args>>

Bindings == Values \union {Unset, Declared}

\* A program receives an empty value for a declared name.  If it is this shell
\* again, it then binds the names it needs.
Inherit(m) ==
  [k \in Keys |->
     IF k \in DOMAIN Replaced THEN Replaced[k]
     ELSE IF m[k] = Declared THEN ""
     ELSE IF m[k] = Unset /\ k \in DOMAIN Default THEN Default[k]
     ELSE m[k]]

Init ==
  /\ builtin = "prompt" /\ args = <<>>
  /\ \E m \in [Keys -> Bindings] : map = Inherit(m)

Begin(name) ==
  /\ builtin = "prompt" /\ builtin' = name
  /\ args' \in Seq(Args)
  /\ UNCHANGED map

\* Declaring a name that has a value keeps the value.
Apply(m, name, a) ==
  CASE name = "export" /\ a.mode = "set" -> [m EXCEPT ![a.key] = a.value]
    [] name = "export" /\ a.mode = "declare" /\ m[a.key] = Unset ->
         [m EXCEPT ![a.key] = Declared]
    [] name = "unset" /\ a.mode = "declare" -> [m EXCEPT ![a.key] = Unset]
    [] OTHER -> m

\* NAME+=value gives the name some value, and the shell need not survive it.
Argument ==
  /\ builtin \in {"export", "unset"} /\ args # <<>>
  /\ args' = Tail(args)
  /\ \/ map' = Apply(map, builtin, Head(args)) /\ UNCHANGED builtin
     \/ /\ builtin = "export" /\ Head(args).mode = "append"
        /\ \E v \in Values : map' = [map EXCEPT ![Head(args).key] = v]
        /\ builtin' = "aborted"

Return ==
  /\ builtin \in {"export", "unset"} /\ args = <<>>
  /\ builtin' = "prompt"
  /\ UNCHANGED <<map, args>>

Nest ==
  /\ builtin = "prompt"
  /\ map' = Inherit(map) /\ args' = <<>>
  /\ UNCHANGED builtin

\* cd moves PWD to OLDPWD.  It never binds PWD anew; it may bind OLDPWD anew.
\* Where the new directory has no name PWD is kept.
ChangeDirectory(old, new) ==
  /\ builtin = "prompt"
  /\ \E o \in {old, map["OLDPWD"]}, p \in {new, map["PWD"]} :
       /\ o # old => o = Unset
       /\ map["PWD"] = Unset => p = Unset
       /\ map' = [map EXCEPT !["OLDPWD"] = o, !["PWD"] = p]
  /\ UNCHANGED <<builtin, args>>

Next ==
  \/ Begin("export") \/ Begin("unset") \/ Argument \/ Return \/ Nest
  \/ \E old, new \in Dirs : ChangeDirectory(old, new)

Spec == Init /\ [][Next]_vars
=============================================================================
