------------------------------- MODULE Listing -------------------------------
(***************************************************************************)
(* export without arguments: env_to_array makes one string of each node of *)
(* the environment, sort_strings sorts them, and print_export_line takes   *)
(* each apart again to print it as a declaration.                          *)
(***************************************************************************)
EXTENDS Naturals, Sequences, SequencesExt, FiniteSetsExt

CONSTANTS NULL,   \* a node without a value
          Code,   \* the characters, each with its code
          Envs    \* environments

Char == DOMAIN Code
Node == [key : Seq(Char), value : Seq(Char) \union {NULL}]

\* A name has a character, and no equals sign; no two nodes have one name.
Parameters ==
  /\ {"=", "_"} \subseteq Char /\ \A c \in Char : Code[c] \in 1 .. 255
  /\ \A c, d \in Char : Code[c] = Code[d] => c = d
  /\ \A e \in Envs :
       /\ e \in Seq(Node)
       /\ \A n \in DOMAIN e : e[n].key # <<>> /\ ~Contains(e[n].key, "=")
       /\ \A m, n \in DOMAIN e : e[m].key = e[n].key => m = n

VARIABLES
  env,      \* shell->env
  arr,      \* the strings
  i, j,     \* the indices of sort_strings, from 0
  listing,  \* "array", "sort", "print" or "done"
  out       \* the lines printed, each a name and a value or NULL

vars == <<env, arr, i, j, listing, out>>

TypeOK ==
  /\ env \in Seq(Node) /\ arr \in Seq(Seq(Char)) /\ i \in 0 .. Len(arr) /\ j \in 0 .. Len(arr)
  /\ listing # "array" => Len(arr) = Len(env)
  /\ listing \in {"array", "sort", "print", "done"} /\ out \in Seq(Node)

----------------------------------------------------------------------------
CreateEnvString(node) ==
  IF node.value = NULL THEN node.key ELSE node.key \o <<"=">> \o node.value

\* ft_strcmp(s, t) > 0; the end of a string is the code 0.
After(s, t) ==
  LET code(str, k) == IF k <= Len(str) THEN Code[str[k]] ELSE 0
      differ == {k \in 1 .. Max({Len(s), Len(t)}) : code(s, k) # code(t, k)}
  IN  differ # {} /\ LET k == Min(differ) IN code(s, k) > code(t, k)

Init ==
  /\ env \in Envs /\ arr = <<>> /\ i = 0 /\ j = 0 /\ listing = "array" /\ out = <<>>

EnvToArray ==
  /\ listing = "array" /\ listing' = "sort"
  /\ arr' = [n \in DOMAIN env |-> CreateEnvString(env[n])]
  /\ UNCHANGED <<env, i, j, out>>

\* One round of the inner loop of sort_strings.
Compare ==
  /\ listing = "sort" /\ i + 1 < Len(arr) /\ j + 1 < Len(arr) - i
  /\ arr' = IF After(arr[j + 1], arr[j + 2])
            THEN [arr EXCEPT ![j + 1] = arr[j + 2], ![j + 2] = arr[j + 1]] ELSE arr
  /\ j' = j + 1 /\ UNCHANGED <<env, i, listing, out>>

\* Mutant: j is reset to 1.
NextRoundFromOne ==
  /\ listing = "sort" /\ i + 1 < Len(arr) /\ j + 1 >= Len(arr) - i
  /\ i' = i + 1 /\ j' = 1 /\ UNCHANGED <<env, arr, listing, out>>

NextRound ==
  /\ listing = "sort" /\ i + 1 < Len(arr) /\ j + 1 >= Len(arr) - i
  /\ i' = i + 1 /\ j' = 0 /\ UNCHANGED <<env, arr, listing, out>>

\* i is export_onl's from here on.
Sorted ==
  /\ listing = "sort" /\ i + 1 >= Len(arr)
  /\ listing' = "print" /\ i' = 0 /\ j' = 0 /\ UNCHANGED <<env, arr, out>>

\* What print_export_line prints: declare -x KEY, or declare -x KEY="VALUE".
LineOf(str) ==
  LET eq == {k \in DOMAIN str : str[k] = "="}
  IN  IF eq = {} THEN [key |-> str, value |-> NULL]
      ELSE [key |-> SubSeq(str, 1, Min(eq) - 1), value |-> SubSeq(str, Min(eq) + 1, Len(str))]

Hidden(str) == Len(str) >= 2 /\ str[1] = "_" /\ str[2] = "="

PrintExportLine ==
  /\ listing = "print" /\ i < Len(arr)
  /\ out' = IF Hidden(arr[i + 1]) THEN out ELSE Append(out, LineOf(arr[i + 1]))
  /\ i' = i + 1 /\ UNCHANGED <<env, arr, j, listing>>

Printed ==
  /\ listing = "print" /\ i = Len(arr)
  /\ listing' = "done" /\ UNCHANGED <<env, arr, i, j, out>>

Next == EnvToArray \/ Compare \/ NextRound \/ Sorted \/ PrintExportLine \/ Printed

Spec == Init /\ [][Next]_vars

----------------------------------------------------------------------------
(* Properties.                                                             *)

\* Each name of the environment is declared once, with the value it has or
\* none, whatever the characters of the value are, and nothing else is;
\* only _ is left out, and only if it has a value
\* (env_to_array.c:15-51, ft_export_utils.c:57-77).
DeclaresEnvironment ==
  listing = "done" =>
    LET shown == {n \in DOMAIN env : env[n].key # <<"_">> \/ env[n].value = NULL}
    IN  /\ Len(out) = Cardinality(shown)
        /\ Range(out) = {env[n] : n \in shown}

\* The declarations come in the order of the strings KEY=VALUE, which is that
\* of the names except where one name begins with the other: then the
\* character that goes on is compared with the equals sign, and A1 comes
\* before A (ft_export_utils.c:36-55).
SortedAsStrings ==
  listing = "done" =>
    \A m, n \in DOMAIN out : m < n =>
      LET k == out[m].key
          l == out[n].key
          longer(s, t) == Len(s) > Len(t) /\ SubSeq(s, 1, Len(t)) = t
      IN  CASE longer(k, l) -> out[n].value # NULL /\ Code[k[Len(l) + 1]] < Code["="]
            [] longer(l, k) -> out[m].value = NULL \/ Code[l[Len(k) + 1]] > Code["="]
            [] OTHER -> After(l, k)
=============================================================================
