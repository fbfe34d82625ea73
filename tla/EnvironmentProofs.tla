-------------------------- MODULE EnvironmentProofs --------------------------
(***************************************************************************)
(* The environment list never holds a name twice, and behaves as the map   *)
(* of EnvMap, for any names, values, arguments and initial environment.    *)
(*                                                                         *)
(* Both rest on what the five list operations do to a list without         *)
(* duplicates: they leave it so, and change the value of one name.         *)
(***************************************************************************)
EXTENDS Environment, SequenceTheorems, TLAPS

NoDuplicates(l) == \A i, j \in DOMAIN l : l[i].key = l[j].key => i = j
List == {l \in Seq(Binding) : NoDuplicates(l)}

\* The value of a name in a list, as the refinement mapping reads it.
Lookup(l, k) == IF ~Has(l, k) THEN Unset ELSE l[First(l, k)].value

USE DEF NewNode

----------------------------------------------------------------------------
(* The list operations.                                                    *)

LEMMA ListFacts ==
  ASSUME NEW l \in List
  PROVE  /\ l \in Seq(Binding) /\ NoDuplicates(l)
         /\ Len(l) \in Nat /\ DOMAIN l = 1 .. Len(l)
         /\ \A i \in DOMAIN l : /\ l[i] \in Binding
                                /\ l[i].key \in Keys
                                /\ l[i].value \in Values \union {NULL}
<1>1. l \in Seq(Binding) /\ NoDuplicates(l)
  BY DEF List
<1>2. Len(l) \in Nat /\ DOMAIN l = 1 .. Len(l)
  BY <1>1, LenProperties
<1>3. \A i \in DOMAIN l : l[i] \in Binding
  BY <1>1, <1>2, ElementOfSeq
<1> QED
  BY <1>1, <1>2, <1>3 DEF Binding

\* Without duplicates strcmp stops at the only node there is.
LEMMA FirstIsTheOne ==
  ASSUME NEW l \in List, NEW i \in DOMAIN l
  PROVE  Has(l, l[i].key) /\ First(l, l[i].key) = i
<1> DEFINE k == l[i].key
<1>1. Has(l, k)
  BY DEF Has
<1>2. \A j \in DOMAIN l : l[j].key = k => j = i
  BY DEF List, NoDuplicates
<1>3. i \in Nat
  BY DEF List
<1>4. l[i].key = k /\ \A j \in DOMAIN l : l[j].key = k => i <= j
  BY <1>2, <1>3
<1>5. First(l, k) \in DOMAIN l /\ l[First(l, k)].key = k
  BY <1>4 DEF First
<1> QED
  BY <1>1, <1>2, <1>5

LEMMA HasFirst ==
  ASSUME NEW l \in List, NEW k, Has(l, k)
  PROVE  First(l, k) \in DOMAIN l /\ l[First(l, k)].key = k
<1>1. PICK i \in DOMAIN l : l[i].key = k
  BY DEF Has
<1> QED
  BY <1>1, FirstIsTheOne

LEMMA LookupOfNode ==
  ASSUME NEW l \in List, NEW i \in DOMAIN l
  PROVE  Lookup(l, l[i].key) = l[i].value
BY FirstIsTheOne DEF Lookup

\* add_env_node_back with a new name.
LEMMA AddNodeFacts ==
  ASSUME NEW l \in List, NEW k \in Keys, NEW v \in Values \union {NULL}, ~Has(l, k)
  PROVE  /\ AddNode(l, k, v) \in List
         /\ \A x \in Keys : Has(AddNode(l, k, v), x) <=> Has(l, x) \/ x = k
         /\ \A x \in Keys : Lookup(AddNode(l, k, v), x) = IF x = k THEN v ELSE Lookup(l, x)
<1> DEFINE m == AddNode(l, k, v)
<1>1. l \in Seq(Binding) /\ NoDuplicates(l) /\ NewNode(k, v) \in Binding
  BY DEF List, Binding
<1>2. /\ m \in Seq(Binding) /\ Len(m) = Len(l) + 1
      /\ \A i \in DOMAIN l : i \in DOMAIN m /\ m[i] = l[i]
      /\ Len(m) \in DOMAIN m /\ m[Len(m)] = NewNode(k, v)
      /\ \A i \in DOMAIN m : i \in DOMAIN l \/ i = Len(m)
  BY <1>1 DEF AddNode
<1>3. \A i \in DOMAIN l : l[i].key # k
  BY DEF Has
<1> HIDE DEF m
<1>4. m \in List
  BY <1>1, <1>2, <1>3 DEF List, NoDuplicates
<1>5. \A x \in Keys : Has(m, x) <=> Has(l, x) \/ x = k
  BY <1>2 DEF Has
<1>6. ASSUME NEW x \in Keys PROVE Lookup(m, x) = IF x = k THEN v ELSE Lookup(l, x)
  <2>1. CASE x = k
    BY <1>2, <1>4, <2>1, LookupOfNode
  <2>2. CASE x # k /\ Has(l, x)
    <3>1. PICK i \in DOMAIN l : l[i].key = x
      BY <2>2 DEF Has
    <3> QED
      BY <1>2, <1>4, <2>2, <3>1, LookupOfNode
  <2>3. CASE x # k /\ ~Has(l, x)
    BY <1>5, <2>3 DEF Lookup
  <2> QED
    BY <2>1, <2>2, <2>3
<1> QED
  BY <1>4, <1>5, <1>6 DEF m

\* A name has a value, or none, or is not there.
LEMMA LookupRange ==
  ASSUME NEW l \in List, NEW k
  PROVE  /\ Has(l, k) => Lookup(l, k) \in Values \union {NULL}
         /\ Has(l, k) <=> Lookup(l, k) # Unset
<1>1. ASSUME Has(l, k) PROVE Lookup(l, k) \in Values \union {NULL}
  BY <1>1, HasFirst, ListFacts DEF Lookup
<1> QED
  BY <1>1, ValuesAssumption DEF Lookup, NULL, Unset

LEMMA UpdateVarFacts ==
  ASSUME NEW l \in List, NEW k \in Keys, NEW v \in Values \union {NULL}
  PROVE  /\ UpdateVar(l, k, v) \in List
         /\ \A x : Has(UpdateVar(l, k, v), x) <=> Has(l, x)
         /\ \A x : Lookup(UpdateVar(l, k, v), x) =
                     IF x = k /\ Has(l, k) THEN v ELSE Lookup(l, x)
<1>1. CASE ~Has(l, k)
  BY <1>1 DEF UpdateVar
<1>2. CASE Has(l, k)
  <2> DEFINE f == First(l, k)
             m == UpdateVar(l, k, v)
  <2>1. l \in Seq(Binding) /\ NoDuplicates(l) /\ f \in DOMAIN l /\ l[f].key = k
    BY <1>2, HasFirst DEF List
  <2>2. /\ m \in Seq(Binding) /\ DOMAIN m = DOMAIN l
        /\ m[f] = NewNode(k, v) /\ \A i \in DOMAIN l : i # f => m[i] = l[i]
    <3>1. NewNode(k, v) \in Binding /\ f \in 1 .. Len(l)
      BY <2>1, ListFacts DEF Binding
    <3>2. m = [l EXCEPT ![f] = NewNode(k, v)]
      BY <1>2 DEF UpdateVar
    <3>3. m \in Seq(Binding)
      BY <2>1, <3>1, <3>2, ExceptSeq
    <3> QED
      BY <2>1, <3>2, <3>3
  <2> HIDE DEF m, f
  <2>3. m \in List
    BY <2>1, <2>2 DEF List, NoDuplicates
  <2>4. \A x : Has(m, x) <=> Has(l, x)
    BY <2>1, <2>2 DEF Has
  <2>5. ASSUME NEW x PROVE Lookup(m, x) = IF x = k THEN v ELSE Lookup(l, x)
    <3>1. CASE x = k
      BY <2>1, <2>2, <2>3, <3>1, LookupOfNode
    <3>2. CASE x # k /\ Has(l, x)
      <4>1. PICK i \in DOMAIN l : l[i].key = x
        BY <3>2 DEF Has
      <4> QED
        BY <2>1, <2>2, <2>3, <3>2, <4>1, LookupOfNode
    <3>3. CASE x # k /\ ~Has(l, x)
      BY <2>4, <3>3 DEF Lookup
    <3> QED
      BY <3>1, <3>2, <3>3
  <2> QED
    BY <1>2, <2>3, <2>4, <2>5 DEF m
<1> QED
  BY <1>1, <1>2

LEMMA UpdateOrAddEnvFacts ==
  ASSUME NEW l \in List, NEW k \in Keys, NEW v \in Values \union {NULL}
  PROVE  /\ UpdateOrAddEnv(l, k, v) \in List
         /\ \A x \in Keys : Has(UpdateOrAddEnv(l, k, v), x) <=> Has(l, x) \/ x = k
         /\ \A x \in Keys : Lookup(UpdateOrAddEnv(l, k, v), x) =
                              IF x = k THEN v ELSE Lookup(l, x)
BY UpdateVarFacts, AddNodeFacts DEF UpdateOrAddEnv

\* Removing the one node of a name removes the name.
LEMMA RemoveEnvNodeFacts ==
  ASSUME NEW l \in List, NEW k \in Keys
  PROVE  /\ RemoveEnvNode(l, k) \in List
         /\ \A x : Lookup(RemoveEnvNode(l, k), x) = IF x = k THEN Unset ELSE Lookup(l, x)
<1>1. CASE ~Has(l, k)
  BY <1>1 DEF RemoveEnvNode, Lookup
<1>2. CASE Has(l, k)
  <2> DEFINE f == First(l, k)
             m == RemoveEnvNode(l, k)
  <2>1. l \in Seq(Binding) /\ NoDuplicates(l) /\ f \in DOMAIN l /\ l[f].key = k
        /\ \A i \in DOMAIN l : l[i].key = k => i = f
    BY <1>2, HasFirst, FirstIsTheOne DEF List, NoDuplicates
  <2>2. /\ m \in Seq(Binding) /\ Len(m) = Len(l) - 1
        /\ \A i \in 1 .. Len(m) : m[i] = IF i < f THEN l[i] ELSE l[i + 1]
    <3> DEFINE a == SubSeq(l, 1, f - 1)
               b == SubSeq(l, f + 1, Len(l))
    <3>0. m = a \o b /\ f \in 1 .. Len(l) /\ Len(l) \in Nat
      BY <1>2, <2>1, ListFacts DEF RemoveEnvNode, RemoveAt
    <3>1. /\ a \in Seq(Binding) /\ Len(a) = f - 1
          /\ \A i \in 1 .. f - 1 : a[i] = l[i]
      <4>1. \A i \in 1 .. f - 1 : l[i] \in Binding
        BY <3>0, ListFacts
      <4> HIDE DEF f
      <4> QED
        BY <3>0, <4>1, SubSeqProperties
    <3>2. /\ b \in Seq(Binding) /\ Len(b) = Len(l) - f
          /\ \A i \in 1 .. Len(l) - f : b[i] = l[f + i]
      <4>1. \A i \in f + 1 .. Len(l) : l[i] \in Binding
        BY <3>0, ListFacts
      <4> HIDE DEF f
      <4>2. /\ b \in Seq(Binding)
            /\ Len(b) = IF f + 1 <= Len(l) THEN Len(l) - (f + 1) + 1 ELSE 0
            /\ \A i \in 1 .. Len(l) - (f + 1) + 1 : b[i] = l[(f + 1) + i - 1]
        BY <3>0, <4>1, SubSeqProperties
      <4> QED
        BY <3>0, <4>2
    <3> HIDE DEF a, b, f, m
    <3>5. /\ m \in Seq(Binding) /\ Len(m) = Len(a) + Len(b)
          /\ \A i \in 1 .. Len(a) + Len(b) :
               m[i] = IF i <= Len(a) THEN a[i] ELSE b[i - Len(a)]
      BY <3>0, <3>1, <3>2, ConcatProperties
    <3>3. m \in Seq(Binding) /\ Len(m) = Len(l) - 1
      BY <3>0, <3>1, <3>2, <3>5
    <3>4. ASSUME NEW i \in 1 .. Len(m)
          PROVE  m[i] = IF i < f THEN l[i] ELSE l[i + 1]
      <4>1. CASE i < f
        BY <3>0, <3>1, <3>2, <3>3, <3>5, <4>1
      <4>2. CASE i >= f
        <5>1. m[i] = b[i - (f - 1)] /\ i - (f - 1) \in 1 .. Len(l) - f
          BY <3>0, <3>1, <3>2, <3>3, <3>5, <4>2
        <5>2. b[i - (f - 1)] = l[f + (i - (f - 1))] /\ f + (i - (f - 1)) = i + 1
          BY <3>0, <3>2, <3>3, <5>1
        <5> QED
          BY <3>0, <3>3, <4>2, <5>1, <5>2
      <4> QED
        BY <3>0, <3>3, <4>1, <4>2
    <3> QED
      BY <3>3, <3>4
  <2> HIDE DEF m, f
  <2>7. f \in 1 .. Len(l) /\ Len(l) \in Nat /\ DOMAIN m = 1 .. Len(l) - 1
        /\ DOMAIN l = 1 .. Len(l)
    BY <2>1, <2>2, ListFacts, LenProperties
  <2>3. m \in List
    <3>1. ASSUME NEW i \in DOMAIN m, NEW j \in DOMAIN m, m[i].key = m[j].key
          PROVE  i = j
      <4> DEFINE up(h) == IF h < f THEN h ELSE h + 1
      <4>1. /\ up(i) \in DOMAIN l /\ m[i] = l[up(i)]
            /\ up(j) \in DOMAIN l /\ m[j] = l[up(j)]
        BY <2>2, <2>7
      <4>2. up(i) = up(j)
        BY <2>1, <3>1, <4>1 DEF NoDuplicates
      <4> QED
        BY <2>7, <4>2
    <3> QED
      BY <2>2, <3>1 DEF List, NoDuplicates
  <2>4. ASSUME NEW x, NEW i \in DOMAIN l, i # f, l[i].key = x
        PROVE  \E j \in DOMAIN m : m[j] = l[i]
    <3>1. CASE i < f
      BY <2>2, <2>7, <3>1
    <3>2. CASE i > f
      <4>1. i - 1 \in DOMAIN m /\ m[i - 1] = l[(i - 1) + 1]
        BY <2>2, <2>7, <3>2
      <4> QED
        BY <2>7, <4>1
    <3> QED
      BY <2>4, <2>7, <3>1, <3>2
  <2>5. ASSUME NEW j \in DOMAIN m
        PROVE  m[j].key # k /\ \E i \in DOMAIN l : i # f /\ m[j] = l[i]
    <3>1. (IF j < f THEN j ELSE j + 1) \in DOMAIN l \ {f}
      BY <2>7
    <3> QED
      BY <2>1, <2>2, <2>7, <3>1
  <2>6. ASSUME NEW x PROVE Lookup(m, x) = IF x = k THEN Unset ELSE Lookup(l, x)
    <3>1. CASE x = k
      BY <2>5, <3>1 DEF Lookup, Has
    <3>2. CASE x # k /\ Has(l, x)
      <4>1. PICK i \in DOMAIN l : l[i].key = x
        BY <3>2 DEF Has
      <4>2. PICK j \in DOMAIN m : m[j] = l[i]
        BY <2>1, <2>4, <3>2, <4>1
      <4> QED
        BY <2>3, <3>2, <4>1, <4>2, LookupOfNode
    <3>3. CASE x # k /\ ~Has(l, x)
      BY <2>5, <3>3 DEF Lookup, Has
    <3> QED
      BY <3>1, <3>2, <3>3
  <2> QED
    BY <2>3, <2>6 DEF m
<1> QED
  BY <1>1, <1>2

\* What env_to_tab passes on, and what new_env_node makes of it, has a value
\* for every name.
LEMMA EnvToTabFacts ==
  ASSUME NEW l \in List
  PROVE  /\ EnvToTab(l) \in List /\ FromEnvp(l) = EnvToTab(l)
         /\ \A x : /\ Has(EnvToTab(l), x) <=> Has(l, x)
                   /\ Lookup(EnvToTab(l), x) =
                        IF Lookup(l, x) = NULL THEN "" ELSE Lookup(l, x)
<1> DEFINE m == EnvToTab(l)
<1>1. l \in Seq(Binding) /\ NoDuplicates(l)
  BY DEF List
<1>2. /\ m \in Seq(Binding) /\ DOMAIN m = DOMAIN l
      /\ \A i \in DOMAIN l : /\ m[i].key = l[i].key
                             /\ m[i].value = IF l[i].value = NULL THEN "" ELSE l[i].value
  <2>1. \A i \in DOMAIN l :
          NewNode(l[i].key, IF l[i].value = NULL THEN "" ELSE l[i].value) \in Binding
    BY ListFacts, ValuesAssumption DEF Given, Binding
  <2>2. m \in [1 .. Len(l) -> Binding] /\ Len(l) \in Nat
    BY <2>1, ListFacts DEF EnvToTab
  <2>3. m \in Seq(Binding)
    BY <2>2, SeqDef
  <2> QED
    BY <2>3 DEF EnvToTab
<1>3. FromEnvp(l) = EnvToTab(l)
  BY DEF FromEnvp, EnvToTab
<1> HIDE DEF m
<1>4. m \in List
  BY <1>1, <1>2 DEF List, NoDuplicates
<1>5. \A x : Has(m, x) <=> Has(l, x)
  BY <1>2 DEF Has
<1>6. ASSUME NEW x
      PROVE  Lookup(m, x) = IF Lookup(l, x) = NULL THEN "" ELSE Lookup(l, x)
  <2>1. CASE Has(l, x)
    <3>1. PICK i \in DOMAIN l : l[i].key = x
      BY <2>1 DEF Has
    <3> QED
      BY <1>2, <1>4, <3>1, LookupOfNode
  <2>2. CASE ~Has(l, x)
    BY <1>5, <2>2 DEF Lookup, NULL, Unset
  <2> QED
    BY <2>1, <2>2
<1> QED
  BY <1>3, <1>4, <1>5, <1>6 DEF m

----------------------------------------------------------------------------
(* A starting shell.                                                       *)

Image(l) == [k \in Keys |-> Lookup(l, k)]

\* What init_pwd and init_oldpwd do.
AddIfNew(l, k, v) == IF Has(l, k) THEN l ELSE AddNode(l, k, v)

LEMMA AddIfNewFacts ==
  ASSUME NEW l \in List, NEW k \in Keys, NEW v \in Values
  PROVE  /\ AddIfNew(l, k, v) \in List
         /\ \A x \in Keys : Lookup(AddIfNew(l, k, v), x) =
                              IF x = k /\ Lookup(l, x) = Unset THEN v ELSE Lookup(l, x)
<1>1. CASE Has(l, k)
  BY <1>1, LookupRange DEF AddIfNew
<1>2. CASE ~Has(l, k)
  BY <1>2, AddNodeFacts DEF AddIfNew, Lookup
<1> QED
  BY <1>1, <1>2

\* The four init_ functions bind what EnvMap says a starting shell binds.
LEMMA InitEnvFacts ==
  ASSUME NEW l \in List
  PROVE  InitEnv(l) \in List /\ Image(InitEnv(l)) = Map!Inherit(Image(l))
<1> DEFINE m0 == FromEnvp(l)
           m1 == InitPwd(m0)
           m2 == InitShlvl(m1)
           m3 == InitUnderscore(m2)
           m4 == InitOldpwd(m3)
<1>0. /\ {"PWD", "OLDPWD", "SHLVL", "_"} \subseteq Keys
      /\ {"", "cwd", "level", "/usr/bin/env"} \subseteq Values
      /\ NULL \notin Values /\ Unset \notin Values /\ NULL # Unset
  BY KeysAssumption, ValuesAssumption DEF Given, NULL, Unset
<1>1. /\ m0 \in List
      /\ \A x : Lookup(m0, x) = IF Lookup(l, x) = NULL THEN "" ELSE Lookup(l, x)
  BY EnvToTabFacts
<1> HIDE DEF m0
<1>2. /\ m1 \in List
      /\ \A x \in Keys : Lookup(m1, x) = IF x = "PWD" /\ Lookup(m0, x) = Unset THEN "cwd"
                                         ELSE Lookup(m0, x)
  <2>1. GetEnvValue(m0, "PWD") # NULL <=> Has(m0, "PWD")
    BY <1>0, <1>1 DEF GetEnvValue, Lookup
  <2>2. m1 = AddIfNew(m0, "PWD", "cwd")
    BY <2>1 DEF InitPwd, AddIfNew
  <2>3. "PWD" \in Keys /\ "cwd" \in Values
    BY <1>0
  <2>4. \A k \in Keys, v \in Values :
          /\ AddIfNew(m0, k, v) \in List
          /\ \A x \in Keys : Lookup(AddIfNew(m0, k, v), x) =
                               IF x = k /\ Lookup(m0, x) = Unset THEN v ELSE Lookup(m0, x)
    BY <1>1, AddIfNewFacts
  <2>5. /\ AddIfNew(m0, "PWD", "cwd") \in List
        /\ \A x \in Keys : Lookup(AddIfNew(m0, "PWD", "cwd"), x) =
                             IF x = "PWD" /\ Lookup(m0, x) = Unset THEN "cwd" ELSE Lookup(m0, x)
    BY <2>3, <2>4, Zenon
  <2> QED
    BY <2>2, <2>5
<1> HIDE DEF m1
<1>3. /\ m2 \in List
      /\ \A x \in Keys : Lookup(m2, x) = IF x = "SHLVL" THEN "level" ELSE Lookup(m1, x)
  <2>1. "SHLVL" \in Keys /\ "level" \in Values \union {NULL}
    BY <1>0
  <2> QED
    BY <1>2, <2>1, UpdateOrAddEnvFacts DEF InitShlvl
<1> HIDE DEF m2
<1>4. /\ m3 \in List
      /\ \A x \in Keys : Lookup(m3, x) = IF x = "_" THEN "/usr/bin/env" ELSE Lookup(m2, x)
  <2>1. "_" \in Keys /\ "/usr/bin/env" \in Values \union {NULL}
    BY <1>0
  <2>2. \A k \in Keys, v \in Values \union {NULL} :
          /\ UpdateOrAddEnv(m2, k, v) \in List
          /\ \A x \in Keys : Lookup(UpdateOrAddEnv(m2, k, v), x) =
                               IF x = k THEN v ELSE Lookup(m2, x)
    BY <1>3, UpdateOrAddEnvFacts
  <2> QED
    BY <2>1, <2>2, Zenon DEF InitUnderscore
<1> HIDE DEF m3
<1>5. /\ m4 \in List
      /\ \A x \in Keys : Lookup(m4, x) = IF x = "OLDPWD" /\ Lookup(m3, x) = Unset THEN ""
                                         ELSE Lookup(m3, x)
  <2>1. m4 = AddIfNew(m3, "OLDPWD", "")
    BY DEF InitOldpwd, AddIfNew
  <2>2. "OLDPWD" \in Keys /\ "" \in Values
    BY <1>0
  <2>3. \A k \in Keys, v \in Values :
          /\ AddIfNew(m3, k, v) \in List
          /\ \A x \in Keys : Lookup(AddIfNew(m3, k, v), x) =
                               IF x = k /\ Lookup(m3, x) = Unset THEN v ELSE Lookup(m3, x)
    BY <1>4, AddIfNewFacts
  <2>4. /\ AddIfNew(m3, "OLDPWD", "") \in List
        /\ \A x \in Keys : Lookup(AddIfNew(m3, "OLDPWD", ""), x) =
                             IF x = "OLDPWD" /\ Lookup(m3, x) = Unset THEN "" ELSE Lookup(m3, x)
    BY <2>2, <2>3, Zenon
  <2> QED
    BY <2>1, <2>4
<1>6. InitEnv(l) = m4
  BY DEF InitEnv, m0, m1, m2, m3
<1> HIDE DEF m4
<1>7. ASSUME NEW x \in Keys PROVE Image(m4)[x] = Map!Inherit(Image(l))[x]
  <2>1. Image(m4)[x] = Lookup(m4, x) /\ Image(l)[x] = Lookup(l, x)
    BY DEF Image
  <2>2. Map!Inherit(Image(l))[x] =
          IF x = "SHLVL" THEN "level" ELSE IF x = "_" THEN "/usr/bin/env"
          ELSE IF Lookup(l, x) = NULL THEN ""
          ELSE IF Lookup(l, x) = Unset /\ x = "PWD" THEN "cwd"
          ELSE IF Lookup(l, x) = Unset /\ x = "OLDPWD" THEN ""
          ELSE Lookup(l, x)
    BY <2>1 DEF Map!Inherit
  <2>3. Lookup(m1, x) = IF Lookup(l, x) = NULL THEN ""
                        ELSE IF Lookup(l, x) = Unset /\ x = "PWD" THEN "cwd"
                        ELSE Lookup(l, x)
    <3>1. "" # Unset
      BY <1>0, ValuesAssumption
    <3> QED
      BY <1>0, <1>1, <1>2, <3>1
  <2>4. Lookup(m3, x) = IF x = "SHLVL" THEN "level" ELSE IF x = "_" THEN "/usr/bin/env"
                        ELSE Lookup(m1, x)
    <3>1. x = "_" => x # "SHLVL"
      OBVIOUS
    <3> QED
      BY <1>3, <1>4, <3>1, Zenon
  <2>5. Lookup(m4, x) = IF x = "OLDPWD" /\ Lookup(m3, x) = Unset THEN "" ELSE Lookup(m3, x)
    BY <1>5, Zenon
  <2>6. "cwd" # Unset /\ "" # Unset /\ "PWD" # "OLDPWD" /\ "OLDPWD" # "SHLVL" /\ "OLDPWD" # "_"
    BY DEF Unset
  <2> QED
    BY <2>1, <2>2, <2>3, <2>4, <2>5, <2>6
<1> QED
  BY <1>5, <1>6, <1>7 DEF Image, Map!Inherit

----------------------------------------------------------------------------
(* The specification.                                                      *)

IInv == TypeOK /\ NoDuplicates(env)

LEMMA InitIInv == Init => IInv /\ Map!Init
<1> SUFFICES ASSUME Init PROVE IInv /\ Map!Init
  OBVIOUS
<1>1. PICK e \in Environs : env = InitEnv(e)
  BY DEF Init
<1>2. e \in List
  BY EnvironsAssumption DEF List, NoDuplicates
<1>3. env \in List /\ Image(env) = Map!Inherit(Image(e))
  BY <1>1, <1>2, InitEnvFacts
<1>4. IInv
  BY <1>3 DEF Init, IInv, TypeOK, List
<1>5. Image(e) \in [Keys -> Map!Bindings]
  BY <1>2, LookupRange DEF Image, Map!Bindings
<1>6. Map!Init
  BY <1>3, <1>5 DEF Init, Map!Init, Image, Lookup
<1> QED
  BY <1>4, <1>6

\* What a builtin may be given.
LEMMA ArgFacts ==
  ASSUME IInv, args # <<>>
  PROVE  /\ Head(args) \in Args /\ Tail(args) \in Seq(Args)
         /\ Head(args).key \in Keys /\ Head(args).value \in Values
         /\ Head(args).mode \in {"set", "append", "declare", "invalid"}
BY ArgsAssumption DEF IInv, TypeOK, Arg

\* The image of a list, and so the promise, knows nothing else of the list.
LEMMA ImageFacts ==
  ASSUME NEW l \in List
  PROVE  /\ \A k \in Keys : Image(l)[k] = Lookup(l, k)
         /\ Image(l) \in [Keys -> Map!Bindings]
         /\ \A k \in Keys : Has(l, k) <=> Image(l)[k] # Unset
BY LookupRange DEF Image, Map!Bindings

\* What update_env_var does to a map: it binds only what is bound.
Moved(m, k, v) == [m EXCEPT ![k] = IF @ = Unset THEN Unset ELSE v]

\* Binding one name, and removing one, change the image as the map changes.
LEMMA ImageOfUpdateOrAdd ==
  ASSUME NEW l \in List, NEW k \in Keys, NEW v \in Values \union {NULL}
  PROVE  /\ UpdateOrAddEnv(l, k, v) \in List
         /\ Image(UpdateOrAddEnv(l, k, v)) = [Image(l) EXCEPT ![k] = v]
<1> DEFINE m == UpdateOrAddEnv(l, k, v)
<1>1. m \in List /\ \A x \in Keys : Lookup(m, x) = IF x = k THEN v ELSE Lookup(l, x)
  BY UpdateOrAddEnvFacts
<1> HIDE DEF m
<1>2. Image(m) = [Image(l) EXCEPT ![k] = v]
  BY <1>1 DEF Image
<1> QED
  BY <1>1, <1>2 DEF m

LEMMA ImageOfRemove ==
  ASSUME NEW l \in List, NEW k \in Keys
  PROVE  /\ RemoveEnvNode(l, k) \in List
         /\ Image(RemoveEnvNode(l, k)) = [Image(l) EXCEPT ![k] = Unset]
<1> DEFINE m == RemoveEnvNode(l, k)
<1>1. m \in List /\ \A x : Lookup(m, x) = IF x = k THEN Unset ELSE Lookup(l, x)
  BY RemoveEnvNodeFacts
<1> HIDE DEF m
<1>2. Image(m) = [Image(l) EXCEPT ![k] = Unset]
  BY <1>1 DEF Image
<1> QED
  BY <1>1, <1>2 DEF m

LEMMA ImageOfUpdateVar ==
  ASSUME NEW l \in List, NEW k \in Keys, NEW v \in Values \union {NULL}
  PROVE  /\ UpdateVar(l, k, v) \in List
         /\ Image(UpdateVar(l, k, v)) = Moved(Image(l), k, v)
<1> DEFINE m == UpdateVar(l, k, v)
<1>1. m \in List /\ \A x : Lookup(m, x) = IF x = k /\ Has(l, k) THEN v ELSE Lookup(l, x)
  BY UpdateVarFacts
<1> HIDE DEF m
<1>2. Has(l, k) <=> Lookup(l, k) # Unset
  BY LookupRange
<1>3. Image(m) = Moved(Image(l), k, v)
  BY <1>1, <1>2 DEF Image, Moved
<1> QED
  BY <1>1, <1>3 DEF m

\* A starting shell cannot tell a declared name from one with an empty value.
LEMMA InheritOfTab ==
  ASSUME NEW l \in List
  PROVE  Map!Inherit(Image(EnvToTab(l))) = Map!Inherit(Image(l))
<1>1. \A k \in Keys : /\ Image(l)[k] = Lookup(l, k)
                       /\ Image(EnvToTab(l))[k] =
                            IF Lookup(l, k) = NULL THEN "" ELSE Lookup(l, k)
  BY EnvToTabFacts DEF Image
<1>2. "" # NULL /\ "" # Unset /\ NULL # Unset
  BY DEF NULL, Unset
<1>3. ASSUME NEW k \in Keys
      PROVE  Map!Inherit(Image(EnvToTab(l)))[k] = Map!Inherit(Image(l))[k]
  <2>1. "" # "cwd" /\ \A x : x \in {"PWD", "OLDPWD"} => x # "SHLVL" /\ x # "_"
    OBVIOUS
  <2> QED
    BY <1>1, <1>2, <2>1, KeysAssumption DEF Map!Inherit
<1> QED
  BY <1>3 DEF Map!Inherit

\* One action at a time: the list stays without duplicates, and the map makes
\* the corresponding step.
LEMMA StepIInv ==
  ASSUME IInv, [Next]_vars
  PROVE  IInv' /\ (Map!Next \/ UNCHANGED <<Image(env), pc, args>>)
<1> DEFINE Good == /\ TypeOK' /\ env' \in List
                   /\ Map!Next \/ UNCHANGED <<Image(env), pc, args>>
<1> SUFFICES Good
  BY DEF IInv, List, NoDuplicates
<1>1. /\ env \in List /\ env \in Seq(Binding) /\ args \in Seq(Args)
      /\ pc \in {"prompt", "export", "unset", "aborted"}
      /\ err \in {0, 1} /\ status \in {0, 1}
  BY DEF IInv, TypeOK, List
<1>2. /\ Map!Begin("export") \/ Map!Begin("unset") \/ Map!Argument \/ Map!Return \/ Map!Nest
           => Map!Next
      /\ \A old, new \in Dirs : Map!ChangeDirectory(old, new) => Map!Next
  BY DEF Map!Next
<1>3. Map!Argument <=>
        /\ pc \in {"export", "unset"} /\ args # <<>> /\ args' = Tail(args)
        /\ \/ Image(env') = Map!Apply(Image(env), pc, Head(args)) /\ UNCHANGED pc
           \/ /\ pc = "export" /\ Head(args).mode = "append"
              /\ \E v \in Values : Image(env') = [Image(env) EXCEPT ![Head(args).key] = v]
              /\ pc' = "aborted"
  BY DEF Map!Argument, Image, Lookup
<1>4. \A old, new : Map!ChangeDirectory(old, new) <=>
        /\ pc = "prompt" /\ UNCHANGED <<pc, args>>
        /\ \E o \in {old, Image(env)["OLDPWD"]}, p \in {new, Image(env)["PWD"]} :
             /\ o # old => o = Unset
             /\ Image(env)["PWD"] = Unset => p = Unset
             /\ Image(env') = [Image(env) EXCEPT !["OLDPWD"] = o, !["PWD"] = p]
  BY DEF Map!ChangeDirectory, Image, Lookup
<1>5. ASSUME env' \in List, pc' \in {"prompt", "export", "unset", "aborted"},
             args' \in Seq(Args), err' \in {0, 1}, status' \in {0, 1}
      PROVE  TypeOK'
  BY <1>5 DEF TypeOK, List
<1>6. ASSUME NEW name \in {"export", "unset"}, Builtin(name) PROVE Good
  <2>1. PICK m \in 0 .. MaxArgs : args' \in [1 .. m -> Args]
    BY <1>6 DEF Builtin
  <2>2. args' \in Seq(Args)
    BY <2>1, MaxArgsAssumption, SeqDef
  <2>3. env' = env /\ pc = "prompt" /\ pc' = name /\ err' = 0 /\ status' = status
    BY <1>6 DEF Builtin
  <2>4. Map!Begin(name)
    BY <2>2, <2>3 DEF Map!Begin
  <2> QED
    BY <1>1, <1>2, <1>5, <2>2, <2>3, <2>4
<1>7. CASE ExportArg
  <2> DEFINE a == Head(args)
  <2>1. /\ a.mode \in {"set", "append", "declare", "invalid"} /\ a.key \in Keys
        /\ a.value \in Values /\ args' \in Seq(Args) /\ status' = status
        /\ pc = "export" /\ args # <<>> /\ args' = Tail(args)
    BY <1>7, ArgFacts DEF ExportArg
  <2>2. CASE a.mode = "invalid"
    <3>1. env' = env /\ pc' = pc /\ err' = 1
      BY <1>7, <2>2 DEF ExportArg
    <3>2. Map!Apply(Image(env), pc, a) = Image(env)
      BY <2>1, <2>2 DEF Map!Apply
    <3>3. Map!Argument
      BY <1>3, <2>1, <3>1, <3>2
    <3> QED
      BY <1>1, <1>2, <1>5, <2>1, <3>1, <3>3
  <2>3. CASE a.mode = "append"
    <3>1. /\ pc' = "aborted" /\ err' = err
          /\ \E v \in Appended(env, a.key, a.value) : env' = UpdateOrAddEnv(env, a.key, v)
      BY <1>7, <2>3 DEF ExportArg
    <3>2. PICK v \in Values : env' = UpdateOrAddEnv(env, a.key, v)
      BY <2>1, <3>1 DEF Appended
    <3>3. env' \in List /\ Image(env') = [Image(env) EXCEPT ![a.key] = v]
      BY <1>1, <2>1, <3>2, ImageOfUpdateOrAdd
    <3>4. Map!Argument
      BY <1>3, <2>1, <2>3, <3>1, <3>3
    <3> QED
      BY <1>1, <1>2, <1>5, <2>1, <3>1, <3>3, <3>4
  <2>4. CASE a.mode = "set"
    <3>1. env' = UpdateOrAddEnv(env, a.key, a.value) /\ pc' = pc /\ err' = err
      BY <1>7, <2>4 DEF ExportArg
    <3>2. env' \in List /\ Image(env') = [Image(env) EXCEPT ![a.key] = a.value]
      BY <1>1, <2>1, <3>1, ImageOfUpdateOrAdd
    <3>3. Map!Apply(Image(env), pc, a) = [Image(env) EXCEPT ![a.key] = a.value]
      BY <2>1, <2>4 DEF Map!Apply
    <3>4. Map!Argument
      BY <1>3, <2>1, <3>1, <3>2, <3>3
    <3> QED
      BY <1>1, <1>2, <1>5, <2>1, <3>1, <3>2, <3>4
  <2>5. CASE a.mode = "declare"
    <3>1. /\ env' = IF Has(env, a.key) THEN env ELSE UpdateOrAddEnv(env, a.key, NULL)
          /\ pc' = pc /\ err' = err
      BY <1>7, <2>5 DEF ExportArg
    <3>2. Has(env, a.key) <=> Image(env)[a.key] # Unset
      BY <1>1, <2>1, ImageFacts
    <3>3. CASE Has(env, a.key)
      <4>1. Map!Apply(Image(env), pc, a) = Image(env)
        BY <2>1, <2>5, <3>2, <3>3 DEF Map!Apply
      <4>2. Map!Argument
        BY <1>3, <2>1, <3>1, <3>3, <4>1
      <4> QED
        BY <1>1, <1>2, <1>5, <2>1, <3>1, <3>3, <4>2
    <3>4. CASE ~Has(env, a.key)
      <4>1. env' \in List /\ Image(env') = [Image(env) EXCEPT ![a.key] = NULL]
        BY <1>1, <2>1, <3>1, <3>4, ImageOfUpdateOrAdd
      <4>2. Map!Apply(Image(env), pc, a) = [Image(env) EXCEPT ![a.key] = NULL]
        BY <2>1, <2>5, <3>2, <3>4 DEF Map!Apply
      <4>3. Map!Argument
        BY <1>3, <2>1, <3>1, <4>1, <4>2
      <4> QED
        BY <1>1, <1>2, <1>5, <2>1, <3>1, <4>1, <4>3
    <3> QED
      BY <3>3, <3>4
  <2> QED
    BY <2>1, <2>2, <2>3, <2>4, <2>5
<1>8. CASE UnsetArg
  <2> DEFINE a == Head(args)
  <2>1. /\ a.mode \in {"set", "append", "declare", "invalid"} /\ a.key \in Keys
        /\ args' \in Seq(Args) /\ pc = "unset" /\ pc' = pc
        /\ args # <<>> /\ args' = Tail(args)
    BY <1>8, ArgFacts DEF UnsetArg
  <2>2. CASE a.mode = "declare"
    <3>1. env' = RemoveEnvNode(env, a.key) /\ err' = err /\ status' = status
      BY <1>8, <2>2 DEF UnsetArg
    <3>2. env' \in List /\ Image(env') = [Image(env) EXCEPT ![a.key] = Unset]
      BY <1>1, <2>1, <3>1, ImageOfRemove
    <3>3. Map!Apply(Image(env), pc, a) = [Image(env) EXCEPT ![a.key] = Unset]
      BY <2>1, <2>2 DEF Map!Apply
    <3>4. Map!Argument
      BY <1>3, <2>1, <3>2, <3>3
    <3> QED
      BY <1>1, <1>2, <1>5, <2>1, <3>1, <3>2, <3>4
  <2>3. CASE a.mode # "declare"
    <3>1. env' = env /\ err' = 1 /\ status' = 1
      BY <1>8, <2>3 DEF UnsetArg
    <3>2. Map!Apply(Image(env), pc, a) = Image(env)
      BY <2>1, <2>3 DEF Map!Apply
    <3>3. Map!Argument
      BY <1>3, <2>1, <3>1, <3>2
    <3> QED
      BY <1>1, <1>2, <1>5, <2>1, <3>1, <3>3
  <2> QED
    BY <2>2, <2>3
<1>9. CASE Return
  <2>1. /\ env' = env /\ args' = args /\ err' = err /\ pc' = "prompt" /\ status' = err
        /\ pc \in {"export", "unset"} /\ args = <<>>
    BY <1>9 DEF Return
  <2>2. Map!Return
    BY <2>1 DEF Map!Return
  <2> QED
    BY <1>1, <1>2, <1>5, <2>1, <2>2
<1>10. CASE Nested
  <2>1. /\ env' = InitEnv(EnvToTab(env)) /\ pc = "prompt" /\ pc' = pc
        /\ args' = <<>> /\ err' = 0 /\ status' = 0
    BY <1>10 DEF Nested
  <2>2. EnvToTab(env) \in List
    BY <1>1, EnvToTabFacts
  <2>3. env' \in List /\ Image(env') = Map!Inherit(Image(env))
    BY <1>1, <2>1, <2>2, InitEnvFacts, InheritOfTab
  <2>4. Map!Nest <=> /\ pc = "prompt" /\ UNCHANGED pc /\ args' = <<>>
                     /\ Image(env') = Map!Inherit(Image(env))
    BY DEF Map!Nest, Image, Lookup
  <2> QED
    BY <1>1, <1>2, <1>5, <2>1, <2>3, <2>4
<1>11. ASSUME NEW old \in Dirs, NEW new \in Dirs, CdRelative(old, new) PROVE Good
  <2>1. old \in Values /\ new \in Values /\ "OLDPWD" \in Keys /\ "PWD" \in Keys
        /\ old \in Values \union {NULL} /\ new \in Values \union {NULL}
    BY KeysAssumption, ValuesAssumption
  <2>2. pc = "prompt" /\ pc' = pc /\ args' = args /\ err' = err /\ status' = 0
    BY <1>11 DEF CdRelative
  <2>3. CASE env = <<>>
    BY <1>1, <1>5, <1>11, <2>2, <2>3 DEF CdRelative
  <2>4. CASE env # <<>>
    <3> DEFINE m == UpdateOrAddEnv(env, "OLDPWD", old)
    <3>1. m \in List /\ Image(m) = [Image(env) EXCEPT !["OLDPWD"] = old]
      BY <1>1, <2>1, ImageOfUpdateOrAdd, Zenon
    <3>2. env' = UpdateVar(m, "PWD", new)
      BY <1>11, <2>4 DEF CdRelative
    <3> HIDE DEF m
    <3>3. /\ env' \in List
          /\ Image(env') = Moved(Image(m), "PWD", new)
      BY <2>1, <3>1, <3>2, ImageOfUpdateVar, Zenon
    <3> DEFINE p == IF Image(env)["PWD"] = Unset THEN Unset ELSE new
    <3>4. Image(env') = [Image(env) EXCEPT !["OLDPWD"] = old, !["PWD"] = p]
      BY <3>1, <3>3 DEF Moved
    <3>5. p \in {new, Image(env)["PWD"]} /\ (Image(env)["PWD"] = Unset => p = Unset)
      OBVIOUS
    <3> HIDE DEF p
    <3>6. Map!ChangeDirectory(old, new)
      BY <1>4, <2>2, <3>4, <3>5
    <3> QED
      BY <1>1, <1>2, <1>5, <2>2, <3>3, <3>6
  <2> QED
    BY <2>3, <2>4
<1>12. ASSUME NEW old \in Dirs, NEW new \in Dirs, CdAbsolute(old, new) PROVE Good
  <2>1. old \in Values /\ new \in Values /\ "OLDPWD" \in Keys /\ "PWD" \in Keys
        /\ old \in Values \union {NULL} /\ new \in Values \union {NULL}
    BY KeysAssumption, ValuesAssumption
  <2>2. pc = "prompt" /\ pc' = pc /\ args' = args /\ err' = err /\ status' = 0
    BY <1>12 DEF CdAbsolute
  <2>3. PICK m \in {env, UpdateVar(env, "PWD", new)} : env' = UpdateVar(m, "OLDPWD", old)
    BY <1>12 DEF CdAbsolute
  <2> DEFINE o == IF Image(env)["OLDPWD"] = Unset THEN Unset ELSE old
             p == IF m = env THEN Image(env)["PWD"]
                  ELSE IF Image(env)["PWD"] = Unset THEN Unset ELSE new
  <2>4. UpdateVar(env, "PWD", new) \in List
        /\ Image(UpdateVar(env, "PWD", new)) = Moved(Image(env), "PWD", new)
    BY <1>1, <2>1, ImageOfUpdateVar, Zenon
  <2>5. m \in List /\ Image(m) = [Image(env) EXCEPT !["PWD"] = p]
    <3>1. Image(env) = [Image(env) EXCEPT !["PWD"] = Image(env)["PWD"]]
      BY DEF Image
    <3> QED
      BY <1>1, <2>3, <2>4, <3>1 DEF Moved
  <2>6. env' \in List /\ Image(env') = Moved(Image(m), "OLDPWD", old)
    BY <2>1, <2>3, <2>5, ImageOfUpdateVar, Zenon
  <2>7. Image(env') = [Image(env) EXCEPT !["OLDPWD"] = o, !["PWD"] = p]
    BY <2>5, <2>6 DEF Moved
  <2>8. /\ o \in {old, Image(env)["OLDPWD"]} /\ (o # old => o = Unset)
        /\ p \in {new, Image(env)["PWD"]} /\ (Image(env)["PWD"] = Unset => p = Unset)
    OBVIOUS
  <2> HIDE DEF o, p
  <2>9. Map!ChangeDirectory(old, new)
    BY <1>4, <2>2, <2>7, <2>8
  <2> QED
    BY <1>1, <1>2, <1>5, <2>2, <2>6, <2>9
<1>13. CASE UNCHANGED vars
  BY <1>1, <1>5, <1>13 DEF vars
<1> QED
  BY <1>6, <1>7, <1>8, <1>9, <1>10, <1>11, <1>12, <1>13 DEF Next

\* NoDuplicates(env) is inductive with the types alone: whether a name is in
\* the list is looked up before every node that is added.
LEMMA Invariant == Spec => []IInv
<1>1. Init => IInv
  BY InitIInv
<1>2. IInv /\ [Next]_vars => IInv'
  BY StepIInv
<1> QED
  BY <1>1, <1>2, PTL DEF Spec

----------------------------------------------------------------------------
(* The theorems.                                                           *)

\* Whatever the shell was started with and whatever export, unset and cd were
\* given, the list and the builtins' state keep their types.
THEOREM TypeCorrect == Spec => []TypeOK
<1>1. IInv => TypeOK
  BY DEF IInv
<1> QED
  BY <1>1, Invariant, PTL

\* The list never holds a name twice (update_or_add_env, ft_export, init_env):
\* for any names, any arguments in any number, and any environment received.
THEOREM OneNodeEach == Spec => []OneNodePerKey
<1>1. IInv => OneNodePerKey
  BY DEF IInv, OneNodePerKey, NoDuplicates
<1> QED
  BY <1>1, Invariant, PTL

\* The list implements the map of EnvMap: each argument of a builtin, each cd
\* and each nested shell's start does to the list what it does to the map.
THEOREM ImplementsMap == Spec => MapSpec
<1>1. Init => Map!Init
  BY InitIInv
<1>2. IInv /\ [Next]_vars => [Map!Next]_<<Image(env), pc, args>>
  BY StepIInv
<1>3. Image(env) =
        [k \in Keys |-> IF ~Has(env, k) THEN Unset ELSE env[First(env, k)].value]
  BY DEF Image, Lookup
<1> QED
  BY <1>1, <1>2, <1>3, Invariant, PTL DEF Spec, MapSpec, Map!Spec, Map!vars, Image, Lookup
=============================================================================
