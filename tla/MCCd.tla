-------------------------------- MODULE MCCd ---------------------------------
(* Cd in a small tree, with and without a symbolic link.                   *)
EXTENDS Cd, TLC

Arg(a, p) == [absolute |-> a, path |-> p]

\* /a/b, each of which may be removed and made again once.
MCDirs == {"root", "a", "b", "a2", "b2", "b3", "r", "s"}
MCParent ==
  ("root" :> "root") @@ ("a" :> "root") @@ ("a2" :> "root") @@ ("r" :> "root")
    @@ ("b" :> "a") @@ ("b2" :> "a") @@ ("b3" :> "a2") @@ ("s" :> "r")
MCName ==
  ("root" :> "/") @@ ("a" :> "a") @@ ("a2" :> "a") @@ ("r" :> "r")
    @@ ("b" :> "b") @@ ("b2" :> "b") @@ ("b3" :> "b") @@ ("s" :> "s")
MCInitial == {"root", "a", "b", "r", "s"}
MCHomes == {Arg(TRUE, <<"a">>), Unset}

\* Arguments of up to three segments, and /l -> /r/s.
OneLink == "l" :> <<"r", "s">>
MCArgs ==
  {NoArg, Up, Arg(FALSE, <<".">>), Arg(FALSE, <<"a">>), Arg(FALSE, <<"b">>),
   Arg(FALSE, <<"a", "b">>), Arg(FALSE, <<"..", "..", "a">>), Arg(FALSE, <<"b", "..">>),
   Arg(TRUE, <<>>), Arg(TRUE, <<"a", ".", "b">>)}
     \union {Arg(FALSE, <<"l">>), Arg(FALSE, <<"r">>), Arg(FALSE, <<"s">>),
             Arg(TRUE, <<"l">>), Arg(TRUE, <<"r", "s">>)}
=============================================================================
