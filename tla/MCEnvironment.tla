--------------------------- MODULE MCEnvironment ----------------------------
(* Environment with small sets of names, values and initial environments.  *)
EXTENDS Environment

Bind(k, v) == [key |-> k, value |-> v]

\* Nothing; a few names in some order, with and without a value.
MCEnvirons ==
  {<<>>,
   <<Bind("OLDPWD", NULL), Bind("SHLVL", "x")>>,
   <<Bind("_", "x"), Bind("PWD", "x"), Bind("SHLVL", NULL)>>}

\* The names the shell treats apart; any other one behaves like SHLVL does once
\* the shell has started.
MCKeys == {"PWD", "OLDPWD", "SHLVL", "_"}
MCDirs == {"x", "cwd"}
MCValues == Given \union MCDirs

\* The values of arguments that have none are not looked at.
MCArgs ==
  [mode : {"set"}, key : {"OLDPWD"}, value : {"x"}]
    \union [mode : {"declare"}, key : MCKeys, value : {""}]
    \union [mode : {"append", "invalid"}, key : {"PWD"}, value : {"x"}]
=============================================================================
