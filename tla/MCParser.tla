------------------------------ MODULE MCParser ------------------------------
(* Every list of up to MaxTokens tokens before END.                        *)
EXTENDS Parser

CONSTANT MaxTokens

MCLines == {Append(l, "END") : l \in BoundedSeq(Types \ {"END"}, MaxTokens)}

MCInit == tokens \in MCLines /\ status = 7 /\ Init

MCSpec == MCInit /\ [][Next]_vars
=============================================================================
