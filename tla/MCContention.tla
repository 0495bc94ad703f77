----------------------------- MODULE MCContention -----------------------------
(***************************************************************************)
(* Two operators, one after the other or both at a time, and two clusters  *)
(* that share the name of their ClusterRoleBinding: a-b in the namespace c *)
(* and a in the namespace b-c.                                             *)
(***************************************************************************)
EXTENDS Contention

CONSTANTS AB_C, A_BC

Namesakes ==
    [c \in {AB_C, A_BC} |->
        IF c = AB_C
           THEN [name |-> <<"a", "b">>, namespace |-> <<"c">>, annotated |-> TRUE]
           ELSE [name |-> <<"a">>, namespace |-> <<"b", "c">>, annotated |-> TRUE]]

Creates(m, n) == [c \in {AB_C, A_BC} |-> IF c = AB_C THEN m ELSE n]

SomeScenarios ==
    {[election |-> TRUE, foreground |-> {AB_C}, creates |-> Creates(1, 1)],
     [election |-> TRUE, foreground |-> {AB_C}, creates |-> Creates(2, 0)],
     [election |-> FALSE, foreground |-> {AB_C}, creates |-> Creates(1, 0)]}

\* The worst of hashes.
SomeHash(s) == "hash"
=============================================================================
