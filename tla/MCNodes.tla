------------------------------ MODULE MCNodes ------------------------------
(***************************************************************************)
(* Instances of Nodes for TLC.                                             *)
(***************************************************************************)
EXTENDS Nodes, TLC

CONSTANTS p1, p2

TwoProcesses == {p1, p2}

(* One name: two programs have two streams between them.                   *)
Names == {[width |-> 1, chars |-> 5]}

AllTags == {"News", "news", "jazz"}
LowerCase == [t \in AllTags |-> IF t = "News" THEN "news" ELSE t]
SomeTagSets == {{}, {"News", "news"}}

Symmetry == Permutations(Process)
=============================================================================
