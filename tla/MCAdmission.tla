---------------------------- MODULE MCAdmission ----------------------------
(***************************************************************************)
(* Instances of Admission for TLC.                                         *)
(***************************************************************************)
EXTENDS Admission

CONSTANTS root, alice

Everyone == {root, alice}
Roots    == {root}
Days     == {1}

(* It looks as if root had vouched for alice.                              *)
Forgeries ==
    {[subject |-> alice, issuer |-> root, expires |-> 1, genuine |-> FALSE]}
=============================================================================
