----------------------------- MODULE MCSession -----------------------------
(***************************************************************************)
(* Instances of Session for TLC.                                           *)
(***************************************************************************)
EXTENDS Session

CONSTANTS alice

OneListener == {alice}
OneMiB      == {MiB}
NoneOrOne   == {0, MiB}
TwoMiB      == 2 * MiB

(* The price of the third MiB wraps to less than that of the first.        *)
SteepPrice == 3 * MiB
SteepWord  == 8 * MiB

(* Two amounts, three sequence numbers: amounts rise or stay.              *)
Commitments == [listener : OneListener, seq : 1..3, amount : {Price, 2 * Price}]
=============================================================================
