-------------------------- MODULE MCPaymentLedger --------------------------
(***************************************************************************)
(* Instances of PaymentLedger for TLC.                                     *)
(***************************************************************************)
EXTENDS PaymentLedger

CONSTANTS alice, t1, t2

OneListener == {alice}
TwoTasks    == {t1, t2}

(* The sizes of chunks: a MiB, or three quarters of one, of which two start*)
(* the second MiB and three the third.                                     *)
OneSize    == {MiB}
MostOfAMiB == {3 * (MiB \div 4)}

TwoMiB == 2 * MiB

(* Four such chunks do not fit, nor does the price of three of them.       *)
NarrowWord  == 3 * MiB
NarrowPrice == MiB + MiB \div 4

(* The price of the second MiB wraps to zero, byte counts are far from it. *)
SteepPrice == 4 * MiB
SteepWord  == 8 * MiB

(* What a listener may sign: amounts that pay for nothing, for one MiB or  *)
(* for two, some with the same sequence number, and a later one for less.  *)
Signed(seqs, amounts) ==
    [listener : OneListener, seq : seqs, amount : amounts]

UnevenCommitments == Signed({1}, {Price}) \cup Signed({2}, {1, 2 * Price})
SmallCommitments  == Signed(1..2, {Price})

AllOperations      == {"record", "check", "enforce", "update", "abandon"}
MeteringOperations == {"enforce", "update", "abandon"}
=============================================================================
