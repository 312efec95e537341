------------------------------ MODULE Pricing ------------------------------
(***************************************************************************)
(* What a relay charges for bandwidth, as check_payment_sufficient         *)
(* computes it (mdrn-cli/src/relay.rs): every started MiB costs Price base *)
(* units.  The code computes in u64.  Word stands for 2^64, the first      *)
(* value that no longer fits; OverflowChecks tells the two builds apart: a *)
(* debug build panics when an operation overflows, a release build (the    *)
(* workspace sets no profile) wraps around.                                *)
(***************************************************************************)
EXTENDS Integers

CONSTANTS
    Price,          \* price_per_mb; without a payment config nothing is due,
                    \* as with price 0
    Word,           \* the integers are 0 .. Word - 1
    OverflowChecks  \* TRUE: debug build, FALSE: release build

ASSUME PricingAssumption ==
    /\ Word \in Nat \ {0}
    /\ Price \in Nat
    /\ Price < Word
    /\ OverflowChecks \in BOOLEAN

MiB == 1048576

Wrap(x) == x % Word

(* The exact price of b bytes, in unbounded arithmetic.                    *)
Cost(b) == ((b + MiB - 1) \div MiB) * Price

(* The number the code compares the payment with.                          *)
RequiredAmount(b) == Wrap((Wrap(b + MiB - 1) \div MiB) * Price)

(* Some intermediate result of RequiredAmount(b) does not fit, the first of*)
(* them b + MiB, from which 1 is taken afterwards.                         *)
RequiredOverflows(b) == b + MiB >= Word \/ Cost(b) >= Word
=============================================================================
