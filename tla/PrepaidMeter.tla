---------------------------- MODULE PrepaidMeter ----------------------------
(***************************************************************************)
(* What the payment accounting of a relay promises, without the tasks, the *)
(* locks and the usage table that implement it: for every listener the     *)
(* relay keeps the latest cumulative commitment, and it clears traffic up  *)
(* to a byte count that the latest commitment pays for.                    *)
(***************************************************************************)
EXTENDS Pricing

CONSTANTS
    Listener,       \* identities that subscribe and pay
    Commitment,     \* payment commitments: records with listener, seq, amount
    NoCommitment    \* the listener has not committed to anything yet

VARIABLES
    latest,         \* [Listener -> Commitment \cup {NoCommitment}]
    cleared         \* [Listener -> Nat]: bytes cleared for forwarding

meterVars == <<latest, cleared>>

AmountOf(c) == IF c = NoCommitment THEN 0 ELSE c.amount

(* Mutant: the amounts are not compared.                                   *)
SupersedesBySequence(c, p) == c.seq > p.seq

(* c may replace p: PaymentCommitment::validate_supersedes.                *)
Supersedes(c, p) == c.seq > p.seq /\ c.amount >= p.amount

(* p, if there is any, does not stand in the way of c.                     *)
Acceptable(c, p) == p # NoCommitment => Supersedes(c, p)

MeterInit ==
    /\ latest = [l \in Listener |-> NoCommitment]
    /\ cleared = [l \in Listener |-> 0]

Commit(l) ==
    /\ \E c \in Commitment :
         /\ c.listener = l
         /\ Acceptable(c, latest[l])
         /\ latest' = [latest EXCEPT ![l] = c]
    /\ UNCHANGED cleared

(* The new byte count is any one the latest commitment pays for.           *)
Clear(l) ==
    /\ cleared'[l] >= cleared[l]
    /\ Cost(cleared'[l]) <= AmountOf(latest[l])
    /\ cleared' = [cleared EXCEPT ![l] = cleared'[l]]
    /\ UNCHANGED latest

MeterNext == \E l \in Listener : Commit(l) \/ Clear(l)

MeterSpec == MeterInit /\ [][MeterNext]_meterVars
=============================================================================
