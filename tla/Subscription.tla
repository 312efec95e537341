---------------------------- MODULE Subscription ----------------------------
(***************************************************************************)
(* The subscription of a listener to a stream                              *)
(* (mdrn-core/src/stream/subscription.rs): a state and what each event     *)
(* makes of it.  An event that does not fit the state has no transition;   *)
(* callers then stay where they are.                                       *)
(***************************************************************************)

SubscriptionState == {"Idle", "Pending", "Active", "Closing"}

NoTransition == "None"

OnSubscribe(s)   == IF s = "Idle" THEN "Pending" ELSE NoTransition
OnSubAck(s)      == IF s = "Pending" THEN "Active" ELSE NoTransition
OnSubReject(s)   == IF s = "Pending" THEN "Idle" ELSE NoTransition
OnSettled(s)     == IF s = "Closing" THEN "Idle" ELSE NoTransition

(* Mutant: a listener that loses patience may leave while it waits.        *)
OnUnsubscribeOrTimeout(s) ==
    IF s \in {"Pending", "Active"} THEN "Closing" ELSE NoTransition

(* UNSUBSCRIBE has been sent, or a timeout has passed.                     *)
OnUnsubscribe(s) == IF s = "Active" THEN "Closing" ELSE NoTransition

CanReceiveChunks(s) == s = "Active"
=============================================================================
