------------------------------ MODULE Session ------------------------------
(***************************************************************************)
(* A listener's sessions with a paid relay, from SUBSCRIBE to settlement:  *)
(* the listener's subscription (Subscription) and its signed cumulative    *)
(* commitments, the relay's account of them, and the settlement of that    *)
(* account (Settlement).  The account is the PrepaidMeter that             *)
(* PaymentLedger implements.                                               *)
(*                                                                         *)
(* These are the pieces of the library and of RelayNode, put together as   *)
(* the protocol's message types and the methods' comments say; the relay's *)
(* loop does not yet answer these messages.  The owner of the relay is a   *)
(* careful one: it hands each commitment it receives to                    *)
(* update_payment_commitment, and settles once per session, upon           *)
(* UNSUBSCRIBE, by the newest commitment that was accepted.  Whether the   *)
(* listener is told is left open.  The network loses messages and lets     *)
(* commitments overtake each other; the relay may be started anew, and     *)
(* keeps nothing.                                                          *)
(***************************************************************************)
EXTENDS PrepaidMeter, Settlement, Subscription, Sequences

LOCAL INSTANCE Functions

CONSTANTS
    Size,           \* chunk sizes, in bytes
    Refused,        \* bytes refused between two chunks that pass
    MaxRequests,    \* bound: SUBSCRIBEs of a listener
    MaxCleared      \* bound: no chunk once this much has been cleared

ASSUME SessionAssumption ==
    /\ NoCommitment \notin Commitment
    /\ \A c \in Commitment : /\ c.listener \in Listener
                             /\ c.seq \in Nat
                             /\ c.amount \in Nat
    /\ Size \subseteq Nat
    /\ Refused \subseteq Nat
    /\ MaxRequests \in Nat
    /\ MaxCleared \in Nat

VARIABLES
    relay,          \* the relay's network mode and payment configuration
    sub,            \* the listeners' SubscriptionState
    request,        \* history: how often each listener has subscribed
    signed,         \* the newest commitment each listener has signed
    link,           \* messages on their way, in either direction
    offers,         \* commitments on their way to the relay
    settled         \* history: what settle_payment returned, per listener

vars == <<latest, cleared, relay, sub, request, signed, link, offers, settled>>
account  == <<latest, cleared>>
listener == <<sub, request, signed>>

Mode == {"testnet", "mainnet"}

(* RelayNode::new takes any mode and any configuration, or none.           *)
Relays == [mode : Mode, config : PaymentConfig \cup {NoConfig}]

(* Without a payment configuration nothing is due, nor on the testnet; the *)
(* method does not matter.                                                 *)
Charges == relay.mode = "mainnet" /\ relay.config # NoConfig

Contract == ContractFor(relay.config)

(* Settled is whatever tells the listener that settlement is complete: the *)
(* protocol has no message type for it.                                    *)
Kind    == {"Subscribe", "SubAck", "SubReject", "Unsubscribe", "Settled"}
Message == [kind : Kind, listener : Listener, request : Nat]

Current(kind, l) == [kind |-> kind, listener |-> l, request |-> request[l]]

TypeOK ==
    /\ latest \in [Listener -> Commitment \cup {NoCommitment}]
    /\ cleared \in [Listener -> Nat]
    /\ relay \in Relays
    /\ sub \in [Listener -> SubscriptionState]
    /\ request \in [Listener -> Nat]
    /\ signed \in [Listener -> Commitment \cup {NoCommitment}]
    /\ link \subseteq Message
    /\ offers \subseteq Commitment
    /\ settled \in [Listener -> Seq(Nat)]

Init ==
    /\ MeterInit
    /\ relay \in Relays
    /\ sub = [l \in Listener |-> "Idle"]
    /\ request = [l \in Listener |-> 0]
    /\ signed = [l \in Listener |-> NoCommitment]
    /\ link = {}
    /\ offers = {}
    /\ settled = [l \in Listener |-> <<>>]
-----------------------------------------------------------------------------
(* Mutant: the state goes on although there is no transition.              *)
SendSubscribeAnyway(l) ==
    /\ request[l] < MaxRequests
    /\ sub' = [sub EXCEPT ![l] = OnSubscribe(sub[l])]
    /\ request' = [request EXCEPT ![l] = @ + 1]
    /\ link' = link \cup {[Current("Subscribe", l) EXCEPT !.request = @ + 1]}
    /\ UNCHANGED <<account, relay, signed, offers, settled>>

(* The listener sends SUBSCRIBE, if its state allows.                      *)
SendSubscribe(l) ==
    /\ OnSubscribe(sub[l]) # NoTransition
    /\ request[l] < MaxRequests
    /\ sub' = [sub EXCEPT ![l] = OnSubscribe(sub[l])]
    /\ request' = [request EXCEPT ![l] = @ + 1]
    /\ link' = link \cup {[Current("Subscribe", l) EXCEPT !.request = @ + 1]}
    /\ UNCHANGED <<account, relay, signed, offers, settled>>

SendUnsubscribe(l) ==
    /\ OnUnsubscribe(sub[l]) # NoTransition
    /\ sub' = [sub EXCEPT ![l] = OnUnsubscribe(sub[l])]
    /\ link' = link \cup {Current("Unsubscribe", l)}
    /\ UNCHANGED <<account, relay, request, signed, offers, settled>>

(* The listener has heard nothing for too long, and sends nothing either.  *)
TimeOut(l) ==
    /\ OnUnsubscribe(sub[l]) # NoTransition
    /\ sub' = [sub EXCEPT ![l] = OnUnsubscribe(sub[l])]
    /\ UNCHANGED <<account, relay, request, signed, link, offers, settled>>

(* A listener that receives chunks commits to a new cumulative amount.     *)
PayCommit(l) ==
    /\ CanReceiveChunks(sub[l])
    /\ \E c \in Commitment :
         /\ c.listener = l
         /\ Acceptable(c, signed[l])
         /\ signed' = [signed EXCEPT ![l] = c]
         /\ offers' = offers \cup {c}
    /\ UNCHANGED <<account, relay, sub, request, link, settled>>

(* What a message from the relay makes of the listener's state.            *)
After(m) ==
    CASE m.kind = "SubAck"    -> OnSubAck(sub[m.listener])
      [] m.kind = "SubReject" -> OnSubReject(sub[m.listener])
      [] m.kind = "Settled"   -> OnSettled(sub[m.listener])

ListenerReceives(m) ==
    /\ m \in link
    /\ m.kind \in {"SubAck", "SubReject", "Settled"}
    /\ sub' = IF After(m) = NoTransition
              THEN sub
              ELSE [sub EXCEPT ![m.listener] = After(m)]
    /\ link' = link \ {m}
    /\ UNCHANGED <<account, relay, request, signed, offers, settled>>
-----------------------------------------------------------------------------
(* A message of the relay takes the place of the one it answers.           *)
Replace(m, kind) == (link \ {m}) \cup {[m EXCEPT !.kind = kind]}

RelayAnswers(m) ==
    /\ m \in link
    /\ m.kind = "Subscribe"
    /\ \E kind \in {"SubAck", "SubReject"} : link' = Replace(m, kind)
    /\ UNCHANGED <<account, listener, relay, offers, settled>>

(* Mutant: the newest arrival replaces what was there.                     *)
RelayReceivesAny(c) ==
    /\ c \in offers
    /\ offers' = offers \ {c}
    /\ latest' = [latest EXCEPT ![c.listener] = c]
    /\ UNCHANGED <<cleared, listener, relay, link, settled>>

(* update_payment_commitment.                                              *)
RelayReceives(c) ==
    /\ c \in offers
    /\ offers' = offers \ {c}
    /\ latest' = IF Acceptable(c, latest[c.listener])
                 THEN [latest EXCEPT ![c.listener] = c]
                 ELSE latest
    /\ UNCHANGED <<cleared, listener, relay, link, settled>>

(* enforce_payment_limits says yes when n bytes are recorded, computing in *)
(* the machine's integers.                                                 *)
Enforced(l, n) ==
    Charges => /\ ~(OverflowChecks /\ RequiredOverflows(n))
               /\ RequiredAmount(n) <= AmountOf(latest[l])

(* Mutant: checks the usage before this chunk.                             *)
RelayForwardsOnCredit(l, refused, size) ==
    /\ cleared[l] < MaxCleared
    /\ Enforced(l, cleared[l])
    /\ cleared' = [cleared EXCEPT ![l] = @ + refused + size]
    /\ UNCHANGED <<latest, listener, relay, link, offers, settled>>

(* A chunk is let through.  The chunks refused since the last one are      *)
(* recorded as well (PaymentLedger).                                       *)
RelayForwards(l, refused, size) ==
    /\ cleared[l] < MaxCleared
    /\ Enforced(l, cleared[l] + refused + size)
    /\ cleared' = [cleared EXCEPT ![l] = @ + refused + size]
    /\ UNCHANGED <<latest, listener, relay, link, offers, settled>>

(* The relay's owner ends a session: process_payment_settlement, unless    *)
(* nothing was committed.  No code answers UNSUBSCRIBE: the owner may tell *)
(* the listener that it is settled, or not.                                *)
Settle(m) ==
    /\ m \in link
    /\ m.kind = "Unsubscribe"
    /\ link' \in {Replace(m, "Settled"), link \ {m}}
    /\ LET l == m.listener IN
       settled' = IF latest[l] # NoCommitment /\ Settles(Contract)
                  THEN [settled EXCEPT ![l] =
                          Append(@, SettledAmount(Contract, latest[l]))]
                  ELSE settled
    /\ UNCHANGED <<account, listener, relay, offers>>
-----------------------------------------------------------------------------
Lose ==
    /\ \/ \E m \in link : link' = link \ {m} /\ UNCHANGED offers
       \/ \E c \in offers : offers' = offers \ {c} /\ UNCHANGED link
    /\ UNCHANGED <<account, listener, relay, settled>>

(* A new process: RelayNode::new with empty tables.  What is on its way may*)
(* still reach it, commitments made to the former process too.             *)
RelayRestarts ==
    /\ latest' = [l \in Listener |-> NoCommitment]
    /\ cleared' = [l \in Listener |-> 0]
    /\ UNCHANGED <<listener, relay, link, offers, settled>>

Next ==
    \/ \E l \in Listener : \/ SendSubscribe(l)
                           \/ SendUnsubscribe(l)
                           \/ TimeOut(l)
                           \/ PayCommit(l)
                           \/ \E refused \in Refused, size \in Size :
                                RelayForwards(l, refused, size)
    \/ \E m \in link : ListenerReceives(m) \/ RelayAnswers(m) \/ Settle(m)
    \/ \E c \in offers : RelayReceives(c)
    \/ Lose
    \/ RelayRestarts

Spec == Init /\ [][Next]_vars
-----------------------------------------------------------------------------
(* There are never two messages of one listener's sessions on their way,   *)
(* and the one there is belongs to its current request and to the state it *)
(* waits in: no answer is ever taken for that to another request, whatever *)
(* was lost before.  This is why the state machine needs no request        *)
(* numbers, and it hangs on there being no way out of Pending and Closing  *)
(* but an answer (subscription.rs).                                        *)
AnswersAreCurrent ==
    \A m \in link :
        /\ m.request = request[m.listener]
        /\ sub[m.listener] = IF m.kind \in {"Unsubscribe", "Settled"}
                             THEN "Closing" ELSE "Pending"
        /\ \A n \in link : n.listener = m.listener => n = m

(* Nothing wraps around that makes a relay say yes: either the build       *)
(* checks, or the numbers are small.                                       *)
OverflowFree ==
    OverflowChecks \/ \A l \in Listener : ~RequiredOverflows(cleared[l])

(* The relay's account of a listener is one the listener has signed, in    *)
(* whatever order commitments arrive, from whichever life of the relay, and*)
(* however many are lost: no older commitment displaces a newer one, and   *)
(* what was forwarded is within it (update_payment_commitment,             *)
(* enforce_payment_limits).                                                *)
AccountIsCommitted ==
    \A l \in Listener :
        /\ latest[l] # NoCommitment =>
             \/ latest[l] = signed[l]
             \/ signed[l] # NoCommitment /\ Supersedes(signed[l], latest[l])
        /\ Charges => Cost(cleared[l]) <= AmountOf(latest[l])

(* No settlement ever takes more than the listener has signed by then,     *)
(* whichever of its commitments the relay held, and nothing a listener     *)
(* signs later makes an old settlement excessive (settle_payment).         *)
SettledIsSigned ==
    \A l \in Listener : \A i \in DOMAIN settled[l] :
        settled[l][i] <= AmountOf(signed[l])

(* Whenever a session is settled for money, the amount covers everything   *)
(* the relay has forwarded to that listener (process_payment_settlement).  *)
(* A relay with the method Free settles for no money whatever its price is.*)
SettlementCoversTraffic ==
    [][\A l \in Listener :
         /\ settled'[l] # settled[l]
         /\ Charges
         /\ Contract.method # "Free"
         => settled'[l][Len(settled'[l])] >= Cost(cleared[l])]_vars

(* "Signed cumulative commitments, lazy settlement" (README.md:44): what a *)
(* listener is charged, over all its sessions, is at most what it has      *)
(* committed to in the end.  settle_payment takes the whole cumulative     *)
(* amount every time.                                                      *)
Charged(l) == SumFunction(settled[l])

ChargedAtMostCommitted ==
    \A l \in Listener : Charged(l) <= AmountOf(signed[l])
=============================================================================
