--------------------------- MODULE Session_proofs ---------------------------
(***************************************************************************)
(* Proofs about Session, for every set of listeners, commitments and chunk *)
(* sizes, any number of sessions, and every order, loss and restart.       *)
(*                                                                         *)
(* Types and AnswersAreCurrent are inductive together.  The account is     *)
(* not: a commitment that has overtaken another must still find that the   *)
(* listener signed it, which OffersAreSigned says of those on their way.   *)
(* That holds whatever the relay computes.  That what it forwards is paid  *)
(* for holds as long as nothing overflows unnoticed (OverflowFree), as in  *)
(* every debug build.                                                      *)
(***************************************************************************)
EXTENDS Session, Facts

(* c is a commitment the listener has signed, and none newer than its      *)
(* newest.                                                                 *)
SignedBy(c, newest) ==
    newest # NoCommitment /\ (c = newest \/ Supersedes(newest, c))

OffersAreSigned == \A c \in offers : SignedBy(c, signed[c.listener])

AccountsAreSigned ==
    \A l \in Listener :
        latest[l] # NoCommitment => SignedBy(latest[l], signed[l])

ForwardedIsPaid ==
    Charges => \A l \in Listener : Cost(cleared[l]) <= AmountOf(latest[l])

SignedInv == OffersAreSigned /\ AccountsAreSigned /\ SettledIsSigned

(* The price of relay.rs, check_payment_sufficient, grows with the bytes.  *)
LEMMA MoreCostsMore ==
    ASSUME NEW a \in Nat, NEW b \in Nat, a <= b
    PROVE  Cost(a) \in Nat /\ Cost(b) \in Nat /\ Cost(a) <= Cost(b)
  BY StartedMiBMonotone, PricingAssumption DEF Cost, MiB
-----------------------------------------------------------------------------
(* Types and answers                                                       *)

SessionInv == TypeOK /\ AnswersAreCurrent

(* The amount settle_payment returns on a commitment: nothing, or all.     *)
LEMMA AmountType ==
    ASSUME NEW c \in Commitment
    PROVE  SettledAmount(Contract, c) \in {0, c.amount} /\ c.amount \in Nat
  BY SessionAssumption DEF SettledAmount

(* Nothing is on its way, and everybody is idle.                           *)
LEMMA InitSessionInv == Init => SessionInv
  <1> SUFFICES ASSUME Init PROVE SessionInv
    OBVIOUS
  <1>1. TypeOK
    <2>1. <<>> \in Seq(Nat)
      OBVIOUS
    <2>2. settled \in [Listener -> Seq(Nat)]
      BY <2>1 DEF Init
    <2> QED
      BY <2>2 DEF Init, MeterInit, TypeOK, SubscriptionState
  <1>2. AnswersAreCurrent
    BY DEF Init, AnswersAreCurrent
  <1> QED
    BY <1>1, <1>2 DEF SessionInv

(* What the listeners do keeps types and answers: nothing is on its way to *)
(* a listener that is Idle or Active, so that a new request meets no older *)
(* answer.                                                                 *)
LEMMA ListenerSteps ==
    ASSUME SessionInv, NEW l \in Listener,
           \/ SendSubscribe(l) \/ SendUnsubscribe(l)
           \/ TimeOut(l) \/ PayCommit(l)
    PROVE  SessionInv'
  <1> USE DEF SessionInv, account
  <1>0. /\ sub[l] \in SubscriptionState
        /\ request[l] \in Nat
        /\ \A m \in link : m \in Message
    BY DEF TypeOK
  <1>1. CASE SendSubscribe(l)
    <2> DEFINE new == [Current("Subscribe", l) EXCEPT !.request = @ + 1]
    <2>1. sub[l] = "Idle" /\ sub' = [sub EXCEPT ![l] = "Pending"]
      BY <1>1 DEF SendSubscribe, OnSubscribe
    <2>2. /\ new = [kind |-> "Subscribe", listener |-> l,
                    request |-> request[l] + 1]
          /\ new \in Message
      BY <1>0 DEF Current, Message, Kind
    <2>3. link' = link \cup {new}
      BY <1>1 DEF SendSubscribe
    <2>4. request' = [request EXCEPT ![l] = request[l] + 1]
      BY <1>1 DEF SendSubscribe
    <2>5. \A m \in link : m.listener # l
      BY <2>1 DEF AnswersAreCurrent
    <2> HIDE DEF new
    <2>6. TypeOK'
      <3>1. sub' \in [Listener -> SubscriptionState]
        BY <2>1 DEF TypeOK, SubscriptionState
      <3>2. request' \in [Listener -> Nat]
        BY <1>0, <2>4 DEF TypeOK
      <3>3. link' \subseteq Message
        BY <1>0, <2>2, <2>3
      <3> QED
        BY <1>1, <3>1, <3>2, <3>3 DEF TypeOK, SendSubscribe
    <2>7. AnswersAreCurrent'
      BY <1>0, <2>1, <2>2, <2>3, <2>4, <2>5 DEF AnswersAreCurrent, TypeOK, Message
    <2> QED
      BY <2>6, <2>7
  <1>2. CASE SendUnsubscribe(l)
    <2> DEFINE new == Current("Unsubscribe", l)
    <2>1. sub[l] = "Active" /\ sub' = [sub EXCEPT ![l] = "Closing"]
      BY <1>2 DEF SendUnsubscribe, OnUnsubscribe
    <2>2. /\ new = [kind |-> "Unsubscribe", listener |-> l,
                    request |-> request[l]]
          /\ new \in Message
      BY <1>0 DEF Current, Message, Kind
    <2>3. link' = link \cup {new} /\ request' = request
      BY <1>2 DEF SendUnsubscribe
    <2>4. \A m \in link : m.listener # l
      BY <2>1 DEF AnswersAreCurrent
    <2> HIDE DEF new
    <2>5. TypeOK'
      BY <1>2, <2>1, <2>2, <2>3 DEF TypeOK, SendUnsubscribe, SubscriptionState
    <2>6. AnswersAreCurrent'
      BY <1>0, <2>1, <2>2, <2>3, <2>4 DEF AnswersAreCurrent, TypeOK, Message
    <2> QED
      BY <2>5, <2>6
  <1>3. CASE PayCommit(l)
    <2>1. TypeOK'
      BY <1>3 DEF PayCommit, TypeOK
    <2>2. AnswersAreCurrent'
      BY <1>3 DEF PayCommit, AnswersAreCurrent
    <2> QED
      BY <2>1, <2>2
  <1>4. CASE TimeOut(l)
    <2>1. sub[l] = "Active" /\ sub' = [sub EXCEPT ![l] = "Closing"]
      BY <1>4 DEF TimeOut, OnUnsubscribe
    <2>2. TypeOK'
      BY <1>4, <2>1 DEF TimeOut, TypeOK, SubscriptionState
    <2>3. \A m \in link : m.listener # l
      BY <2>1 DEF AnswersAreCurrent
    <2>4. AnswersAreCurrent'
      BY <1>0, <1>4, <2>1, <2>3 DEF TimeOut, AnswersAreCurrent, TypeOK, Message
    <2> QED
      BY <2>2, <2>4
  <1> QED
    BY <1>1, <1>2, <1>3, <1>4

(* What a message makes of the subscription of its listener is a state.    *)
LEMMA AfterType ==
    ASSUME TypeOK, NEW m \in link,
           m.kind \in {"SubAck", "SubReject", "Settled"},
           After(m) # NoTransition
    PROVE  After(m) \in SubscriptionState
  BY DEF After, OnSubAck, OnSubReject, OnSettled, SubscriptionState,
         NoTransition

(* A message is the only one of its listener: with it taken away, what the *)
(* listener makes of it concerns no other.                                 *)
LEMMA ListenerReceivesStep ==
    ASSUME SessionInv, NEW m \in link, ListenerReceives(m)
    PROVE  SessionInv'
  <1> USE DEF SessionInv, account
  <1>1. m.listener \in Listener
    BY DEF TypeOK, Message
  <1>2. link' = link \ {m} /\ UNCHANGED request
    BY DEF ListenerReceives
  <1>3. \A n \in link' : sub'[n.listener] = sub[n.listener]
    <2>1. \A n \in link' : n.listener # m.listener
      BY <1>2 DEF AnswersAreCurrent
    <2>2. \A l \in Listener : l # m.listener => sub'[l] = sub[l]
      BY DEF ListenerReceives, TypeOK
    <2> QED
      BY <1>2, <2>1, <2>2 DEF TypeOK, Message
  <1>4. sub' \in [Listener -> SubscriptionState]
    <2>1. CASE After(m) = NoTransition
      BY <2>1 DEF ListenerReceives, TypeOK
    <2>2. CASE After(m) # NoTransition
      BY <1>1, <2>2, AfterType DEF ListenerReceives, TypeOK
    <2> QED
      BY <2>1, <2>2
  <1>5. TypeOK'
    BY <1>2, <1>4 DEF ListenerReceives, TypeOK
  <1>6. AnswersAreCurrent'
    BY <1>2, <1>3 DEF AnswersAreCurrent
  <1> QED
    BY <1>5, <1>6

(* An answer takes the place of a request that waits in the same state.    *)
LEMMA ReplaceKeepsAnswers ==
    ASSUME SessionInv, NEW m \in link, NEW kind \in Kind,
           (kind \in {"Unsubscribe", "Settled"})
               <=> (m.kind \in {"Unsubscribe", "Settled"}),
           link' = Replace(m, kind), UNCHANGED <<sub, request>>
    PROVE  link' \subseteq Message /\ AnswersAreCurrent'
  <1> DEFINE n == [m EXCEPT !.kind = kind]
  <1>1. m \in Message
    BY DEF SessionInv, TypeOK
  <1>2. /\ n \in Message
        /\ n.kind = kind
        /\ n.listener = m.listener
        /\ n.request = m.request
    BY <1>1 DEF Message
  <1>3. link' = (link \ {m}) \cup {n}
    BY DEF Replace
  <1> HIDE DEF n
  <1>4. link' \subseteq Message
    BY <1>2, <1>3 DEF SessionInv, TypeOK
  <1>5. AnswersAreCurrent'
    BY <1>2, <1>3 DEF SessionInv, AnswersAreCurrent
  <1> QED
    BY <1>4, <1>5

(* Taking a message away disturbs nothing either.                          *)
LEMMA FewerKeepAnswers ==
    ASSUME SessionInv, link' \subseteq link, UNCHANGED <<sub, request>>
    PROVE  link' \subseteq Message /\ AnswersAreCurrent'
  BY DEF SessionInv, TypeOK, AnswersAreCurrent

(* What the relay and its owner do.                                        *)
LEMMA RelaySteps ==
    ASSUME SessionInv,
           \/ \E m \in link : RelayAnswers(m) \/ Settle(m)
           \/ \E c \in offers : RelayReceives(c)
           \/ \E l \in Listener, refused \in Refused, size \in Size :
                RelayForwards(l, refused, size)
    PROVE  SessionInv'
  <1> USE DEF account, listener
  <1>1. ASSUME NEW m \in link, RelayAnswers(m)
        PROVE  SessionInv'
    <2>1. PICK kind \in {"SubAck", "SubReject"} : link' = Replace(m, kind)
      BY <1>1 DEF RelayAnswers
    <2>2. link' \subseteq Message /\ AnswersAreCurrent'
      BY <1>1, <2>1, ReplaceKeepsAnswers DEF RelayAnswers, Kind
    <2> QED
      BY <1>1, <2>2 DEF SessionInv, RelayAnswers, TypeOK
  <1>2. ASSUME NEW m \in link, Settle(m)
        PROVE  SessionInv'
    <2> DEFINE result == SettledAmount(Contract, latest[m.listener])
    <2>1. m.listener \in Listener /\ latest[m.listener] \in Commitment \cup {NoCommitment}
      BY DEF SessionInv, TypeOK, Message
    <2>2. link' = Replace(m, "Settled") \/ link' = link \ {m}
      BY <1>2 DEF Settle
    <2>3. link' \subseteq Message /\ AnswersAreCurrent'
      BY <1>2, <2>2, ReplaceKeepsAnswers, FewerKeepAnswers DEF Settle, Kind
    <2>4. \/ settled' = settled
          \/ /\ latest[m.listener] # NoCommitment
             /\ settled' = [settled EXCEPT ![m.listener] = Append(@, result)]
      BY <1>2 DEF Settle
    <2>5. latest[m.listener] # NoCommitment => result \in Nat
      BY <2>1, AmountType
    <2> HIDE DEF result
    <2>6. settled' \in [Listener -> Seq(Nat)]
      <3>1. settled \in [Listener -> Seq(Nat)]
        BY DEF SessionInv, TypeOK
      <3>2. CASE settled' = settled
        BY <3>1, <3>2
      <3>3. CASE settled' # settled
        <4>1. result \in Nat
          BY <2>4, <2>5, <3>3
        <4>2. Append(settled[m.listener], result) \in Seq(Nat)
          BY <2>1, <3>1, <4>1
        <4> QED
          BY <2>4, <3>1, <3>3, <4>2
      <3> QED
        BY <3>2, <3>3
    <2> QED
      BY <1>2, <2>3, <2>6 DEF SessionInv, Settle, TypeOK
  <1>3. ASSUME NEW c \in offers, RelayReceives(c)
        PROVE  SessionInv'
    <2>1. c \in Commitment /\ c.listener \in Listener
      BY SessionAssumption DEF SessionInv, TypeOK
    <2> QED
      BY <1>3, <2>1 DEF SessionInv, RelayReceives, TypeOK, AnswersAreCurrent
  <1>4. ASSUME NEW l \in Listener, NEW refused \in Refused, NEW size \in Size,
               RelayForwards(l, refused, size)
        PROVE  SessionInv'
    <2>1. cleared[l] + refused + size \in Nat
      BY SessionAssumption DEF SessionInv, TypeOK
    <2> QED
      BY <1>4, <2>1 DEF SessionInv, RelayForwards, TypeOK, AnswersAreCurrent
  <1> QED
    BY <1>1, <1>2, <1>3, <1>4

(* The faults.                                                             *)
LEMMA FaultSteps ==
    ASSUME SessionInv, Lose \/ RelayRestarts
    PROVE  SessionInv'
  <1> USE DEF account, listener
  <1>1. link' \subseteq link /\ offers' \subseteq offers /\ UNCHANGED <<sub, request>>
    BY DEF Lose, RelayRestarts
  <1>2. link' \subseteq Message /\ AnswersAreCurrent'
    BY <1>1, FewerKeepAnswers
  <1>3. latest' \in [Listener -> Commitment \cup {NoCommitment}] /\ cleared' \in [Listener -> Nat]
    BY DEF Lose, RelayRestarts, SessionInv, TypeOK
  <1> QED
    BY <1>1, <1>2, <1>3 DEF Lose, RelayRestarts, SessionInv, TypeOK

(* Every step keeps types and answers.                                     *)
LEMMA NextSessionInv == SessionInv /\ [Next]_vars => SessionInv'
  <1> SUFFICES ASSUME SessionInv, [Next]_vars PROVE SessionInv'
    OBVIOUS
  <1>1. CASE UNCHANGED vars
    BY <1>1 DEF vars, SessionInv, TypeOK, AnswersAreCurrent
  <1>2. CASE Next
    BY <1>2, ListenerSteps, ListenerReceivesStep, RelaySteps, FaultSteps DEF Next
  <1> QED
    BY <1>1, <1>2

THEOREM SessionInvariance == Spec => []SessionInv
  BY InitSessionInv, NextSessionInv, PTL DEF Spec

(* Types of the protocol state, the account and what is under way.         *)
THEOREM SessionTypeCorrect == Spec => []TypeOK
  BY SessionInvariance, PTL DEF SessionInv

(* No answer is ever taken for that to another request: for any number of  *)
(* listeners and requests, whatever is lost, and however often the relay   *)
(* is started anew (subscription.rs).                                      *)
THEOREM SessionAnswersCurrent == Spec => []AnswersAreCurrent
  BY SessionInvariance, PTL DEF SessionInv
-----------------------------------------------------------------------------
(* What has been signed                                                    *)

(* Being signed survives newer signatures.                                 *)
LEMMA SignedByNewer ==
    ASSUME NEW c \in Commitment, NEW n \in Commitment, NEW old,
           old \in Commitment \cup {NoCommitment},
           SignedBy(c, old), Acceptable(n, old)
    PROVE  SignedBy(c, n)
  BY SessionAssumption DEF SignedBy, Acceptable, Supersedes

(* A commitment that may replace another is worth at least as much.        *)
LEMMA AcceptableIsWorthMore ==
    ASSUME NEW c \in Commitment, NEW p \in Commitment \cup {NoCommitment},
           Acceptable(c, p)
    PROVE  /\ AmountOf(p) \in Nat
           /\ AmountOf(c) \in Nat
           /\ AmountOf(p) <= AmountOf(c)
  BY SessionAssumption DEF Acceptable, Supersedes, AmountOf

(* The initial states.                                                     *)
LEMMA InitSignedInv == Init => SignedInv
  BY DEF Init, MeterInit, SignedInv, OffersAreSigned, AccountsAreSigned,
     SettledIsSigned

(* The listener signs: what was signed before still is, and it pays for    *)
(* what has been settled.                                                  *)
LEMMA PayCommitSigned ==
    ASSUME TypeOK, SignedInv, NEW l \in Listener, PayCommit(l)
    PROVE  SignedInv'
  <1> USE DEF SignedInv, account
  <1>1. PICK c \in Commitment :
          /\ c.listener = l
          /\ Acceptable(c, signed[l])
          /\ signed' = [signed EXCEPT ![l] = c]
          /\ offers' = offers \cup {c}
    BY DEF PayCommit
  <1>2. c # NoCommitment
    BY SessionAssumption
  <1>3. \A d \in Commitment : SignedBy(d, signed[l]) => SignedBy(d, c)
    BY <1>1, SignedByNewer DEF TypeOK
  <1>4. \A k \in Listener : signed'[k] = IF k = l THEN c ELSE signed[k]
    BY <1>1 DEF TypeOK
  <1>5. OffersAreSigned'
    <2> SUFFICES ASSUME NEW d \in offers' PROVE SignedBy(d, signed'[d.listener])
      BY DEF OffersAreSigned, SignedBy, Supersedes
    <2>1. CASE d = c
      BY <1>1, <1>2, <1>4, <2>1 DEF SignedBy
    <2>2. CASE d # c
      <3>1. d \in offers /\ d \in Commitment /\ d.listener \in Listener
        BY <1>1, <2>2, SessionAssumption DEF TypeOK
      <3> QED
        BY <1>3, <1>4, <3>1 DEF OffersAreSigned
    <2> QED
      BY <2>1, <2>2
  <1>6. AccountsAreSigned'
    <2> SUFFICES ASSUME NEW k \in Listener, latest[k] # NoCommitment
                 PROVE  SignedBy(latest[k], signed'[k])
      BY DEF PayCommit, AccountsAreSigned, SignedBy, Supersedes
    <2>1. latest[k] \in Commitment
      BY DEF TypeOK
    <2> QED
      BY <1>3, <1>4, <2>1 DEF AccountsAreSigned
  <1>7. SettledIsSigned'
    <2> SUFFICES ASSUME NEW k \in Listener, NEW i \in DOMAIN settled[k]
                 PROVE  settled[k][i] <= AmountOf(signed'[k])
      BY DEF PayCommit, SettledIsSigned, AmountOf
    <2>1. /\ AmountOf(signed[k]) \in Nat
          /\ AmountOf(signed'[k]) \in Nat
          /\ AmountOf(signed[k]) <= AmountOf(signed'[k])
      <3>1. signed[k] \in Commitment \cup {NoCommitment}
        BY DEF TypeOK
      <3>2. AmountOf(signed[k]) \in Nat
        BY <3>1, SessionAssumption DEF AmountOf
      <3> QED
        BY <1>1, <1>4, <3>1, <3>2, AcceptableIsWorthMore
    <2>2. settled[k][i] \in Nat /\ settled[k][i] <= AmountOf(signed[k])
      BY DEF SettledIsSigned, TypeOK
    <2> QED
      BY <2>1, <2>2
  <1> QED
    BY <1>5, <1>6, <1>7

(* The relay receives a commitment, in whatever order.                     *)
LEMMA RelayReceivesSigned ==
    ASSUME TypeOK, SignedInv, NEW c \in offers, RelayReceives(c)
    PROVE  SignedInv'
  <1> USE DEF SignedInv, listener
  <1>1. c \in Commitment /\ c.listener \in Listener
    BY SessionAssumption DEF TypeOK
  <1>2. UNCHANGED <<signed, settled>> /\ offers' \subseteq offers
    BY DEF RelayReceives
  <1>3. \A k \in Listener :
          \/ latest'[k] = latest[k]
          \/ k = c.listener /\ latest'[k] = c
    BY <1>1 DEF RelayReceives, TypeOK
  <1>4. OffersAreSigned'
    BY <1>2 DEF OffersAreSigned, SignedBy, Supersedes
  <1>5. AccountsAreSigned'
    BY <1>2, <1>3 DEF AccountsAreSigned, OffersAreSigned, SignedBy, Supersedes
  <1>6. SettledIsSigned'
    BY <1>2 DEF SettledIsSigned, AmountOf
  <1> QED
    BY <1>4, <1>5, <1>6

(* A session is settled, by a commitment the listener has signed.          *)
LEMMA SettleSigned ==
    ASSUME TypeOK, SignedInv, NEW m \in link, Settle(m)
    PROVE  SignedInv'
  <1> USE DEF SignedInv, account, listener
  <1> DEFINE l == m.listener
             amount == SettledAmount(Contract, latest[l])
  <1>1. l \in Listener /\ settled \in [Listener -> Seq(Nat)]
    BY DEF TypeOK, Message
  <1>2. UNCHANGED <<latest, signed, offers>>
    BY DEF Settle
  <1>3. OffersAreSigned' /\ AccountsAreSigned'
    BY <1>2 DEF OffersAreSigned, AccountsAreSigned, SignedBy, Supersedes
  <1>4. SettledIsSigned'
    <2>1. CASE settled' = settled
      BY <1>2, <2>1 DEF SettledIsSigned, AmountOf
    <2>2. CASE settled' # settled
      <3>1. /\ latest[l] # NoCommitment
            /\ settled' = [settled EXCEPT ![l] = Append(settled[l], amount)]
        BY <2>2 DEF Settle
      <3>2. amount \in Nat /\ amount <= AmountOf(signed[l])
        <4>1. latest[l] \in Commitment
          BY <1>1, <3>1 DEF TypeOK
        <4>2. /\ amount \in {0, latest[l].amount}
              /\ latest[l].amount \in Nat
          BY <4>1, AmountType
        <4>3. /\ signed[l] \in Commitment
              /\ signed[l].amount >= latest[l].amount
          <5>1. SignedBy(latest[l], signed[l])
            BY <1>1, <3>1 DEF AccountsAreSigned
          <5>2. signed[l] \in Commitment
            BY <1>1, <5>1 DEF SignedBy, TypeOK
          <5>3. latest[l] = signed[l] \/ signed[l].amount >= latest[l].amount
            BY <5>1 DEF SignedBy, Supersedes
          <5> HIDE DEF l
          <5> QED
            BY <4>2, <5>2, <5>3
        <4>4. AmountOf(signed[l]) = signed[l].amount /\ signed[l].amount \in Nat
          BY <4>3, SessionAssumption DEF AmountOf
        <4> HIDE DEF amount
        <4> QED
          BY <4>2, <4>3, <4>4
      <3> SUFFICES ASSUME NEW k \in Listener, NEW i \in DOMAIN settled'[k]
                   PROVE  settled'[k][i] <= AmountOf(signed[k])
        BY <1>2 DEF SettledIsSigned, AmountOf
      <3> HIDE DEF amount
      <3>3. CASE k # l
        BY <1>1, <3>1, <3>3 DEF SettledIsSigned
      <3>4. CASE k = l
        <4>1. settled'[l] = Append(settled[l], amount) /\ settled[l] \in Seq(Nat)
          BY <1>1, <3>1
        <4>2. settled'[l][i] = amount \/ (i \in DOMAIN settled[l] /\ settled'[l][i] = settled[l][i])
          BY <3>2, <3>4, <4>1
        <4> QED
          BY <1>1, <3>2, <3>4, <4>2 DEF SettledIsSigned
      <3> QED
        BY <3>3, <3>4
    <2> QED
      BY <2>1, <2>2
  <1> QED
    BY <1>3, <1>4

(* Steps that leave accounts and settlements alone, or forget accounts.    *)
LEMMA OtherSignedSteps ==
    ASSUME SignedInv, UNCHANGED <<signed, settled>>, offers' \subseteq offers,
           latest' = latest \/ latest' = [l \in Listener |-> NoCommitment]
    PROVE  SignedInv'
  <1> USE DEF SignedInv
  <1>1. OffersAreSigned'
    BY DEF OffersAreSigned, SignedBy, Supersedes
  <1>2. AccountsAreSigned'
    BY DEF AccountsAreSigned, SignedBy, Supersedes
  <1>3. SettledIsSigned'
    BY DEF SettledIsSigned, AmountOf
  <1> QED
    BY <1>1, <1>2, <1>3

(* Every step keeps what is signed.                                        *)
LEMMA NextSignedInv == TypeOK /\ SignedInv /\ [Next]_vars => SignedInv'
  <1> SUFFICES ASSUME TypeOK, SignedInv, [Next]_vars PROVE SignedInv'
    OBVIOUS
  <1> USE DEF account, listener
  <1>1. ASSUME NEW l \in Listener,
               SendSubscribe(l) \/ SendUnsubscribe(l) \/ TimeOut(l)
        PROVE  SignedInv'
    BY <1>1, OtherSignedSteps DEF SendSubscribe, SendUnsubscribe, TimeOut
  <1>2. ASSUME NEW l \in Listener, NEW refused \in Refused, NEW size \in Size,
               RelayForwards(l, refused, size)
        PROVE  SignedInv'
    BY <1>2, OtherSignedSteps DEF RelayForwards
  <1>3. ASSUME NEW m \in link, ListenerReceives(m) \/ RelayAnswers(m)
        PROVE  SignedInv'
    BY <1>3, OtherSignedSteps DEF ListenerReceives, RelayAnswers
  <1>4. CASE Lose
    BY <1>4, OtherSignedSteps DEF Lose
  <1>5. CASE RelayRestarts
    BY <1>5, OtherSignedSteps DEF RelayRestarts
  <1>6. CASE UNCHANGED vars
    BY <1>6, OtherSignedSteps DEF vars
  <1> QED
    BY <1>1, <1>2, <1>3, <1>4, <1>5, <1>6, PayCommitSigned,
       RelayReceivesSigned, SettleSigned DEF Next

LEMMA SignedInvariance == Spec => []SignedInv
  BY InitSignedInv, NextSignedInv, SessionTypeCorrect, PTL DEF Spec

(* The commitment a relay holds of a listener is one that listener has     *)
(* signed, its newest or an older one, in whatever order commitments       *)
(* arrive and to whichever life of the relay (update_payment_commitment).  *)
(* The numbers may overflow.                                               *)
THEOREM SessionAccountsSigned == Spec => []AccountsAreSigned
  BY SignedInvariance, PTL DEF SignedInv

(* No settlement takes more than the listener has signed (settle_payment), *)
(* whatever the relay's configuration, and whether numbers overflow or not.*)
THEOREM SessionSettledSigned == Spec => []SettledIsSigned
  BY SignedInvariance, PTL DEF SignedInv
-----------------------------------------------------------------------------
(* What has been paid                                                      *)

(* A relay that has just been created has cleared nothing, for nothing.    *)
LEMMA NothingIsFree == Cost(0) = 0 /\ AmountOf(NoCommitment) = 0
  <1>1. (0 + MiB - 1) \div MiB = 0
    BY DEF MiB
  <1> QED
    BY <1>1, PricingAssumption DEF Cost, AmountOf

(* When nothing overflows, the amount the code asks for is the exact cost. *)
LEMMA RequiredIsExact ==
    ASSUME NEW b \in Nat, ~RequiredOverflows(b)
    PROVE  RequiredAmount(b) = Cost(b)
  <1>1. \A x \in Nat : x < Word => Wrap(x) = x
    BY PricingAssumption DEF Wrap
  <1>2. b + MiB - 1 \in Nat /\ b + MiB - 1 < Word
    BY PricingAssumption DEF RequiredOverflows, MiB
  <1>3. Cost(b) \in Nat /\ Cost(b) < Word
    BY MoreCostsMore, PricingAssumption DEF RequiredOverflows
  <1> QED
    BY <1>1, <1>2, <1>3 DEF RequiredAmount, Cost

(* The relay receives a commitment: it is worth no less than the last.     *)
LEMMA RelayReceivesPaid ==
    ASSUME TypeOK, ForwardedIsPaid, NEW c \in offers, RelayReceives(c)
    PROVE  ForwardedIsPaid'
  <1>1. c \in Commitment /\ c.listener \in Listener
    BY SessionAssumption DEF TypeOK
  <1>2. UNCHANGED <<cleared, relay>>
    BY DEF RelayReceives
  <1>3. \A k \in Listener :
          \/ latest'[k] = latest[k]
          \/ k = c.listener /\ latest'[k] = c /\ Acceptable(c, latest[k])
    BY <1>1 DEF RelayReceives, TypeOK
  <1> SUFFICES ASSUME Charges, NEW k \in Listener
               PROVE  Cost(cleared[k]) <= AmountOf(latest'[k])
    BY <1>2 DEF ForwardedIsPaid, Charges, AmountOf, Cost
  <1>4. /\ Cost(cleared[k]) \in Nat
        /\ Cost(cleared[k]) <= AmountOf(latest[k])
    BY MoreCostsMore DEF ForwardedIsPaid, TypeOK
  <1>5. AmountOf(latest[k]) \in Nat /\ AmountOf(c) \in Nat
    BY <1>1, SessionAssumption DEF TypeOK, AmountOf
  <1>6. Acceptable(c, latest[k]) => AmountOf(latest[k]) <= AmountOf(c)
    BY <1>1, AcceptableIsWorthMore DEF TypeOK
  <1> QED
    BY <1>3, <1>4, <1>5, <1>6

(* A chunk is forwarded, for an amount that has not wrapped around.        *)
LEMMA RelayForwardsPaid ==
    ASSUME TypeOK, ForwardedIsPaid, OverflowFree',
           NEW l \in Listener, NEW refused \in Refused, NEW size \in Size,
           RelayForwards(l, refused, size)
    PROVE  ForwardedIsPaid'
  <1> DEFINE n == cleared[l] + refused + size
  <1>1. n \in Nat
    BY SessionAssumption DEF TypeOK
  <1>2. /\ UNCHANGED <<latest, relay>>
        /\ Enforced(l, n)
        /\ cleared' = [cleared EXCEPT ![l] = n]
    BY DEF RelayForwards, listener
  <1> HIDE DEF n
  <1>3. \A k \in Listener : cleared'[k] = IF k = l THEN n ELSE cleared[k]
    BY <1>2 DEF TypeOK
  <1>4. OverflowChecks \/ ~RequiredOverflows(n)
    BY <1>3 DEF OverflowFree, RequiredOverflows, Cost
  <1>5. Charges => Cost(n) <= AmountOf(latest[l])
    <2> SUFFICES ASSUME Charges PROVE Cost(n) <= AmountOf(latest[l])
      OBVIOUS
    <2>1. ~RequiredOverflows(n) /\ RequiredAmount(n) <= AmountOf(latest[l])
      BY <1>2, <1>4 DEF Enforced
    <2> QED
      BY <1>1, <2>1, RequiredIsExact
  <1> QED
    BY <1>2, <1>3, <1>5 DEF ForwardedIsPaid, Charges, AmountOf, Cost

(* Steps that leave the accounts alone, or forget them.                    *)
LEMMA OtherPaidSteps ==
    ASSUME ForwardedIsPaid, UNCHANGED relay,
           \/ UNCHANGED account
           \/ /\ latest' = [l \in Listener |-> NoCommitment]
              /\ cleared' = [l \in Listener |-> 0]
    PROVE  ForwardedIsPaid'
  BY NothingIsFree DEF ForwardedIsPaid, Charges, account

(* Every step keeps what was forwarded paid, as long as no amount wraps.   *)
LEMMA NextPaid ==
    TypeOK /\ ForwardedIsPaid /\ OverflowFree' /\ [Next]_vars => ForwardedIsPaid'
  <1> SUFFICES ASSUME TypeOK, ForwardedIsPaid, OverflowFree', [Next]_vars
               PROVE  ForwardedIsPaid'
    OBVIOUS
  <1>1. ASSUME NEW l \in Listener,
               SendSubscribe(l) \/ SendUnsubscribe(l) \/ TimeOut(l) \/ PayCommit(l)
        PROVE  ForwardedIsPaid'
    BY <1>1, OtherPaidSteps DEF SendSubscribe, SendUnsubscribe, TimeOut, PayCommit
  <1>2. ASSUME NEW m \in link,
               ListenerReceives(m) \/ RelayAnswers(m) \/ Settle(m)
        PROVE  ForwardedIsPaid'
    BY <1>2, OtherPaidSteps DEF ListenerReceives, RelayAnswers, Settle
  <1>3. CASE Lose
    BY <1>3, OtherPaidSteps DEF Lose
  <1>4. CASE RelayRestarts
    BY <1>4, OtherPaidSteps DEF RelayRestarts
  <1>5. CASE UNCHANGED vars
    BY <1>5, OtherPaidSteps DEF vars, account
  <1> QED
    BY <1>1, <1>2, <1>3, <1>4, <1>5, RelayReceivesPaid, RelayForwardsPaid
    DEF Next

LEMMA PaidInvariance == Spec /\ []OverflowFree => []ForwardedIsPaid
  <1>1. Init => ForwardedIsPaid
    BY NothingIsFree DEF Init, MeterInit, ForwardedIsPaid
  <1> QED
    BY <1>1, NextPaid, SessionTypeCorrect, PTL DEF Spec

(* The relay's account of a listener is one that listener has signed, in   *)
(* whatever order commitments arrive, and what it forwards on mainnet is   *)
(* within it (update_payment_commitment, enforce_payment_limits), in every *)
(* behaviour in which no amount wraps around unnoticed.  In a release      *)
(* build one may, see ledger_release_wrap.cfg.                             *)
THEOREM SessionAccountCommitted ==
    Spec /\ []OverflowFree => []AccountIsCommitted
  <1>1. AccountsAreSigned /\ ForwardedIsPaid => AccountIsCommitted
    BY DEF AccountsAreSigned, ForwardedIsPaid, SignedBy, AccountIsCommitted
  <1> QED
    BY <1>1, SessionAccountsSigned, PaidInvariance, PTL

(* A settlement for money covers all that was forwarded to the listener:   *)
(* for any number of sessions, every mode and configuration, whatever      *)
(* became of commitments and messages, as long as no amount wraps around   *)
(* unnoticed (process_payment_settlement).                                 *)
THEOREM SessionSettlementCovers ==
    Spec /\ []OverflowFree => SettlementCoversTraffic
  <1>1. ASSUME TypeOK, ForwardedIsPaid, [Next]_vars, NEW l \in Listener,
               settled'[l] # settled[l], Charges, Contract.method # "Free"
        PROVE  settled'[l][Len(settled'[l])] >= Cost(cleared[l])
    <2> DEFINE amount == SettledAmount(Contract, latest[l])
    <2>1. PICK m \in link : Settle(m)
      BY <1>1 DEF Next, vars, SendSubscribe, SendUnsubscribe, TimeOut,
         PayCommit, ListenerReceives, RelayAnswers, RelayReceives,
         RelayForwards, Lose, RelayRestarts
    <2>2. settled \in [Listener -> Seq(Nat)]
      BY <1>1 DEF TypeOK
    <2>3. /\ m.listener = l
          /\ latest[l] # NoCommitment
          /\ settled' = [settled EXCEPT ![l] = Append(@, amount)]
      BY <1>1, <2>1, <2>2 DEF Settle
    <2>4. latest[l] \in Commitment
      BY <1>1, <2>3 DEF TypeOK
    <2>5. amount = latest[l].amount /\ latest[l].amount \in Nat
      BY <1>1, <2>4, SessionAssumption DEF SettledAmount
    <2> HIDE DEF amount
    <2>6. settled'[l][Len(settled'[l])] = amount
      BY <2>2, <2>3, <2>5
    <2>7. Cost(cleared[l]) \in Nat /\ Cost(cleared[l]) <= latest[l].amount
      <3>1. cleared[l] \in Nat
        BY <1>1 DEF TypeOK
      <3> QED
        BY <1>1, <2>3, <3>1, MoreCostsMore DEF ForwardedIsPaid, AmountOf
    <2> QED
      BY <2>5, <2>6, <2>7
  <1>2. TypeOK /\ ForwardedIsPaid /\ [Next]_vars =>
          [\A l \in Listener :
             /\ settled'[l] # settled[l]
             /\ Charges
             /\ Contract.method # "Free"
             => settled'[l][Len(settled'[l])] >= Cost(cleared[l])]_vars
    BY <1>1
  <1> QED
    BY <1>2, SessionTypeCorrect, PaidInvariance, PTL
    DEF Spec, SettlementCoversTraffic
=============================================================================
