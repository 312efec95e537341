------------------------- MODULE Admission_proofs --------------------------
(***************************************************************************)
(* Proofs about Admission, for any identities and genesis keys and for any *)
(* number of vouches and verdicts.                                         *)
(***************************************************************************)
EXTENDS Admission, TLAPS

(* What a mainnet relay should have said at the time of a verdict.         *)
Deserved(d) ==
    /\ d.vouch.genuine
    /\ d.vouch.expires # Never => d.at <= d.vouch.expires
    /\ d.vouch.subject = d.who
    /\ d.who \in Genesis \/ d.vouch.issuer \in Genesis

(* Each verdict in the history is the one its vouch deserved then.         *)
VerdictsDeserved ==
    \A d \in verdicts : d.ok <=> (~RequiresVouches(relayMode) \/ Deserved(d))

IInv == TypeOK /\ VerdictsDeserved

(* Every vouch ends up with an expiry in its type.                         *)
LEMMA ExpiryType ==
    ASSUME TypeOK, AdmissionAssumption, NEW days \in Lifetime \cup {Never}
    PROVE  Expiry(days) \in Nat \cup {Never}
BY DEF TypeOK, AdmissionAssumption, Expiry

(* The actions that decide nothing leave the verdicts and what they were   *)
(* measured by alone.                                                      *)
LEMMA VerdictsKept ==
    ASSUME VerdictsDeserved, UNCHANGED <<relayMode, verdicts>>
    PROVE  VerdictsDeserved'
BY DEF VerdictsDeserved, Deserved, RequiresVouches

(* The initial states satisfy the invariant.                               *)
LEMMA InitIInv == Init => IInv
BY DEF Init, IInv, TypeOK, VerdictsDeserved, Mode

(* A broadcast that begins with an issued vouch or a forged one keeps the  *)
(* types.                                                                  *)
LEMMA StartTypes ==
    ASSUME TypeOK, NEW i \in Identity,
           NEW v \in issued \cup Forged, Start(i, v)
    PROVE  TypeOK'
BY DEF TypeOK, Start

(* Every step keeps the invariant.                                         *)
LEMMA NextIInv == ASSUME AdmissionAssumption, IInv, [Next]_vars PROVE IInv'
<1> USE DEF IInv
<1>1. CASE Tick
  <2>1. \A d \in verdicts : d.at \in 0..(now + 1) BY DEF TypeOK
  <2>2. TypeOK' BY <1>1, <2>1 DEF Tick, TypeOK
  <2>3. VerdictsDeserved' BY <1>1, VerdictsKept DEF Tick
  <2> QED BY <2>2, <2>3
<1>2. ASSUME NEW i \in Identity, NEW s \in Identity,
             NEW days \in Lifetime \cup {Never}, IssueVouch(i, s, days)
      PROVE  IInv'
  <2> DEFINE v == [subject |-> s, issuer |-> i,
                   expires |-> Expiry(days), genuine |-> TRUE]
  <2>1. v \in Vouch BY ExpiryType DEF Vouch
  <2>2. issued' = issued \cup {v} BY <1>2 DEF IssueVouch
  <2>3. UNCHANGED <<now, relayMode, announced, verdicts>>
    BY <1>2 DEF IssueVouch
  <2> HIDE DEF v
  <2>4. TypeOK' BY <2>1, <2>2, <2>3 DEF TypeOK
  <2>5. VerdictsDeserved' BY <2>3, VerdictsKept
  <2> QED BY <2>4, <2>5
<1>3. ASSUME NEW i \in Identity, NEW v \in issued \cup Forged,
             BroadcastDefault(i, v) \/ BroadcastFrom(i, v)
      PROVE  IInv'
  <2>1. Start(i, v) BY <1>3 DEF BroadcastDefault, BroadcastFrom
  <2>2. TypeOK' BY <2>1, StartTypes
  <2>3. VerdictsDeserved' BY <2>1, VerdictsKept DEF Start
  <2> QED BY <2>2, <2>3
<1>4. ASSUME NEW i \in Identity, StopBroadcast(i) PROVE IInv'
  <2>1. TypeOK' BY <1>4 DEF StopBroadcast, TypeOK
  <2>2. VerdictsDeserved' BY <1>4, VerdictsKept DEF StopBroadcast
  <2> QED BY <2>1, <2>2
<1>5. ASSUME NEW i \in Identity, Decide(i) PROVE IInv'
  <2> DEFINE d == [who |-> i, vouch |-> announced[i], at |-> now,
                   ok |-> Admissible(i, announced[i])]
  <2>1. announced[i] \in issued \cup Forged BY <1>5 DEF Decide, TypeOK
  <2>2. verdicts' = verdicts \cup {d} BY <1>5 DEF Decide
  <2>3. UNCHANGED <<now, relayMode, issued, announced>>
    BY <1>5 DEF Decide
  <2>4. d.who = i /\ d.vouch = announced[i] /\ d.at = now OBVIOUS
  <2>5. d.ok = Admissible(i, announced[i]) OBVIOUS
  <2>6. announced[i].genuine \in BOOLEAN
    BY <2>1 DEF TypeOK, Vouch, AdmissionAssumption
  <2>7. d.ok \in BOOLEAN
    BY <2>5, <2>6 DEF Admissible, Verify, RequiresVouches
  <2>8. d.ok <=> (~RequiresVouches(relayMode) \/ Deserved(d))
    BY <2>4, <2>5 DEF Admissible, Verify, Deserved
  <2> HIDE DEF d
  <2>9. TypeOK'
    <3>1. now \in 0..now BY DEF TypeOK
    <3> QED BY <2>1, <2>2, <2>3, <2>4, <2>7, <3>1 DEF TypeOK
  <2>10. VerdictsDeserved'
    BY <2>2, <2>3, <2>8 DEF VerdictsDeserved, Deserved, RequiresVouches
  <2> QED BY <2>9, <2>10
<1>6. CASE UNCHANGED vars
  BY <1>6 DEF vars, TypeOK, VerdictsDeserved, Deserved, RequiresVouches
<1> QED BY <1>1, <1>2, <1>3, <1>4, <1>5, <1>6 DEF Next

(* The invariant holds throughout.                                         *)
THEOREM Invariance == Spec => []IInv
<1>1. AdmissionAssumption BY AdmissionAssumption
<1>2. IInv /\ [Next]_vars => IInv' BY <1>1, NextIInv
<1> QED BY InitIInv, <1>2, PTL DEF Spec

(* Types: what announcements carry and verdicts are about has been issued  *)
(* or is not genuine, and verdicts lie in the past.                        *)
THEOREM TypeCorrect == Spec => []TypeOK
BY Invariance, PTL DEF IInv

(* Whom a mainnet relay admits had been vouched for, was meant, in time and*)
(* by a key that can_broadcaster_vouch accepts (or is a genesis key).      *)
THEOREM AdmissionEarned == Spec => []AdmissionIsEarned
<1>1. AdmissionAssumption /\ IInv => AdmissionIsEarned
  BY DEF AdmissionAssumption, IInv, TypeOK, VerdictsDeserved, Deserved,
         AdmissionIsEarned, CanVouch
<1> QED BY <1>1, AdmissionAssumption, Invariance, PTL

(* A relay never changes its mind in favour of a vouch, however its        *)
(* verdicts are spread over time.                                          *)
THEOREM RefusalsFinal == Spec => []RefusalsAreFinal
<1>1. ASSUME AdmissionAssumption, IInv PROVE RefusalsAreFinal
  <2> SUFFICES ASSUME NEW d \in verdicts, NEW e \in verdicts,
                      d.who = e.who, d.vouch = e.vouch, ~d.ok, d.at <= e.at
               PROVE  ~e.ok
    BY DEF RefusalsAreFinal
  <2>1. d.vouch.expires \in Nat \cup {Never} /\ d.at \in Nat /\ e.at \in Nat
    BY <1>1 DEF AdmissionAssumption, IInv, TypeOK, Vouch
  <2>2. RequiresVouches(relayMode) /\ ~Deserved(d)
    BY <1>1 DEF IInv, VerdictsDeserved
  <2>3. ~Deserved(e) BY <2>1, <2>2 DEF Deserved
  <2> QED BY <1>1, <2>2, <2>3 DEF IInv, VerdictsDeserved
<1> QED BY <1>1, AdmissionAssumption, Invariance, PTL
=============================================================================
