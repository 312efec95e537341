------------------------ MODULE PaymentLedger_proofs ------------------------
(***************************************************************************)
(* Proofs about PaymentLedger, for every set of tasks, listeners,          *)
(* commitments and chunk sizes.                                            *)
(*                                                                         *)
(* TypeOK and LockDiscipline are inductive together; with them, what a     *)
(* task has read under a lock is still what the table holds when it acts   *)
(* (ReadsAreFresh).  That gives the two facts about money: what was        *)
(* recorded when a chunk was last allowed is paid for (ClearedIsPaid), and *)
(* every step is a step of the prepaid meter or invisible to it.           *)
(***************************************************************************)
EXTENDS PaymentLedger, Facts

-----------------------------------------------------------------------------
(* Prices, for every price and word size                                   *)

(* Wrapping yields a machine integer, and leaves one alone: the u64        *)
(* arithmetic of relay.rs.                                                 *)
LEMMA WrapProperties ==
    ASSUME NEW x \in Nat
    PROVE  Wrap(x) \in Nat /\ (x < Word => Wrap(x) = x)
  BY PricingAssumption DEF Wrap

(* More bytes never cost less.                                             *)
THEOREM CostMonotone ==
    ASSUME NEW a \in Nat, NEW b \in Nat, a <= b
    PROVE  Cost(a) \in Nat /\ Cost(b) \in Nat /\ Cost(a) <= Cost(b)
  BY StartedMiBMonotone, PricingAssumption DEF Cost, MiB

(* When nothing overflows, the amount the code asks for is the exact cost. *)
THEOREM RequiredIsCost ==
    ASSUME NEW b \in Nat, ~RequiredOverflows(b)
    PROVE  RequiredAmount(b) = Cost(b)
  <1>1. Wrap(b + MiB - 1) = b + MiB - 1
    BY WrapProperties, PricingAssumption DEF RequiredOverflows, MiB
  <1>2. Cost(b) \in Nat /\ Cost(b) < Word
    BY CostMonotone, PricingAssumption DEF RequiredOverflows
  <1>3. Wrap(Cost(b)) = Cost(b)
    BY <1>2, WrapProperties
  <1>4. QED
    BY <1>1, <1>3 DEF RequiredAmount, Cost

(* Whatever overflows, the code never asks for more than the exact cost:   *)
(* wrapping only takes away.                                               *)
LEMMA RequiredAtMostCost ==
    ASSUME NEW b \in Nat
    PROVE  RequiredAmount(b) \in Nat /\ RequiredAmount(b) <= Cost(b)
  <1>1. \A x \in Nat : Wrap(x) \in Nat /\ Wrap(x) <= x
    BY PricingAssumption DEF Wrap
  <1>2. b + MiB - 1 \in Nat
    BY DEF MiB
  <1> DEFINE wrapped == Wrap(b + MiB - 1) \div MiB
             exact   == (b + MiB - 1) \div MiB
  <1>3. wrapped \in Nat /\ exact \in Nat /\ wrapped <= exact
    BY <1>1, <1>2 DEF MiB
  <1> HIDE DEF wrapped, exact
  <1>4. wrapped * Price <= exact * Price
    BY <1>3, ProductMonotone, PricingAssumption
  <1>5. wrapped * Price \in Nat /\ exact * Price \in Nat
    BY <1>3, PricingAssumption
  <1>6. RequiredAmount(b) = Wrap(wrapped * Price) /\ Cost(b) = exact * Price
    BY DEF RequiredAmount, Cost, wrapped, exact
  <1>7. QED
    BY <1>1, <1>4, <1>5, <1>6

-----------------------------------------------------------------------------
(* Types and locks                                                         *)

LedgerInv == TypeOK /\ LockDiscipline

(* RelayNode::new: empty tables, free locks, no task inside an operation.  *)
LEMMA InitLedgerInv == Init => LedgerInv
  BY LedgerAssumption DEF Init, LedgerInv, TypeOK, LockDiscipline, PcStates,
     RecordStates, CheckStates, UpdateStates

(* The arguments of a metering operation.                                  *)
LEMMA MeterCallFields ==
    ASSUME NEW c \in MeterCall
    PROVE  /\ c.op \in {"record", "check", "enforce"}
           /\ c.listener \in Listener
           /\ c.size \in Nat
           /\ c.seen \in Nat
  <1>1. /\ c.op \in {"record", "check", "enforce"}
        /\ c.listener \in Listener
        /\ c.size \in Size \cup {0}
        /\ c.seen \in Nat
    BY DEF MeterCall
  <1>2. Size \cup {0} \subseteq Nat
    BY LedgerAssumption
  <1>3. QED
    BY <1>1, <1>2

(* Entering an operation, up to its first await, keeps the types.          *)
LEMMA CallsTypeOK ==
    ASSUME TypeOK, NEW t \in Task, Calls(t)
    PROVE  TypeOK'
  <1> USE DEF TypeOK, Begin, MeterArgs, tables, locks, history, MeterCall,
          UpdateCall, PcStates, RecordStates, CheckStates, UpdateStates
  <1>1. ASSUME NEW l \in Listener, NEW n \in Size, CallRecord(t, l, n)
        PROVE  TypeOK'
    BY <1>1, LedgerAssumption DEF CallRecord
  <1>2. ASSUME NEW l \in Listener, NEW n \in Size, CallEnforce(t, l, n)
        PROVE  TypeOK'
    BY <1>2, LedgerAssumption DEF CallEnforce
  <1>3. ASSUME NEW l \in Listener, CallCheck(t, l)
        PROVE  TypeOK'
    BY <1>3, LedgerAssumption DEF CallCheck
  <1>4. ASSUME NEW c \in Commitment, CallUpdate(t, c)
        PROVE  TypeOK'
    BY <1>4, LedgerAssumption DEF CallUpdate
  <1>5. QED
    BY <1>1, <1>2, <1>3, <1>4 DEF Calls

(* So does getting a lock, ...                                             *)
LEMMA LockingTypeOK ==
    ASSUME TypeOK, NEW t \in Task, Locking(t)
    PROVE  TypeOK'
  BY DEF TypeOK, Locking, LockToRecord, LockUsageToCheck, LockPaymentsToCheck,
     LockToUpdate, Move, tables, history, PcStates, RecordStates, CheckStates,
     UpdateStates

(* ... running on with it, ...                                             *)
LEMMA RunningTypeOK ==
    ASSUME TypeOK, NEW t \in Task, Running(t)
    PROVE  TypeOK'
  <1> USE DEF TypeOK, Move, Return, ReleaseLocks, ReadUsage, tables, locks,
          history, PcStates, RecordStates, CheckStates, UpdateStates
  <1>1. CASE ReadUsageToRecord(t)
    BY <1>1 DEF ReadUsageToRecord, MeterCall
  <1>2. CASE Record(t)
    <2>0. call[t] \in MeterCall
      BY <1>2 DEF Record
    <2>1. call[t].listener \in Listener /\ call[t].seen + call[t].size \in Nat
      BY <2>0, MeterCallFields
    <2>2. Wrap(call[t].seen + call[t].size) \in Nat
      BY <2>1, WrapProperties
    <2>3. usage' \in [Listener -> Nat]
      BY <1>2, <2>1, <2>2 DEF Record
    <2>4. CASE call[t].op = "enforce"
      BY <1>2, <2>0, <2>3, <2>4 DEF Record
    <2>5. CASE call[t].op # "enforce"
      BY <1>2, <2>0, <2>3, <2>5 DEF Record
    <2>6. QED
      BY <2>4, <2>5
  <1>3. CASE ReadUsageToCheck(t)
    BY <1>3 DEF ReadUsageToCheck, MeterCall
  <1>4. CASE Check(t)
    <2>1. call[t] \in MeterCall
      BY <1>4 DEF Check
    <2>2. /\ call[t].listener \in Listener
          /\ call[t].size \in Nat
          /\ call[t].seen \in Nat
      BY <2>1, MeterCallFields
    <2>3. /\ granted' \in [Listener -> Nat]
          /\ cleared' \in [Listener -> Nat]
          /\ refused' \in [Listener -> Nat]
      <3>1. CASE call[t].op = "enforce" /\ Sufficient(t)
        BY <1>4, <2>2, <3>1 DEF Check
      <3>2. CASE call[t].op = "enforce" /\ ~Sufficient(t)
        BY <1>4, <2>2, <3>2 DEF Check
      <3>3. CASE call[t].op # "enforce"
        BY <1>4, <3>3 DEF Check
      <3>4. QED
        BY <3>1, <3>2, <3>3
    <2>4. QED
      BY <1>4, <2>3 DEF Check
  <1>5. CASE Validate(t)
    BY <1>5 DEF Validate
  <1>6. CASE Store(t)
    BY <1>6, LedgerAssumption DEF Store, UpdateCall
  <1>7. CASE Panic(t)
    BY <1>7 DEF Panic
  <1>8. QED
    BY <1>1, <1>2, <1>3, <1>4, <1>5, <1>6, <1>7 DEF Running

(* ... and being dropped at an await.                                      *)
LEMMA AbandonTypeOK ==
    ASSUME TypeOK, NEW t \in Task, Abandon(t)
    PROVE  TypeOK'
  BY DEF TypeOK, Abandon, Return, Move, ReleaseLocks, tables, history, PcStates,
     RecordStates, CheckStates, UpdateStates

(* Every step leaves the variables with values of their types.             *)
LEMMA NextTypeOK == TypeOK /\ [Next]_vars => TypeOK'
  <1> SUFFICES ASSUME TypeOK, [Next]_vars
               PROVE  TypeOK'
    OBVIOUS
  <1>1. CASE UNCHANGED vars
    BY <1>1 DEF TypeOK, vars
  <1>2. CASE Next
    BY <1>2, CallsTypeOK, LockingTypeOK, RunningTypeOK, AbandonTypeOK DEF Next
  <1>3. QED
    BY <1>1, <1>2

(* No step lets two tasks hold a lock, or leaves one behind.               *)
LEMMA NextLockDiscipline == LedgerInv /\ [Next]_vars => LockDiscipline'
  <1> SUFFICES ASSUME TypeOK, LockDiscipline, [Next]_vars
               PROVE  LockDiscipline'
    BY DEF LedgerInv
  <1> USE DEF TypeOK, LockDiscipline, Move, Return, ReleaseLocks, tables, locks,
          history, PcStates, RecordStates, CheckStates, UpdateStates
  <1>1. CASE UNCHANGED vars
    BY <1>1 DEF vars
  <1>2. ASSUME NEW t \in Task, Calls(t)
        PROVE  LockDiscipline'
    BY <1>2 DEF Calls, CallRecord, CallEnforce, CallCheck,
       CallUpdate, Begin
  <1>3. ASSUME NEW t \in Task, Locking(t)
        PROVE  LockDiscipline'
    <2>1. CASE LockToRecord(t)
      BY <2>1, LedgerAssumption DEF LockToRecord
    <2>2. CASE LockUsageToCheck(t)
      BY <2>2, LedgerAssumption DEF LockUsageToCheck
    <2>3. CASE LockPaymentsToCheck(t)
      BY <2>3, LedgerAssumption DEF LockPaymentsToCheck
    <2>4. CASE LockToUpdate(t)
      BY <2>4, LedgerAssumption DEF LockToUpdate
    <2>5. QED
      BY <1>3, <2>1, <2>2, <2>3, <2>4 DEF Locking
  <1>4. ASSUME NEW t \in Task, Running(t)
        PROVE  LockDiscipline'
    <2>1. CASE ReadUsageToRecord(t)
      BY <2>1 DEF ReadUsageToRecord, ReadUsage
    <2>2. CASE Record(t)
      BY <2>2, LedgerAssumption DEF Record
    <2>3. CASE ReadUsageToCheck(t)
      BY <2>3 DEF ReadUsageToCheck, ReadUsage
    <2>4. CASE Check(t)
      BY <2>4, LedgerAssumption DEF Check
    <2>5. CASE Validate(t)
      BY <2>5, LedgerAssumption DEF Validate
    <2>6. CASE Store(t)
      BY <2>6, LedgerAssumption DEF Store
    <2>7. CASE Panic(t)
      BY <2>7, LedgerAssumption DEF Panic
    <2>8. QED
      BY <1>4, <2>1, <2>2, <2>3, <2>4, <2>5, <2>6, <2>7 DEF Running
  <1>5. ASSUME NEW t \in Task, Abandon(t)
        PROVE  LockDiscipline'
    BY <1>5, LedgerAssumption DEF Abandon, AwaitStates
  <1>6. QED
    BY <1>1, <1>2, <1>3, <1>4, <1>5 DEF Next

(* Every variable of the ledger keeps its type: relay.rs, RelayNode.       *)
THEOREM LedgerTypeCorrect == Spec => []TypeOK
  <1>1. TypeOK /\ [Next]_vars => TypeOK'
    BY NextTypeOK
  <1>2. Init => TypeOK
    BY InitLedgerInv DEF LedgerInv
  <1>3. QED
    BY <1>1, <1>2, PTL DEF Spec

(* The two mutexes exclude, and every operation gives back what it took on *)
(* every way out: return, error, panic and a dropped future.               *)
THEOREM LedgerLocksExclude == Spec => []LockDiscipline
  <1>1. LedgerInv /\ [Next]_vars => LedgerInv'
    BY NextTypeOK, NextLockDiscipline DEF LedgerInv
  <1>2. Spec => []LedgerInv
    BY <1>1, InitLedgerInv, PTL DEF Spec
  <1>3. QED
    BY <1>2, PTL DEF LedgerInv
-----------------------------------------------------------------------------
(* Reads under a lock                                                      *)

(* Who writes the two tables, and what the other tasks keep.               *)
LEMMA TableWrites ==
    ASSUME TypeOK, NEW t \in Task,
           Calls(t) \/ Locking(t) \/ Running(t) \/ Abandon(t)
    PROVE  /\ Record(t) \/ usage' = usage
           /\ Store(t) \/ payments' = payments
           /\ Check(t) \/ cleared' = cleared
           /\ \A u \in Task \ {t} : pc'[u] = pc[u] /\ call'[u] = call[u]
  <1> USE DEF TypeOK, Move, Return, tables, history
  <1>1. CASE Calls(t)
    BY <1>1 DEF Calls, CallRecord, CallEnforce, CallCheck,
       CallUpdate, Begin
  <1>2. CASE Locking(t)
    BY <1>2 DEF Locking, LockToRecord, LockUsageToCheck, LockPaymentsToCheck,
       LockToUpdate
  <1>3. CASE Running(t)
    BY <1>3 DEF Running, ReadUsageToRecord, ReadUsageToCheck, ReadUsage, Record,
       Check, Validate, Store, Panic
  <1>4. CASE Abandon(t)
    BY <1>4 DEF Abandon
  <1>5. QED
    BY <1>1, <1>2, <1>3, <1>4

(* The task that moves acts on fresh reads itself.                         *)
LEMMA OwnReadIsFresh ==
    ASSUME LedgerInv, ReadsAreFresh, NEW t \in Task,
           Calls(t) \/ Locking(t) \/ Running(t) \/ Abandon(t)
    PROVE  /\ pc'[t] \in {"adding", "answering"} =>
                call'[t].seen = usage'[call'[t].listener]
           /\ pc'[t] = "storing" =>
                Meter!Acceptable(call'[t].offer, payments'[call'[t].offer.listener])
  <1> USE DEF LedgerInv, TypeOK, Move, Return, tables, history, PcStates,
          RecordStates, CheckStates, UpdateStates
  <1>1. CASE Calls(t)
    BY <1>1 DEF Calls, CallRecord, CallEnforce, CallCheck,
       CallUpdate, Begin, ReadsAreFresh
  <1>2. CASE Locking(t)
    BY <1>2 DEF Locking, LockToRecord, LockUsageToCheck, LockPaymentsToCheck,
       LockToUpdate
  <1>3. CASE Running(t)
    <2>1. CASE ReadUsageToRecord(t) \/ ReadUsageToCheck(t)
      <3>1. call[t] \in MeterCall
        BY <2>1 DEF ReadUsageToRecord, ReadUsageToCheck, ReadUsage
      <3>2. /\ call'[t] = [call[t] EXCEPT !.seen = usage[call[t].listener]]
            /\ usage' = usage
        BY <2>1 DEF ReadUsageToRecord, ReadUsageToCheck, ReadUsage
      <3>3. /\ call'[t].seen = usage[call[t].listener]
            /\ call'[t].listener = call[t].listener
        BY <3>1, <3>2 DEF MeterCall
      <3>4. pc'[t] \in {"adding", "answering"}
        BY <2>1 DEF ReadUsageToRecord, ReadUsageToCheck, ReadUsage
      <3>5. QED
        BY <3>2, <3>3, <3>4
    <2>2. CASE Record(t) \/ Check(t) \/ Store(t) \/ Panic(t)
      BY <2>2 DEF Record, Check, Store, Panic
    <2>3. CASE Validate(t)
      BY <2>3 DEF Validate, locks
    <2>4. QED
      BY <1>3, <2>1, <2>2, <2>3 DEF Running
  <1>4. CASE Abandon(t)
    BY <1>4 DEF Abandon
  <1>5. QED
    BY <1>1, <1>2, <1>3, <1>4

(* A writer of a table holds its lock, so that no other task is between    *)
(* its read and its write.                                                 *)
LEMMA NextReadsAreFresh ==
    LedgerInv /\ ReadsAreFresh /\ [Next]_vars => ReadsAreFresh'
  <1> SUFFICES ASSUME LedgerInv, ReadsAreFresh, [Next]_vars
               PROVE  ReadsAreFresh'
    OBVIOUS
  <1>1. CASE UNCHANGED vars
    BY <1>1 DEF vars, ReadsAreFresh, Meter!Acceptable, Meter!Supersedes
  <1>2. ASSUME NEW t \in Task,
               Calls(t) \/ Locking(t) \/ Running(t) \/ Abandon(t),
               NEW u \in Task \ {t}
        PROVE  /\ pc'[u] \in {"adding", "answering"} =>
                    call'[u].seen = usage'[call'[u].listener]
               /\ pc'[u] = "storing" =>
                    Meter!Acceptable(call'[u].offer,
                                     payments'[call'[u].offer.listener])
    <2>1. pc'[u] = pc[u] /\ call'[u] = call[u]
      BY <1>2, TableWrites DEF LedgerInv
    <2>2. ASSUME pc[u] \in {"adding", "answering"}
          PROVE  usage' = usage
      <3>1. usageLock = u
        BY <2>2 DEF LedgerInv, LockDiscipline
      <3>2. ~Record(t)
        BY <3>1, <1>2 DEF LedgerInv, LockDiscipline, Record
      <3>3. QED
        BY <3>2, <1>2, TableWrites DEF LedgerInv
    <2>3. ASSUME pc[u] = "storing"
          PROVE  payments' = payments
      <3>1. paymentsLock = u
        BY <2>3 DEF LedgerInv, LockDiscipline
      <3>2. ~Store(t)
        BY <3>1, <1>2 DEF LedgerInv, LockDiscipline, Store, Return, Move
      <3>3. QED
        BY <3>2, <1>2, TableWrites DEF LedgerInv
    <2>4. QED
      BY <2>1, <2>2, <2>3 DEF ReadsAreFresh
  <1>3. CASE Next
    <2>1. PICK t \in Task : Calls(t) \/ Locking(t) \/ Running(t) \/ Abandon(t)
      BY <1>3 DEF Next
    <2>2. QED
      BY <2>1, <1>2, OwnReadIsFresh DEF ReadsAreFresh
  <1>4. QED
    BY <1>1, <1>3

(* Between reading a table and acting on it, the entry does not change     *)
(* under a task: relay.rs, the three critical sections.                    *)
THEOREM LedgerReadsAreFresh == Spec => []ReadsAreFresh
  <1> DEFINE Inv == LedgerInv /\ ReadsAreFresh
  <1>1. Init => Inv
    BY InitLedgerInv DEF Init, ReadsAreFresh
  <1>2. Inv /\ [Next]_vars => Inv'
    BY NextTypeOK, NextLockDiscipline, NextReadsAreFresh DEF LedgerInv
  <1>3. Spec => []Inv
    BY <1>1, <1>2, PTL DEF Spec
  <1>4. QED
    BY <1>3, PTL

-----------------------------------------------------------------------------
(* Money                                                                   *)

(* What a stored commitment pays is a natural number.                      *)
LEMMA AmountPaidNat ==
    ASSUME TypeOK, NEW l \in Listener
    PROVE  AmountPaid(l) \in Nat
  BY LedgerAssumption DEF TypeOK, AmountPaid, Meter!AmountOf

(* Storing a commitment moves one listener's entry, and never down.        *)
LEMMA StoreRaises ==
    ASSUME LedgerInv, ReadsAreFresh, NEW t \in Task, Store(t)
    PROVE  \E l \in Listener, c \in Commitment :
             /\ c.listener = l
             /\ Meter!Acceptable(c, payments[l])
             /\ payments' = [payments EXCEPT ![l] = c]
             /\ Meter!AmountOf(c) >= AmountPaid(l)
  <1> DEFINE c == call[t].offer
  <1>1. c \in Commitment
    BY DEF LedgerInv, TypeOK, Store, Return, Move, UpdateStates, UpdateCall
  <1>2. /\ c.listener \in Listener
        /\ c.amount \in Nat
        /\ c # NoCommitment
    BY <1>1, LedgerAssumption
  <1>3. Meter!Acceptable(c, payments[c.listener])
    BY DEF ReadsAreFresh, Store, Return, Move
  <1>4. payments' = [payments EXCEPT ![c.listener] = c]
    BY DEF Store
  <1>5. Meter!AmountOf(c) >= AmountPaid(c.listener)
    BY <1>2, <1>3 DEF Meter!AmountOf, AmountPaid, Meter!Acceptable,
       Meter!Supersedes
  <1>6. QED
    BY <1>1, <1>2, <1>3, <1>4, <1>5

(* As long as nothing wraps, record_bandwidth_usage adds the bytes.        *)
LEMMA RecordIsExact ==
    ASSUME LedgerInv, ReadsAreFresh, OverflowFree, NEW t \in Task, Record(t)
    PROVE  /\ call[t].listener \in Listener
           /\ call[t].size \in Nat
           /\ usage' = [usage EXCEPT ![call[t].listener] = @ + call[t].size]
  <1> DEFINE c == call[t]
  <1>1. c \in MeterCall /\ c.seen = usage[c.listener]
    BY DEF LedgerInv, TypeOK, ReadsAreFresh, Record, RecordStates
  <1>2. c.listener \in Listener /\ c.size \in Nat /\ c.seen \in Nat
    BY <1>1, MeterCallFields
  <1>3. c.size \in Size \/ c.size = 0
    BY <1>1 DEF MeterCall
  <1>4. c.seen + c.size < Word
    <2>1. CASE OverflowChecks
      BY <2>1, <1>2, PricingAssumption DEF Record, AddPanics
    <2>2. CASE ~OverflowChecks
      <3>1. /\ ~RequiredOverflows(c.seen)
            /\ \A n \in Size : c.seen + n < Word
        BY <2>2, <1>1, <1>2 DEF OverflowFree
      <3>2. c.seen < Word
        BY <3>1, <1>2, PricingAssumption DEF RequiredOverflows, MiB
      <3>3. QED
        BY <3>1, <3>2, <1>2, <1>3
    <2>3. QED
      BY <2>1, <2>2
  <1>5. Wrap(c.seen + c.size) = c.seen + c.size
    BY <1>2, <1>4, WrapProperties
  <1>6. QED
    BY <1>1, <1>2, <1>5 DEF Record

(* So recording only adds.                                                 *)
LEMMA RecordAdds ==
    ASSUME LedgerInv, ReadsAreFresh, OverflowFree, NEW t \in Task, Record(t)
    PROVE  \A l \in Listener : usage'[l] >= usage[l]
  BY RecordIsExact DEF LedgerInv, TypeOK

(* A chunk is cleared only when everything recorded is paid for.           *)
LEMMA CheckClears ==
    ASSUME LedgerInv, ReadsAreFresh, OverflowFree, NEW t \in Task, Check(t),
           cleared' # cleared
    PROVE  \E l \in Listener :
             /\ cleared' = [cleared EXCEPT ![l] = usage[l]]
             /\ Cost(usage[l]) <= AmountPaid(l)
             /\ payments' = payments
             /\ usage' = usage
  <1> DEFINE c == call[t]
  <1>1. c \in MeterCall /\ c.seen = usage[c.listener]
    BY DEF LedgerInv, TypeOK, ReadsAreFresh, Check, CheckStates
  <1>2. c.listener \in Listener /\ c.seen \in Nat
    BY <1>1, MeterCallFields
  <1>3. /\ Sufficient(t)
        /\ cleared' = [cleared EXCEPT ![c.listener] = c.seen]
    BY DEF Check, history
  <1>4. ~RequiredOverflows(c.seen)
    BY <1>1, <1>2 DEF Check, CheckPanics, OverflowFree
  <1>5. RequiredAmount(c.seen) = Cost(c.seen)
    BY <1>2, <1>4, RequiredIsCost
  <1>6. Cost(c.seen) \in Nat
    BY <1>2, CostMonotone
  <1>7. AmountPaid(c.listener) \in Nat
    BY <1>2, AmountPaidNat DEF LedgerInv
  <1>8. Cost(c.seen) <= AmountPaid(c.listener)
    BY <1>3, <1>5, <1>6, <1>7 DEF Sufficient
  <1>9. QED
    BY <1>1, <1>2, <1>3, <1>8 DEF Check, tables

(* What is cleared stays paid: recording adds, stored amounts do not       *)
(* shrink, and a check that clears compares with the exact price.          *)
LEMMA NextClearedIsPaid ==
    ASSUME LedgerInv, ReadsAreFresh, ClearedIsPaid, OverflowFree, [Next]_vars
    PROVE  ClearedIsPaid'
  <1> SUFFICES ASSUME NEW l \in Listener
               PROVE  cleared'[l] <= usage'[l] /\ Cost(cleared'[l]) <= AmountPaid(l)'
    BY DEF ClearedIsPaid
  <1>0. /\ usage[l] \in Nat /\ cleared[l] \in Nat
        /\ AmountPaid(l) \in Nat
        /\ cleared[l] <= usage[l] /\ Cost(cleared[l]) <= AmountPaid(l)
        /\ Cost(cleared[l]) \in Nat
    BY AmountPaidNat, CostMonotone DEF LedgerInv, TypeOK, ClearedIsPaid
  <1>00. usage'[l] \in Nat /\ AmountPaid(l)' \in Nat
    <2>1. TypeOK'
      BY NextTypeOK DEF LedgerInv
    <2>2. QED
      BY <2>1, LedgerAssumption DEF TypeOK, AmountPaid, Meter!AmountOf
  <1>1. CASE UNCHANGED vars
    BY <1>1, <1>0 DEF vars, AmountPaid, Meter!AmountOf
  <1>2. ASSUME NEW t \in Task,
               Calls(t) \/ Locking(t) \/ Running(t) \/ Abandon(t)
        PROVE  cleared'[l] <= usage'[l] /\ Cost(cleared'[l]) <= AmountPaid(l)'
    <2>1. CASE Record(t)
      <3>1. usage'[l] >= usage[l]
        BY <2>1, RecordAdds
      <3>2. payments' = payments /\ cleared' = cleared
        BY <2>1 DEF Record, history
      <3>3. QED
        BY <3>1, <3>2, <1>0, <1>00 DEF AmountPaid, Meter!AmountOf
    <2>2. CASE Store(t)
      <3>1. AmountPaid(l)' >= AmountPaid(l)
        <4>1. PICK m \in Listener, c \in Commitment :
                /\ payments' = [payments EXCEPT ![m] = c]
                /\ Meter!AmountOf(c) >= AmountPaid(m)
          BY <2>2, StoreRaises
        <4>2. CASE l = m
          BY <4>1, <4>2 DEF LedgerInv, TypeOK, AmountPaid, Meter!AmountOf
        <4>3. CASE l # m
          BY <4>1, <4>3, <1>0 DEF LedgerInv, TypeOK, AmountPaid, Meter!AmountOf
        <4>4. QED
          BY <4>2, <4>3
      <3>2. usage' = usage /\ cleared' = cleared
        BY <2>2 DEF Store, history
      <3>3. QED
        BY <3>1, <3>2, <1>0, <1>00
    <2>3. CASE Check(t) /\ cleared' # cleared
      <3>1. PICK m \in Listener :
              /\ cleared' = [cleared EXCEPT ![m] = usage[m]]
              /\ Cost(usage[m]) <= AmountPaid(m)
              /\ payments' = payments
              /\ usage' = usage
        BY <2>3, CheckClears
      <3>2. QED
        BY <3>1, <1>0 DEF LedgerInv, TypeOK, AmountPaid, Meter!AmountOf
    <2>4. CASE ~Record(t) /\ ~Store(t) /\ cleared' = cleared
      <3>1. usage' = usage /\ payments' = payments
        BY <2>4, <1>2, TableWrites DEF LedgerInv
      <3>2. QED
        BY <2>4, <3>1, <1>0 DEF AmountPaid, Meter!AmountOf
    <2>5. QED
      BY <1>2, <2>1, <2>2, <2>3, <2>4, TableWrites DEF LedgerInv
  <1>3. QED
    BY <1>1, <1>2 DEF Next

(* As long as nothing wraps around, everything recorded for a listener up  *)
(* to the last chunk that was let through is covered by the latest         *)
(* commitment, forever after: enforce_payment_limits and                   *)
(* update_payment_commitment, under any interleaving.                      *)
THEOREM LedgerClearedIsPaid == Spec /\ []OverflowFree => []ClearedIsPaid
  <1> DEFINE Inv == LedgerInv /\ ReadsAreFresh /\ ClearedIsPaid
  <1>1. Init => Inv
    <2> SUFFICES ASSUME Init
                 PROVE  Inv
      OBVIOUS
    <2>1. LedgerInv /\ ReadsAreFresh
      BY InitLedgerInv DEF Init, ReadsAreFresh
    <2>2. Cost(0) = 0
      BY PricingAssumption DEF Cost, MiB
    <2>3. ClearedIsPaid
      BY <2>2 DEF Init, ClearedIsPaid, AmountPaid, Meter!AmountOf
    <2>4. QED
      BY <2>1, <2>3
  <1>2. Inv /\ OverflowFree /\ [Next]_vars => Inv'
    BY NextTypeOK, NextLockDiscipline, NextReadsAreFresh, NextClearedIsPaid
       DEF LedgerInv
  <1>3. Spec /\ []OverflowFree => []Inv
    BY <1>1, <1>2, PTL DEF Spec
  <1>4. QED
    BY <1>3, PTL

(* A debug build needs no such proviso: overflow panics instead.           *)
COROLLARY CheckedLedgerClearedIsPaid ==
    ASSUME OverflowChecks
    PROVE  Spec => []ClearedIsPaid
  <1>1. OverflowFree
    BY DEF OverflowFree
  <1>2. QED
    BY <1>1, LedgerClearedIsPaid, PTL
-----------------------------------------------------------------------------
(* Chunks                                                                  *)

(* The bytes recorded for l by enforcements that have not been answered:   *)
(* one pair a byte, so that their number is the size of a set.             *)
Pending(l) ==
    {p \in Task \X Nat :
        /\ pc[p[1]] \in CheckStates
        /\ call[p[1]].op = "enforce"
        /\ call[p[1]].listener = l
        /\ p[2] \in 1..call[p[1]].size}

(* What has been let through and what awaits its answer has been recorded, *)
(* and what has been let through was on record when the last chunk was.    *)
GrantedIsRecorded ==
    \A l \in Listener :
        /\ IsFiniteSet(Pending(l))
        /\ granted[l] + Cardinality(Pending(l)) <= usage[l]
        /\ granted[l] <= cleared[l]

(* The part of Pending(l) that is task t's.                                *)
LEMMA OwnPending ==
    ASSUME TypeOK, NEW l \in Listener, NEW t \in Task
    PROVE  {p \in Pending(l) : p[1] = t} =
             IF /\ pc[t] \in CheckStates
                /\ call[t].op = "enforce"
                /\ call[t].listener = l
             THEN {t} \X (1..call[t].size) ELSE {}
  <1>1. pc[t] \in CheckStates => call[t].size \in Nat
    BY MeterCallFields DEF TypeOK
  <1>2. \A n \in Nat : 1..n \subseteq Nat
    OBVIOUS
  <1>3. QED
    BY <1>1, <1>2 DEF Pending

(* A step of t leaves the bytes of the other tasks pending.                *)
LEMMA OthersPending ==
    ASSUME TypeOK, NEW l \in Listener, NEW t \in Task,
           Calls(t) \/ Locking(t) \/ Running(t) \/ Abandon(t)
    PROVE  {p \in Pending(l)' : p[1] # t} = {p \in Pending(l) : p[1] # t}
  <1>1. \A u \in Task \ {t} : pc'[u] = pc[u] /\ call'[u] = call[u]
    BY TableWrites
  <1>2. QED
    BY <1>1 DEF Pending

(* A step that records nothing for l and lets nothing through can only     *)
(* take bytes of its own task off those pending.                           *)
LEMMA PendingShrinks ==
    ASSUME TypeOK, NEW l \in Listener, IsFiniteSet(Pending(l)),
           NEW t \in Task,
           Calls(t) \/ Locking(t) \/ Running(t) \/ Abandon(t),
           {p \in Pending(l)' : p[1] = t} \subseteq {p \in Pending(l) : p[1] = t}
    PROVE  /\ IsFiniteSet(Pending(l)')
           /\ Cardinality(Pending(l)') <= Cardinality(Pending(l))
  <1>1. Pending(l)' \subseteq Pending(l)
    BY OthersPending
  <1>2. QED
    BY <1>1, FS_Subset

(* Splitting what is pending into the part of t and the rest.              *)
LEMMA PendingSplit ==
    ASSUME NEW P, NEW t, IsFiniteSet({p \in P : p[1] # t}),
           IsFiniteSet({p \in P : p[1] = t})
    PROVE  /\ IsFiniteSet(P)
           /\ Cardinality(P) = Cardinality({p \in P : p[1] # t})
                             + Cardinality({p \in P : p[1] = t})
           /\ Cardinality({p \in P : p[1] # t}) \in Nat
  <1> DEFINE others == {p \in P : p[1] # t}
             own    == {p \in P : p[1] = t}
  <1>1. others \cup own = P /\ others \cap own = {}
    OBVIOUS
  <1>2. IsFiniteSet(others) /\ IsFiniteSet(own)
    OBVIOUS
  <1> HIDE DEF others, own
  <1>3. /\ IsFiniteSet(others \cup own)
        /\ Cardinality(others \cup own) = Cardinality(others) + Cardinality(own)
        /\ Cardinality(others) \in Nat
    BY <1>1, <1>2, DisjointUnion
  <1>4. /\ IsFiniteSet(P)
        /\ Cardinality(P) = Cardinality(others) + Cardinality(own)
        /\ Cardinality(others) \in Nat
    BY <1>1, <1>3
  <1>5. QED
    BY <1>4 DEF others, own


(* Recording puts as many bytes on the account as it leaves pending.       *)
LEMMA RecordPending ==
    ASSUME LedgerInv, ReadsAreFresh, OverflowFree, GrantedIsRecorded,
           NEW t \in Task, Record(t), NEW l \in Listener
    PROVE  /\ IsFiniteSet(Pending(l)')
           /\ granted[l] + Cardinality(Pending(l)') <= usage'[l]
  <1> DEFINE others == {p \in Pending(l) : p[1] # t}
             own    == {p \in Pending(l)' : p[1] = t}
             n      == call[t].size
  <1>1. /\ call[t].listener \in Listener
        /\ n \in Nat
        /\ usage' = [usage EXCEPT ![call[t].listener] = @ + n]
    BY RecordIsExact
  <1>2. TypeOK /\ TypeOK' /\ Running(t)
    BY NextTypeOK DEF LedgerInv, Next, Running
  <1>3. {p \in Pending(l)' : p[1] # t} = others
    BY <1>2, OthersPending
  <1>4. IsFiniteSet(others) /\ Cardinality(others) <= Cardinality(Pending(l))
    BY FS_Subset DEF GrantedIsRecorded
  <1>5. granted[l] + Cardinality(others) <= usage[l] /\ usage[l] \in Nat
    <2>1. Cardinality(others) \in Nat /\ Cardinality(Pending(l)) \in Nat
      BY <1>4, FS_CardinalityType DEF GrantedIsRecorded
    <2>2. QED
      BY <2>1, <1>4 DEF GrantedIsRecorded, LedgerInv, TypeOK
  <1>6. CASE call[t].op = "enforce" /\ call[t].listener = l
    <2>1. pc'[t] = "check_lock" /\ call' = call
      BY <1>6 DEF Record, Move, LedgerInv, TypeOK
    <2>2. 1..n \subseteq Nat
      BY <1>1
    <2>3. own = {t} \X (1..n)
      BY <1>6, <2>1, <2>2 DEF Pending, CheckStates
    <2>4. IsFiniteSet({t} \X (1..n)) /\ Cardinality({t} \X (1..n)) = n
      BY <1>1, TaggedCount
    <2>5. /\ IsFiniteSet(Pending(l)')
          /\ Cardinality(Pending(l)') = Cardinality(others) + n
          /\ Cardinality(others) \in Nat
      <3>1. /\ IsFiniteSet({p \in Pending(l)' : p[1] # t})
            /\ IsFiniteSet({p \in Pending(l)' : p[1] = t})
        BY <1>3, <1>4, <2>3, <2>4
      <3>2. /\ IsFiniteSet(Pending(l)')
            /\ Cardinality(Pending(l)') =
                 Cardinality({p \in Pending(l)' : p[1] # t})
                 + Cardinality({p \in Pending(l)' : p[1] = t})
            /\ Cardinality({p \in Pending(l)' : p[1] # t}) \in Nat
        BY <3>1, PendingSplit
      <3>3. QED
        BY <3>2, <1>3, <2>3, <2>4
    <2>6. usage'[l] = usage[l] + n
      BY <1>1, <1>6 DEF LedgerInv, TypeOK
    <2>7. QED
      BY <1>1, <1>5, <2>5, <2>6 DEF LedgerInv, TypeOK
  <1>7. CASE ~(call[t].op = "enforce" /\ call[t].listener = l)
    <2>1. \/ call[t].op # "enforce" /\ pc'[t] = "idle"
          \/ call[t].listener # l /\ call'[t] = call[t]
          \/ pc'[t] = "idle"
      BY <1>7 DEF Record, Return, Move, LedgerInv, TypeOK
    <2>2. own = {}
      BY <1>7, <2>1 DEF Pending, CheckStates
    <2>3. Pending(l)' = others
      BY <1>3, <2>2
    <2>4. usage'[l] >= usage[l]
      BY RecordAdds
    <2>5. usage'[l] \in Nat /\ Cardinality(others) \in Nat
      BY <1>2, <1>4, FS_CardinalityType DEF TypeOK
    <2>6. QED
      BY <1>4, <1>5, <2>3, <2>4, <2>5 DEF LedgerInv, TypeOK
  <1>8. QED
    BY <1>6, <1>7

(* An answer takes the bytes it is about off those pending; if it lets     *)
(* them through, all of them were on record.                               *)
LEMMA CheckPending ==
    ASSUME LedgerInv, ReadsAreFresh, GrantedIsRecorded,
           NEW t \in Task, Check(t), NEW l \in Listener
    PROVE  /\ IsFiniteSet(Pending(l)')
           /\ granted'[l] + Cardinality(Pending(l)') <= usage[l]
           /\ granted'[l] <= cleared'[l]
  <1> DEFINE others == {p \in Pending(l) : p[1] # t}
             own    == {p \in Pending(l) : p[1] = t}
             n      == call[t].size
  <1>1. /\ call[t] \in MeterCall
        /\ call[t].listener \in Listener
        /\ n \in Nat
        /\ call[t].seen = usage[call[t].listener]
    BY MeterCallFields DEF LedgerInv, TypeOK, ReadsAreFresh, Check, CheckStates
  <1>2. TypeOK /\ Running(t)
    BY DEF LedgerInv, Running
  <1>3. Pending(l)' = others
    <2>1. {p \in Pending(l)' : p[1] # t} = others
      BY <1>2, OthersPending
    <2>2. pc'[t] = "idle"
      BY <1>2 DEF Check, Return, Move, TypeOK
    <2>3. \A p \in Pending(l)' : p[1] # t
      BY <2>2 DEF Pending, CheckStates
    <2>4. QED
      BY <2>1, <2>3
  <1>4. IsFiniteSet(others) /\ IsFiniteSet(own)
    BY FS_Subset DEF GrantedIsRecorded
  <1>5. /\ Cardinality(Pending(l)) = Cardinality(others) + Cardinality(own)
        /\ Cardinality(others) \in Nat
        /\ Cardinality(own) \in Nat
    BY <1>4, PendingSplit, FS_CardinalityType
  <1>6. /\ granted[l] + Cardinality(Pending(l)) <= usage[l]
        /\ granted[l] <= cleared[l]
        /\ granted[l] \in Nat /\ usage[l] \in Nat /\ cleared[l] \in Nat
    BY DEF GrantedIsRecorded, LedgerInv, TypeOK
  <1>7. CASE l = call[t].listener /\ call[t].op = "enforce" /\ Sufficient(t)
    <2>1. own = {t} \X (1..n)
      BY <1>2, <1>7, OwnPending DEF Check, CheckStates
    <2>2. Cardinality({t} \X (1..n)) = n
      BY <1>1, TaggedCount
    <2>3. granted'[l] = granted[l] + n /\ cleared'[l] = usage[l]
      BY <1>1, <1>2, <1>7 DEF Check, TypeOK
    <2>4. Cardinality(own) = n /\ Pending(l)' = others
      BY <1>3, <2>1, <2>2
    <2> HIDE DEF others, own
    <2>5. QED
      BY <1>1, <1>4, <1>5, <1>6, <2>3, <2>4
  <1>8. CASE ~(l = call[t].listener /\ call[t].op = "enforce" /\ Sufficient(t))
    <2>1. granted'[l] = granted[l] /\ cleared'[l] = cleared[l]
      BY <1>1, <1>2, <1>8 DEF Check, TypeOK, history
    <2>2. Pending(l)' = others
      BY <1>3
    <2> HIDE DEF others, own
    <2>3. QED
      BY <1>4, <1>5, <1>6, <2>1, <2>2
  <1>9. QED
    BY <1>7, <1>8

(* No other step of a task moves the counts, or bytes to those pending.    *)
LEMMA OtherStepsPending ==
    ASSUME LedgerInv, NEW t \in Task,
           Calls(t) \/ Locking(t) \/ Running(t) \/ Abandon(t),
           ~Record(t), ~Check(t), NEW l \in Listener
    PROVE  /\ UNCHANGED <<usage, granted, cleared>>
           /\ {p \in Pending(l)' : p[1] = t} \subseteq {p \in Pending(l) : p[1] = t}
  <1> USE DEF LedgerInv, TypeOK, Move, Return, tables, history, PcStates,
          CheckStates, RecordStates, UpdateStates
  <1>1. ASSUME \/ pc'[t] \notin CheckStates
               \/ /\ pc[t] \in CheckStates
                  /\ call'[t] = call[t]
        PROVE  {p \in Pending(l)' : p[1] = t} \subseteq {p \in Pending(l) : p[1] = t}
    BY <1>1 DEF Pending
  <1>2. ASSUME pc[t] \in CheckStates,
               call'[t] = [call[t] EXCEPT !.seen = usage[call[t].listener]]
        PROVE  {p \in Pending(l)' : p[1] = t} \subseteq {p \in Pending(l) : p[1] = t}
    <2>1. call[t] \in MeterCall
      BY <1>2
    <2>2. /\ call'[t].op = call[t].op
          /\ call'[t].listener = call[t].listener
          /\ call'[t].size = call[t].size
      BY <1>2, <2>1 DEF MeterCall
    <2>3. QED
      BY <1>2, <2>2 DEF Pending
  <1>3. CASE Calls(t)
    <2>1. CASE \E k \in Listener : CallCheck(t, k)
      <3>1. call'[t].op = "check"
        BY <2>1 DEF CallCheck, Begin, MeterArgs
      <3>2. {p \in Pending(l)' : p[1] = t} = {}
        BY <3>1 DEF Pending
      <3>3. UNCHANGED <<usage, granted, cleared>>
        BY <2>1 DEF CallCheck, Begin
      <3>4. QED
        BY <3>2, <3>3
    <2>2. CASE \/ \E k \in Listener, n \in Size : CallRecord(t, k, n) \/ CallEnforce(t, k, n)
               \/ \E c \in Commitment : CallUpdate(t, c)
      <3>1. pc'[t] \notin CheckStates /\ UNCHANGED <<usage, granted, cleared>>
        BY <2>2 DEF CallRecord, CallEnforce, CallUpdate, Begin
      <3>2. QED
        BY <3>1, <1>1
    <2>3. QED
      BY <1>3, <2>1, <2>2 DEF Calls
  <1>4. CASE Locking(t)
    <2>1. /\ \/ pc'[t] \notin CheckStates
             \/ pc[t] \in CheckStates
          /\ call' = call
          /\ UNCHANGED <<usage, granted, cleared>>
      BY <1>4 DEF Locking, LockToRecord, LockUsageToCheck, LockPaymentsToCheck,
         LockToUpdate
    <2>2. QED
      BY <2>1, <1>1
  <1>5. CASE ReadUsageToCheck(t)
    <2>1. /\ pc[t] \in CheckStates
          /\ call'[t] = [call[t] EXCEPT !.seen = usage[call[t].listener]]
          /\ UNCHANGED <<usage, granted, cleared>>
      BY <1>5 DEF ReadUsageToCheck, ReadUsage
    <2>2. QED
      BY <2>1, <1>2
  <1>6. CASE \/ ReadUsageToRecord(t) \/ Validate(t) \/ Store(t) \/ Panic(t)
             \/ Abandon(t)
    <2>1. pc'[t] \notin CheckStates /\ UNCHANGED <<usage, granted, cleared>>
      BY <1>6 DEF ReadUsageToRecord, ReadUsage, Validate, Store, Panic, Abandon
    <2>2. QED
      BY <2>1, <1>1
  <1>7. QED
    BY <1>3, <1>4, <1>5, <1>6 DEF Running

(* What is let through stays within what is recorded.                      *)
LEMMA NextGrantedIsRecorded ==
    ASSUME LedgerInv, ReadsAreFresh, GrantedIsRecorded, OverflowFree, [Next]_vars
    PROVE  GrantedIsRecorded'
  <1> SUFFICES ASSUME NEW l \in Listener
               PROVE  /\ IsFiniteSet(Pending(l)')
                      /\ granted'[l] + Cardinality(Pending(l)') <= usage'[l]
                      /\ granted'[l] <= cleared'[l]
    BY DEF GrantedIsRecorded
  <1>1. CASE UNCHANGED vars
    <2>1. Pending(l)' = Pending(l)
      BY <1>1 DEF vars, Pending
    <2>2. QED
      BY <1>1, <2>1 DEF vars, GrantedIsRecorded
  <1>2. ASSUME NEW t \in Task,
               Calls(t) \/ Locking(t) \/ Running(t) \/ Abandon(t)
        PROVE  /\ IsFiniteSet(Pending(l)')
               /\ granted'[l] + Cardinality(Pending(l)') <= usage'[l]
               /\ granted'[l] <= cleared'[l]
    <2>1. CASE Record(t)
      <3>1. granted' = granted /\ cleared' = cleared
        BY <2>1 DEF Record, history
      <3>2. QED
        BY <2>1, <3>1, RecordPending DEF GrantedIsRecorded
    <2>2. CASE Check(t)
      <3>1. usage' = usage
        BY <2>2 DEF Check, tables
      <3>2. QED
        BY <2>2, <3>1, CheckPending
    <2>3. CASE ~Record(t) /\ ~Check(t)
      <3>1. /\ UNCHANGED <<usage, granted, cleared>>
            /\ {p \in Pending(l)' : p[1] = t} \subseteq {p \in Pending(l) : p[1] = t}
        BY <1>2, <2>3, OtherStepsPending
      <3>2. /\ IsFiniteSet(Pending(l)')
            /\ Cardinality(Pending(l)') <= Cardinality(Pending(l))
        BY <1>2, <3>1, PendingShrinks DEF LedgerInv, GrantedIsRecorded
      <3>3. Cardinality(Pending(l)') \in Nat /\ Cardinality(Pending(l)) \in Nat
        BY <3>2, FS_CardinalityType DEF GrantedIsRecorded
      <3>4. QED
        BY <3>1, <3>2, <3>3 DEF GrantedIsRecorded, LedgerInv, TypeOK
    <2>4. QED
      BY <2>1, <2>2, <2>3
  <1>3. QED
    BY <1>1, <1>2 DEF Next

(* As long as nothing wraps around, no chunk is let through that the       *)
(* latest commitment does not pay for, however many tasks enforce, abandon *)
(* and commit in between: relay.rs, enforce_payment_limits.                *)
THEOREM LedgerForwardsPaidOnly ==
    Spec /\ []OverflowFree => []NeverForwardedUnpaid
  <1> DEFINE Inv == LedgerInv /\ ReadsAreFresh /\ GrantedIsRecorded
  <1>1. Init => GrantedIsRecorded
    <2> SUFFICES ASSUME Init, NEW l \in Listener
                 PROVE  /\ IsFiniteSet(Pending(l))
                        /\ granted[l] + Cardinality(Pending(l)) <= usage[l]
                        /\ granted[l] <= cleared[l]
      BY DEF GrantedIsRecorded
    <2>1. Pending(l) = {}
      BY DEF Init, Pending, CheckStates
    <2>2. IsFiniteSet(Pending(l)) /\ Cardinality(Pending(l)) = 0
      BY <2>1, FS_EmptySet
    <2>3. QED
      BY <2>2 DEF Init
  <1>2. /\ LedgerInv /\ ReadsAreFresh /\ GrantedIsRecorded
        /\ OverflowFree /\ [Next]_vars
        => GrantedIsRecorded'
    BY NextGrantedIsRecorded
  <1>3. LedgerInv /\ GrantedIsRecorded /\ ClearedIsPaid => NeverForwardedUnpaid
    <2> SUFFICES ASSUME LedgerInv, GrantedIsRecorded, ClearedIsPaid,
                        NEW l \in Listener
                 PROVE  Cost(granted[l]) <= AmountPaid(l)
      BY DEF NeverForwardedUnpaid
    <2>1. granted[l] <= cleared[l] /\ Cost(cleared[l]) <= AmountPaid(l)
      BY DEF GrantedIsRecorded, ClearedIsPaid
    <2>2. granted[l] \in Nat /\ cleared[l] \in Nat /\ AmountPaid(l) \in Nat
      BY AmountPaidNat DEF LedgerInv, TypeOK
    <2>3. /\ Cost(granted[l]) <= Cost(cleared[l])
          /\ Cost(granted[l]) \in Nat /\ Cost(cleared[l]) \in Nat
      BY <2>1, <2>2, CostMonotone
    <2>4. QED
      BY <2>1, <2>2, <2>3
  <1>4. Spec => []LedgerInv
    BY LedgerTypeCorrect, LedgerLocksExclude, PTL DEF LedgerInv
  <1>5. Spec => []ReadsAreFresh
    BY LedgerReadsAreFresh
  <1>6. Spec /\ []OverflowFree => []ClearedIsPaid
    BY LedgerClearedIsPaid
  <1>7. QED
    BY <1>1, <1>2, <1>3, <1>4, <1>5, <1>6, PTL DEF Spec

(* In a debug build, always.                                               *)
COROLLARY CheckedLedgerForwardsPaidOnly ==
    ASSUME OverflowChecks
    PROVE  Spec => []NeverForwardedUnpaid
  <1>1. OverflowFree
    BY DEF OverflowFree
  <1>2. QED
    BY <1>1, LedgerForwardsPaidOnly, PTL
-----------------------------------------------------------------------------
(* Refinement                                                              *)

(* A step of the ledger is a step of the meter, or the meter stands still. *)
LEMMA StepImplementsMeter ==
    ASSUME LedgerInv, ReadsAreFresh, ClearedIsPaid, OverflowFree, [Next]_vars
    PROVE  [Meter!MeterNext]_(Meter!meterVars)
  <1>1. CASE UNCHANGED vars
    BY <1>1 DEF vars, Meter!meterVars
  <1>2. ASSUME NEW t \in Task,
               Calls(t) \/ Locking(t) \/ Running(t) \/ Abandon(t)
        PROVE  [Meter!MeterNext]_(Meter!meterVars)
    <2>1. CASE Store(t)
      <3>1. PICK l \in Listener, c \in Commitment :
              /\ c.listener = l
              /\ Meter!Acceptable(c, payments[l])
              /\ payments' = [payments EXCEPT ![l] = c]
        BY <2>1, StoreRaises
      <3>2. UNCHANGED cleared
        BY <2>1 DEF Store, history
      <3>3. Meter!Commit(l)
        BY <3>1, <3>2 DEF Meter!Commit
      <3>4. QED
        BY <3>3 DEF Meter!MeterNext
    <2>2. CASE Check(t) /\ cleared' # cleared
      <3>1. PICK l \in Listener :
              /\ cleared' = [cleared EXCEPT ![l] = usage[l]]
              /\ Cost(usage[l]) <= AmountPaid(l)
              /\ payments' = payments
        BY <2>2, CheckClears
      <3>2. cleared'[l] = usage[l] /\ cleared'[l] >= cleared[l]
        BY <3>1 DEF LedgerInv, TypeOK, ClearedIsPaid
      <3>3. Meter!Cost(cleared'[l]) <= Meter!AmountOf(payments[l])
        BY <3>1, <3>2 DEF Meter!Cost, Cost, Meter!MiB, MiB, AmountPaid
      <3>4. Meter!Clear(l)
        BY <3>1, <3>2, <3>3 DEF Meter!Clear
      <3>5. QED
        BY <3>4 DEF Meter!MeterNext
    <2>3. CASE ~Store(t) /\ cleared' = cleared
      <3>1. payments' = payments
        BY <2>3, <1>2, TableWrites DEF LedgerInv
      <3>2. QED
        BY <2>3, <3>1 DEF Meter!meterVars
    <2>4. QED
      BY <1>2, <2>1, <2>2, <2>3, TableWrites DEF LedgerInv, Store, history
  <1>3. QED
    BY <1>1, <1>2 DEF Next

(* The concurrent ledger of relay.rs implements the prepaid meter.         *)
THEOREM LedgerImplementsMeter == Spec /\ []OverflowFree => ImplementsMeter
  <1> DEFINE Inv == LedgerInv /\ ReadsAreFresh /\ ClearedIsPaid
  <1>1. Init => Meter!MeterInit
    BY DEF Init, Meter!MeterInit
  <1>2. Inv /\ OverflowFree /\ [Next]_vars => [Meter!MeterNext]_(Meter!meterVars)
    BY StepImplementsMeter
  <1>3. Spec => []LedgerInv
    BY LedgerTypeCorrect, LedgerLocksExclude, PTL DEF LedgerInv
  <1>4. Spec => []ReadsAreFresh
    BY LedgerReadsAreFresh
  <1>5. Spec /\ []OverflowFree => []ClearedIsPaid
    BY LedgerClearedIsPaid
  <1>6. QED
    BY <1>1, <1>2, <1>3, <1>4, <1>5, PTL DEF Spec, ImplementsMeter, Meter!MeterSpec

-----------------------------------------------------------------------------
(* A chunk is refused by a check that has read the current entry, and asks *)
(* for no more than the exact price.                                       *)
LEMMA CheckRefuses ==
    ASSUME LedgerInv, ReadsAreFresh, NEW t \in Task, Check(t),
           NEW l \in Listener, refused'[l] # refused[l]
    PROVE  Cost(usage[l]) > AmountPaid(l)
  <1> DEFINE c == call[t]
  <1>1. c \in MeterCall /\ c.seen = usage[c.listener]
    BY DEF LedgerInv, TypeOK, ReadsAreFresh, Check, CheckStates
  <1>2. c.listener \in Listener /\ c.seen \in Nat
    BY <1>1, MeterCallFields
  <1>3. ~Sufficient(t) /\ l = c.listener
    BY DEF Check, history, LedgerInv, TypeOK
  <1>4. AmountPaid(l) \in Nat
    BY AmountPaidNat DEF LedgerInv
  <1>5. RequiredAmount(c.seen) \in Nat /\ RequiredAmount(c.seen) <= Cost(c.seen)
    BY <1>2, RequiredAtMostCost
  <1>6. Cost(c.seen) \in Nat
    BY <1>2, CostMonotone
  <1>7. QED
    BY <1>1, <1>3, <1>4, <1>5, <1>6 DEF Sufficient

(* However many tasks there are and whatever wraps around: a refusal is    *)
(* always due at the moment it falls (check_payment_sufficient).           *)
THEOREM LedgerRefusalsAreDue == Spec => RefusalsAreDue
  <1>1. ASSUME LedgerInv, ReadsAreFresh, [Next]_vars,
               NEW l \in Listener, refused'[l] # refused[l]
        PROVE  Cost(usage[l]) > AmountPaid(l)
    <2>1. PICK t \in Task : Calls(t) \/ Locking(t) \/ Running(t) \/ Abandon(t)
      BY <1>1 DEF Next, vars
    <2>2. CASE Running(t)
      <3>1. Check(t)
        BY <1>1, <2>2 DEF Running, ReadUsageToRecord, ReadUsageToCheck,
           ReadUsage, Record, Validate, Store, Panic, history
      <3>2. QED
        BY <1>1, <3>1, CheckRefuses
    <2>3. CASE Calls(t) \/ Locking(t) \/ Abandon(t)
      BY <1>1, <2>3 DEF Calls, CallRecord, CallEnforce, CallCheck, CallUpdate,
         Begin, Locking, LockToRecord, LockUsageToCheck, LockPaymentsToCheck,
         LockToUpdate, Abandon, history
    <2>4. QED
      BY <2>1, <2>2, <2>3
  <1>2. LedgerInv /\ ReadsAreFresh /\ [Next]_vars
          => [\A l \in Listener :
                refused'[l] # refused[l] => Cost(usage[l]) > AmountPaid(l)]_vars
    BY <1>1
  <1>3. Spec => []LedgerInv
    BY LedgerTypeCorrect, LedgerLocksExclude, PTL DEF LedgerInv
  <1>4. QED
    BY <1>2, <1>3, LedgerReadsAreFresh, PTL DEF Spec, RefusalsAreDue

-----------------------------------------------------------------------------
(* The guard of a Locking or Running step of t holds: t is between two     *)
(* locks, or waits for one that is free.                                   *)
CanGoOn(t) ==
    \/ pc[t] \in {"recording", "adding", "checking", "answering",
                  "updating", "storing"}
    \/ pc[t] \in {"record_lock", "check_lock"} /\ usageLock = Unlocked
    \/ pc[t] \in {"check_payments_lock", "update_lock"} /\ paymentsLock = Unlocked

(* Whoever holds listener_payments can go on, for it waits for nothing.    *)
LEMMA PaymentsOwnerCanGoOn ==
    ASSUME LedgerInv, paymentsLock # Unlocked
    PROVE  \E t \in Task : CanGoOn(t)
  <1>1. PICK t \in Task : paymentsLock = t
    BY DEF LedgerInv, TypeOK
  <1>2. CanGoOn(t)
    BY <1>1 DEF LedgerInv, LockDiscipline, CanGoOn
  <1>3. QED
    BY <1>2

(* Nor can everybody wait for listener_usage: its owner waits at most for  *)
(* listener_payments.                                                      *)
LEMMA UsageOwnerCanGoOn ==
    ASSUME LedgerInv, usageLock # Unlocked
    PROVE  \E t \in Task : CanGoOn(t)
  <1>1. PICK t \in Task : usageLock = t
    BY DEF LedgerInv, TypeOK
  <1>2. pc[t] = "check_payments_lock" \/ CanGoOn(t)
    BY <1>1 DEF LedgerInv, LockDiscipline, CanGoOn
  <1>3. CASE paymentsLock = Unlocked
    BY <1>1, <1>2, <1>3 DEF CanGoOn
  <1>4. CASE paymentsLock # Unlocked
    BY <1>4, PaymentsOwnerCanGoOn
  <1>5. QED
    BY <1>3, <1>4

NoDeadlock == (\E t \in Task : pc[t] # "idle") => \E t \in Task : CanGoOn(t)

(* Tasks never all wait for each other's locks, although                   *)
(* check_payment_sufficient takes the second mutex with the first in hand: *)
(* while an operation runs, the guard of some task's next step holds.      *)
THEOREM LedgerNeverDeadlocks == Spec => []NoDeadlock
  <1>1. ASSUME LedgerInv, NEW t \in Task, pc[t] # "idle"
        PROVE  \E u \in Task : CanGoOn(u)
    <2>1. CASE usageLock # Unlocked
      BY <1>1, <2>1, UsageOwnerCanGoOn
    <2>2. CASE paymentsLock # Unlocked
      BY <1>1, <2>2, PaymentsOwnerCanGoOn
    <2>3. CASE usageLock = Unlocked /\ paymentsLock = Unlocked
      <3>1. pc[t] \in RecordStates \cup CheckStates \cup UpdateStates
        BY <1>1 DEF LedgerInv, TypeOK, PcStates
      <3>2. CanGoOn(t)
        BY <2>3, <3>1 DEF CanGoOn, RecordStates, CheckStates, UpdateStates
      <3>3. QED
        BY <3>2
    <2>4. QED
      BY <2>1, <2>2, <2>3
  <1>2. LedgerInv => NoDeadlock
    BY <1>1 DEF NoDeadlock
  <1>3. QED
    BY <1>2, LedgerTypeCorrect, LedgerLocksExclude, PTL DEF LedgerInv
=============================================================================
