--------------------------- MODULE PaymentLedger ---------------------------
(***************************************************************************)
(* The payment accounting of a RelayNode (mdrn-cli/src/relay.rs): two      *)
(* tables, listener_usage and listener_payments, each behind a tokio       *)
(* Mutex, and the async operations on them that tasks sharing the node run *)
(* concurrently, in parallel on a multi-threaded runtime: taking a lock,   *)
(* reading a table and writing it are steps of their own.  At an await     *)
(* (always: waiting for a lock) the future of an operation may be dropped, *)
(* which releases what it holds.  A panic unwinds the task and releases    *)
(* its locks as well (tokio mutexes are not poisoned).                     *)
(*                                                                         *)
(* The relay is on mainnet.  On testnet check_payment_sufficient and       *)
(* enforce_payment_limits answer true before they touch either table.      *)
(***************************************************************************)
EXTENDS Pricing

CONSTANTS
    Task,             \* the tasks that call the node
    Listener,
    Commitment,       \* the validly signed commitments that may arrive
    NoCommitment,
    Unlocked,         \* owner of a free lock
    Size,             \* chunk sizes, in bytes
    Operations,       \* what the callers do: operations, and "abandon"
    MaxUsage          \* bound: no call is made once this much is recorded

ASSUME LedgerAssumption ==
    /\ Unlocked \notin Task
    /\ NoCommitment \notin Commitment
    /\ \A c \in Commitment : /\ c.listener \in Listener
                             /\ c.seq \in Nat
                             /\ c.amount \in Nat
    /\ Size \subseteq Nat
    /\ MaxUsage \in Nat

VARIABLES
    usage,          \* listener_usage: bytes recorded (absent = 0)
    payments,       \* listener_payments: latest commitment
    usageLock,      \* the task that holds the listener_usage mutex
    paymentsLock,   \* the task that holds the listener_payments mutex
    pc,             \* where each task is
    call,           \* the arguments of its current operation
    granted,        \* history: bytes of the chunks allowed so far
    cleared,        \* history: recorded bytes when a chunk was last allowed
    refused         \* history: bytes of the chunks refused so far

tables  == <<usage, payments>>
locks   == <<usageLock, paymentsLock>>
history == <<granted, cleared, refused>>
vars    == <<usage, payments, usageLock, paymentsLock, pc, call,
             granted, cleared, refused>>

NoCall     == [op |-> "none"]
(* seen is the entry of listener_usage the task has read.                  *)
MeterCall  == [op : {"record", "check", "enforce"}, listener : Listener,
               size : Size \cup {0}, seen : Nat]
UpdateCall == [op : {"update"}, offer : Commitment]

RecordStates == {"record_lock", "recording", "adding"}
CheckStates  == {"check_lock", "check_payments_lock", "checking", "answering"}
UpdateStates == {"update_lock", "updating", "storing"}
PcStates     == {"idle"} \cup RecordStates \cup CheckStates \cup UpdateStates

(* The states in which a task is suspended at an await.                    *)
AwaitStates == {"record_lock", "check_lock", "check_payments_lock", "update_lock"}

Meter == INSTANCE PrepaidMeter WITH latest <- payments

AmountPaid(l) == Meter!AmountOf(payments[l])

Init ==
    /\ usage = [l \in Listener |-> 0]
    /\ payments = [l \in Listener |-> NoCommitment]
    /\ usageLock = Unlocked
    /\ paymentsLock = Unlocked
    /\ pc = [t \in Task |-> "idle"]
    /\ call = [t \in Task |-> NoCall]
    /\ granted = [l \in Listener |-> 0]
    /\ cleared = [l \in Listener |-> 0]
    /\ refused = [l \in Listener |-> 0]
-----------------------------------------------------------------------------
(* Calls.  A task that is idle calls one operation of the node.            *)

MeterArgs(op, l, n) == [op |-> op, listener |-> l, size |-> n, seen |-> 0]

Begin(t, args, state) ==
    /\ pc[t] = "idle"
    /\ args.op \in Operations
    /\ call' = [call EXCEPT ![t] = args]
    /\ pc' = [pc EXCEPT ![t] = state]
    /\ UNCHANGED <<tables, locks, history>>

WithinBound(l) == usage[l] <= MaxUsage /\ granted[l] <= MaxUsage

(* record_bandwidth_usage(l, n), up to its await.                          *)
CallRecord(t, l, n) ==
    /\ WithinBound(l)
    /\ Begin(t, MeterArgs("record", l, n), "record_lock")

(* enforce_payment_limits(l, n), up to its first await.                    *)
CallEnforce(t, l, n) ==
    /\ WithinBound(l)
    /\ Begin(t, MeterArgs("enforce", l, n), "record_lock")

(* check_payment_sufficient(l), up to its first await.                     *)
CallCheck(t, l) ==
    Begin(t, MeterArgs("check", l, 0), "check_lock")

(* update_payment_commitment(c), past verify_signature, which every member *)
(* of Commitment passes; with a bad signature the call returns unchanged.  *)
CallUpdate(t, c) ==
    Begin(t, [op |-> "update", offer |-> c], "update_lock")
-----------------------------------------------------------------------------
(* Steps of a running operation.                                           *)

Move(t, from, to) == pc[t] = from /\ pc' = [pc EXCEPT ![t] = to]

Return(t, from) == Move(t, from, "idle") /\ call' = [call EXCEPT ![t] = NoCall]

(* Mutant: the guard of listener_payments is leaked.                       *)
LeakPaymentsLock(t) ==
    /\ usageLock' = IF usageLock = t THEN Unlocked ELSE usageLock
    /\ UNCHANGED paymentsLock

(* Task t drops the guards it holds.                                       *)
ReleaseLocks(t) ==
    /\ usageLock' = IF usageLock = t THEN Unlocked ELSE usageLock
    /\ paymentsLock' = IF paymentsLock = t THEN Unlocked ELSE paymentsLock

LockToRecord(t) ==
    /\ Move(t, "record_lock", "recording")
    /\ usageLock = Unlocked
    /\ usageLock' = t
    /\ UNCHANGED <<tables, paymentsLock, call, history>>

(* The entry of the listener is read under the lock.                       *)
ReadUsage(t, from, to) ==
    /\ Move(t, from, to)
    /\ call' = [call EXCEPT ![t].seen = usage[call[t].listener]]
    /\ UNCHANGED <<tables, locks, history>>

ReadUsageToRecord(t) == ReadUsage(t, "recording", "adding")

AddPanics(t) == OverflowChecks /\ call[t].seen + call[t].size >= Word

(* Mutant: the arguments are gone when enforcement goes on to the check.   *)
RecordForgetsCall(t) ==
    /\ pc[t] = "adding"
    /\ ~AddPanics(t)
    /\ usage' = [usage EXCEPT ![call[t].listener] = Wrap(call[t].seen + call[t].size)]
    /\ Move(t, "adding", IF call[t].op = "enforce" THEN "check_lock" ELSE "idle")
    /\ call' = [call EXCEPT ![t] = NoCall]
    /\ ReleaseLocks(t)
    /\ UNCHANGED <<payments, history>>

(* *usage.entry(listener).or_insert(0) += bytes, and the guard is dropped; *)
(* enforce_payment_limits goes on to check_payment_sufficient.             *)
Record(t) ==
    /\ pc[t] = "adding"
    /\ ~AddPanics(t)
    /\ usage' = [usage EXCEPT ![call[t].listener] = Wrap(call[t].seen + call[t].size)]
    /\ IF call[t].op = "enforce"
       THEN Move(t, "adding", "check_lock") /\ UNCHANGED call
       ELSE Return(t, "adding")
    /\ ReleaseLocks(t)
    /\ UNCHANGED <<payments, history>>

LockUsageToCheck(t) ==
    /\ Move(t, "check_lock", "check_payments_lock")
    /\ usageLock = Unlocked
    /\ usageLock' = t
    /\ UNCHANGED <<tables, paymentsLock, call, history>>

LockPaymentsToCheck(t) ==
    /\ Move(t, "check_payments_lock", "checking")
    /\ paymentsLock = Unlocked
    /\ paymentsLock' = t
    /\ UNCHANGED <<tables, usageLock, call, history>>

ReadUsageToCheck(t) == ReadUsage(t, "checking", "answering")

CheckPanics(t) == OverflowChecks /\ RequiredOverflows(call[t].seen)

(* Mutant: the check does not count the chunk it decides on.               *)
SufficientBefore(t) ==
    AmountPaid(call[t].listener) >= RequiredAmount(call[t].seen - call[t].size)

(* Mutant: an exact payment does not suffice.                              *)
MoreThanSufficient(t) ==
    AmountPaid(call[t].listener) > RequiredAmount(call[t].seen)

Sufficient(t) == AmountPaid(call[t].listener) >= RequiredAmount(call[t].seen)

(* The answer of check_payment_sufficient.  When it ends an enforcement it *)
(* decides on the chunk, which the history variables write down.           *)
Check(t) ==
    LET l == call[t].listener
        n == call[t].size
    IN
    /\ pc[t] = "answering"
    /\ ~CheckPanics(t)
    /\ Return(t, "answering")
    /\ ReleaseLocks(t)
    /\ \/ /\ call[t].op = "enforce" /\ Sufficient(t)
          /\ granted' = [granted EXCEPT ![l] = @ + n]
          /\ cleared' = [cleared EXCEPT ![l] = call[t].seen]
          /\ UNCHANGED refused
       \/ /\ call[t].op = "enforce" /\ ~Sufficient(t)
          /\ refused' = [refused EXCEPT ![l] = @ + n]
          /\ UNCHANGED <<granted, cleared>>
       \/ /\ call[t].op # "enforce"
          /\ UNCHANGED history
    /\ UNCHANGED tables

LockToUpdate(t) ==
    /\ Move(t, "update_lock", "updating")
    /\ paymentsLock = Unlocked
    /\ paymentsLock' = t
    /\ UNCHANGED <<tables, usageLock, call, history>>

(* Mutant: the stored commitment is not looked at.                         *)
ValidateNothing(t) ==
    /\ Move(t, "updating", "storing")
    /\ UNCHANGED <<tables, call, locks, history>>

(* Mutant: only the sequence numbers are compared.                         *)
ValidateSequence(t) ==
    LET c == call[t].offer
        p == payments[c.listener]
    IN
    /\ pc[t] = "updating"
    /\ IF p # NoCommitment => c.seq > p.seq
       THEN Move(t, "updating", "storing") /\ UNCHANGED <<call, locks>>
       ELSE Return(t, "updating") /\ ReleaseLocks(t)
    /\ UNCHANGED <<tables, history>>

(* Mutant: an equal sequence number passes.                                *)
ValidateAcceptsReplay(t) ==
    LET c == call[t].offer
        p == payments[c.listener]
    IN
    /\ pc[t] = "updating"
    /\ IF p # NoCommitment => c.seq >= p.seq /\ c.amount >= p.amount
       THEN Move(t, "updating", "storing") /\ UNCHANGED <<call, locks>>
       ELSE Return(t, "updating") /\ ReleaseLocks(t)
    /\ UNCHANGED <<tables, history>>

(* The commitment is compared with the stored one.  If it supersedes it,   *)
(* or there is none, it goes on to be inserted; otherwise the call returns *)
(* an error and the guard is dropped.                                      *)
Validate(t) ==
    /\ pc[t] = "updating"
    /\ IF Meter!Acceptable(call[t].offer, payments[call[t].offer.listener])
       THEN Move(t, "updating", "storing") /\ UNCHANGED <<call, locks>>
       ELSE Return(t, "updating") /\ ReleaseLocks(t)
    /\ UNCHANGED <<tables, history>>

Store(t) ==
    /\ Return(t, "storing")
    /\ payments' = [payments EXCEPT ![call[t].offer.listener] = call[t].offer]
    /\ ReleaseLocks(t)
    /\ UNCHANGED <<usage, history>>

(* The caller drops the future of t while it waits for a lock.             *)
Abandon(t) ==
    /\ "abandon" \in Operations
    /\ pc[t] \in AwaitStates
    /\ Return(t, pc[t])
    /\ ReleaseLocks(t)
    /\ UNCHANGED <<tables, history>>

(* Mutant: a panicking task takes its locks with it.                       *)
PanicKeepsLocks(t) ==
    /\ \/ pc[t] = "adding" /\ AddPanics(t)
       \/ pc[t] = "answering" /\ CheckPanics(t)
    /\ Return(t, pc[t])
    /\ UNCHANGED <<tables, locks, history>>

(* An addition or multiplication overflows in a debug build.               *)
Panic(t) ==
    /\ \/ pc[t] = "adding" /\ AddPanics(t)
       \/ pc[t] = "answering" /\ CheckPanics(t)
    /\ Return(t, pc[t])
    /\ ReleaseLocks(t)
    /\ UNCHANGED <<tables, history>>
-----------------------------------------------------------------------------
Calls(t) ==
    \/ \E l \in Listener, n \in Size :
         CallRecord(t, l, n) \/ CallEnforce(t, l, n)
    \/ \E l \in Listener : CallCheck(t, l)
    \/ \E c \in Commitment : CallUpdate(t, c)

Locking(t) == \/ LockToRecord(t) \/ LockUsageToCheck(t)
              \/ LockPaymentsToCheck(t) \/ LockToUpdate(t)

Running(t) == \/ ReadUsageToRecord(t) \/ Record(t)
              \/ ReadUsageToCheck(t) \/ Check(t)
              \/ Validate(t) \/ Store(t)
              \/ Panic(t)

Next == \E t \in Task : Calls(t) \/ Locking(t) \/ Running(t) \/ Abandon(t)

Spec == Init /\ [][Next]_vars

(* The runtime polls a task that can run (weak fairness), and a tokio      *)
(* mutex is handed over in the order of arrival, so that a task waiting    *)
(* for a lock that is freed again and again gets it (strong fairness).     *)
Fairness == \A t \in Task : WF_vars(Running(t)) /\ SF_vars(Locking(t))

LiveSpec == Spec /\ Fairness
-----------------------------------------------------------------------------
(* The type invariant.  A task has the arguments its operation needs.      *)
TypeOK ==
    /\ usage \in [Listener -> Nat]
    /\ payments \in [Listener -> Commitment \cup {NoCommitment}]
    /\ \A l \in Listener : payments[l] # NoCommitment => payments[l].listener = l
    /\ usageLock \in Task \cup {Unlocked}
    /\ paymentsLock \in Task \cup {Unlocked}
    /\ pc \in [Task -> PcStates]
    /\ call \in [Task -> {NoCall} \cup MeterCall \cup UpdateCall]
    /\ \A t \in Task :
         /\ pc[t] \in RecordStates \cup CheckStates => call[t] \in MeterCall
         /\ pc[t] \in UpdateStates => call[t] \in UpdateCall
    /\ granted \in [Listener -> Nat]
    /\ cleared \in [Listener -> Nat]
    /\ refused \in [Listener -> Nat]

(* Mutual exclusion, and no lock outlives the operation that took it: a    *)
(* task is the owner of exactly the locks its place in the code implies.   *)
LockDiscipline ==
    \A t \in Task :
        /\ usageLock = t <=>
             pc[t] \in {"recording", "adding",
                        "check_payments_lock", "checking", "answering"}
        /\ paymentsLock = t <=>
             pc[t] \in {"checking", "answering", "updating", "storing"}

(* What a task has read or validated under a lock is still true when it    *)
(* acts on it: no lost update, no answer from a stale entry, no commitment *)
(* inserted over one it does not supersede.                                *)
ReadsAreFresh ==
    \A t \in Task :
        /\ pc[t] \in {"adding", "answering"} =>
             call[t].seen = usage[call[t].listener]
        /\ pc[t] = "storing" =>
             Meter!Acceptable(call[t].offer, payments[call[t].offer.listener])

(* The chunks a relay has allowed for a listener never cost more than the  *)
(* listener's latest commitment, whatever tasks did in between: enforcement*)
(* records before it checks, in two critical sections, and stored          *)
(* commitments never shrink.                                               *)
NeverForwardedUnpaid ==
    \A l \in Listener : Cost(granted[l]) <= AmountPaid(l)

(* Nothing wraps around: either the build checks, or the numbers are small.*)
OverflowFree ==
    \/ OverflowChecks
    \/ \A l \in Listener : /\ ~RequiredOverflows(usage[l])
                           /\ \A n \in Size : usage[l] + n < Word

(* The same about what was recorded when a chunk was last allowed: the     *)
(* latest commitment covers all of it, not only the chunks let through.    *)
ClearedIsPaid ==
    \A l \in Listener :
        /\ cleared[l] <= usage[l]
        /\ Cost(cleared[l]) <= AmountPaid(l)

(* A chunk is refused only when, at that moment, the listener's commitment *)
(* does not cover what is recorded.                                        *)
RefusalsAreDue ==
    [][\A l \in Listener :
         refused'[l] # refused[l] => Cost(usage[l]) > AmountPaid(l)]_vars

(* Seen from outside, the ledger is a prepaid meter: locks, tasks and the  *)
(* two-step enforcement cannot be told from atomic steps.                  *)
ImplementsMeter == Meter!MeterSpec

(* Every operation returns: no set of tasks waits for each other's locks,  *)
(* and a task dropped or panicking in the middle leaves no lock behind.    *)
CallsReturn == \A t \in Task : pc[t] # "idle" ~> pc[t] = "idle"
=============================================================================
