\* A debug build in which sums and prices overflow: two tasks on one
\* listener's account, every operation.
CONSTANTS
    alice = alice
    t1 = t1
    t2 = t2
    Task <- TwoTasks
    Listener <- OneListener
    Commitment <- UnevenCommitments
    NoCommitment = NoCommitment
    Unlocked = Unlocked
    Size <- MostOfAMiB
    Operations <- AllOperations
    MaxUsage <- TwoMiB
    Price <- NarrowPrice
    Word <- NarrowWord
    OverflowChecks = TRUE
SPECIFICATION LiveSpec
INVARIANTS TypeOK LockDiscipline ReadsAreFresh NeverForwardedUnpaid ClearedIsPaid
PROPERTIES RefusalsAreDue ImplementsMeter CallsReturn
