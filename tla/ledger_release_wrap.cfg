\* A release build in which the price of the second MiB wraps to zero.
CONSTANTS
    alice = alice
    t1 = t1
    t2 = t2
    Task <- TwoTasks
    Listener <- OneListener
    Commitment <- SmallCommitments
    NoCommitment = NoCommitment
    Unlocked = Unlocked
    Size <- OneSize
    Operations <- MeteringOperations
    MaxUsage <- TwoMiB
    Price <- SteepPrice
    Word <- SteepWord
    OverflowChecks = FALSE
SPECIFICATION Spec
INVARIANTS NeverForwardedUnpaid
