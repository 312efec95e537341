\* The same, without the properties that hold.
CONSTANTS
    alice = alice
    Listener <- OneListener
    Commitment <- Commitments
    NoCommitment = NoCommitment
    Size <- OneMiB
    Refused <- NoneOrOne
    MaxRequests = 2
    MaxCleared <- TwoMiB
    Price <- SteepPrice
    Word <- SteepWord
    OverflowChecks = TRUE
SPECIFICATION Spec
INVARIANT ChargedAtMostCommitted
