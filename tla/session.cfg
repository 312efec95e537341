\* One listener, two sessions, every configuration of the relay, every fault.
CONSTANTS
    alice = alice
    Listener <- OneListener
    Commitment <- Commitments
    NoCommitment = NoCommitment
    Size <- OneMiB
    Refused <- NoneOrOne
    MaxRequests = 2
    MaxCleared <- TwoMiB
    Price <- SteepPrice
    Word <- SteepWord
    OverflowChecks = TRUE
SPECIFICATION Spec
INVARIANTS TypeOK AnswersAreCurrent AccountIsCommitted SettledIsSigned
PROPERTIES SettlementCoversTraffic
