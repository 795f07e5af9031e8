CONSTANTS
    NumRelayers <- MCNumRelayers
    Quorum <- MCQuorum
    NumBatches <- MCNumBatches
    NumDeposits <- MCNumDeposits
    MaxQuorumRetriesOnEthereum <- MCMaxRetries
    MaxQuorumRetriesOnElrond <- MCMaxRetries
    Splits <- MCSplits
    RoundTicks <- MCNoMinimumRound
    StabilizeWithin <- MCUnbounded
    NilWhenNoBatch = FALSE
    PerformGateInverted = FALSE
    WasSignedQueriesExecuted = TRUE

SPECIFICATION Spec

INVARIANT NoDuplicateSignOnElrond
