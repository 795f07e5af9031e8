CONSTANTS
    NumRelayers <- MCNumRelayers
    Quorum <- MCQuorum
    NumBatches <- MCNumBatches
    NumDeposits <- MCNumDeposits
    MaxQuorumRetriesOnEthereum <- MCMaxRetries
    MaxQuorumRetriesOnElrond <- MCMaxRetries
    Splits <- MCSplits
    RoundTicks <- MCStepsPerRound
    StabilizeWithin <- MCUnstableSteps
    NilWhenNoBatch = FALSE
    PerformGateInverted = FALSE
    WasSignedQueriesExecuted = FALSE

SPECIFICATION FairSpec

PROPERTY AllBatchesFinalized
