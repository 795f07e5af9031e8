CONSTANTS
    NumRelayers <- MCNumRelayers
    Quorum <- MCQuorum
    NumBatches <- MCNumBatches
    NumDeposits <- MCNumDeposits
    MaxQuorumRetriesOnEthereum <- MCMaxRetries
    MaxQuorumRetriesOnElrond <- MCMaxRetries
    Splits <- MCSplits
    RoundTicks <- MCNoMinimumRound
    StabilizeWithin <- MCUnbounded
    NilWhenNoBatch = TRUE
    PerformGateInverted = FALSE
    WasSignedQueriesExecuted = FALSE

SPECIFICATION Spec

INVARIANT NoRelayerPanics
