CONSTANTS
    NumRelayers <- MCNumRelayers
    Quorum <- MCQuorum
    NumBatches <- MCNumBatches
    DepositsPerBatch <- MCDepositsPerBatch
    MaxRetriesOnWasProposed <- MCMaxRetries
    MaxQuorumRetriesOnElrond <- MCMaxRetries
    StoreUncheckedBatch = FALSE
    RoundTicks <- MCStepsPerRound

SPECIFICATION FairSpec

PROPERTY ImplementsLiveBatchBridge
