CONSTANTS
    NumRelayers <- MCNumRelayers
    Quorum <- MCQuorum
    NumBatches <- MCNumBatches
    DepositsPerBatch <- MCDepositsPerBatch
    MaxRetriesOnWasProposed <- MCMaxRetries
    MaxQuorumRetriesOnElrond <- MCMaxRetries
    StoreUncheckedBatch = TRUE
    RoundTicks <- MCNoMinimumRound

SPECIFICATION Spec

INVARIANT ExecutedInOrder
