CONSTANTS
    NumRelayers <- MCNumRelayers
    Quorum <- MCQuorum
    NumBatches <- MCThreeBatches
    DepositsPerBatch <- MCTwoDeposits
    MaxRetriesOnWasProposed <- MCMaxRetries
    MaxQuorumRetriesOnElrond <- MCMaxRetries
    StoreUncheckedBatch = FALSE
    RoundTicks <- MCNoMinimumRound

SPECIFICATION Spec

INVARIANT TypeOK
INVARIANT ExecutedInOrder
