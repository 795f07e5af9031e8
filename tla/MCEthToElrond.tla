--------------------------- MODULE MCEthToElrond ---------------------------
(***************************************************************************)
(* Model-checking instance of EthToElrond: two relayers, quorum two, one   *)
(* retry of each kind; two batches of one deposit for the liveness and v2 *)
(* runs, three batches of two deposits for safety.                         *)
(* The safety runs let rounds rotate at any time (no minimum length); the  *)
(* liveness run gives the leader, once stable, as many steps per round as  *)
(* the Ethereum->Elrond state machine has steps.                           *)
(***************************************************************************)
EXTENDS EthToElrond

MCNumRelayers == 2
MCQuorum == 2
MCNumBatches == 2
MCDepositsPerBatch == 1
MCMaxRetries == 1
MCNoMinimumRound == 0
MCStepsPerRound == 5

\* The safety run's larger instance: three batches, so a stale read of the
\* last executed batch id can lag two batches behind, and batches of two
\* deposits, so verifyDepositNonces compares more than one nonce.
MCThreeBatches == 3
MCTwoDeposits == 2

=============================================================================
