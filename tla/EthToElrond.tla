---------------------------- MODULE EthToElrond ----------------------------
(***************************************************************************)
(* The Ethereum -> Elrond half-bridge: every relayer runs the five steps   *)
(* of bridges/ethElrond/steps/ethToElrond against its own bridgeExecutor.  *)
(* A relayer asks Elrond for the last executed Ethereum batch id, fetches  *)
(* the next batch from Ethereum by nonce, checks it, and then the leader   *)
(* proposes it on the Elrond multisig, every relayer signs, and the        *)
(* leader performs it once a quorum signed.                                *)
(*                                                                         *)
(* The Ethereum safe holds batches 1..ethCreated; batch b carries          *)
(* DepositsPerBatch deposits with consecutive nonces.  Asked for a nonce   *)
(* it has no batch for, the client returns an empty batch with id 0.  The  *)
(* Elrond contract keeps one proposal per batch id and records, when it    *)
(* performs a transfer, the batch id and the nonce of its last deposit.    *)
(*                                                                         *)
(* Step01 makes three chain reads.  Other relayers may perform a batch     *)
(* between the first (the last executed batch id) and the last (the last  *)
(* executed deposit nonce): the first read returns any value the contract  *)
(* has held, the last one the current value.                               *)
(***************************************************************************)
EXTENDS Naturals, Sequences, FiniteSets

CONSTANTS
    NumRelayers,               \* relayers 1..NumRelayers
    Quorum,                    \* signatures the Elrond multisig requires
    NumBatches,                \* batches Ethereum will create
    DepositsPerBatch,          \* deposits of every batch
    MaxRetriesOnWasProposed,   \* ArgsBridgeExecutor.MaxRestriesOnWasProposed
    MaxQuorumRetriesOnElrond,  \* ArgsBridgeExecutor.MaxQuorumRetriesOnElrond
    StoreUncheckedBatch,       \* TRUE: v2 GetAndStoreBatchFromEthereum
    RoundTicks                 \* steps the leader takes in a round, once stable

ASSUME NumRelayers \in Nat \ {0} /\ Quorum \in 1..NumRelayers
ASSUME NumBatches \in Nat \ {0} /\ DepositsPerBatch \in Nat \ {0}

\* checkArgs: NewBridgeExecutor refuses retry bounds below minRetries.
MinRetries == 1
CheckArgs ==
    /\ MaxQuorumRetriesOnElrond >= MinRetries
    /\ MaxRetriesOnWasProposed >= MinRetries

ASSUME CheckArgs
ASSUME StoreUncheckedBatch \in BOOLEAN /\ RoundTicks \in Nat

Relayers == 1..NumRelayers

\* The batch the Ethereum safe holds under nonce b.
EthBatch(b) ==
    [id |-> b,
     deposits |-> [i \in 1..DepositsPerBatch |-> (b - 1) * DepositsPerBatch + i]]

\* What the client answers for a nonce with no batch.
NotFoundBatch == [id |-> 0, deposits |-> <<>>]

TransferBatches == {EthBatch(b) : b \in 1..NumBatches} \cup {NotFoundBatch}

NoBatch == [nil |-> TRUE]                      \* executor.batch == nil
InvalidActionID == [nil |-> FALSE]             \* action id 0

GettingPendingBatchFromEthereum == "GettingPendingBatchFromEthereum"
ProposingTransferOnElrond       == "ProposingTransferOnElrond"
SigningProposedTransferOnElrond == "SigningProposedTransferOnElrond"
WaitingForQuorum                == "WaitingForQuorum"
PerformingActionID              == "PerformingActionID"

Steps == {GettingPendingBatchFromEthereum, ProposingTransferOnElrond,
          SigningProposedTransferOnElrond, WaitingForQuorum, PerformingActionID}

VARIABLES
    step,               \* current step of each relayer
    batch,              \* executor.batch
    actionID,           \* executor.actionID: a proposed batch names its action
    retriesWasProposed, \* executor.retriesOnWasProposed
    retriesElrond,      \* executor.quorumRetriesOnElrond
    ethCreated,         \* Ethereum: batches 1..ethCreated exist
    lastBatchID,        \* Elrond: last executed Ethereum batch id
    lastTxID,           \* Elrond: last executed Ethereum deposit nonce
    proposed,           \* Elrond: proposed transfers
    signers,            \* Elrond: relayers that signed each transfer
    performed,          \* Elrond: performed transfers
    leader,             \* the relayer whose turn it is in the current round
    executedLog,        \* history: ids of the batches Elrond performed, in order
    stable,             \* chain calls no longer fail and reads are current
    leaderTicks         \* steps the leader took in the current round

relayerVars == <<step, batch, actionID, retriesWasProposed, retriesElrond>>
elrondVars  == <<lastBatchID, lastTxID, proposed, signers, performed, executedLog>>
envVars == <<ethCreated, leader, stable, leaderTicks>>
vars == <<relayerVars, elrondVars, envVars>>

TypeOK ==
    /\ step \in [Relayers -> Steps]
    /\ batch \in [Relayers -> TransferBatches \cup {NoBatch}]
    /\ actionID \in [Relayers -> TransferBatches \cup {InvalidActionID}]
    /\ retriesWasProposed \in [Relayers -> 0..MaxRetriesOnWasProposed]
    /\ retriesElrond \in [Relayers -> 0..MaxQuorumRetriesOnElrond]
    /\ ethCreated \in 0..NumBatches
    /\ lastBatchID \in 0..NumBatches
    /\ lastTxID \in 0..(NumBatches * DepositsPerBatch)
    /\ proposed \subseteq TransferBatches
    /\ signers \in [TransferBatches -> SUBSET Relayers]
    /\ performed \subseteq proposed
    /\ leader \in Relayers
    /\ executedLog \in Seq(0..NumBatches)
    /\ stable \in BOOLEAN
    /\ leaderTicks \in 0..RoundTicks

Init ==
    /\ step = [r \in Relayers |-> GettingPendingBatchFromEthereum]
    /\ batch = [r \in Relayers |-> NoBatch]
    /\ actionID = [r \in Relayers |-> InvalidActionID]
    /\ retriesWasProposed = [r \in Relayers |-> 0]
    /\ retriesElrond = [r \in Relayers |-> 0]
    /\ ethCreated = 0
    /\ lastBatchID = 0
    /\ lastTxID = 0
    /\ proposed = {}
    /\ signers = [b \in TransferBatches |-> {}]
    /\ performed = {}
    /\ leader \in Relayers
    /\ executedLog = <<>>
    /\ stable = FALSE
    /\ leaderTicks = 0

-----------------------------------------------------------------------------
(* Executor operations                                                     *)

Goto(r, s) == step' = [step EXCEPT ![r] = s]
Rewind(r) == Goto(r, GettingPendingBatchFromEthereum)

MyTurnAsLeader(r) == leader = r

\* A chain call returns an error (or a sent transaction reports one).
\* Before the environment stabilises any call may fail; afterwards none do.
Fails == ~stable

\* A retry check that lets the counter run one past its bound.
ProcessMaxRetriesPastBound(count, max) ==
    IF count <= max THEN [reached |-> FALSE, count |-> count + 1]
                    ELSE [reached |-> TRUE, count |-> count]

\* ProcessMaxRetriesOnWasTransferProposedOnElrond and
\* ProcessMaxQuorumRetriesOnElrond: increment below the bound, else report.
ProcessMaxRetries(count, max) ==
    IF count < max THEN [reached |-> FALSE, count |-> count + 1]
                   ELSE [reached |-> TRUE, count |-> count]

ResetRetriesOnWasTransferProposedOnElrond(r) ==
    retriesWasProposed' = [retriesWasProposed EXCEPT ![r] = 0]

\* A reset of the quorum counter that was left out.
ResetRetriesCountOnElrondMissing(r) == UNCHANGED retriesElrond

ResetRetriesCountOnElrond(r) == retriesElrond' = [retriesElrond EXCEPT ![r] = 0]

\* Values GetLastExecutedEthBatchIDFromElrond may have read at the start of
\* step01: the contract's current value or any it held before (once the
\* environment is stable, reads are current).
PastLastBatchIDs ==
    IF stable THEN {lastBatchID}
    ELSE {0, lastBatchID} \cup {executedLog[i] : i \in DOMAIN executedLog}

\* ethereumClient.GetBatch(nonce)
GetBatch(nonce) == IF nonce \in 1..ethCreated THEN EthBatch(nonce) ELSE NotFoundBatch

\* GetAndStoreBatchFromEthereum: isBatchInvalid.
IsBatchInvalid(b, nonce) == b.id # nonce \/ Len(b.deposits) = 0

\* A store that dropped the validity guard.
StoresFetchedBatchUnguarded(b, nonce) == TRUE

\* Whether GetAndStoreBatchFromEthereum stores the fetched batch; the v2
\* executor stores it unchecked.
StoresFetchedBatch(b, nonce) == StoreUncheckedBatch \/ ~IsBatchInvalid(b, nonce)

\* verifyDepositNonces(lastNonce): the deposits carry the nonces following
\* lastNonce, in order.
VerifyDepositNonces(b, lastNonce) ==
    \A i \in DOMAIN b.deposits : b.deposits[i] = lastNonce + i

\* WasTransferProposedOnElrond: WasProposedTransfer(batch)
WasTransferProposedOnElrond(r) == batch[r] \in proposed

\* GetAndStoreActionIDForProposeTransferOnElrond: 0 when not proposed.
GetActionIDForProposeTransfer(r) ==
    IF batch[r] \in proposed THEN batch[r] ELSE InvalidActionID

\* WasActionSignedOnElrond: WasSigned(actionID) by this relayer.
WasActionSignedOnElrond(r, a) == r \in signers[a]

\* ProcessQuorumReachedOnElrond: QuorumReached(actionID)
ProcessQuorumReachedOnElrond(r) == Cardinality(signers[actionID[r]]) >= Quorum

\* WasActionPerformedOnElrond: WasExecuted(actionID)
WasActionPerformedOnElrond(r) == actionID[r] \in performed

-----------------------------------------------------------------------------
(* Effects on the Elrond multisig                                          *)

\* ProposeTransferOnElrond: the contract keeps one proposal per batch id.
ProposeTransferOnElrond(r) ==
    proposed' = IF batch[r].id \in {p.id : p \in proposed}
                THEN proposed ELSE proposed \cup {batch[r]}

\* SignActionOnElrond: Sign(actionID) on a proposed, pending transfer.
SignActionOnElrond(r, a) ==
    signers' = IF a \in proposed \ performed
               THEN [signers EXCEPT ![a] = @ \cup {r}] ELSE signers

\* PerformActionOnElrond: a quorum-signed pending transfer is executed and
\* the contract records its batch id and last deposit nonce.
PerformActionOnElrond(r) ==
    LET a == actionID[r] IN
    IF a \in proposed \ performed /\ Cardinality(signers[a]) >= Quorum
    THEN /\ performed' = performed \cup {a}
         /\ lastBatchID' = a.id
         /\ lastTxID' = IF a.deposits = <<>> THEN lastTxID
                        ELSE a.deposits[Len(a.deposits)]
         /\ executedLog' = Append(executedLog, a.id)
    ELSE UNCHANGED <<performed, lastBatchID, lastTxID, executedLog>>

-----------------------------------------------------------------------------
(* Steps.  Each action is the whole Execute of one step.                   *)

\* step01: reset the counters, read the last executed batch id, fetch and
\* store batch id+1, verify its deposit nonces against the last executed
\* nonce; any failure keeps the relayer on this step.
GetPendingBatchFromEthereum(r) ==
    /\ step[r] = GettingPendingBatchFromEthereum
    /\ ResetRetriesOnWasTransferProposedOnElrond(r)
    /\ ResetRetriesCountOnElrond(r)
    /\ \/ Fails /\ UNCHANGED <<step, batch>>             \* GetLastExecutedEthBatchID error
       \/ \E k \in PastLastBatchIDs :
            LET fetched == GetBatch(k + 1) IN
            \/ Fails /\ UNCHANGED <<step, batch>>  \* GetBatch error
            \/ /\ ~StoresFetchedBatch(fetched, k + 1)
               /\ UNCHANGED <<step, batch>>     \* ErrBatchNotFound
            \/ /\ StoresFetchedBatch(fetched, k + 1)
               /\ batch' = [batch EXCEPT ![r] = fetched]
               /\ \/ Fails /\ UNCHANGED step    \* GetLastExecutedEthTxID error
                  \/ /\ ~VerifyDepositNonces(fetched, lastTxID)
                     /\ UNCHANGED step          \* ErrInvalidDepositNonce
                  \/ /\ VerifyDepositNonces(fetched, lastTxID)
                     /\ Goto(r, ProposingTransferOnElrond)
    /\ UNCHANGED <<actionID, elrondVars>>

\* step02: advance once the transfer is proposed; the leader proposes it;
\* another relayer polls, up to MaxRetriesOnWasProposed times.
ProposeTransfer(r) ==
    LET p == ProcessMaxRetries(retriesWasProposed[r], MaxRetriesOnWasProposed) IN
    /\ step[r] = ProposingTransferOnElrond
    /\ \/ /\ Fails /\ Rewind(r)                 \* WasTransferProposed error
          /\ UNCHANGED <<retriesWasProposed, proposed>>
       \/ /\ WasTransferProposedOnElrond(r)
          /\ Goto(r, SigningProposedTransferOnElrond)
          /\ UNCHANGED <<retriesWasProposed, proposed>>
       \/ /\ ~WasTransferProposedOnElrond(r)
          /\ ~MyTurnAsLeader(r)
          /\ retriesWasProposed' = [retriesWasProposed EXCEPT ![r] = p.count]
          /\ IF p.reached THEN Rewind(r) ELSE UNCHANGED step
          /\ UNCHANGED proposed
       \/ /\ ~WasTransferProposedOnElrond(r)
          /\ MyTurnAsLeader(r)
          /\ UNCHANGED retriesWasProposed
          /\ \/ Fails /\ Rewind(r) /\ UNCHANGED proposed  \* not sent
             \/ /\ ProposeTransferOnElrond(r)
                /\ \/ Goto(r, SigningProposedTransferOnElrond)
                   \/ Fails /\ Rewind(r)        \* error after sending
    /\ UNCHANGED <<batch, actionID, retriesElrond, lastBatchID, lastTxID,
                   signers, performed, executedLog>>

\* step03: fetch and store the action id, sign it unless already signed.
SignProposedTransfer(r) ==
    LET a == GetActionIDForProposeTransfer(r) IN
    /\ step[r] = SigningProposedTransferOnElrond
    /\ \/ Fails /\ Rewind(r) /\ UNCHANGED <<actionID, signers>>  \* GetActionID error
       \/ /\ actionID' = [actionID EXCEPT ![r] = a]
          /\ IF a = InvalidActionID
             THEN Rewind(r) /\ UNCHANGED signers
             ELSE \/ Fails /\ Rewind(r) /\ UNCHANGED signers  \* WasActionSigned error
                  \/ /\ WasActionSignedOnElrond(r, a)
                     /\ Goto(r, WaitingForQuorum)
                     /\ UNCHANGED signers
                  \/ /\ ~WasActionSignedOnElrond(r, a)
                     /\ \/ Fails /\ Rewind(r) /\ UNCHANGED signers  \* not sent
                        \/ /\ SignActionOnElrond(r, a)
                           /\ \/ Goto(r, WaitingForQuorum)
                              \/ Fails /\ Rewind(r)     \* error after sending
    /\ UNCHANGED <<batch, retriesWasProposed, retriesElrond, lastBatchID,
                   lastTxID, proposed, performed, executedLog>>

\* step04: quorum poll with the Elrond retry counter.
WaitForQuorum(r) ==
    LET p == ProcessMaxRetries(retriesElrond[r], MaxQuorumRetriesOnElrond) IN
    /\ step[r] = WaitingForQuorum
    /\ retriesElrond' = [retriesElrond EXCEPT ![r] = p.count]
    /\ IF p.reached
       THEN Rewind(r)
       ELSE \/ Fails /\ Rewind(r)               \* QuorumReached error
            \/ ~ProcessQuorumReachedOnElrond(r) /\ UNCHANGED step
            \/ ProcessQuorumReachedOnElrond(r) /\ Goto(r, PerformingActionID)
    /\ UNCHANGED <<batch, actionID, retriesWasProposed, elrondVars>>

\* step05: done once the action is performed; the leader performs it and
\* every relayer stays until it is seen performed.
PerformAction(r) ==
    /\ step[r] = PerformingActionID
    /\ \/ /\ Fails /\ Rewind(r)                 \* WasActionPerformed error
          /\ UNCHANGED <<performed, lastBatchID, lastTxID, executedLog>>
       \/ /\ WasActionPerformedOnElrond(r)
          /\ Rewind(r)
          /\ UNCHANGED <<performed, lastBatchID, lastTxID, executedLog>>
       \/ /\ ~WasActionPerformedOnElrond(r)
          /\ ~MyTurnAsLeader(r)
          /\ UNCHANGED <<step, performed, lastBatchID, lastTxID, executedLog>>
       \/ /\ ~WasActionPerformedOnElrond(r)
          /\ MyTurnAsLeader(r)
          /\ \/ /\ Fails /\ Rewind(r)           \* not sent
                /\ UNCHANGED <<performed, lastBatchID, lastTxID, executedLog>>
             \/ /\ PerformActionOnElrond(r)
                /\ \/ UNCHANGED step
                   \/ Fails /\ Rewind(r)        \* error after sending
    /\ UNCHANGED <<batch, actionID, retriesWasProposed, retriesElrond,
                   proposed, signers>>

-----------------------------------------------------------------------------
(* Environment                                                             *)

\* A user's deposits close a new batch on the Ethereum safe.
CreateBatchOnEthereum ==
    /\ ethCreated < NumBatches
    /\ ethCreated' = ethCreated + 1
    /\ UNCHANGED <<relayerVars, elrondVars, leader, stable, leaderTicks>>

\* A new round: the next relayer in key order leads.  Rounds last
\* StepDuration x len(steps), so once timing is stable the leader takes
\* RoundTicks steps in its round; before, rounds may be arbitrarily short.
NextRound ==
    /\ stable => leaderTicks >= RoundTicks
    /\ leader' = (leader % NumRelayers) + 1
    /\ leaderTicks' = 0
    /\ UNCHANGED <<relayerVars, elrondVars, ethCreated, stable>>

\* From now on chain calls succeed, reads are current and rounds are long.
Stabilize ==
    /\ ~stable
    /\ stable' = TRUE
    /\ UNCHANGED <<relayerVars, elrondVars, ethCreated, leader, leaderTicks>>

\* One tick of relayer r's state machine (the driver's executeStep).
RelayerStep(r) ==
    /\ \/ GetPendingBatchFromEthereum(r)
       \/ ProposeTransfer(r)
       \/ SignProposedTransfer(r)
       \/ WaitForQuorum(r)
       \/ PerformAction(r)
    /\ leaderTicks' = IF r = leader /\ leaderTicks < RoundTicks
                     THEN leaderTicks + 1 ELSE leaderTicks
    /\ UNCHANGED <<ethCreated, leader, stable>>

Next ==
    \/ \E r \in Relayers : RelayerStep(r)
    \/ CreateBatchOnEthereum
    \/ NextRound
    \/ Stabilize

Spec == Init /\ [][Next]_vars

\* The driver ticks every relayer's state machine, rounds rotate with wall
\* clock time, and the environment eventually stabilises.  Users are not
\* obliged to create batches.
FairSpec ==
    /\ Spec
    /\ \A r \in Relayers : WF_vars(RelayerStep(r))
    /\ WF_vars(NextRound)
    /\ WF_vars(Stabilize)

-----------------------------------------------------------------------------
(* Properties                                                              *)

\* Elrond executes the Ethereum batches exactly as Ethereum numbered them:
\* batch 1, then 2, and so on, each once and none that Ethereum does not
\* hold, and the last executed deposit nonce is the last deposit of the
\* last executed batch.  It rests on GetAndStoreBatchFromEthereum's
\* validity check, on every relayer fetching lastExecuted+1 from a possibly
\* stale read, and on the one-proposal-per-batch rule, across leaders.
ExecutedInOrder ==
    /\ \A i \in DOMAIN executedLog : executedLog[i] = i
    /\ lastTxID = Len(executedLog) * DepositsPerBatch


-----------------------------------------------------------------------------
(* Refinement: the half-bridge implements BatchBridge.  The abstract       *)
(* state is read off the two chains: the batches Ethereum created and the  *)
(* last batch id the Elrond contract records as executed.                  *)

Abstract == INSTANCE BatchBridge WITH created <- ethCreated, executed <- lastBatchID

\* Under the driver's ticks, round rotation and a stabilising environment,
\* the half-bridge also implements BatchBridge's delivery: every batch
\* Ethereum created is eventually executed on Elrond.  A relayer that is
\* not the leader gives up on WasProposed and on the quorum after a bounded
\* number of ticks and starts over, so it must still be at the proposing
\* or performing step while it leads a later round.
ImplementsLiveBatchBridge == Abstract!LiveSpec

====
