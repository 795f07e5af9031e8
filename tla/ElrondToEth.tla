---------------------------- MODULE ElrondToEth ----------------------------
(***************************************************************************)
(* The Elrond -> Ethereum half-bridge: every relayer runs the ten-step     *)
(* state machine of bridges/ethElrond/steps/elrondToEth against its own    *)
(* bridgeExecutor (bridges/ethElrond/bridgeExecutor.go).  The relayers     *)
(* share the two chains:                                                   *)
(*   - the Elrond multisig contract, which holds the pending batch and the *)
(*     set-status actions (proposed, signed, performed);                   *)
(*   - the Ethereum safe contract, which executes a batch once, given a    *)
(*     quorum of relayer signatures on the batch's message hash;           *)
(* and the P2P topic on which relayers broadcast those signatures, which   *)
(* may delay or lose a message.  Every chain call may fail; a failing      *)
(* step goes back to GettingPendingBatchFromElrond.  A transaction whose   *)
(* call reports an error may still have reached the chain.                 *)
(*                                                                         *)
(* A step is one atomic action of its relayer, except the two waiting      *)
(* loops of the executor (WaitForTransferConfirmation and                  *)
(* WaitAndReturnFinalBatchStatuses), where each sub-interval is an action  *)
(* so that other relayers and the chains move while one relayer waits.    *)
(***************************************************************************)
EXTENDS Naturals, FiniteSets, Sequences, TransferBatch

CONSTANTS
    NumRelayers,                 \* relayers, named 1..NumRelayers in key order
    Quorum,                      \* signatures both contracts require
    NumBatches,                  \* batches created on Elrond, ids 1..NumBatches
    NumDeposits,                 \* deposits in every batch
    MaxQuorumRetriesOnEthereum,  \* ArgsBridgeExecutor bounds
    MaxQuorumRetriesOnElrond,
    Splits,                      \* sub-intervals of a wait (the code's splits)
    PerformGateInverted,         \* TRUE: the leader test of v2 step04
    WasSignedQueriesExecuted,    \* TRUE: v2 WasActionSignedOnElrond
    RoundTicks,                  \* steps the leader takes in a round, once stable
    StabilizeWithin,             \* relayer steps before stability; 0: unbounded
    NilWhenNoBatch               \* TRUE: GetPending answers (nil, nil) if none

ASSUME NumRelayers \in Nat \ {0} /\ Quorum \in 1..NumRelayers
ASSUME NumBatches \in Nat \ {0} /\ NumDeposits \in Nat \ {0}
ASSUME MaxQuorumRetriesOnEthereum >= 1 /\ MaxQuorumRetriesOnElrond >= 1
ASSUME Splits \in Nat \ {0} /\ PerformGateInverted \in BOOLEAN
ASSUME WasSignedQueriesExecuted \in BOOLEAN /\ RoundTicks \in Nat
ASSUME StabilizeWithin \in Nat /\ NilWhenNoBatch \in BOOLEAN

Relayers == 1..NumRelayers
Batches  == 1..NumBatches
NoBatch  == 0                                \* executor.batch == nil

\* Statuses Ethereum may give the deposits of an executed batch.
FinalStatuses == [1..NumDeposits -> {Executed, Rejected}]
\* Statuses of a batch as GetPending returns it from Elrond.
PendingStatuses == [i \in 1..NumDeposits |-> Pending]
\* A set-status action of the Elrond contract is identified by the batch
\* and the statuses it sets; id 0 (InvalidActionID) has batch 0.
ActionIDs == [batch : Batches, statuses : FinalStatuses \cup {PendingStatuses}]
InvalidActionID == [batch |-> 0, statuses |-> <<>>]

\* Step identifiers of the Elrond -> Ethereum direction.
GettingPendingBatchFromElrond     == "GettingPendingBatchFromElrond"
SigningProposedTransferOnEthereum == "SigningProposedTransferOnEthereum"
WaitingForQuorumOnTransfer        == "WaitingForQuorumOnTransfer"
PerformingTransfer                == "PerformingTransfer"
WaitingTransferConfirmation       == "WaitingTransferConfirmation"
ResolvingSetStatusOnElrond        == "ResolvingSetStatusOnElrond"
ProposingSetStatusOnElrond        == "ProposingSetStatusOnElrond"
SigningProposedSetStatusOnElrond  == "SigningProposedSetStatusOnElrond"
WaitingForQuorumOnSetStatus       == "WaitingForQuorumOnSetStatus"
PerformingSetStatus               == "PerformingSetStatus"

Steps == {GettingPendingBatchFromElrond, SigningProposedTransferOnEthereum,
          WaitingForQuorumOnTransfer, PerformingTransfer,
          WaitingTransferConfirmation, ResolvingSetStatusOnElrond,
          ProposingSetStatusOnElrond, SigningProposedSetStatusOnElrond,
          WaitingForQuorumOnSetStatus, PerformingSetStatus}

\* Not a step: the relayer process ended in a panic.
Crashed == "Crashed"

VARIABLES
    step,          \* current step of each relayer's state machine
    batch,         \* executor.batch (id), NoBatch when nil
    statuses,      \* executor.batch.Statuses
    actionID,      \* executor.actionID
    msgHash,       \* executor.msgHash: the hash of a batch is its id here
    retriesEth,    \* executor.quorumRetriesOnEthereum
    retriesElrond, \* executor.quorumRetriesOnElrond
    polls,         \* sub-intervals already waited by the current wait loop
    sigMsgs,       \* P2P signature messages in flight [from, hash, to]
    holder,        \* signatures each relayer has received [from, hash]
    ethStatuses,   \* Ethereum: statuses of each executed batch, <<>> if not
    elrondBatch,   \* Elrond: id of the pending batch, NumBatches+1 if none
    proposed,      \* Elrond: set-status actions proposed
    signers,       \* Elrond: relayers that signed each action
    performed,     \* Elrond: actions performed
    leader,        \* the relayer whose turn it is in the current round
    ethSenders,    \* history: relayers that sent ExecuteTransfer per batch
    duplicateSigns,\* history: relayers that signed an action twice
    stable,        \* chain calls and the P2P topic no longer fail
    leaderTicks,   \* steps the leader took in the current round, once stable
    unstableSteps  \* relayer steps taken while unstable, if StabilizeWithin > 0

relayerVars == <<step, batch, statuses, actionID, msgHash, retriesEth,
                 retriesElrond, polls>>
chainVars   == <<sigMsgs, holder, ethStatuses, elrondBatch, proposed,
                 signers, performed>>
envVars     == <<leader, stable, leaderTicks, unstableSteps>>
vars == <<relayerVars, chainVars, envVars, ethSenders, duplicateSigns>>

SigMessages == [from : Relayers, hash : Batches, to : Relayers]
Signatures  == [from : Relayers, hash : Batches]

TypeOK ==
    /\ step \in [Relayers -> Steps \cup {Crashed}]
    /\ batch \in [Relayers -> Batches \cup {NoBatch}]
    /\ statuses \in [Relayers -> FinalStatuses \cup {PendingStatuses, <<>>}]
    /\ actionID \in [Relayers -> ActionIDs \cup {InvalidActionID}]
    /\ msgHash \in [Relayers -> Batches \cup {NoBatch}]
    /\ retriesEth \in [Relayers -> 0..MaxQuorumRetriesOnEthereum]
    /\ retriesElrond \in [Relayers -> 0..MaxQuorumRetriesOnElrond]
    /\ polls \in [Relayers -> 0..Splits]
    /\ sigMsgs \subseteq SigMessages
    /\ holder \in [Relayers -> SUBSET Signatures]
    /\ ethStatuses \in [Batches -> FinalStatuses \cup {<<>>}]
    /\ elrondBatch \in 1..(NumBatches + 1)
    /\ proposed \subseteq ActionIDs
    /\ signers \in [ActionIDs -> SUBSET Relayers]
    /\ performed \subseteq proposed
    /\ leader \in Relayers
    /\ ethSenders \in [Batches -> SUBSET Relayers]
    /\ duplicateSigns \subseteq Relayers
    /\ stable \in BOOLEAN
    /\ leaderTicks \in 0..RoundTicks
    /\ unstableSteps \in 0..StabilizeWithin

Init ==
    /\ step = [r \in Relayers |-> GettingPendingBatchFromElrond]
    /\ batch = [r \in Relayers |-> NoBatch]
    /\ statuses = [r \in Relayers |-> <<>>]
    /\ actionID = [r \in Relayers |-> InvalidActionID]
    /\ msgHash = [r \in Relayers |-> NoBatch]
    /\ retriesEth = [r \in Relayers |-> 0]
    /\ retriesElrond = [r \in Relayers |-> 0]
    /\ polls = [r \in Relayers |-> 0]
    /\ sigMsgs = {}
    /\ holder = [r \in Relayers |-> {}]
    /\ ethStatuses = [b \in Batches |-> <<>>]
    /\ elrondBatch = 1
    /\ proposed = {}
    /\ signers = [a \in ActionIDs |-> {}]
    /\ performed = {}
    /\ leader \in Relayers
    /\ ethSenders = [b \in Batches |-> {}]
    /\ duplicateSigns = {}
    /\ stable = FALSE
    /\ leaderTicks = 0
    /\ unstableSteps = 0

-----------------------------------------------------------------------------
(* Executor operations                                                     *)

Goto(r, s) == step' = [step EXCEPT ![r] = s]

\* The machine rewinds on every recoverable error.
Rewind(r) == Goto(r, GettingPendingBatchFromElrond)

\* A chain call or a P2P message may fail only while the environment is
\* not yet stable.
Fails == ~stable

\* The environment may stay unstable for one more relayer step.
MayStayUnstable == StabilizeWithin = 0 \/ unstableSteps < StabilizeWithin

\* topologyProvider.MyTurnAsLeader
MyTurnAsLeader(r) == leader = r

\* A retry check that gives up one retry early.
ProcessMaxRetriesOffByOne(count, max) ==
    IF count + 1 < max THEN [reached |-> FALSE, count |-> count + 1]
                       ELSE [reached |-> TRUE, count |-> count]

\* A retry check that counts one retry past the bound.
ProcessMaxRetriesPastBound(count, max) ==
    IF count <= max THEN [reached |-> FALSE, count |-> count + 1]
                    ELSE [reached |-> TRUE, count |-> count]

\* ProcessMaxQuorumRetriesOn{Ethereum,Elrond}: below the bound the counter
\* is incremented and the answer is "not reached"; at the bound it is kept.
ProcessMaxRetries(count, max) ==
    IF count < max THEN [reached |-> FALSE, count |-> count + 1]
                   ELSE [reached |-> TRUE, count |-> count]

\* ResetRetriesCountOnEthereum
ResetRetriesCountOnEthereum(r) == retriesEth' = [retriesEth EXCEPT ![r] = 0]

\* ResetRetriesCountOnElrond
ResetRetriesCountOnElrond(r) == retriesElrond' = [retriesElrond EXCEPT ![r] = 0]

\* GetBatchFromElrond: with no batch pending, GetPending answers an error
\* or, if NilWhenNoBatch, (nil, nil).  On a nil error the metric line reads
\* batch.ID, which panics on a nil batch.
GetBatchFromElrondPanics == elrondBatch \notin Batches /\ NilWhenNoBatch

\* StoreBatchFromElrond: executor.batch = batch, a batch GetPending returned
\* with its deposits still Pending (the nil case is refused earlier).
StoreBatchFromElrond(r, b) ==
    /\ batch' = [batch EXCEPT ![r] = b]
    /\ statuses' = [statuses EXCEPT ![r] = PendingStatuses]

\* WasTransferPerformedOnEthereum: ethereumClient.WasExecuted(batch.ID)
WasTransferPerformedOnEthereum(r) == ethStatuses[batch[r]] # <<>>

\* ProcessQuorumReachedOnEthereum: the signatures on msgHash gathered so far
ProcessQuorumReachedOnEthereum(r) ==
    Cardinality({s \in holder[r] : s.hash = msgHash[r]}) >= Quorum

\* GetBatchStatusesFromEthereum: GetTransactionsStatuses(batch.ID)
GetBatchStatusesFromEthereum(r) == ethStatuses[batch[r]]

\* The test in WaitAndReturnFinalBatchStatuses that ends the wait.
FinalStatusesAvailable(r) == Len(GetBatchStatusesFromEthereum(r)) # 0

\* The set-status action of the stored batch with its stored statuses.
SetStatusAction(r) == [batch |-> batch[r], statuses |-> statuses[r]]

\* WasSetStatusProposedOnElrond
WasSetStatusProposedOnElrond(r) == SetStatusAction(r) \in proposed

\* GetAndStoreActionIDForProposeSetStatusFromElrond: the contract answers 0
\* for an action that was never proposed.
GetActionIDForSetStatus(r) ==
    IF SetStatusAction(r) \in proposed THEN SetStatusAction(r)
                                        ELSE InvalidActionID

\* v2 WasActionSignedOnElrond asks the client WasExecuted(actionID).
WasActionSignedOnElrondV2(r, a) == a \in performed

\* WasActionSignedOnElrond asks the client WasSigned(actionID): did this
\* relayer sign it.

WasActionSignedOnElrond(r, a) ==
    IF WasSignedQueriesExecuted THEN WasActionSignedOnElrondV2(r, a)
                                ELSE r \in signers[a]

\* ProcessQuorumReachedOnElrond: QuorumReached(actionID)
ProcessQuorumReachedOnElrond(r) == Cardinality(signers[actionID[r]]) >= Quorum

\* WasActionPerformedOnElrond: WasExecuted(actionID)
WasActionPerformedOnElrond(r) == actionID[r] \in performed

\* Leader test of the perform-transfer step.
PerformTransferGate(r) ==
    IF PerformGateInverted THEN ~MyTurnAsLeader(r) ELSE MyTurnAsLeader(r)

-----------------------------------------------------------------------------
(* Chain and network effects of the transactions a relayer sends           *)

\* SignTransferOnEthereum: store the message hash and broadcast a signature.
BroadcastSignature(r) ==
    /\ msgHash' = [msgHash EXCEPT ![r] = batch[r]]
    /\ sigMsgs' = sigMsgs \cup {[from |-> r, hash |-> batch[r], to |-> t] : t \in Relayers}

\* ExecuteTransfer on the Ethereum safe: one execution per batch, with the
\* signatures the sender holds for the batch's hash.
ExecuteTransferOnEthereum(r) ==
    /\ ethSenders' = [ethSenders EXCEPT ![batch[r]] = @ \cup {r}]
    /\ IF /\ ethStatuses[batch[r]] = <<>>
          /\ Cardinality({s \in holder[r] : s.hash = msgHash[r]}) >= Quorum
       THEN \E st \in FinalStatuses : ethStatuses' = [ethStatuses EXCEPT ![batch[r]] = st]
       ELSE UNCHANGED ethStatuses

\* ProposeSetStatus on the Elrond multisig: only for the pending batch.
ProposeSetStatusOnElrond(r) ==
    proposed' = IF batch[r] = elrondBatch THEN proposed \cup {SetStatusAction(r)}
                                          ELSE proposed

\* Sign on the Elrond multisig: a proposed, not yet performed action.
SignActionOnElrond(r, a) ==
    /\ signers' = IF a \in proposed \ performed
                  THEN [signers EXCEPT ![a] = @ \cup {r}] ELSE signers
    /\ duplicateSigns' = IF r \in signers[a] THEN duplicateSigns \cup {r}
                                             ELSE duplicateSigns

\* PerformAction on the Elrond multisig: a quorum-signed action of the
\* pending batch finalises the batch with the action's statuses.
PerformActionOnElrond(r) ==
    LET a == actionID[r] IN
    IF /\ a \in proposed \ performed
       /\ Cardinality(signers[a]) >= Quorum
       /\ a.batch = elrondBatch
    THEN /\ performed' = performed \cup {a}
         /\ elrondBatch' = elrondBatch + 1
    ELSE UNCHANGED <<performed, elrondBatch>>

\* ClearStoredP2PSignaturesForEthereum
ClearStoredP2PSignaturesForEthereum(r) == holder' = [holder EXCEPT ![r] = {}]

-----------------------------------------------------------------------------
(* Steps.  Each action is the whole Execute of one step.                    *)

\* v2 step01GetPending goes straight to the proposal when Ethereum already
\* executed the batch, with the statuses read from Elrond.
StepAfterTransferPerformedV2 == ProposingSetStatusOnElrond

\* Where step01GetPending goes when Ethereum already executed the batch.
StepAfterTransferPerformed == ResolvingSetStatusOnElrond

\* step01GetPending: reset both retry counters, fetch and store the pending
\* batch, and skip to the status phase when Ethereum already executed it.
GetPendingBatch(r) ==
    /\ step[r] = GettingPendingBatchFromElrond
    /\ ResetRetriesCountOnEthereum(r)
    /\ ResetRetriesCountOnElrond(r)
    /\ \/ /\ \/ Fails                                \* fetch error
             \/ elrondBatch \notin Batches /\ ~NilWhenNoBatch
          /\ UNCHANGED <<step, batch, statuses>>
       \/ /\ GetBatchFromElrondPanics                \* int(batch.ID) of nil
          /\ Goto(r, Crashed)
          /\ UNCHANGED <<batch, statuses>>
       \/ /\ elrondBatch \in Batches
          /\ StoreBatchFromElrond(r, elrondBatch)
          /\ \/ Fails /\ UNCHANGED step            \* WasTransferPerformed error
             \/ /\ ethStatuses[elrondBatch] # <<>>
                /\ Goto(r, StepAfterTransferPerformed)
             \/ /\ ethStatuses[elrondBatch] = <<>>
                /\ Goto(r, SigningProposedTransferOnEthereum)
    /\ UNCHANGED <<actionID, msgHash, polls, chainVars, ethSenders,
                   duplicateSigns>>

\* step02: generate the message hash of the batch and broadcast a signature.
SignProposedTransfer(r) ==
    /\ step[r] = SigningProposedTransferOnEthereum
    /\ \/ /\ Fails /\ Rewind(r)                     \* GenerateMessageHash error
          /\ UNCHANGED <<msgHash, sigMsgs>>
       \/ /\ BroadcastSignature(r)
          /\ Goto(r, WaitingForQuorumOnTransfer)
    /\ UNCHANGED <<batch, statuses, actionID, retriesEth, retriesElrond, polls,
                   holder, ethStatuses, elrondBatch, proposed, signers,
                   performed, ethSenders, duplicateSigns>>

\* step03WaitForQuorumOnTransfer
WaitForQuorumOnTransfer(r) ==
    LET p == ProcessMaxRetries(retriesEth[r], MaxQuorumRetriesOnEthereum) IN
    /\ step[r] = WaitingForQuorumOnTransfer
    /\ retriesEth' = [retriesEth EXCEPT ![r] = p.count]
    /\ IF p.reached
       THEN Rewind(r)
       ELSE \/ Fails /\ Rewind(r)                   \* IsQuorumReached error
            \/ ~ProcessQuorumReachedOnEthereum(r) /\ UNCHANGED step
            \/ ProcessQuorumReachedOnEthereum(r) /\ Goto(r, PerformingTransfer)
    /\ UNCHANGED <<batch, statuses, actionID, msgHash, retriesElrond, polls,
                   chainVars, ethSenders, duplicateSigns>>

\* step04PerformTransfer: the leader (per PerformTransferGate) sends
\* ExecuteTransfer; everybody then waits for the confirmation.
PerformTransfer(r) ==
    /\ step[r] = PerformingTransfer
    /\ \/ /\ Fails /\ Rewind(r)                     \* WasTransferPerformed error
          /\ UNCHANGED <<ethStatuses, ethSenders>>
       \/ /\ WasTransferPerformedOnEthereum(r)
          /\ Goto(r, ResolvingSetStatusOnElrond)
          /\ UNCHANGED <<ethStatuses, ethSenders>>
       \/ /\ ~WasTransferPerformedOnEthereum(r)
          /\ ~PerformTransferGate(r)
          /\ Goto(r, WaitingTransferConfirmation)
          /\ UNCHANGED <<ethStatuses, ethSenders>>
       \/ /\ ~WasTransferPerformedOnEthereum(r)
          /\ PerformTransferGate(r)
          /\ \/ /\ Fails /\ Rewind(r)               \* GetQuorumSize error
                /\ UNCHANGED <<ethStatuses, ethSenders>>
             \/ /\ ExecuteTransferOnEthereum(r)
                /\ \/ Goto(r, WaitingTransferConfirmation)
                   \/ Fails /\ Rewind(r)            \* error after sending
    /\ UNCHANGED <<batch, statuses, actionID, msgHash, retriesEth,
                   retriesElrond, polls, sigMsgs, holder, elrondBatch,
                   proposed, signers, performed, duplicateSigns>>

\* One sub-interval of WaitForTransferConfirmation: the loop stops early
\* once WasTransferPerformedOnEthereum answers true (an error counts false).
WaitForTransferConfirmationTick(r) ==
    /\ step[r] = WaitingTransferConfirmation
    /\ polls[r] < Splits
    /\ \/ /\ Fails \/ ~WasTransferPerformedOnEthereum(r)
          /\ polls' = [polls EXCEPT ![r] = @ + 1]
       \/ WasTransferPerformedOnEthereum(r) /\ polls' = [polls EXCEPT ![r] = Splits]
    /\ UNCHANGED <<step, batch, statuses, actionID, msgHash, retriesEth,
                   retriesElrond, chainVars, ethSenders, duplicateSigns>>

\* step05: after the wait, ask once more whether the transfer was performed.
WaitTransferConfirmation(r) ==
    /\ step[r] = WaitingTransferConfirmation
    /\ polls[r] = Splits
    /\ polls' = [polls EXCEPT ![r] = 0]
    /\ \/ Fails /\ Rewind(r)                        \* WasTransferPerformed error
       \/ WasTransferPerformedOnEthereum(r) /\ Goto(r, ResolvingSetStatusOnElrond)
       \/ ~WasTransferPerformedOnEthereum(r) /\ Rewind(r)
    /\ UNCHANGED <<batch, statuses, actionID, msgHash, retriesEth,
                   retriesElrond, chainVars, ethSenders, duplicateSigns>>

\* step06 with WaitAndReturnFinalBatchStatuses: each sub-interval fetches
\* the statuses; the first non-empty answer is resolved against the number
\* of deposits and the step moves on.
ResolveSetStatusTick(r) ==
    /\ step[r] = ResolvingSetStatusOnElrond
    /\ polls[r] < Splits
    /\ \/ /\ Fails \/ ~FinalStatusesAvailable(r)     \* error or no statuses yet
          /\ polls' = [polls EXCEPT ![r] = @ + 1]
          /\ UNCHANGED <<step, statuses>>
       \/ /\ FinalStatusesAvailable(r)
          /\ statuses' = [statuses EXCEPT ![r] =
                 ResolveNewDeposits(GetBatchStatusesFromEthereum(r), NumDeposits)]
          /\ polls' = [polls EXCEPT ![r] = 0]
          /\ Goto(r, ProposingSetStatusOnElrond)
    /\ UNCHANGED <<batch, actionID, msgHash, retriesEth, retriesElrond,
                   chainVars, ethSenders, duplicateSigns>>

\* WaitAndReturnFinalBatchStatuses returned nil: all sub-intervals elapsed.
ResolveSetStatusTimeout(r) ==
    /\ step[r] = ResolvingSetStatusOnElrond
    /\ polls[r] = Splits
    /\ polls' = [polls EXCEPT ![r] = 0]
    /\ Rewind(r)
    /\ UNCHANGED <<batch, statuses, actionID, msgHash, retriesEth,
                   retriesElrond, chainVars, ethSenders, duplicateSigns>>

\* step07: the leader proposes the set-status action unless it exists;
\* other relayers wait on this step.
ProposeSetStatus(r) ==
    /\ step[r] = ProposingSetStatusOnElrond
    /\ \/ Fails /\ Rewind(r) /\ UNCHANGED proposed  \* WasSetStatusProposed error
       \/ /\ WasSetStatusProposedOnElrond(r)
          /\ Goto(r, SigningProposedSetStatusOnElrond)
          /\ UNCHANGED proposed
       \/ /\ ~WasSetStatusProposedOnElrond(r)
          /\ ~MyTurnAsLeader(r)
          /\ UNCHANGED <<step, proposed>>
       \/ /\ ~WasSetStatusProposedOnElrond(r)
          /\ MyTurnAsLeader(r)
          /\ \/ Fails /\ Rewind(r) /\ UNCHANGED proposed \* not sent
             \/ /\ ProposeSetStatusOnElrond(r)
                /\ \/ Goto(r, SigningProposedSetStatusOnElrond)
                   \/ Fails /\ Rewind(r)            \* error after sending
    /\ UNCHANGED <<batch, statuses, actionID, msgHash, retriesEth,
                   retriesElrond, polls, sigMsgs, holder, ethStatuses,
                   elrondBatch, signers, performed, ethSenders,
                   duplicateSigns>>

\* step08: fetch and store the action id, sign it unless already signed.
SignProposedSetStatus(r) ==
    LET a == GetActionIDForSetStatus(r) IN
    /\ step[r] = SigningProposedSetStatusOnElrond
    /\ \/ /\ Fails /\ Rewind(r)                     \* GetActionID error
          /\ UNCHANGED <<actionID, signers, duplicateSigns>>
       \/ /\ actionID' = [actionID EXCEPT ![r] = a]
          /\ IF a = InvalidActionID
             THEN Rewind(r) /\ UNCHANGED <<signers, duplicateSigns>>
             ELSE \/ Fails /\ Rewind(r) /\ UNCHANGED <<signers, duplicateSigns>> \* WasActionSigned error
                  \/ /\ WasActionSignedOnElrond(r, a)
                     /\ Goto(r, WaitingForQuorumOnSetStatus)
                     /\ UNCHANGED <<signers, duplicateSigns>>
                  \/ /\ ~WasActionSignedOnElrond(r, a)
                     /\ \/ Fails /\ Rewind(r) /\ UNCHANGED <<signers, duplicateSigns>> \* not sent
                        \/ /\ SignActionOnElrond(r, a)
                           /\ \/ Goto(r, WaitingForQuorumOnSetStatus)
                              \/ Fails /\ Rewind(r) \* error after sending
    /\ UNCHANGED <<batch, statuses, msgHash, retriesEth, retriesElrond, polls,
                   sigMsgs, holder, ethStatuses, elrondBatch, proposed,
                   performed, ethSenders>>

\* step09: the shape of step03, with the Elrond counter and contract.
WaitForQuorumOnSetStatus(r) ==
    LET p == ProcessMaxRetries(retriesElrond[r], MaxQuorumRetriesOnElrond) IN
    /\ step[r] = WaitingForQuorumOnSetStatus
    /\ retriesElrond' = [retriesElrond EXCEPT ![r] = p.count]
    /\ IF p.reached
       THEN Rewind(r)
       ELSE \/ Fails /\ Rewind(r)                   \* QuorumReached error
            \/ ~ProcessQuorumReachedOnElrond(r) /\ UNCHANGED step
            \/ ProcessQuorumReachedOnElrond(r) /\ Goto(r, PerformingSetStatus)
    /\ UNCHANGED <<batch, statuses, actionID, msgHash, retriesEth, polls,
                   chainVars, ethSenders, duplicateSigns>>

\* step10: the leader performs the action; every relayer stays until the
\* action is seen performed, then clears its P2P signatures and rewinds.
PerformSetStatus(r) ==
    /\ step[r] = PerformingSetStatus
    /\ \/ /\ Fails /\ Rewind(r)                     \* WasActionPerformed error
          /\ UNCHANGED <<holder, performed, elrondBatch>>
       \/ /\ WasActionPerformedOnElrond(r)
          /\ ClearStoredP2PSignaturesForEthereum(r)
          /\ Rewind(r)
          /\ UNCHANGED <<performed, elrondBatch>>
       \/ /\ ~WasActionPerformedOnElrond(r)
          /\ ~MyTurnAsLeader(r)
          /\ UNCHANGED <<step, holder, performed, elrondBatch>>
       \/ /\ ~WasActionPerformedOnElrond(r)
          /\ MyTurnAsLeader(r)
          /\ UNCHANGED holder
          /\ \/ Fails /\ Rewind(r) /\ UNCHANGED <<performed, elrondBatch>>  \* not sent
             \/ /\ PerformActionOnElrond(r)
                /\ \/ UNCHANGED step
                   \/ Fails /\ Rewind(r)            \* error after sending
    /\ UNCHANGED <<batch, statuses, actionID, msgHash, retriesEth,
                   retriesElrond, polls, sigMsgs, ethStatuses, proposed,
                   signers, ethSenders, duplicateSigns>>

-----------------------------------------------------------------------------
(* Environment: P2P delivery, the leader's round, stabilisation           *)

\* The topic delivers a signature message to its recipient's holder ...
DeliverSignature(m) ==
    /\ m \in sigMsgs
    /\ sigMsgs' = sigMsgs \ {m}
    /\ holder' = [holder EXCEPT ![m.to] = @ \cup {[from |-> m.from, hash |-> m.hash]}]
    /\ UNCHANGED <<relayerVars, ethStatuses, elrondBatch, proposed, signers,
                   performed, envVars, ethSenders, duplicateSigns>>

\* ... or, while the network is unstable, loses it.
LoseSignature(m) ==
    /\ Fails
    /\ m \in sigMsgs
    /\ sigMsgs' = sigMsgs \ {m}
    /\ UNCHANGED <<relayerVars, holder, ethStatuses, elrondBatch, proposed,
                   signers, performed, envVars, ethSenders, duplicateSigns>>

\* A new round: the leader is the next relayer in key order.  Rounds last
\* StepDuration x len(steps), so once timing is stable the leader takes
\* RoundTicks steps in its round; before, rounds may be arbitrarily short.
NextRound ==
    /\ stable => leaderTicks >= RoundTicks
    /\ leader' = (leader % NumRelayers) + 1
    /\ leaderTicks' = 0
    /\ UNCHANGED <<relayerVars, chainVars, stable, unstableSteps, ethSenders,
                   duplicateSigns>>

\* From some point on, chain calls succeed and P2P messages arrive.
Stabilize ==
    /\ ~stable
    /\ stable' = TRUE
    /\ unstableSteps' = 0
    /\ UNCHANGED <<relayerVars, chainVars, leader, leaderTicks, ethSenders,
                   duplicateSigns>>

\* One tick of relayer r's state machine: one step's Execute.
RelayerStep(r) ==
    /\ \/ GetPendingBatch(r)
       \/ SignProposedTransfer(r)
       \/ WaitForQuorumOnTransfer(r)
       \/ PerformTransfer(r)
       \/ WaitForTransferConfirmationTick(r)
       \/ WaitTransferConfirmation(r)
       \/ ResolveSetStatusTick(r)
       \/ ResolveSetStatusTimeout(r)
       \/ ProposeSetStatus(r)
       \/ SignProposedSetStatus(r)
       \/ WaitForQuorumOnSetStatus(r)
       \/ PerformSetStatus(r)
    /\ leaderTicks' = IF stable /\ r = leader /\ leaderTicks < RoundTicks
                     THEN leaderTicks + 1 ELSE leaderTicks
    /\ stable \/ MayStayUnstable
    /\ unstableSteps' = IF stable \/ StabilizeWithin = 0 THEN 0
                       ELSE unstableSteps + 1
    /\ UNCHANGED <<leader, stable>>

Next ==
    \/ \E r \in Relayers : RelayerStep(r)
    \/ \E m \in sigMsgs : DeliverSignature(m) \/ LoseSignature(m)
    \/ NextRound
    \/ Stabilize

Spec == Init /\ [][Next]_vars

\* Every relayer's state machine is ticked every StepDuration, rounds follow
\* the clock, and the topic delivers what it does not lose.
FairSpec ==
    /\ Spec
    /\ \A r \in Relayers : WF_vars(RelayerStep(r))
    /\ \A m \in SigMessages : WF_vars(DeliverSignature(m))
    /\ WF_vars(NextRound)
    /\ WF_vars(Stabilize)

-----------------------------------------------------------------------------
(* Properties                                                              *)

\* Spec 4.3 and 4.4: only the relayer whose turn it is submits the
\* ExecuteTransfer of a batch on Ethereum (step04PerformTransfer).
ExecuteTransferOnlyByLeader ==
    [][\A b \in Batches : ethSenders'[b] \ ethSenders[b] \subseteq {leader}]_vars

\* WasActionSignedOnElrond "returns true if the current relayer already
\* signed the action" (its doc comment, and spec 9), so step08 never signs
\* the same Elrond action twice for one relayer, across rewinds included.
NoDuplicateSignOnElrond == duplicateSigns = {}

\* Spec 4.3.10 (step 1: "if err or nil, stay") and step01GetPending, which
\* tests batch == nil after the call, take a nil pending batch as "nothing
\* to do".  So a relayer that polls Elrond after the last batch was
\* finalised keeps running.
NoRelayerPanics == \A r \in Relayers : step[r] # Crashed

\* Spec 1 and 7: relayers drive every pending batch end to end, and a
\* bound hit "gives the round a fresh chance".  So every batch pending on
\* Elrond is eventually transferred to Ethereum and its statuses set on
\* Elrond, and the contract moves past it:
\* the whole ten-step round trip, the P2P signatures and both quorums,
\* eventually succeed once chain calls and the topic stop failing.
AllBatchesFinalized == <>(elrondBatch = NumBatches + 1)

-----------------------------------------------------------------------------
(* Refinement: the half-bridge implements BatchRoundTrip.  The abstract    *)
(* state is read off the two contracts: Elrond's pending batch, the        *)
(* statuses the Ethereum safe executed each batch with, and the statuses   *)
(* of the set-status action Elrond performed for each batch.               *)

FinalizedWith(b) ==
    IF \E a \in performed : a.batch = b
    THEN (CHOOSE a \in performed : a.batch = b).statuses
    ELSE <<>>

RoundTrip == INSTANCE BatchRoundTrip
    WITH pending <- elrondBatch,
         finalized <- [b \in Batches |-> FinalizedWith(b)]

\* Every step of the relayers, the topic and the contracts is a step of
\* BatchRoundTrip: Ethereum executes only the batch Elrond holds pending,
\* and only once, however many relayers send ExecuteTransfer after errors
\* or across leaders; Elrond finalises a batch once, only after Ethereum
\* executed it and only with Ethereum's statuses, and then moves on.
ImplementsBatchRoundTrip == RoundTrip!Spec


=============================================================================
