--------------------------- MODULE BatchRoundTrip ---------------------------
(***************************************************************************)
(* What the Elrond -> Ethereum half-bridge promises, with relayers,        *)
(* signatures, actions and retries abstracted away.  Elrond holds its      *)
(* batches pending one at a time, in id order.  Ethereum executes the      *)
(* pending batch once, deciding there which deposits succeed.  Elrond then *)
(* finalises the batch with exactly those statuses (resolved against the   *)
(* number of deposits) and moves on to the next batch.                     *)
(***************************************************************************)
EXTENDS Naturals, Sequences, TransferBatch

CONSTANTS
    NumBatches,    \* batches created on Elrond, ids 1..NumBatches
    NumDeposits    \* deposits in every batch

Batches == 1..NumBatches
FinalStatuses == [1..NumDeposits -> {Executed, Rejected}]
NotYet == <<>>     \* no statuses: not executed, or not finalised

VARIABLES
    pending,      \* the batch Elrond holds pending, NumBatches+1 when none
    ethStatuses,  \* statuses Ethereum gave each batch it executed
    finalized     \* statuses Elrond finalised each batch with

vars == <<pending, ethStatuses, finalized>>

TypeOK ==
    /\ pending \in 1..(NumBatches + 1)
    /\ ethStatuses \in [Batches -> FinalStatuses \cup {NotYet}]
    /\ finalized \in [Batches -> FinalStatuses \cup {NotYet}]

Init ==
    /\ pending = 1
    /\ ethStatuses = [b \in Batches |-> NotYet]
    /\ finalized = [b \in Batches |-> NotYet]

\* Ethereum executes the pending batch, once, with statuses of its choice.
ExecuteOnEthereum ==
    /\ pending \in Batches
    /\ ethStatuses[pending] = NotYet
    /\ \E st \in FinalStatuses :
          ethStatuses' = [ethStatuses EXCEPT ![pending] = st]
    /\ UNCHANGED <<pending, finalized>>

\* Elrond finalises the pending batch with Ethereum's statuses and makes
\* the next batch pending.
Finalize ==
    /\ pending \in Batches
    /\ ethStatuses[pending] # NotYet
    /\ finalized' = [finalized EXCEPT ![pending] =
                        ResolveNewDeposits(ethStatuses[pending], NumDeposits)]
    /\ pending' = pending + 1
    /\ UNCHANGED ethStatuses

Next == ExecuteOnEthereum \/ Finalize

Spec == Init /\ [][Next]_vars

=============================================================================
