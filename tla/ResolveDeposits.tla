-------------------------- MODULE ResolveDeposits --------------------------
(***************************************************************************)
(* bridgeExecutor.ResolveNewDepositsStatuses(numDeposits) applied, any     *)
(* number of times, to the statuses of a stored batch, with the number of  *)
(* deposits chosen freely up to MaxDeposits.                               *)
(***************************************************************************)
EXTENDS Naturals, Sequences, TransferBatch

CONSTANT MaxDeposits    \* largest deposit count and status length considered

ASSUME MaxDeposits \in Nat \ {0}

VARIABLES
    statuses,   \* executor.batch.Statuses
    lastNum     \* argument of the last call, 0 before the first one

vars == <<statuses, lastNum>>

StatusSeqs == UNION {[1..k -> DepositStatuses] : k \in 0..MaxDeposits}

TypeOK ==
    /\ statuses \in StatusSeqs
    /\ lastNum \in 0..MaxDeposits

Init ==
    /\ statuses \in StatusSeqs
    /\ lastNum = 0

\* ResolveNewDepositsStatuses(numDeposits): the executor hands the count to
\* the stored batch.
ResolveNewDepositsStatuses(n) ==
    /\ statuses' = ResolveNewDeposits(statuses, n)
    /\ lastNum' = n

Next == \E n \in 0..MaxDeposits : ResolveNewDepositsStatuses(n)

Spec == Init /\ [][Next]_vars

=============================================================================
