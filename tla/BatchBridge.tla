---------------------------- MODULE BatchBridge ----------------------------
(***************************************************************************)
(* What a half-bridge promises, with relayers, executors, actions and      *)
(* signatures abstracted away.  The source chain closes batches 1, 2, ...  *)
(* in order; the destination chain executes them in the same order, each   *)
(* exactly once and none before the source closed it.  `executed` is the   *)
(* id of the last batch the destination executed, as the Elrond contract   *)
(* records it (GetLastExecutedEthBatchID).                                 *)
(***************************************************************************)
EXTENDS Naturals

CONSTANT NumBatches   \* batches the source chain will close

VARIABLES
    created,    \* batches 1..created exist on the source chain
    executed    \* batches 1..executed were executed on the destination

vars == <<created, executed>>

TypeOK ==
    /\ created \in 0..NumBatches
    /\ executed \in 0..created

Init == created = 0 /\ executed = 0

\* The source chain closes the next batch.
Create ==
    /\ created < NumBatches
    /\ created' = created + 1
    /\ UNCHANGED executed

\* The destination executes the oldest batch not yet executed.
Execute ==
    /\ executed < created
    /\ executed' = executed + 1
    /\ UNCHANGED created

Next == Create \/ Execute

Spec == Init /\ [][Next]_vars

\* The bridge delivers: a closed batch is eventually executed.
LiveSpec == Spec /\ WF_vars(Execute)

Delivered == \A b \in 1..NumBatches : created >= b ~> executed >= b

=============================================================================
