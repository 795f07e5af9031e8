--------------------------- MODULE TransferBatch ---------------------------
(***************************************************************************)
(* Values shared by the bridge modules: the deposit status bytes of a      *)
(* clients.TransferBatch and the pure operation ResolveNewDeposits that    *)
(* the executor applies to a stored batch.                                 *)
(*                                                                         *)
(* clients/batch.go is not part of src/: ResolveNewDeposits is modelled    *)
(* from spec.md section 3 and the cases of clients/batch_test.go.          *)
(***************************************************************************)
EXTENDS Naturals, Sequences

\* Status bytes of a deposit (clients package constants).
Pending  == 0
Executed == 3
Rejected == 4

DepositStatuses == {Pending, Executed, Rejected}

\* A resolution that appends one Rejected status too many.
ResolveNewDepositsAppendsOneMore(statuses, n) ==
    LET oldLen == Len(statuses)
    IN  IF n = oldLen THEN statuses
        ELSE IF n < oldLen
             THEN [i \in 1..oldLen |-> IF i > n THEN Rejected ELSE statuses[i]]
             ELSE statuses \o [i \in 1..(n - oldLen + 1) |-> Rejected]

\* TransferBatch.ResolveNewDeposits(n): when the batch has more statuses
\* than n, the trailing ones become Rejected; when it has fewer, Rejected
\* statuses are appended up to n; when it has exactly n, nothing changes.
ResolveNewDeposits(statuses, n) ==
    LET oldLen == Len(statuses)
    IN  IF n = oldLen THEN statuses
        ELSE IF n < oldLen
             THEN [i \in 1..oldLen |-> IF i > n THEN Rejected ELSE statuses[i]]
             ELSE statuses \o [i \in 1..(n - oldLen) |-> Rejected]

=============================================================================
