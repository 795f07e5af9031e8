CONSTANT MaxDeposits = 4
SPECIFICATION Spec
INVARIANT TypeOK
