CONSTANTS
    fast = fast
    safeLow = safeLow
    GasStationEnabled = TRUE
    Selectors <- MCSelectors
    Selector = fast
    Prices <- MCPrices
    MaximumGasPrice = 100

SPECIFICATION Spec

\* The constructor returns once; with the gas station closed or never
\* started, nothing is left to do.
CHECK_DEADLOCK FALSE

INVARIANT ReturnedComponentsOwnTheirLoops
