CONSTANTS
    fast = fast
    safeLow = safeLow
    Selectors = {fast, safeLow}
    Selector = fast
    Prices = {50, 200}
    MaximumGasPrice = 100

SPECIFICATION Spec

INVARIANT TypeOK
PROPERTY LoopStopsAfterClose
