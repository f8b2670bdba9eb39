SPECIFICATION Spec
CONSTANTS
    Scale = 1000
    None = None
    Contexts <- FixedRealContexts
    Wealths = {1200, 7778}
    EquityAllocations = {0, 500}
    Rates = {0, 4000, 5300, 12000}
    Horizons = {2}
    MaxMonths = 3
INVARIANTS
    ReturnsWhereTheFastPathDoes
\* A run that has returned or raised does nothing more.
CHECK_DEADLOCK FALSE
