SPECIFICATION Spec
CONSTANTS
    Scale = 1000
    None = None
    Contexts <- AllContexts
    Wealths = {1200, 7778}
    EquityAllocations = {0, 500}
    Rates = {0, 4000, 5300, 12000}
    Horizons = {0, 1, 3, 4}
    MaxMonths = 3
INVARIANTS
    TypeOK
    TimelineFollowsDataset
    OutcomeMatchesHistory
    MonthlyAccounting
PROPERTIES
    ImplementsFastPath
\* A run that has returned or raised does nothing more.
CHECK_DEADLOCK FALSE
