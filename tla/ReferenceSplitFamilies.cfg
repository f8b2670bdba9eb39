SPECIFICATION Spec
CONSTANTS
    None = None
    Starts <- MCStarts
    Scalars <- MCScalars
    Snapshots <- MCSnapshots
    Plans <- ChainablePlans
    Configs <- MCConfigs
    Depleting <- MCDepleting
    Raising <- MCRaising
    Horizons = {1, 2}
    Cohorts = 2
INVARIANTS
    MonthWorkAsReported
\* A study that has returned or raised does nothing more.
CHECK_DEADLOCK FALSE
