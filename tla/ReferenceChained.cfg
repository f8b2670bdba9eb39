SPECIFICATION Spec
CONSTANTS
    None = None
    Starts <- MCStarts
    Scalars <- MCScalars
    Snapshots <- MCSnapshots
    Plans <- MCPlans
    Configs <- MCConfigs
    Depleting <- MCDepleting
    Raising <- MCRaising
    Horizons = {1, 2, 3}
    Cohorts = 2
INVARIANTS
    TypeOK
    ChainingIsInvisible
    SlicesKeepFamilies
\* A study that has returned or raised does nothing more.
CHECK_DEADLOCK FALSE
