SPECIFICATION Spec
CONSTANTS
    MonthsPerYear = 2
    MaxUnits = 3
    WealthTolerance = 0
    DomainMax = 8
    MaxCommands = 2
    MaxEdits = 1
    AsFloat <- MCAsFloat
    Raises <- MCRaises
    ReferenceResult <- MCReferenceResult
    FastResult <- MCFastResult
    StudyFiles <- MCStudyFiles
    DataDirs <- MCDataDirs
    Invocations <- MCInvocations
INVARIANTS
    TypeOK
    PlanIsTheGrid
    CohortsCanBeSliced
    ValidationIsSound
    StoredResultsAreComplete
    FailuresStoreNothing
    StoredOptimumMeetsTarget
PROPERTIES
    StudiesAreRetained
    FindsASafeRate
    CommandsEnd
CHECK_DEADLOCK FALSE
