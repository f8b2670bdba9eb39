SPECIFICATION Spec
CONSTANTS
    MonthsPerYear = 2
    MaxUnits = 3
    WealthTolerance = 0
    DomainMax = 8
    MaxCommands = 1
    MaxEdits = 0
    AsFloat <- MCAsFloat
    Raises <- MCRaises
    ReferenceResult <- MCReferenceResult
    FastResult <- MCFastResult
    StudyFiles <- ComparedStudies
    DataDirs <- MCDataDirs
    Invocations <- Comparisons
INVARIANT ComparesByConfiguration
CHECK_DEADLOCK FALSE
