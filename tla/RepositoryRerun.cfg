SPECIFICATION Spec
CONSTANTS
    Clients = {c1, c2, c3}
    Studies <- RerunStudies
    Codec <- MCCodec
    NoStudy = NoStudy
    MaxRetries = 2
    MaxRuns = 4
    MaxCrashes = 1
    alpha = alpha
    beta = beta
    fixed4 = fixed4
    constant4 = constant4
    fixed5 = fixed5
    rate4 = rate4
    rate5 = rate5
    jan = jan
    feb = feb
    base = base
    other = other
SYMMETRY ClientSymmetry
INVARIANTS
    TypeOK
    UniqueIdentity
    CompletedIffOneResult
    PersistedIsStored
    ExportIsConsistent
    ExportFindsTheResult
    CompletedIsExportable
PROPERTIES
    RestoreOnlyByEquivalentStudy
\* Every process may have done all it was started for.
CHECK_DEADLOCK FALSE
