SPECIFICATION FairSpec
CONSTANTS
    Clients = {c1, c2}
    Studies <- LedgerStudies
    Codec <- MCCodec
    NoStudy = NoStudy
    MaxRetries = 2
    MaxRuns = 4
    MaxCrashes = 1
    alpha = alpha
    beta = beta
    fixed4 = fixed4
    constant4 = constant4
    fixed5 = fixed5
    rate4 = rate4
    rate5 = rate5
    jan = jan
    feb = feb
    base = base
    other = other
PROPERTIES
    ImplementsLedger
    SnapshotNeverChanges
    OperationsEnd
\* Every process may have done all it was started for.
CHECK_DEADLOCK FALSE
