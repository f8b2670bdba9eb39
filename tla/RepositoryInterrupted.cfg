SPECIFICATION Spec
CONSTANTS
    Clients = {c1, c2}
    Studies <- OneStudy
    Codec <- MCCodec
    NoStudy = NoStudy
    MaxRetries = 1
    MaxRuns = 2
    MaxCrashes = 1
    alpha = alpha
    beta = beta
    fixed4 = fixed4
    constant4 = constant4
    fixed5 = fixed5
    rate4 = rate4
    rate5 = rate5
    jan = jan
    feb = feb
    base = base
    other = other
INVARIANTS
    InterruptedStudyIsResumed
\* Every process may have done all it was started for.
CHECK_DEADLOCK FALSE
