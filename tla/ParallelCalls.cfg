SPECIFICATION FairSpec
CONSTANTS
    u1 = u1  u2 = u2  u3 = u3  u4 = u4  u5 = u5
    bad = bad  x1 = x1  x2 = x2
    Units = {u1, u2, u3, u4, u5, bad, x1, x2}
    Failing = {bad}
    Plans <- AllPlans
    OtherPlans <- OtherPlan
    Configs <- AllConfigs
    DefaultWorkers = 2
    MaxDeaths = 1
INVARIANTS
    TypeOK
    DeterministicUnlessShared
    NothingOutlivesTheCall
PROPERTIES
    ImplementsStudyExecution
    CallEnds
\* A call that has ended does nothing more.
CHECK_DEADLOCK FALSE
