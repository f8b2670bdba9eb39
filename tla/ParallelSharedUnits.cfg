SPECIFICATION Spec
CONSTANTS
    u1 = u1  u2 = u2  u3 = u3  u4 = u4  u5 = u5
    bad = bad  x1 = x1  x2 = x2
    Units = {u1, u2, u3, u4, u5, bad, x1, x2}
    Failing = {bad}
    Plans <- FivePlan
    OtherPlans <- OtherPlan
    Configs <- ThreadConfigs
    DefaultWorkers = 2
    MaxDeaths = 0
INVARIANTS
    DeterministicResults
\* A call that has ended does nothing more.
CHECK_DEADLOCK FALSE
