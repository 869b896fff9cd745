SPECIFICATION FairSpec
CONSTANTS
    c1 = c1
    c2 = c2
    c3 = c3
    w1 = w1
    w2 = w2
    w3 = w3
    Container = {c1, c2, c3}
    Logical <- Distinct
    Slots = 2
    IncludeStopped = TRUE
    Amount = {0, 1}
    None = None
INVARIANTS
    TypeOK
    OnlineMeasured
    RunningShown
PROPERTY CollectEnds
