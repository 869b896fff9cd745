SPECIFICATION Spec
CONSTANTS
    c1 = c1
    c2 = c2
    c3 = c3
    w1 = w1
    w2 = w2
    w3 = w3
    Container = {c1, c2, c3}
    Logical <- Recreated
    Slots = 2
    IncludeStopped = TRUE
    Amount = {0, 1}
    None = None
CONSTRAINT
    OneRuns
INVARIANTS
    RunningShown
