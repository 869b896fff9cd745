SPECIFICATION Spec
CONSTANTS
    Interval = 1
    Cycle = 2
    Grace = 1
    Stale = 1
    TTL = 2
    MaxTime = 11
    None = None
INVARIANTS
    ReportedInTime
    ShownFresh
