SPECIFICATION Spec
CONSTANTS
    Bridge = {b1}
    Resource = {r1}
    Info = {i1, i2}
    Client = {c1}
    FaultKind = {"unanswered"}
    MaxFaults = 1
    None = None
INVARIANT ReportedAgainstOwnInfo
