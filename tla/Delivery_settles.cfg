SPECIFICATION FairSpec
CONSTANTS
    Bridge = {b1}
    Resource = {r1}
    Info = {i1, i2}
    Client = {c1, c2, c3}
    FaultKind = {"refused", "store", "crash", "delete"}
    MaxFaults = 2
    None = None
INVARIANT ReportedAgainstOwnInfo
PROPERTIES
    InfoConverges
    EventuallyReported
