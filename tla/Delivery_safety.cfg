SPECIFICATION Spec
CONSTANTS
    Bridge = {b1}
    Resource = {r1, r2}
    Info = {i1, i2}
    Client = {c1, c2, c3}
    FaultKind = {"refused", "unanswered", "store", "crash", "delete"}
    MaxFaults = 2
    None = None
SYMMETRY Symmetry
INVARIANTS
    TypeOK
    BindingsAreOwn
    NoCrossReporting
    NoClientForgotten
    HistoryIsBound
    ReportedIsTrue
PROPERTIES
    ImplementsRegistry
