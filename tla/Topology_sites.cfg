SPECIFICATION FairSpec
CONSTANTS
    s1 = s1
    s2 = s2
    w = w
    node = node
    vm = vm
    child = child
    Source = {s1, s2, w}
    External = {node, vm, child}
    Inventory <- Inventories
    None = None
CHECK_DEADLOCK FALSE
INVARIANTS
    TypeOK
    SiteStable
    SiteOfOwnSource
PROPERTY Terminates
