SPECIFICATION Spec
CONSTANTS
    k1 = k1
    k2 = k2
    k3 = k3
    Key = {k1, k2, k3}
    N = 4
    Target <- AttachedTarget
    Emits <- AttachedEmits
    Priority <- AttachedPrio
    Parented <- AttachedParent
    Grace = 1
    MaxTime = 3
    None = None
INVARIANTS
    OnlyAuthorityShown
    LatestSampleShown
    ParentKept
    CollectorNamed
