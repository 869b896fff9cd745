SPECIFICATION FairSpec
CONSTANTS
    Node = {n1}
    Guest = {g1}
    Qga = {g1}
    Grace = 2
    MaxPolls = 2
    Request = 2
    Pve = Pve
    None = None
    Wrap = 16
    sda = sda
    root = root
    Empty = Empty
    Blanks = Blanks
INVARIANTS
    TypeOK
    MemoryContract
    DiskContract
PROPERTIES
    IdentityKept
    CollectEnds
