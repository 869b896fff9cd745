SPECIFICATION Spec
CONSTANTS
    Distro = {d1, d2}
    EmitHost = TRUE
    NVIDIA = TRUE
    Discover = TRUE
    Grace = 1
    MaxTime = 2
    None = None
INVARIANTS
    GPUAgeBounded
    HostStands
PROPERTY GPUNotCleared
