SPECIFICATION Spec
CONSTANTS
    Kind = {"linux_ssh"}
    None = None
    Wrap = 8
    MaxTicks = 3
INVARIANT FailureShown
