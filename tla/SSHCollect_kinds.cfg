SPECIFICATION FairSpec
CONSTANTS
    Kind = {"agentless_ssh", "slurm", "windows_ssh", "windows_wsl"}
    None = None
    Wrap = 8
    MaxTicks = 3
INVARIANTS
    TypeOK
    FreshAfterFailure
    QueueIsCurrent
    FailureShown
PROPERTY CollectReturns
PROPERTIES HealthyKept RateHonest UsageHonest
