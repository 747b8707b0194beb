SPECIFICATION FairSpec
CONSTANTS
    Jobs = {j1}
    NoJob = NoJob
    Drafts <- OneShots
    MaxAttempts = 2
    Lease = 2
    RetryBackoff = 1
    RetryBackoffCap = 4
    MaxPerTick = 2
    RunNowOffsets = 2
    Horizon = 4
    MaxInstances = 2
    MaxCrashes = 1
    MaxEdits = 2
    MaxManual = 0
PROPERTIES
    InstanceSettles
    OneShotFires
CHECK_DEADLOCK FALSE
