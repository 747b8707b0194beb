SPECIFICATION Spec
CONSTANTS
    Jobs = {j1}
    NoJob = NoJob
    Drafts <- AgentAndModule
    MaxAttempts = 2
    Lease = 1
    RetryBackoff = 1
    RetryBackoffCap = 4
    MaxPerTick = 2
    RunNowOffsets = 2
    Horizon = 3
    MaxInstances = 2
    MaxCrashes = 1
    MaxEdits = 3
    MaxManual = 1
INVARIANTS
    ExecutionOwnsInstance
    EnqueuedExactlyOnce
PROPERTIES
    StaleAttemptsDoNoHarm
CHECK_DEADLOCK FALSE
