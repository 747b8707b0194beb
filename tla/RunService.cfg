SPECIFICATION FairSpec
CONSTANTS
    Sessions = {s1, s2}
    NoSession = NoSession
    Keys = {k1}
    NoKey = NoKey
    MaxRuns = 3
    MaxConcurrentRuns = 2
    MaxCrashes = 2
    MaxDbFaults = 1
INVARIANTS
    SessionExclusive
    SlotAccounting
    NoLostWakeup
    EventLogMatchesState
    IdempotentAnswers
PROPERTIES
    EveryRunSettles
    ImplementsLifecycle
CHECK_DEADLOCK FALSE
