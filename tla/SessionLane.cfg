SPECIFICATION FairSpec
CONSTANTS
    m1 = m1
    m2 = m2
    m3 = m3
    m4 = m4
    m5 = m5
    Msgs = {m1, m2, m3, m4, m5}
    Attached = {m3}
    Heartbeats = {m5}
    Modes <- AllModes
    QueueEnabled = TRUE
    MaxDepth = 2
    MaxChildren = 2
    MaxSpawns = 2
INVARIANTS
    OnePromptPerSession
    MarksMatchWork
    EachMessageOnce
PROPERTIES
    QueuedMessageSettles
CHECK_DEADLOCK FALSE
