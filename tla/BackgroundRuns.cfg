SPECIFICATION FairSpec
CONSTANTS
    c1 = c1
    a1 = a1
    sync = sync
    Children = {c1}
    Callers = {a1}
    Sync = sync
    Ops = {"steer", "abort", "spawnWithPrompt"}
    MaxSteers = 1
    MaxFaults = 1
    MaxWire = 0
INVARIANTS
    AnnouncedOnce
PROPERTIES
    AnnouncementMade
    FinishedRunSettles
CHECK_DEADLOCK FALSE
