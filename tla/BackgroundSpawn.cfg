SPECIFICATION Spec
CONSTANTS
    c1 = c1
    a1 = a1
    sync = sync
    Children = {c1}
    Callers = {a1}
    Sync = sync
    Ops = {"spawnWithPrompt"}
    MaxSteers = 1
    MaxFaults = 0
    MaxWire = 0
PROPERTIES
    SpawnedWithPromptRuns
CHECK_DEADLOCK FALSE
