SPECIFICATION MirrorSpec
CONSTANTS
    Steps = 2
    MaxTurns = 1
    MaxFetches = 2
    MaxAsides = 0
    MaxWire = 0
INVARIANTS
    TurnsStayInOrder
CHECK_DEADLOCK FALSE
