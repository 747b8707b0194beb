SPECIFICATION ConversationSpec
CONSTANTS
    m1 = m1
    m2 = m2
    Steps = 1
    MaxTurns = 2
    MaxFetches = 2
    MaxAsides = 1
    MaxWire = 0
    Memories = {m1, m2}
    Models = 2
    MaxSessions = 2
    MaxPrompts = 3
    MaxUpsets = 2
INVARIANTS
    CountedOnce
    InjectedIsKnown
PROPERTIES
    MirrorCatchesUp
    AnswerKnowsMemories
CHECK_DEADLOCK FALSE
