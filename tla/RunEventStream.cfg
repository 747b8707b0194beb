SPECIFICATION FairSpec
CONSTANTS
    MaxQueued = 2
    MaxCrashes = 1
    MaxCancels = 1
    MaxBeats = 2
    MaxRollbacks = 1
INVARIANTS
    StreamMatchesLog
    EndTellsOutcome
PROPERTIES
    ClientLearnsOutcome
CHECK_DEADLOCK FALSE
