SPECIFICATION MemorySpec
CONSTANTS
    old = old
    other = other
    r1 = r1
    r2 = r2
    MemoryFiles = {"MEMORY.md", "today.md"}
    MainFile = "MEMORY.md"
    Today = "today.md"
    Old = {old, other}
    Writers = {r1, r2}
    Contents <- MCContents
    Supersedes <- MCSupersedes
    EmbedModels = 2
    MaxEdits = 1
    MaxSyncs = 2
    MaxFaults = 0
INVARIANT
    SupersededStaysSo
CHECK_DEADLOCK FALSE
