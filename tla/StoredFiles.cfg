SPECIFICATION FilesSpec
CONSTANTS
    q1 = q1
    q2 = q2
    d = d
    v = v
    Requests = {q1, q2}
    Values = {d, v}
    Default = d
    Routes = {"plain", "safe", "runtime"}
    NoConfig = NoConfig
    NoRequest = NoRequest
    MaxWriteFaults = 2
    old = old
    other = other
    r1 = r1
    r2 = r2
    MemoryFiles = {"MEMORY.md", "today.md"}
    MainFile = "MEMORY.md"
    Today = "today.md"
    Old = {old}
    Writers = {r1, r2}
    Contents <- MCContents
    Supersedes <- MCSupersedes
    EmbedModels = 2
    MaxEdits = 1
    MaxSyncs = 2
    MaxFaults = 1
    memoryOps = memoryOps
    mainSkill = mainSkill
    MaxVersion = 3
    Pins <- MCPins
    AssetFiles = {memoryOps, mainSkill}
    Packaged <- MCPackaged
    LocalEdits = {91, 92}
    MaxCommands = 3
    MaxFailures = 1
    MaxLogins = 1
    ours1 = ours1
    ours2 = ours2
    LastCommit = 3
    OurChanges = {ours1, ours2}
    Clashes <- MCClashes
    MaxScripts = 4
    s1 = s1
    s2 = s2
    SkillIds = {s1, s2}
    DefaultSkills = {s1}
    MaxSkillRequests = 3
    MaxMoveFaults = 1
    executor = executor
    m1 = m1
    Agents = {1, 2, 3}
    Builtin = {1, 2}
    MaxPatched = 2
    Undeletable = {2}
    Servers = {executor, m1}
    Executor = executor
    MaxManagedEdits = 2
    MaxSyncsAtOnce = 2
    Interval = 2
    MaxNow = 5
    MaxSpawned = 3
    MaxStarts = 2
    i1 = i1
    i2 = i2
    NoImport = NoImport
    Migrations = {i1, i2}
    SourceTrees <- MCSourceTrees
    ValidMerges = {50}
    OpenclawEdits = {0, 1, 40}
    MaxTargetEdits = 1
INVARIANTS
    RejectedNeedsOverlap
    ExecutorEntryFollows
    AppendsKeepRecords
PROPERTIES
    AloneIsAtomic
    OnlyOwnFieldsChange
    SyncMakesFresh
    VectorsFollowIndex
    EditsSurviveUpdates
    CommandsTakeHold
    LockFitsPatches
    SkillsAreKept
    WritersKeepOthers
    HeartbeatsKeepPace
    ImportsWriteOverNothing
CHECK_DEADLOCK FALSE
