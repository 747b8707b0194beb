SPECIFICATION ConfigSpec
CONSTANTS
    q1 = q1
    q2 = q2
    d = d
    v = v
    Requests = {q1, q2}
    Values = {d, v}
    Default = d
    Routes = {"safe"}
    NoConfig = NoConfig
    NoRequest = NoRequest
    MaxWriteFaults = 0
INVARIANTS
    InForceWasAccepted
CHECK_DEADLOCK FALSE
