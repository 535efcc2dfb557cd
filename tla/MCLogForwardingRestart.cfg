CONSTANTS
    NEvents = 2
    InitRecords <- MCInitRecords
    StoredBefore = 0
    BatchCap = 1
    Workers <- MCWorkers
    PastEnd <- MCPastEnd
    MaxInsertFailures = 0
    ConnectTries = 5
    MaxOutages = 0
    MayStop = FALSE
    MaxConns = 2
    MaxRenderFailures = 0
    Registered = TRUE
    Firmware = "v2.6"
    StackGarbage = {g1, g2}
    OsVersions = {"v1", "v2"}

SPECIFICATION Spec

INVARIANT ResumeRespectsStore
INVARIANT ResumeSkipsOnlyStored
INVARIANT ResumeIdempotent

CHECK_DEADLOCK FALSE
