CONSTANTS
    NEvents = 1
    InitRecords = 0
    StoredBefore = 0
    BatchCap = 1
    Workers = 1
    PastEnd = {0}
    MaxInsertFailures = 0
    ConnectTries = 2
    MaxOutages = 0
    MayStop = FALSE
    MaxConns = 1
    MaxRenderFailures = 0
    Registered = TRUE
    Firmware = "v2.6"
    StackGarbage = {g1}
    OsVersions = {"v1"}

SPECIFICATION FairSpec

PROPERTY AgentConnects

CHECK_DEADLOCK FALSE
