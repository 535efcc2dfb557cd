CONSTANTS
    NEvents = 3
    InitRecords <- MCInitRecords
    StoredBefore <- MCStoredBefore
    BatchCap <- MCBatchCap
    Workers <- MCWorkers
    PastEnd <- MCPastEnd
    MaxInsertFailures <- MCMaxInsertFailures
    ConnectTries = 5
    MaxOutages = 1
    MayStop = TRUE
    MaxConns = 1
    MaxRenderFailures = 1
    Registered = TRUE
    Firmware = "v2.6"
    StackGarbage = {g1, g2}
    OsVersions = {"v1"}

SPECIFICATION FairSpec

INVARIANT TypeOK
INVARIANT ResumeRespectsStore
INVARIANT AtMostOnceStored
INVARIANT HandledInOrder
PROPERTY StopTerminates
PROPERTY HandshakeCompletes

CHECK_DEADLOCK FALSE
