CONSTANTS
    NEvents <- MCNEvents
    InitRecords <- MCInitRecords
    StoredBefore <- MCStoredBefore
    BatchCap <- MCBatchCap
    Workers <- MCWorkers
    PastEnd <- MCPastEnd
    MaxInsertFailures <- MCMaxInsertFailures
    ConnectTries = 5
    MaxOutages = 0
    MayStop = FALSE
    MaxConns = 1
    MaxRenderFailures = 0
    Registered = TRUE
    Firmware = "v2.6"
    StackGarbage = {g1, g2}
    OsVersions = {"v1"}


SPECIFICATION Spec

INVARIANT NoRecordSkipped

CHECK_DEADLOCK FALSE
