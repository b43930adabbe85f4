SPECIFICATION FairSpec
CONSTANTS
    c1 = c1
    c2 = c2
    Client <- MCClient
    NoThread = NoThread
    MapSize = 2
    ChunkSize = 2
    Request <- MCRequest
    MaxRetries = 1
INVARIANTS
    TypeOK
    MapCoherent
    AccessHitsRequest
    TransferExact
    LockOrder
PROPERTIES
    PageMutexReleased
    KeepsPromise
