SPECIFICATION Spec
CONSTANTS
    Client = {c1}
    NoThread = NoThread
    MapSize = 2
    ChunkSize = 2
    Request <- MCRequest
    MaxRetries = 0
INVARIANT
    LongWriteExact
