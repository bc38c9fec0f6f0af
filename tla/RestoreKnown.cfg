SPECIFICATION Spec
CONSTANTS
    a = a  b = b  c = c  k1 = k1  k2 = k2  k3 = k3  None = None
    Chunk <- TwoChunks
    ContainerID <- TwoIDs
    CacheSize = 2
    CONTAINER_CAPPING_VALUE = 2
    SendChunkBatchSize = 1
    Batch <- AskOne
    MaxMsgs = 1
    MaxRaces = 0
INVARIANTS KnownRestorable
CHECK_DEADLOCK FALSE
