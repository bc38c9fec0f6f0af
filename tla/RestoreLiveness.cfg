SPECIFICATION FairSpec
CONSTANTS
    a = a  b = b  c = c  k1 = k1  k2 = k2  k3 = k3  None = None
    Chunk <- TwoChunks
    ContainerID <- TwoIDs
    CacheSize = 2
    CONTAINER_CAPPING_VALUE = 1
    SendChunkBatchSize = 3
    Batch <- AskThree
    MaxMsgs = 1
    MaxRaces = 1
PROPERTIES BatchAnswered
CHECK_DEADLOCK FALSE
