SPECIFICATION FairSpec
CONSTANTS
    s1 = s1  s2 = s2  a = a  b = b  c = c  k1 = k1  k2 = k2  k3 = k3  k4 = k4
    None = None  Empty = Empty  Partial = Partial  Garbled = Garbled
    Session <- TwoSessions
    Chunk <- ThreeChunks
    ContainerID <- FourIDs
    CreateUUID <- OneID
    ChunkSize <- Size50
    MAX_CONTAINER_SIZE <- SmallContainer
    QueueCapacity = 1
    Residue = {0}
    Batch <- LongBatch
    MaxMsgs = 1
    MaxCrashes = 0

PROPERTIES BatchProcessed CloseCompletes
