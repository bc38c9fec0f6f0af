SPECIFICATION Spec
CONSTANTS
    a = a  b = b  c = c  k1 = k1  k2 = k2  k3 = k3  None = None
    Chunk <- ThreeChunks
    ContainerID <- ThreeIDs
    CacheSize = 2
    CONTAINER_CAPPING_VALUE = 2
    SendChunkBatchSize = 3
    Batch <- AskDistinct
    MaxMsgs = 2
    MaxRaces = 1
SYMMETRY Symm
INVARIANTS TypeOK CacheCoherent RestoredInOrder
CHECK_DEADLOCK FALSE
