SPECIFICATION Spec
CONSTANTS
    s1 = s1  s2 = s2  a = a  b = b  c = c  k1 = k1  k2 = k2  k3 = k3  k4 = k4
    None = None  Empty = Empty  Partial = Partial  Garbled = Garbled
    Session <- OneSession
    Chunk <- ThreeChunks
    ContainerID <- ThreeIDs
    CreateUUID <- AnyID
    ChunkSize <- Size50
    MAX_CONTAINER_SIZE <- PairContainer
    QueueCapacity = 2
    Residue = {0, 1}
    Batch <- LongBatch
    MaxMsgs = 3
    MaxCrashes = 1
SYMMETRY Symm
INVARIANTS BodyWhereDecoderLooks
