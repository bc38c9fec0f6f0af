SPECIFICATION Spec
CONSTANTS
    s1 = s1  s2 = s2  a = a  b = b  c = c  k1 = k1  k2 = k2  k3 = k3  k4 = k4
    None = None  Empty = Empty  Partial = Partial  Garbled = Garbled
    Session <- TwoSessions
    Chunk <- ThreeChunks
    ContainerID <- ThreeIDs
    CreateUUID <- AnyID
    ChunkSize <- OneLarge
    MAX_CONTAINER_SIZE <- PairContainer
    QueueCapacity = 1
    Residue = {0}
    Batch <- LongBatch
    MaxMsgs = 2
    MaxCrashes = 1
SYMMETRY Symm
INVARIANTS SavedOnDisk TypeOK IndexSound WriterDrains RecipeCovered NoAmbiguity ContainerFits BodyWhereDecoderLooks
PROPERTIES NoOverwrite ImplementsStore
