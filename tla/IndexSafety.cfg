SPECIFICATION Spec
CONSTANTS
    s1 = s1  s2 = s2
    Hash <- Digests
    Keys = {"k1", "k2"}
    Session <- Two
    Name <- Names
    FileSize <- Files
    ChunkNum <- Chunks
    MaxCrashes = 2
    MaxLives = 4
INVARIANTS LoadFaithful Statistics SavedSurvives CryptoFaithful
CHECK_DEADLOCK FALSE
