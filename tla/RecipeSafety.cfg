SPECIFICATION Spec
CONSTANTS
    f = f  g = g  None = None
    Name <- TwoNames
    SendRecipeBatchSize = 2
    Batches <- FewBatches
    MaxEntries = 3
    MaxFiles = 2
    MaxCrashes = 1
SYMMETRY Symm
INVARIANTS ClosedOnDisk RecipeRestored
