SPECIFICATION Spec
CONSTANTS
    k1 = k1  k2 = k2  k3 = k3  k4 = k4  v1 = v1  v2 = v2  None = None
    Key <- Keys
    Value <- Values
    MaxSizes = {0, 1, 2}
    Elasticities = {0, 1, 2}
    CacheSize = 2
INVARIANTS NoDanglingNode KeepsMostRecent
PROPERTIES ImplementsReadCache
