SPECIFICATION FairSpec
CONSTANTS
    c1 = c1  c2 = c2  c3 = c3  i1 = i1  i2 = i2  None = None
    Conn <- ThreeConns
    Client <- TwoClients
    MaxInterrupts = 2
INVARIANTS TypeOK OneSessionPerClient CleanShutdown
CHECK_DEADLOCK FALSE
PROPERTIES WaitsEnd
