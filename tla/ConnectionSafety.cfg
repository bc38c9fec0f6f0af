SPECIFICATION ObjectsSpec
CONSTANTS
    Lengths <- FewLengths
    Login <- AllLogins
    MaxMsgs = 3
INVARIANTS Framing PatientEdge ObjectsLive ObjectsReturned
PROPERTIES Released
CHECK_DEADLOCK FALSE
