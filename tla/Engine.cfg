SPECIFICATION FairSpec
CONSTANTS
    N = 3
    Component <- Components
    Uses <- AllShared
    MaxConnections <- Roomy
INVARIANT PermitsSound
INVARIANT WaitsForRunning
INVARIANT ReturnsFirstError
PROPERTY Served
PROPERTY ShutdownReturns
CHECK_DEADLOCK TRUE
