SPECIFICATION FairSpec
CONSTANTS
    Key = {k1, k2, k3}
    Confs <- AllFlows
    ChunkRows = 2
    MaxRows = 3
    MaxFaults = 2
INVARIANT Applied
INVARIANT Reported
PROPERTY Written
CHECK_DEADLOCK TRUE
