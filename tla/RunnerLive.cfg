SPECIFICATION FairSpec
CONSTANTS
    a = a
    b = b
    Key = {a, b}
    Limit = 1
    Confs <- LiveConfs
    Schemas <- DriftSchemas
    Schema0 <- Schema1
    MaxPos = 3
    MaxFaults = 2
    MaxRuns = 2
PROPERTY ImplementsAtLeastOnce
PROPERTY Converges
PROPERTY RunnerExits
CHECK_DEADLOCK FALSE
