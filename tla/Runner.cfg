SPECIFICATION Spec
CONSTANTS
    a = a
    b = b
    c = c
    Key = {a, b, c}
    Limit = 2
    Confs <- AllConfs
    Schemas <- DriftSchemas
    Schema0 <- Schema1
    MaxPos = 3
    MaxFaults = 2
    MaxRuns = 2
INVARIANT NoLoss
INVARIANT OnceDrains
INVARIANT DaemonOutlivesFailure
INVARIANT NoMixedShapes
INVARIANT NeverMissing
SYMMETRY Symmetry
CHECK_DEADLOCK FALSE
