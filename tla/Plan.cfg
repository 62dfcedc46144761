SPECIFICATION Spec
CONSTANTS
    I8 = 4
    I16 = 5
    I32 = 7
    I64 = 10
    I128 = 11
    I256 = 12
    F32 = 5
    F64 = 8
    FMax32 = 31744
    FMax64 = 261120
    MaxJsonDepth = 4
    MilliTicks = 2
    DayTicks = 24
    SecondTicks = 2
    Identifiers <- MCIdentifiers
    WILDCARD_UNIVERSE_CAP = 6
    MaxCells = 60
    FileSystems <- MCFileSystems
    MAX_CONFIG_BYTES = 10
    MaxNesting = 2
    Evaluated <- MCEvaluated
    Rows <- MCRows
    MaxFaults = 1
INVARIANT LoadedFaithfully
INVARIANT ValidatedHolds
