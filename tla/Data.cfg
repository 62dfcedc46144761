SPECIFICATION DataSpec
CONSTANTS
    I8 = 4
    I16 = 5
    I32 = 7
    I64 = 10
    I128 = 11
    I256 = 12
    F32 = 5
    F64 = 8
    FMax32 = 31744
    FMax64 = 261120
    MaxJsonDepth = 4
    MilliTicks = 2
    SecondTicks = 4
    MinuteTicks = 8
    HourTicks = 16
    DayTicks = 48
    MonthDays <- MCMonthDays
    MaxInstant = 480
    SourceTypes <- MCSourceTypes
    SinkTypes <- MCSinkTypes
    Samples <- MCSamplesOrNull
    KeyValues <- MCKeyValues
    ObservedTypes <- MCObservedTypes
    MaxRows = 2
    MaxSeen = 3
    Env <- MCEnv
    Files <- MCFiles
    MaxRandomLength = 3
    CastChars <- MCCastChars
    MaxBigintWidth = 8
    MaxStringBytes = 6
    MaxArrayLen = 3
    Functions <- MCFunctions
    Args <- MCArgs
    Lits <- MCLits
INVARIANT ColumnLaws
INVARIANT KeysKept
INVARIANT UnionLaws
INVARIANT ResultConforms
INVARIANT CompileTimeHonest
CHECK_DEADLOCK FALSE
