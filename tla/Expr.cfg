SPECIFICATION ExprSpec
CONSTANTS
    I8 = 4
    I16 = 5
    I32 = 7
    I64 = 10
    I128 = 11
    I256 = 12
    F32 = 5
    F64 = 8
    FMax32 = 31744
    FMax64 = 261120
    MaxJsonDepth = 4
    MilliTicks = 1
    SecondTicks = 2
    MinuteTicks = 4
    HourTicks = 8
    DayTicks = 24
    MonthDays <- MCMonthDays
    MaxInstant = 480
    Env <- MCEnv
    Files <- MCFiles
    MaxRandomLength = 3
    CastChars <- MCCastChars
    MaxBigintWidth = 8
    MaxStringBytes = 6
    MaxArrayLen = 3
    Builtin <- MCBuiltin
    Arity <- MCArity
    PureFns <- MCPureFns
    TotalFns <- MCTotalFns
    MaxDepth = 20
    MIN_SWITCH_BRANCHES = 3
    MIN_MEMBERSHIP_ENTRIES = 3
    MaxArena = 120
    Jobs <- ExprJobs
    Names <- MCNames
    MaxExprDepth = 7
    MaxAstNodes = 24
    MaxVariables = 2
    MaxFunctionArgs = 3
    MaxSourceLen = 36
    Parses <- ExprParses
INVARIANT CompilerFaithful
INVARIANT ParserSound
PROPERTY NeverGrows
