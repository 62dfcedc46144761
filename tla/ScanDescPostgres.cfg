SPECIFICATION Spec
CONSTANTS
    Flows <- DescPostgres
    MaxVal = 2
    Limit = 2
INVARIANT FilterExact
CHECK_DEADLOCK TRUE
