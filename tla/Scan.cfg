SPECIFICATION FairSpec
CONSTANTS
    Flows <- AllFlows
    MaxVal = 2
    Limit = 2
INVARIANT FilterSound
INVARIANT NothingSkipped
PROPERTY CursorAdvances
PROPERTY Drains
CHECK_DEADLOCK TRUE
