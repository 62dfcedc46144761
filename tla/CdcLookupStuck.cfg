SPECIFICATION FairSpec
CONSTANTS
    Key = {k1, k2}
    Limit = 1
    UpdateModes = {"LookupOnUpdate"}
    Detaching = {{}}
    Bootstrapped = {TRUE}
    MayDrop = FALSE
    MaxLog = 4
    MaxFaults = 0
PROPERTY SinkCatchesUp
CHECK_DEADLOCK TRUE
