SPECIFICATION FairSpec
CONSTANTS
    Key = {k1, k2}
    Limit = 2
    UpdateModes = {"PostImage", "LookupOnUpdate"}
    Detaching = {{}, {"sink", "storage"}}
    Bootstrapped = {TRUE, FALSE}
    MayDrop = TRUE
    MaxLog = 4
    MaxFaults = 2
INVARIANT ChangesDelivered
INVARIANT DropStops
PROPERTY PostImagesCatchUp
CHECK_DEADLOCK TRUE
