SPECIFICATION OpsSpec
CONSTANTS
    Thread = {t1, t2, t3}
    Key = {a, b, c, d}
    Bad = {d}
    Cap = 2
    Deployments <- OpsDeployments
    Window = 2
    Granularity = 1
    Permits = 1
    Setups <- OpsSetups
    MAX_ATTEMPTS = 3
    ACCESS_PROBE_RETRY_ATTEMPTS = 3
    MaxFaults = 3
INVARIANT CacheSound
INVARIANT PagesHonest
INVARIANT LevelsExact
INVARIANT StartShared
INVARIANT StorageHonest
PROPERTY Exits
CHECK_DEADLOCK FALSE
