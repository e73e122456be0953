SPECIFICATION PartsSpec
CONSTANTS
    Number = 3
    MaxSize = 2
    MaxUnit = 12
    MaxCrash = 2
    SnFails = FALSE
    MaxDay = 3
    Keep = 2
    Disk = 3
    Required = 2
    DatedUnit = 2
    DatedCrash = 1
    BusyMidnight = FALSE
    Reused = TRUE
    CachedSize = 7
    ReadMax = 3
    ClearFirst = TRUE
    ReadTimes = 2
    ClosedReads = 2
    MaxSent = 2
    MaxClose = 1
    Loggers = {l1}
    Starters = {s1}
    CacheSize = 4
    OwnRecord = TRUE
    MaxLogged = 4
INVARIANTS RingKept NoUnitVanishes LinesKept 
PROPERTIES OldestFirst
CHECK_DEADLOCK FALSE
