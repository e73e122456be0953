SPECIFICATION ProgramsSpec
CONSTANTS
    Long = 3
    Short = 2
    MaxTime = 12
    Producer = {p1}
    Consumer = {c1, c2}
    QueueLength = 3
    MaxMessage = 6
    DestroyAlone = TRUE
    W = 2
    Ids = {1, 2, 3, 4, 5, 6}
    LongBits = 4
    Names = {"a", "c", "b", "x"}
    Uninitialised = Uninitialised
    MaxChanges = 2
    Asking = k1
    Idle = k2
    MaxConn = 2
    MaxAsked = 2
    Orderly = TRUE
    Threads = {t1, t2}
    Main = t1
    Addresses = {1, 2}
    NoOwner = NoOwner
    MaxBlocks = 3
    Timers = {ta, tb}
    Interval = 1
    MaxCalls = 3
    BufferSize = 16
    MaxPacket = 13
    NoMemory = TRUE
    MaxFrames = 2
INVARIANTS OffInTime OneOwner TreeIsSortedMap BitsRoundTrip PacketsAgree
     TrackerIsRight FramesIntact
PROPERTIES OffOnlyAfterDelay RefinesFifo   
CHECK_DEADLOCK FALSE
