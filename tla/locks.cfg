\* Three processes and two mutexes, nested twice at most.
CONSTANTS
    N = 3
    Boot = 3
    MaxClock = 0
    TimeWrap = 8
    Naps = {}
    OobStates = {"empty"}
    MaxMutexes = 2
    MaxDepth = 2
    MaxCondvars = 0
    MaxWaits = 0
    Amounts = {}
    MaxItems = 2
    Sizes = {}
    BufferSizes = {}
    Irqs = 1
    MaxRegistrations = 0
SPECIFICATION Spec
INVARIANTS
    MutexWaitersBlocked
PROPERTIES
    WokenWithLock
    LockGoesRound
    MutexIsLock
CHECK_DEADLOCK FALSE
