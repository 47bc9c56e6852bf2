\* A process ends while it holds two mutexes.
CONSTANTS
    N = 2
    Boot = 2
    MaxClock = 0
    TimeWrap = 8
    Naps = {}
    OobStates = {"empty"}
    MaxMutexes = 2
    MaxDepth = 1
    MaxCondvars = 0
    MaxWaits = 0
    Amounts = {}
    MaxItems = 2
    Sizes = {}
    BufferSizes = {}
    Irqs = 1
    MaxRegistrations = 0
SPECIFICATION Spec
INVARIANTS
    DeadHoldNothing
CHECK_DEADLOCK FALSE
