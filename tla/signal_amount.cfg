\* Four processes; every signal is for one waiter.
CONSTANTS
    N = 4
    Boot = 4
    MaxClock = 0
    TimeWrap = 8
    Naps = {}
    OobStates = {"empty"}
    MaxMutexes = 0
    MaxDepth = 1
    MaxCondvars = 1
    MaxWaits = 3
    Amounts = {1}
    MaxItems = 2
    Sizes = {}
    BufferSizes = {}
    Irqs = 1
    MaxRegistrations = 0
SPECIFICATION Spec
PROPERTIES
    SignalWakesAtMostAmount
CHECK_DEADLOCK FALSE
