\* Two drivers on one interrupt.
CONSTANTS
    N = 2
    Boot = 2
    MaxClock = 0
    TimeWrap = 8
    Naps = {}
    OobStates = {"empty"}
    MaxMutexes = 0
    MaxDepth = 1
    MaxCondvars = 0
    MaxWaits = 0
    Amounts = {}
    MaxItems = 2
    Sizes = {}
    BufferSizes = {}
    Irqs = 1
    MaxRegistrations = 2
SPECIFICATION Spec
INVARIANTS
    CancellingIsSafe
CHECK_DEADLOCK FALSE
