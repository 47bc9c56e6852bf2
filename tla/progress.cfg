\* Fair timer, sleeping and cloning: nobody starves.
CONSTANTS
    N = 3
    Boot = 2
    MaxClock = 1
    TimeWrap = 8
    Naps = {0, 1}
    OobStates = {"empty"}
    MaxMutexes = 0
    MaxDepth = 1
    MaxCondvars = 0
    MaxWaits = 0
    Amounts = {}
    MaxItems = 2
    Sizes = {}
    BufferSizes = {}
    Irqs = 1
    MaxRegistrations = 0
SPECIFICATION FairSpec
PROPERTIES
    EveryoneRuns
CHECK_DEADLOCK FALSE
