\* Messages of two sizes between two processes and a child.
CONSTANTS
    N = 3
    Boot = 2
    MaxClock = 0
    TimeWrap = 8
    Naps = {}
    OobStates = {"empty"}
    MaxMutexes = 0
    MaxDepth = 1
    MaxCondvars = 0
    MaxWaits = 0
    Amounts = {}
    MaxItems = 2
    Sizes = {1, 2}
    BufferSizes = {1, 2}
    Irqs = 1
    MaxRegistrations = 0
SPECIFICATION Spec
INVARIANTS
    ReadersHaveNothing
    QueuesOfTheLiving
PROPERTIES
    ParentIsTold
CHECK_DEADLOCK FALSE
